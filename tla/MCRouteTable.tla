---------------------------- MODULE MCRouteTable ----------------------------
(* Every graph of four radios, changed in between.                          *)
EXTENDS RouteTable

Four == 1 .. 4

\* No product is rounded.
ASSUME ExactAssumption == One % Scale ^ (N - 1) = 0
=============================================================================
