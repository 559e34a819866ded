---------------------------- MODULE MCBoardTest ----------------------------
(* Two invocations, with deadlines of two polls and logs of two hops.       *)
EXTENDS BoardTest
=============================================================================
