----------------------------- MODULE MCZeroize ------------------------------
(* The tamper thread and the operator, and a fill session or two.           *)
EXTENDS Zeroize

CONSTANTS tamper, operator

MCCaller == {tamper, operator}
=============================================================================
