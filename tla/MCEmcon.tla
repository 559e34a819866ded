------------------------------ MODULE MCEmcon -------------------------------
(* The operator's thread and the tamper thread.                             *)
EXTENDS Emcon

CONSTANTS op, tamper

JustOp == {op}
JustTamper == {tamper}
=============================================================================
