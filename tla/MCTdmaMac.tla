----------------------------- MODULE MCTdmaMac ------------------------------
(* One operator racing the tamper thread above a scaled-down transmitter.   *)
EXTENDS TdmaMac

CONSTANTS op, tamper

JustOp == {op}
JustTamper == {tamper}
TwoSlots == 0 .. 1
=============================================================================
