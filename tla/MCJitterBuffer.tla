--------------------------- MODULE MCJitterBuffer ---------------------------
(* A buffer of MCDepth frames over sequence numbers 0..MCMaxSeq, with       *)
(* several laps of the counter reachable through the wrap in Succ.          *)
EXTENDS JitterBuffer

MCDepth == 3
MCMaxSeq == 6
=============================================================================
