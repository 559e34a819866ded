---------------------------- MODULE EmconPolicy -----------------------------
(***************************************************************************)
(* What the EMCON lock promises when silence may be forced at any moment   *)
(* of an operator's call: "hardware-enforced lock bit with one-time unlock *)
(* token" (README), "tamper-locked silence" (EmconManager.cpp line 26).    *)
(* A write that is refused still uses up the token: it is Write(lvl).      *)
(***************************************************************************)
EXTENDS Integers

VARIABLES lvl,    \* level in force: 0 silence, 1 reduced, 2 normal
          tok,    \* an unlock token is outstanding
          held    \* silence was forced, and nobody has asked for a level since

Levels == 0 .. 2

Init == lvl = 2 /\ tok = FALSE /\ held = FALSE

\* The operator asks for a level; held silence is from now on his business.
Ask == held' = FALSE /\ UNCHANGED <<lvl, tok>>

Grant == tok' = TRUE /\ UNCHANGED <<lvl, held>>

Silence == lvl' = 0 /\ tok' = FALSE /\ held' = TRUE

\* A level is written.  Held silence is lifted by a token and by nothing else,
\* and no token is good for two writes.
Write(l) ==
    /\ held /\ ~tok => l = lvl
    /\ lvl' = l
    /\ tok' = FALSE
    /\ held' = (held /\ ~tok)

Next == Ask \/ Grant \/ Silence \/ \E l \in Levels : Write(l)

Spec == Init /\ [][Next]_<<lvl, tok, held>>
=============================================================================
