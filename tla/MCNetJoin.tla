------------------------------ MODULE MCNetJoin -----------------------------
(* Two responders and two joiners.                                          *)
EXTENDS NetJoin, TLC

CONSTANTS rita, sam, ann, ben

Members == {rita, sam}
Newcomers == {ann, ben}
AnyOrder == Permutations(Members) \union Permutations(Newcomers)
=============================================================================
