---------------------------- MODULE MCKeyManager ----------------------------
(* An issuer and two members; members are interchangeable.                  *)
EXTENDS KeyManager, TLC

CONSTANTS issuer, alice, bob

MCNode == {issuer, alice, bob}
MemberSymmetry == Permutations({alice, bob})
=============================================================================
