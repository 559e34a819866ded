--------------------------- MODULE NetJoinProofs ----------------------------
(***************************************************************************)
(* One challenge is good for one join, on the newest challenge and with    *)
(* the joiner it was made for, for any number of radios, challenges and    *)
(* restarts.                                                               *)
(***************************************************************************)
EXTENDS NetJoin, TLAPS

\* Nonces are drawn in order and name their challenge.
ChallengeUnique ==
    /\ \A c \in challenges : c.nonce <= drawn
    /\ \A c, d \in challenges : c.nonce = d.nonce => c = d

\* An outstanding nonce was sent to that joiner in this life of the responder.
PendingSent ==
    \A r \in Responder, j \in Joiner : pending[r][j] # None =>
        [challenger |-> r, joiner |-> j, nonce |-> pending[r][j], life |-> life[r]]
            \in challenges

\* ... and is the newest one it was sent.
PendingNewest ==
    \A r \in Responder, j \in Joiner : pending[r][j] # None =>
        \A c \in challenges : c.challenger = r /\ c.joiner = j => c.nonce <= pending[r][j]

\* The challenge of an accepted join is no longer outstanding.
AcceptedGone ==
    \A i \in 1 .. Len(accepts) : pending[accepts[i].by][accepts[i].joiner] # accepts[i].nonce

IInv ==
    /\ TypeOK /\ ChallengeUnique /\ PendingSent /\ PendingNewest
    /\ AcceptedIntended /\ AcceptedGone /\ AcceptedOnce

\* Nothing is outstanding or accepted at first.
LEMMA InitIInv == Init => IInv
  <1> SUFFICES ASSUME Init PROVE IInv
    OBVIOUS
  <1>1. TypeOK
    BY BoundAssumption DEF Init, TypeOK, NoEntry, None, Life, Nonce
  <1>2. PendingSent /\ PendingNewest
    BY DEF Init, PendingSent, PendingNewest, NoEntry
  <1>3. QED
    BY <1>1, <1>2 DEF Init, IInv, ChallengeUnique, AcceptedIntended, AcceptedGone, AcceptedOnce

\* Signing an overheard or a repeated challenge changes nothing at a responder.
LEMMA SignKeeps ==
    ASSUME NEW j \in Joiner, NEW c \in challenges, IInv, sign_challenge(j, c)
    PROVE  IInv'
  <1>1. PICK sig \in {life[j], None} :
          responses' = responses \union {[joiner |-> j, nonce |-> c.nonce, sig |-> sig]}
    BY DEF sign_challenge, ec_sign
  <1>2. c.nonce \in Nonce /\ sig \in Life \union {None}
    BY <1>1 DEF IInv, TypeOK, Challenge, Node
  <1>3. TypeOK'
    BY <1>1, <1>2 DEF IInv, TypeOK, sign_challenge, Response
  <1>4. AcceptedIntended'
    BY <1>1 DEF IInv, AcceptedIntended, sign_challenge
  <1>5. QED
    BY <1>3, <1>4 DEF IInv, sign_challenge, ChallengeUnique, PendingSent, PendingNewest,
       AcceptedGone, AcceptedOnce

\* Neither does entering a key.
LEMMA TrustKeeps ==
    ASSUME NEW r \in Responder, NEW j \in Joiner, IInv, add_trusted_node(r, j)
    PROVE  IInv'
  <1>1. TypeOK'
    BY DEF IInv, TypeOK, add_trusted_node, Node
  <1>2. QED
    BY <1>1 DEF IInv, add_trusted_node, ChallengeUnique, PendingSent, PendingNewest,
       AcceptedIntended, AcceptedGone, AcceptedOnce

\* A new challenge has a nonce never used before.
LEMMA ChallengeKeeps ==
    ASSUME NEW r \in Responder, NEW j \in Joiner, IInv, create_challenge(r, j)
    PROVE  IInv'
  <1> DEFINE n == drawn + 1
             c == [challenger |-> r, joiner |-> j, nonce |-> n, life |-> life[r]]
  <1>1. /\ n \in Nonce /\ drawn' = n /\ n # None
        /\ pending' = [pending EXCEPT ![r][j] = n]
        /\ challenges' = challenges \union {c}
        /\ UNCHANGED <<built, life, trusted, responses, accepts>>
    BY BoundAssumption DEF create_challenge, IInv, TypeOK, Nonce, None
  <1>2. c \in Challenge
    BY <1>1 DEF IInv, TypeOK, Challenge, Node
  <1>3. \A d \in challenges : d.nonce \in Nat /\ d.nonce < n /\ d # c
    BY <1>1 DEF IInv, TypeOK, ChallengeUnique, Challenge, Nonce
  <1> HIDE DEF n, c
  <1>4. TypeOK'
    BY <1>1, <1>2 DEF IInv, TypeOK, Nonce
  <1>5. c.challenger = r /\ c.joiner = j /\ c.nonce = n /\ n \in Nat /\ n = drawn'
    BY <1>1 DEF c, Nonce
  <1>6. ChallengeUnique'
    BY <1>1, <1>3, <1>5 DEF ChallengeUnique, IInv
  <1>7. ASSUME NEW q \in Responder, NEW k \in Joiner
        PROVE  pending'[q][k] = IF q = r /\ k = j THEN n ELSE pending[q][k]
    BY <1>1 DEF IInv, TypeOK
  <1>8. PendingSent'
    BY <1>1, <1>7 DEF PendingSent, IInv, c
  <1>9. PendingNewest'
    BY <1>1, <1>3, <1>5, <1>7 DEF PendingNewest, IInv
  <1>10. AcceptedIntended'
    BY <1>1 DEF AcceptedIntended, IInv
  <1>11. AcceptedGone'
    <2> SUFFICES ASSUME NEW i \in 1 .. Len(accepts)
                 PROVE  pending'[accepts[i].by][accepts[i].joiner] # accepts[i].nonce
      BY <1>1 DEF AcceptedGone
    <2>1. accepts[i] \in Accept
      BY DEF IInv, TypeOK
    <2>2. PICK d \in challenges : d.nonce = accepts[i].nonce
      BY DEF IInv, AcceptedIntended
    <2>3. accepts[i].nonce # n
      BY <2>2, <1>3, <1>5
    <2>4. QED
      BY <2>1, <2>3, <1>7 DEF Accept, IInv, AcceptedGone
  <1>12. QED
    BY <1>1, <1>4, <1>6, <1>8, <1>9, <1>10, <1>11 DEF IInv, AcceptedOnce

\* What one call of verify_and_accept() does to the two maps and the history.
LEMMA VerifyKeeps ==
    ASSUME NEW r \in Responder, NEW m \in responses, IInv, verify_and_accept(r, m)
    PROVE  /\ IInv'
           /\ accepts' # accepts => Newest(accepts'[Len(accepts')])
  <1> DEFINE j == m.joiner
             a == [by |-> r, life |-> life[r], joiner |-> j, nonce |-> m.nonce, key |-> m.sig]
             c == [challenger |-> r, joiner |-> j, nonce |-> m.nonce, life |-> life[r]]
  <1>1. /\ m \in Response /\ j \in Joiner /\ life[r] \in Life
        /\ pending[r][j] # None
        /\ pending' = [pending EXCEPT ![r][j] = None]
        /\ UNCHANGED <<built, life, trusted, drawn, challenges, responses>>
    BY DEF IInv, TypeOK, Response, Node, verify_and_accept, Consumed
  <1>2. ASSUME NEW q \in Responder, NEW k \in Joiner
        PROVE  pending'[q][k] = IF q = r /\ k = j THEN None ELSE pending[q][k]
    BY <1>1 DEF IInv, TypeOK
  <1>3. pending' \in [Responder -> [Joiner -> Nonce \union {None}]]
    BY <1>1 DEF IInv, TypeOK
  <1>4. ChallengeUnique' /\ PendingSent' /\ PendingNewest'
    <2>1. ChallengeUnique'
      BY <1>1 DEF IInv, ChallengeUnique
    <2>2. PendingSent'
      BY <1>1, <1>2 DEF IInv, PendingSent
    <2>3. PendingNewest'
      BY <1>1, <1>2 DEF IInv, PendingNewest
    <2>4. QED
      BY <2>1, <2>2, <2>3
  <1>5. ASSUME NEW b \in Accept, pending[b.by][b.joiner] # b.nonce
        PROVE  pending'[b.by][b.joiner] # b.nonce
    BY <1>2, <1>5 DEF Accept, Nonce, None
  <1>6. CASE accepts' = accepts
    <2>1. TypeOK'
      BY <1>1, <1>3, <1>6 DEF IInv, TypeOK
    <2>2. AcceptedGone'
      BY <1>5, <1>6 DEF IInv, TypeOK, AcceptedGone
    <2>3. QED
      BY <1>1, <1>4, <1>6, <2>1, <2>2 DEF IInv, AcceptedIntended, AcceptedOnce
  <1>7. CASE accepts' # accepts
    <2>1. Valid(r, m) /\ accepts' = Append(accepts, a)
      BY <1>7 DEF verify_and_accept
    <2>2. /\ m.nonce = pending[r][j] /\ m.nonce \in Nonce /\ m.nonce # None
          /\ m.sig \in Life
      BY <1>1, <2>1 DEF Valid, ec_verify, IInv, TypeOK, Response, Nonce, None
    <2>3. c \in challenges
      BY <1>1, <2>2 DEF IInv, PendingSent
    <2>4. a \in Accept
      BY <1>1, <2>2 DEF Accept
    <2>5. m = [joiner |-> j, nonce |-> m.nonce, sig |-> m.sig]
      BY <1>1 DEF Response
    <2> DEFINE L == Len(accepts)
    <2>6. /\ accepts \in Seq(Accept) /\ accepts' \in Seq(Accept)
          /\ L \in Nat /\ Len(accepts') = L + 1
          /\ accepts'[L + 1] = a
          /\ \A i \in 1 .. L : accepts'[i] = accepts[i]
      BY <2>1, <2>4 DEF IInv, TypeOK
    <2>7. TypeOK'
      BY <1>1, <1>3, <2>6 DEF IInv, TypeOK
    <2>8. a.by = r /\ a.joiner = j /\ a.nonce = m.nonce /\ a.life = life[r] /\ a.key = m.sig
      OBVIOUS
    <2> HIDE DEF a
    <2>9. AcceptedIntended'
      <3> SUFFICES ASSUME NEW i \in 1 .. Len(accepts')
                   PROVE  LET b == accepts'[i] IN
                          /\ [challenger |-> b.by, joiner |-> b.joiner, nonce |-> b.nonce,
                              life |-> b.life] \in challenges
                          /\ [joiner |-> b.joiner, nonce |-> b.nonce, sig |-> b.key] \in responses
        BY <1>1 DEF AcceptedIntended
      <3>1. CASE i = L + 1
        BY <3>1, <2>3, <2>5, <2>6, <2>8
      <3>2. CASE i \in 1 .. L
        BY <3>2, <2>6 DEF IInv, AcceptedIntended
      <3>3. QED
        BY <3>1, <3>2, <2>6
    <2>10. AcceptedGone'
      <3> SUFFICES ASSUME NEW i \in 1 .. Len(accepts')
                   PROVE  pending'[accepts'[i].by][accepts'[i].joiner] # accepts'[i].nonce
        BY DEF AcceptedGone
      <3>1. CASE i = L + 1
        BY <3>1, <1>1, <1>2, <2>2, <2>6, <2>8
      <3>2. CASE i \in 1 .. L
        BY <3>2, <1>5, <2>6 DEF IInv, TypeOK, AcceptedGone
      <3>3. QED
        BY <3>1, <3>2, <2>6
    <2>11. ASSUME NEW i \in 1 .. L
           PROVE  accepts[i].nonce # m.nonce
      <3> DEFINE b == accepts[i]
                 d == [challenger |-> b.by, joiner |-> b.joiner, nonce |-> b.nonce, life |-> b.life]
      <3>1. d \in challenges /\ pending[b.by][b.joiner] # b.nonce
        BY DEF IInv, AcceptedIntended, AcceptedGone
      <3>2. b.nonce = m.nonce => d = c
        BY <2>3, <3>1 DEF IInv, ChallengeUnique
      <3>3. d = c => b.by = r /\ b.joiner = j
        OBVIOUS
      <3>4. QED
        BY <2>2, <3>1, <3>2, <3>3
    <2>12. AcceptedOnce'
      <3> SUFFICES ASSUME NEW i \in 1 .. Len(accepts'), NEW k \in 1 .. Len(accepts'),
                          accepts'[i].nonce = accepts'[k].nonce
                   PROVE  i = k
        BY DEF AcceptedOnce
      <3>1. CASE i \in 1 .. L /\ k \in 1 .. L
        BY <3>1, <2>6 DEF IInv, AcceptedOnce
      <3>2. CASE i = L + 1 \/ k = L + 1
        BY <3>2, <2>6, <2>8, <2>11
      <3>3. QED
        BY <3>1, <3>2, <2>6
    <2>13. Newest(accepts'[Len(accepts')])
      BY <1>1, <2>2, <2>6, <2>8 DEF Newest, IInv, PendingNewest
    <2>14. QED
      BY <1>4, <2>7, <2>9, <2>10, <2>12, <2>13 DEF IInv
  <1>8. QED
    BY <1>6, <1>7

\* A restart forgets challenges; what was sent and accepted stays.
LEMMA RestartKeeps ==
    ASSUME NEW n \in Node, IInv, Restart(n)
    PROVE  IInv'
  <1>1. ASSUME NEW q \in Responder, NEW k \in Joiner
        PROVE  /\ pending'[q][k] = IF q = n THEN None ELSE pending[q][k]
               /\ q # n => life'[q] = life[q]
    BY DEF Restart, NoEntry, IInv, TypeOK, Node
  <1>2. built + 1 \in Life
    BY BoundAssumption DEF Restart, IInv, TypeOK, Life
  <1>3. TypeOK'
    BY <1>2 DEF IInv, TypeOK, Restart, NoEntry
  <1>4. ChallengeUnique'
    BY DEF IInv, ChallengeUnique, Restart
  <1>5. PendingSent'
    BY <1>1 DEF IInv, PendingSent, Restart
  <1>6. PendingNewest'
    BY <1>1 DEF IInv, PendingNewest, Restart
  <1>7. AcceptedGone'
    <2> SUFFICES ASSUME NEW i \in 1 .. Len(accepts)
                 PROVE  pending'[accepts[i].by][accepts[i].joiner] # accepts[i].nonce
      BY DEF AcceptedGone, Restart
    <2>1. accepts[i] \in Accept
      BY DEF IInv, TypeOK
    <2>2. QED
      BY <1>1, <2>1 DEF Accept, Nonce, None, IInv, AcceptedGone
  <1>8. QED
    BY <1>3, <1>4, <1>5, <1>6, <1>7 DEF IInv, AcceptedIntended, AcceptedOnce, Restart

\* Every step keeps the invariant and accepts only on the newest challenge.
LEMMA NextKeeps ==
    IInv /\ [Next]_vars => IInv' /\ (accepts' # accepts => Newest(accepts'[Len(accepts')]))
  <1> SUFFICES ASSUME IInv, [Next]_vars
               PROVE  IInv' /\ (accepts' # accepts => Newest(accepts'[Len(accepts')]))
    OBVIOUS
  <1>1. ASSUME NEW j \in Joiner, NEW c \in challenges, sign_challenge(j, c)
        PROVE  IInv' /\ accepts' = accepts
    BY <1>1, SignKeeps DEF sign_challenge
  <1>2. ASSUME NEW r \in Responder, NEW j \in Joiner, add_trusted_node(r, j)
        PROVE  IInv' /\ accepts' = accepts
    BY <1>2, TrustKeeps DEF add_trusted_node
  <1>3. ASSUME NEW r \in Responder, NEW j \in Joiner, create_challenge(r, j)
        PROVE  IInv' /\ accepts' = accepts
    BY <1>3, ChallengeKeeps DEF create_challenge
  <1>4. ASSUME NEW n \in Node, Restart(n)
        PROVE  IInv' /\ accepts' = accepts
    BY <1>4, RestartKeeps DEF Restart
  <1>5. CASE UNCHANGED vars
    BY <1>5 DEF vars, IInv, TypeOK, ChallengeUnique, PendingSent, PendingNewest,
       AcceptedIntended, AcceptedGone, AcceptedOnce
  <1>6. QED
    BY <1>1, <1>2, <1>3, <1>4, <1>5, VerifyKeeps DEF Next

\* The invariant holds in every reachable state.
THEOREM JoinInvariant == Spec => []IInv
  <1>1. QED
    BY InitIInv, NextKeeps, PTL DEF Spec

\* The state keeps its types; no empty signature is accepted.
THEOREM JoinTypeCorrect == Spec => []TypeOK
  <1>1. IInv => TypeOK
    BY DEF IInv
  <1>2. QED
    BY <1>1, JoinInvariant, PTL

\* One challenge is good for one join (verify_and_accept() erases it).
THEOREM JoinAcceptedOnce == Spec => []AcceptedOnce
  <1>1. IInv => AcceptedOnce
    BY DEF IInv
  <1>2. QED
    BY <1>1, JoinInvariant, PTL

\* A join is accepted by the radio that challenged this joiner, in the same life.
THEOREM JoinAcceptedIntended == Spec => []AcceptedIntended
  <1>1. IInv => AcceptedIntended
    BY DEF IInv
  <1>2. QED
    BY <1>1, JoinInvariant, PTL

\* A join is accepted on the newest challenge only.
THEOREM JoinAcceptsNewest == Spec => AcceptsNewest
  <1>1. IInv /\ [Next]_vars => [accepts' # accepts => Newest(accepts'[Len(accepts')])]_vars
    BY NextKeeps
  <1>2. QED
    BY <1>1, JoinInvariant, PTL DEF Spec, AcceptsNewest
=============================================================================
