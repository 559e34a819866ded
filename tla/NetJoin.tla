------------------------------ MODULE NetJoin -------------------------------
(***************************************************************************)
(* Joining a net by challenge and response (software/src/network/NetJoin). *)
(*                                                                         *)
(* Every radio has a NetJoin object and may be joiner and responder.  The  *)
(* air loses, repeats, delays and reorders messages and every radio hears  *)
(* them all: a message stays in the set it was put in and may be taken by  *)
(* anyone, any number of times or never.  A join request carries nothing   *)
(* but the identity of its sender, so it is an argument here.              *)
(*                                                                         *)
(* A nonce is 32 random bytes: two are never equal.  A signature is the    *)
(* identity key it was made with; it verifies under that key only.         *)
(* Identity keys are generated when a RadioNode is constructed, and so are *)
(* the two maps: a restart loses them.                                     *)
(***************************************************************************)
EXTENDS Integers, Sequences

CONSTANTS
    Responder,  \* the radios that challenge
    Joiner,     \* the radios that want to join
    MaxNonce,   \* bound: challenges created
    MaxLife     \* bound: generations of radios, one more per restart

ASSUME BoundAssumption == MaxNonce \in Nat /\ MaxLife \in Nat \ {0}

VARIABLES
    built,       \* restarts so far, plus one
    life,        \* life[n]: built when n was constructed, which names its identity key
    trusted,     \* trusted_keys_: the key known for each radio, or None
    pending,     \* pending_challenges_: the nonce outstanding for each joiner, or None
    drawn,       \* nonces drawn so far
    challenges,  \* Challenge messages sent
    responses,   \* ChallengeResponse messages sent
    accepts      \* history: joins accepted, in order

vars == <<built, life, trusted, pending, drawn, challenges, responses, accepts>>

Node == Responder \union Joiner
None == 0
NoEntry == [j \in Joiner |-> None]   \* an empty map
Nonce == 1 .. MaxNonce
Life == 1 .. MaxLife

Challenge == [challenger : Responder, joiner : Joiner, nonce : Nonce, life : Life]
Response == [joiner : Joiner, nonce : Nonce, sig : Life \union {None}]
Accept == [by : Responder, life : Life, joiner : Joiner, nonce : Nonce, key : Life]

Init ==
    /\ built = 1
    /\ life = [n \in Node |-> 1]
    /\ trusted = [r \in Responder |-> NoEntry]
    /\ pending = [r \in Responder |-> NoEntry]
    /\ drawn = 0
    /\ challenges = {} /\ responses = {}
    /\ accepts = <<>>

-----------------------------------------------------------------------------
(* Joiner.                                                                  *)

\* The signatures radio j may make: with its key, or none if the library fails.
ec_sign(j) == {life[j], None}

\* sign_challenge(): the nonce is signed, whoever the challenge is for; if the
\* signing fails the signature is empty.
sign_challenge(j, c) ==
    /\ \E sig \in ec_sign(j) :
          responses' = responses \union {[joiner |-> j, nonce |-> c.nonce, sig |-> sig]}
    /\ UNCHANGED <<built, life, trusted, pending, drawn, challenges, accepts>>

-----------------------------------------------------------------------------
(* Responder.                                                               *)

\* add_trusted_node(): somebody enters the key radio j has at that time.
add_trusted_node(r, j) ==
    /\ trusted' = [trusted EXCEPT ![r][j] = life[j]]
    /\ UNCHANGED <<built, life, pending, drawn, challenges, responses, accepts>>

\* Faulty variant of create_challenge: an outstanding challenge is kept.
ChallengeKept(r, j) ==
    LET nonce == drawn + 1 IN
    /\ drawn < MaxNonce
    /\ drawn' = nonce
    /\ pending' = [pending EXCEPT ![r][j] = IF @ = None THEN nonce ELSE @]
    /\ challenges' = challenges \union
          {[challenger |-> r, joiner |-> j, nonce |-> nonce, life |-> life[r]]}
    /\ UNCHANGED <<built, life, trusted, responses, accepts>>

\* create_challenge() for a request of j: a new nonce, which replaces the one
\* outstanding for j.
create_challenge(r, j) ==
    LET nonce == drawn + 1 IN
    /\ drawn < MaxNonce
    /\ drawn' = nonce
    /\ pending' = [pending EXCEPT ![r][j] = nonce]
    /\ challenges' = challenges \union
          {[challenger |-> r, joiner |-> j, nonce |-> nonce, life |-> life[r]]}
    /\ UNCHANGED <<built, life, trusted, responses, accepts>>

\* A signature verifies under the key it was made with.
ec_verify(key, sig) == sig = key

\* Faulty variant of Valid: an unknown radio passes.
ValidUnknown(r, m) ==
    /\ m.nonce = pending[r][m.joiner]
    /\ trusted[r][m.joiner] \in {None, m.sig}

\* The checks of verify_and_accept(): nonce, known key, signature.
Valid(r, m) ==
    /\ m.nonce = pending[r][m.joiner]
    /\ trusted[r][m.joiner] # None
    /\ ec_verify(trusted[r][m.joiner], m.sig)

\* Faulty variant of Consumed: an accepted challenge stays outstanding.
ConsumedOnReject(r, m) ==
    IF Valid(r, m) THEN pending ELSE [pending EXCEPT ![r][m.joiner] = None]

\* Every outcome of verify_and_accept() after the first check erases the
\* challenge.
Consumed(r, m) == [pending EXCEPT ![r][m.joiner] = None]

\* verify_and_accept(): nothing happens without an outstanding challenge.  A
\* valid answer is refused all the same if wrapping the keys fails.
verify_and_accept(r, m) ==
    /\ pending[r][m.joiner] # None
    /\ pending' = Consumed(r, m)
    /\ \/ /\ Valid(r, m)
          /\ accepts' = Append(accepts,
                [by |-> r, life |-> life[r], joiner |-> m.joiner, nonce |-> m.nonce, key |-> m.sig])
       \/ UNCHANGED accepts
    /\ UNCHANGED <<built, life, trusted, drawn, challenges, responses>>

-----------------------------------------------------------------------------
(* The object is destroyed and constructed again.                           *)

\* Faulty variant of Restart: outstanding challenges survive it.
RestartKept(n) ==
    /\ built < MaxLife
    /\ built' = built + 1
    /\ life' = [life EXCEPT ![n] = built + 1]
    /\ UNCHANGED <<trusted, pending, drawn, challenges, responses, accepts>>

\* RadioNode's constructor: new identity keys, no trusted radio, no challenge.
Restart(n) ==
    /\ built < MaxLife
    /\ built' = built + 1
    /\ life' = [life EXCEPT ![n] = built + 1]
    /\ trusted' = [r \in Responder |-> IF r = n THEN NoEntry ELSE trusted[r]]
    /\ pending' = [r \in Responder |-> IF r = n THEN NoEntry ELSE pending[r]]
    /\ UNCHANGED <<drawn, challenges, responses, accepts>>

Next ==
    \/ \E j \in Joiner, c \in challenges : c.challenger # j /\ sign_challenge(j, c)
    \/ \E r \in Responder, j \in Joiner : r # j /\ (add_trusted_node(r, j) \/ create_challenge(r, j))
    \/ \E r \in Responder, m \in responses : m.joiner # r /\ verify_and_accept(r, m)
    \/ \E n \in Node : Restart(n)

Spec == Init /\ [][Next]_vars

-----------------------------------------------------------------------------
(* Properties *)

\* The values the state takes; a join is never accepted with an empty signature.
TypeOK ==
    /\ built \in Life
    /\ life \in [Node -> Life]
    /\ trusted \in [Responder -> [Joiner -> Life \union {None}]]
    /\ pending \in [Responder -> [Joiner -> Nonce \union {None}]]
    /\ drawn \in 0 .. MaxNonce
    /\ challenges \subseteq Challenge
    /\ responses \subseteq Response
    /\ accepts \in Seq(Accept)

\* One challenge is good for one join: an answer delivered again, or two copies
\* of it, hand out the net keys once.
AcceptedOnce ==
    \A i, k \in 1 .. Len(accepts) : accepts[i].nonce = accepts[k].nonce => i = k

\* Whoever accepts a join has challenged this very joiner since it was last
\* restarted, and the joiner has answered that challenge: answers to overheard
\* challenges, to another responder or from before a restart are of no use.
AcceptedIntended ==
    \A i \in 1 .. Len(accepts) :
        LET a == accepts[i] IN
        /\ [challenger |-> a.by, joiner |-> a.joiner, nonce |-> a.nonce, life |-> a.life]
               \in challenges
        /\ [joiner |-> a.joiner, nonce |-> a.nonce, sig |-> a.key] \in responses

\* A join is accepted only on the newest challenge for that joiner, however many
\* requests it has made and however late its answers come.
Newest(a) ==
    \A c \in challenges :
        c.challenger = a.by /\ c.joiner = a.joiner => c.nonce <= a.nonce
AcceptsNewest == [][accepts' # accepts => Newest(accepts'[Len(accepts')])]_vars
=============================================================================
