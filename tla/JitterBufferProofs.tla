------------------------- MODULE JitterBufferProofs -------------------------
(* Proofs about the jitter buffer, for every depth and every width of the   *)
(* sequence number.                                                         *)
EXTENDS JitterBuffer, FiniteSetTheorems, WellFoundedInduction, TLAPS

\* The lowest key of a non-empty std::map over sequence numbers exists: it is
\* an element and no element is smaller.
LEMMA OldestIsLeast ==
    ASSUME NEW S \in SUBSET SeqNum, S # {}
    PROVE  /\ Oldest(S) \in S
           /\ \A t \in S : Oldest(S) <= t
  <1>1. S \subseteq Nat
    BY MaxSeqAssumption DEF SeqNum
  <1> DEFINE Less == {p \in Nat \X Nat : p[1] < p[2]}
  <1>0. Less = OpToRel(<, Nat)
    BY Zenon DEF OpToRel
  <1>2. PICK s \in S : \A t \in S : <<t, s>> \notin Less
    BY <1>0, <1>1, NatLessThanWellFounded, WFMin
  <1>3. ASSUME NEW t \in S
        PROVE  s <= t
    <2>1. t < s => <<t, s>> \in Less
      <3>1. <<t, s>> \in Nat \X Nat /\ <<t, s>>[1] = t /\ <<t, s>>[2] = s
        BY <1>1
      <3>2. QED
        BY <3>1, Zenon
    <2>2. QED
      BY <1>1, <1>2, <2>1
  <1>4. QED
    BY <1>3 DEF Oldest

-----------------------------------------------------------------------------
\* The inductive invariant: the run's four invariants, the finiteness that
\* Cardinality needs, and the fact that nothing has been played before the
\* first pop().
Inv ==
    /\ TypeOK
    /\ IsFiniteSet(buffer)
    /\ Bounded
    /\ PlayedIsPast
    /\ StartsAtOldest
    /\ first_push => played = {}

\* The empty buffer of the constructor satisfies the invariant.
LEMMA InitInv == Init => Inv
  <1> SUFFICES ASSUME Init PROVE Inv
    OBVIOUS
  <1>1. IsFiniteSet(buffer) /\ Cardinality(buffer) = 0
    BY FS_EmptySet DEF Init
  <1>2. QED
    BY <1>1, DepthAssumption, MaxSeqAssumption
    DEF Init, Inv, TypeOK, Bounded, PlayedIsPast, StartsAtOldest, SeqNum

\* push() keeps the invariant: it evicts at most one frame, the lowest, and
\* moves next_seq_ only to the lowest key or past the frame it evicts.
LEMMA PushInv == ASSUME Inv, NEW s \in SeqNum, push(s) PROVE Inv'
  <1> DEFINE held  == buffer \union {s}
             start == IF first_push THEN Oldest(held) ELSE next_seq
             full  == Cardinality(held) > Depth
             drop  == Oldest(held)
  <1>1. /\ held \in SUBSET SeqNum
        /\ held # {}
        /\ drop \in held
        /\ \A t \in held : drop <= t
    BY OldestIsLeast DEF Inv, TypeOK
  <1>2. /\ IsFiniteSet(held)
        /\ Cardinality(held) \in Nat
        /\ Cardinality(held) <= Depth + 1
        /\ IsFiniteSet(held \ {drop})
        /\ Cardinality(held \ {drop}) = Cardinality(held) - 1
    <2>1. IsFiniteSet(buffer) /\ Cardinality(buffer) \in Nat /\ Cardinality(buffer) <= Depth
      BY FS_CardinalityType DEF Inv, Bounded
    <2>2. /\ IsFiniteSet(held)
          /\ Cardinality(held) = IF s \in buffer THEN Cardinality(buffer) ELSE Cardinality(buffer) + 1
      BY <2>1, FS_AddElement
    <2> HIDE DEF held, drop
    <2>3. /\ IsFiniteSet(held \ {drop})
          /\ Cardinality(held \ {drop}) = Cardinality(held) - 1
      BY <1>1, <2>2, FS_RemoveElement
    <2>4. QED
      BY <2>1, <2>2, <2>3, DepthAssumption
  <1>3. /\ buffer' = IF full THEN held \ {drop} ELSE held
        /\ next_seq' = IF full /\ drop = start THEN Succ(start) ELSE start
        /\ played' = IF full /\ drop = start THEN Lap(start, played) ELSE played
        /\ first_push' = first_push
    BY DEF push, Start, Overfull
  <1>4. start \in SeqNum /\ drop \in SeqNum /\ SeqNum \subseteq Nat
    <2>1. SeqNum \subseteq Nat
      BY MaxSeqAssumption DEF SeqNum
    <2>2. start = drop \/ start = next_seq
      OBVIOUS
    <2> HIDE DEF held, drop, start
    <2>3. QED
      BY <1>1, <2>1, <2>2 DEF Inv, TypeOK
  <1> HIDE DEF held, full, drop, start
  <1>5. IsFiniteSet(buffer') /\ Bounded'
    BY <1>2, <1>3, DepthAssumption DEF Bounded, full
  <1>6. next_seq' \in SeqNum
    BY <1>3, <1>4, MaxSeqAssumption DEF Succ, SeqNum
  <1>7. TypeOK'
    BY <1>1, <1>3, <1>6 DEF Inv, TypeOK, Lap
  <1>8. PlayedIsPast'
    <2>1. CASE first_push
      BY <1>3, <2>1 DEF Inv, PlayedIsPast, Lap
    <2>2. CASE ~first_push
      <3>1. start = next_seq
        BY <2>2 DEF start
      <3>2. \A t \in played : t \in Nat /\ t < start
        BY <1>4, <3>1 DEF Inv, PlayedIsPast, TypeOK
      <3>3. start \in Nat
        BY <1>4
      <3>4. CASE full /\ drop = start /\ start # MaxSeq
        BY <1>3, <3>2, <3>3, <3>4 DEF PlayedIsPast, Lap, Succ
      <3>5. CASE full /\ drop = start /\ start = MaxSeq
        BY <1>3, <3>5 DEF PlayedIsPast, Lap
      <3>6. CASE ~(full /\ drop = start)
        BY <1>3, <3>2, <3>6 DEF PlayedIsPast
      <3>7. QED
        BY <3>4, <3>5, <3>6
    <2>3. QED
      BY <2>1, <2>2
  <1>9. StartsAtOldest'
    <2>1. SUFFICES ASSUME first_push, NEW t \in buffer' PROVE next_seq' <= t
      BY <1>3 DEF StartsAtOldest
    <2>2. start = drop
      BY <2>1 DEF start, drop
    <2>3. t \in held /\ t \in Nat /\ drop <= t /\ drop \in Nat
      BY <1>1, <1>3, <1>4
    <2>4. CASE full
      <3>1. t # drop /\ drop < t
        BY <1>3, <2>3, <2>4
      <3>2. drop # MaxSeq
        BY <1>1, <2>3, <3>1, MaxSeqAssumption DEF SeqNum
      <3>3. QED
        BY <1>3, <2>2, <2>3, <2>4, <3>1, <3>2 DEF Succ
    <2>5. CASE ~full
      BY <1>3, <2>2, <2>3, <2>5
    <2>6. QED
      BY <2>4, <2>5
  <1>10. first_push' => played' = {}
    BY <1>3 DEF Inv, Lap
  <1>11. QED
    BY <1>5, <1>7, <1>8, <1>9, <1>10 DEF Inv

\* pop() keeps the invariant: a hit plays exactly next_seq_ and steps past it.
LEMMA PopInv == ASSUME Inv, pop PROVE Inv'
  <1>1. CASE PopHit
    <2>1. /\ IsFiniteSet(buffer')
          /\ Cardinality(buffer') = Cardinality(buffer) - 1
          /\ Cardinality(buffer) \in Nat
      BY <1>1, FS_RemoveElement, FS_CardinalityType DEF Inv, PopHit
    <2>2. Bounded'
      BY <2>1, DepthAssumption DEF Inv, Bounded
    <2>0. /\ next_seq \in SeqNum /\ next_seq' \in SeqNum /\ SeqNum \subseteq Nat
          /\ next_seq # MaxSeq => next_seq < next_seq'
      BY <1>1, MaxSeqAssumption DEF Inv, TypeOK, PopHit, Succ, SeqNum
    <2>a. played' = IF next_seq = MaxSeq THEN {} ELSE played \union {next_seq}
      BY <1>1 DEF PopHit, Lap
    <2>3. TypeOK'
      BY <1>1, <2>0, <2>a DEF Inv, TypeOK, PopHit
    <2>4. PlayedIsPast'
      <3>1. \A t \in played : t \in Nat /\ t < next_seq
        BY <2>0 DEF Inv, TypeOK, PlayedIsPast
      <3>2. \A t \in played \union {next_seq} : next_seq # MaxSeq => t < next_seq'
        BY <2>0, <3>1
      <3>3. QED
        BY <2>0, <2>a, <3>2 DEF PlayedIsPast
    <2>5. StartsAtOldest' /\ ~first_push'
      BY <1>1 DEF PopHit, StartsAtOldest
    <2>6. QED
      BY <2>1, <2>2, <2>3, <2>4, <2>5 DEF Inv
  <1>2. CASE PopMiss
    BY <1>2 DEF Inv, TypeOK, Bounded, PlayedIsPast, StartsAtOldest, PopMiss
  <1>3. QED
    BY <1>1, <1>2 DEF pop

\* reset() returns to the constructor's state.
LEMMA ResetInv == ASSUME reset PROVE Inv'
  <1>1. IsFiniteSet(buffer') /\ Cardinality(buffer') = 0
    BY FS_EmptySet DEF reset
  <1>2. QED
    BY <1>1, DepthAssumption, MaxSeqAssumption
    DEF reset, Inv, TypeOK, Bounded, PlayedIsPast, StartsAtOldest, SeqNum

\* No step of the jitter buffer breaks the invariant.
LEMMA NextInv == Inv /\ [Next]_vars => Inv'
  <1> SUFFICES ASSUME Inv, [Next]_vars PROVE Inv'
    OBVIOUS
  <1>1. CASE \E s \in SeqNum : push(s)
    BY <1>1, PushInv
  <1>2. CASE pop
    BY <1>2, PopInv
  <1>3. CASE reset
    BY <1>3, ResetInv
  <1>4. CASE UNCHANGED vars
    BY <1>4 DEF vars, Inv, TypeOK, Bounded, PlayedIsPast, StartsAtOldest
  <1>5. QED
    BY <1>1, <1>2, <1>3, <1>4 DEF Next

\* The state stays within its types, for every depth and counter width.
THEOREM JitterTypeCorrect == Spec => []TypeOK
  <1>1. Inv => TypeOK
    BY DEF Inv
  <1>2. QED
    BY <1>1, InitInv, NextInv, PTL DEF Spec

\* "depth: max number of frames to buffer": push() never leaves more than
\* depth_ frames behind, so its eviction loop runs at most once per call.
THEOREM JitterBounded == Spec => []Bounded
  <1>1. Inv => Bounded
    BY DEF Inv
  <1>2. QED
    BY <1>1, InitInv, NextInv, PTL DEF Spec

\* pop() hands frames out in increasing order and none twice before the counter
\* wraps: no late or repeated copy, and no eviction, takes next_seq_ back.
THEOREM JitterPlaysInOrder == Spec => []PlayedIsPast
  <1>1. Inv => PlayedIsPast
    BY DEF Inv
  <1>2. QED
    BY <1>1, InitInv, NextInv, PTL DEF Spec

\* Before play-out starts, no buffered frame is behind the play-out point.
THEOREM JitterStartsAtOldest == Spec => []StartsAtOldest
  <1>1. Inv => StartsAtOldest
    BY DEF Inv
  <1>2. QED
    BY <1>1, InitInv, NextInv, PTL DEF Spec
=============================================================================
