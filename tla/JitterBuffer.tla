---------------------------- MODULE JitterBuffer ----------------------------
(***************************************************************************)
(* The voice jitter buffer, software/src/voice/JitterBuffer.{h,cpp}.       *)
(*                                                                         *)
(* buffer_ is a std::map from a 32-bit sequence number to a frame, kept    *)
(* in increasing key order.  The samples of a frame play no part in any    *)
(* decision, so a frame is its sequence number and buffer is the key set.  *)
(* MaxSeq stands for 2^32 - 1: ++next_seq_ wraps from MaxSeq to 0.         *)
(***************************************************************************)
EXTENDS Integers, FiniteSets

CONSTANTS
    Depth,     \* depth_: how many frames may stay buffered
    MaxSeq     \* the largest value of a sequence number

ASSUME DepthAssumption == Depth \in Nat
ASSUME MaxSeqAssumption == MaxSeq \in Nat \ {0}

VARIABLES
    buffer,      \* keys of buffer_
    next_seq,    \* next_seq_: the frame pop() looks for
    first_push,  \* first_push_: no pop() since construction or reset()
    played       \* history: what pop() returned since construction, reset()
                 \* or the wrap of ++next_seq_

vars == <<buffer, next_seq, first_push, played>>

SeqNum == 0 .. MaxSeq

\* Faulty variant of Succ: no wrap at the type's width.
SuccNoWrap(s) == s + 1

\* ++next_seq_ on a uint32_t.
Succ(s) == IF s = MaxSeq THEN 0 ELSE s + 1

\* buffer_.begin()->first: the map's lowest key.
Oldest(S) == CHOOSE s \in S : \A t \in S : s <= t

\* Faulty variant of Overfull: one frame too many.
OverfullLate(S) == Cardinality(S) > Depth + 1

\* The eviction condition, buffer_.size() > depth_.
Overfull(S) == Cardinality(S) > Depth

\* Faulty variant of Start: only the very first frame sets the start.
StartFirstOnly(S) == IF first_push /\ buffer = {} THEN Oldest(S) ELSE next_seq

\* next_seq_ after the insertion: it follows the lowest key until a pop().
Start(S) == IF first_push THEN Oldest(S) ELSE next_seq

-----------------------------------------------------------------------------
Init ==
    /\ buffer = {}
    /\ next_seq = 0
    /\ first_push = TRUE
    /\ played = {}

\* History bookkeeping: ++next_seq_ at s starts a new lap at the counter's wrap
\* and at no other time.  An assignment that moves next_seq_ back forgets nothing.
Lap(s, p) == IF s = MaxSeq THEN {} ELSE p

\* push(): insert, then drop the lowest key while there are more than Depth.
\* One insertion can exceed Depth by one only (see Bounded), so the loop body
\* runs at most once.
push(s) ==
    LET held  == buffer \union {s}
        start == Start(held)
        full  == Overfull(held)
        drop  == Oldest(held)
    IN  /\ buffer' = IF full THEN held \ {drop} ELSE held
        /\ next_seq' = IF full /\ drop = start THEN Succ(start) ELSE start
        /\ played' = IF full /\ drop = start THEN Lap(start, played) ELSE played
        /\ UNCHANGED first_push

\* Faulty variant of PopHit: a frame found does not lock next_seq_.
PopHitUnlocked ==
    /\ next_seq \in buffer
    /\ buffer' = buffer \ {next_seq}
    /\ next_seq' = Succ(next_seq)
    /\ played' = Lap(next_seq, played \union {next_seq})
    /\ UNCHANGED first_push

\* pop() when the expected frame is buffered.
PopHit ==
    /\ next_seq \in buffer
    /\ buffer' = buffer \ {next_seq}
    /\ next_seq' = Succ(next_seq)
    /\ first_push' = FALSE
    /\ played' = Lap(next_seq, played \union {next_seq})

\* pop() when it is not: nullopt, and next_seq_ is locked from now on.
PopMiss ==
    /\ next_seq \notin buffer
    /\ first_push' = FALSE
    /\ UNCHANGED <<buffer, next_seq, played>>

pop == PopHit \/ PopMiss

reset ==
    /\ buffer' = {}
    /\ next_seq' = 0
    /\ first_push' = TRUE
    /\ played' = {}

Next ==
    \/ \E s \in SeqNum : push(s)
    \/ pop
    \/ reset

Spec == Init /\ [][Next]_vars

-----------------------------------------------------------------------------
(* Properties *)

\* The state the class can be in.
TypeOK ==
    /\ buffer \in SUBSET SeqNum
    /\ next_seq \in SeqNum
    /\ first_push \in BOOLEAN
    /\ played \in SUBSET SeqNum

\* "depth: max number of frames to buffer" (JitterBuffer.h): however frames
\* arrive, the buffer never holds more than depth_ of them.
Bounded == Cardinality(buffer) <= Depth

\* "Pop the next frame in sequence order": everything pop() has returned lies
\* behind next_seq_, the only frame it can return next, until the counter wraps
\* or reset() is called.  A frame that comes late, or a second time, must not
\* take next_seq_ back to what was played: push() sets it from the lowest key, and
\* only first_push_ stops it from doing so once play-out has begun.
PlayedIsPast == \A s \in played : s < next_seq

\* Before the first pop() the play-out point never overtakes a buffered frame,
\* so frames that arrive out of order before play-out starts are not lost.
StartsAtOldest == first_push => \A s \in buffer : next_seq <= s

\* JitterBuffer.cpp line 18: "If we're dropping frames we haven't played yet,
\* advance next_seq_".  Once play-out has started, a push() that evicts a frame
\* not yet played moves next_seq_ past it.
DropAdvances ==
    [][~first_push /\ ~first_push'
        => \A s \in buffer \ buffer' : s >= next_seq => next_seq' # next_seq]_vars

=============================================================================
