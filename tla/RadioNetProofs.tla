--------------------------- MODULE RadioNetProofs ---------------------------
(***************************************************************************)
(* No message is delivered twice or to the wrong radio, and none is lost   *)
(* while no read cuts one: for any number of radios, any keys, any hop     *)
(* sequences, any message and read lengths and any traffic.                *)
(*                                                                         *)
(* Everything that matters happens in what one radio sees: its buffers R,  *)
(* the messages G it has put in its inboxes, whether a read of it has cut  *)
(* a message (C), and the log L of what was sent.  SeenBy relates the four;*)
(* the lemmas show that it survives a read and a transmission.             *)
(***************************************************************************)
EXTENDS RadioNet, SequenceTheorems, NaturalsInduction, WellFoundedInduction, TLAPS

Entry == [m : Message, left : Nat]

\* Only the first message of a buffer may be cut.
Lengths(R) ==
    \A f \in Freq : \A i \in 1 .. Len(R[f]) :
        /\ R[f][i].left \in 1 .. MsgLen(R[f][i].m)
        /\ i > 1 => R[f][i].left = MsgLen(R[f][i].m)

\* Data and voice in the buffers of n were sent by another radio and logged.
Waiting(n, R, L) ==
    \A f \in Freq : \A i \in 1 .. Len(R[f]) :
        /\ R[f][i].m.id <= Len(L)
        /\ R[f][i].m.type \in Kind => R[f][i].m.id # 0 /\ R[f][i].m.src # n

\* So was everything in its inboxes, which is meant for it and of its net.
Arrived(n, G, L) ==
    \A i \in 1 .. Len(G) :
        /\ G[i].id \in 1 .. Len(L)
        /\ G[i].dst \in {n, Broadcast} /\ G[i].src # n
        /\ G[i].tek = Tek[n]

\* One message is at one place: in one buffer, or once in the inboxes.
OncePending(R) ==
    \A f, g \in Freq : \A i \in 1 .. Len(R[f]), j \in 1 .. Len(R[g]) :
        R[f][i].m.id # 0 /\ R[f][i].m.id = R[g][j].m.id => f = g /\ i = j
OnceTaken(G) == \A i, j \in 1 .. Len(G) : G[i].id = G[j].id => i = j
NotBoth(R, G) ==
    \A f \in Freq : \A i \in 1 .. Len(R[f]), j \in 1 .. Len(G) : R[f][i].m.id # G[j].id

\* Without a cut every read starts at a message.
Aligned(R, C) == ~C => \A f \in Freq : ~Inside(R[f])

\* A message for n that was not dropped is in an inbox or in a buffer.
Present(m, R, G) ==
    \/ \E j \in 1 .. Len(G) : G[j] = m
    \/ \E f \in Freq : \E i \in 1 .. Len(R[f]) : R[f][i].m = m
Kept(n, R, G, C, L) ==
    \A i \in 1 .. Len(L) :
        L[i].m.src # n /\ ForMe(n, L[i]) /\ ~L[i].dropped /\ ~C => Present(L[i].m, R, G)

Logged == [m : Message, dropped : BOOLEAN]

SeenBy(n, R, G, C, L) ==
    /\ R \in [Freq -> Seq(Entry)] /\ G \in Seq(Message) /\ C \in BOOLEAN
    /\ Lengths(R) /\ Waiting(n, R, L) /\ Arrived(n, G, L)
    /\ OncePending(R) /\ OnceTaken(G) /\ NotBoth(R, G)
    /\ Aligned(R, C) /\ Kept(n, R, G, C, L)

\* The inductive invariant.
IInv ==
    /\ started \in [Node -> BOOLEAN]
    /\ known \in [Node -> SUBSET (Node \union {Phantom})]
    /\ frame \in [Node -> Frames]
    /\ partition \in BOOLEAN /\ odd \in BOOLEAN
    /\ log \in Seq(Logged) /\ Len(log) <= MaxSend
    /\ rx \in [Node -> [Freq -> Seq(Entry)]]
    /\ got \in [Node -> Seq(Message)]
    /\ cut \in [Node -> BOOLEAN]
    /\ \A n \in Node : SeenBy(n, rx[n], got[n], cut[n], log)

-----------------------------------------------------------------------------
(* Induction by the least counterexample.                                   *)

\* A set of natural numbers that is not empty has a least element.
LEMMA Least ==
  ASSUME NEW T, T \subseteq Nat, T # {}
  PROVE  \E k \in T : \A j \in T : k <= j
  <1>1. PICK k \in T : \A j \in T : ~(<<j, k>> \in OpToRel(<, Nat))
    BY NatLessThanWellFounded, WFMin
  <1>2. \A j \in T : ~(j < k)
    BY <1>1 DEF OpToRel
  <1>3. QED
    BY <1>2

\* f starts with z and goes on by the steps g.
Recursion(N, S, z, g, f) ==
    f \in [0 .. N -> S] /\ f[0] = z /\ \A i \in 1 .. N : f[i] = g[i][f[i - 1]]

\* A function can be defined on 0 .. N by its first value and its steps.
LEMMA PrimRec ==
  ASSUME NEW N \in Nat, NEW S, NEW z \in S, NEW g \in [1 .. N -> [S -> S]]
  PROVE  \E f : Recursion(N, S, z, g, f)
  <1> DEFINE Up(k, f) == f[0] = z /\ \A i \in 1 .. k : f[i] = g[i][f[i - 1]]
             T == {k \in 0 .. N : ~\E f \in [0 .. k -> S] : Up(k, f)}
  <1>1. SUFFICES ASSUME T # {} PROVE FALSE
    <2>1. N \in 0 .. N
      OBVIOUS
    <2>2. N \notin T => \E f \in [0 .. N -> S] : Up(N, f)
      BY <2>1
    <2>3. QED
      BY <2>2 DEF Recursion
  <1>2. PICK k \in T : \A j \in T : k <= j
    <2>1. T \subseteq Nat
      OBVIOUS
    <2> HIDE DEF T
    <2>2. QED
      BY <1>1, <2>1, Least
  <1>3. k # 0
    <2>1. SUFFICES ASSUME k = 0 PROVE FALSE
      OBVIOUS
    <2> DEFINE f == [i \in 0 .. 0 |-> z]
    <2>2. f \in [0 .. 0 -> S] /\ Up(0, f)
      OBVIOUS
    <2>3. QED
      BY <2>1, <2>2
  <1>4. PICK f \in [0 .. k - 1 -> S] : Up(k - 1, f)
    <2>1. k - 1 \in 0 .. N /\ ~(k <= k - 1)
      BY <1>3
    <2>2. k - 1 \notin T
      BY <2>1, <1>2
    <2>3. QED
      BY <2>1, <2>2
  <1> DEFINE h == [i \in 0 .. k |-> IF i = k THEN g[k][f[k - 1]] ELSE f[i]]
  <1>5. k \in 1 .. N /\ f[k - 1] \in S
    BY <1>3
  <1>6. g[k][f[k - 1]] \in S
    BY <1>5
  <1>7. h \in [0 .. k -> S]
    BY <1>5, <1>6
  <1>8. Up(k, h)
    <2>1. h[0] = z
      BY <1>4, <1>5
    <2>2. ASSUME NEW i \in 1 .. k PROVE h[i] = g[i][h[i - 1]]
      <3>1. h[i - 1] = f[i - 1]
        BY <1>5
      <3>2. CASE i = k
        BY <3>1, <3>2, <1>5
      <3>3. CASE i # k
        <4>1. i \in 1 .. k - 1
          BY <3>3, <1>5
        <4>2. h[i] = f[i]
          BY <4>1, <1>5
        <4>3. QED
          BY <4>1, <4>2, <3>1, <1>4
      <3>4. QED
        BY <3>2, <3>3
    <2>3. QED
      BY <2>1, <2>2
  <1>9. QED
    BY <1>2, <1>7, <1>8

-----------------------------------------------------------------------------
(* One read of a buffer.                                                    *)

\* A message has a length.
LEMMA MsgLenType == ASSUME NEW m PROVE MsgLen(m) \in Nat /\ MsgLen(m) > 0
  BY ChannelAssumption DEF MsgLen

\* Cells is the sum its recursive definition says.
LEMMA CellsRec ==
  ASSUME NEW b \in Seq(Entry)
  PROVE  /\ Cells(b, 0) = 0
         /\ \A k \in 0 .. Len(b) : Cells(b, k) \in Nat
         /\ \A k \in 1 .. Len(b) : Cells(b, k) = Cells(b, k - 1) + b[k].left
  <1> DEFINE N == Len(b)
             c[i \in 0 .. N] == IF i = 0 THEN 0 ELSE c[i - 1] + b[i].left
             g == [i \in 1 .. N |-> [s \in Nat |-> s + b[i].left]]
  <1>1. N \in Nat /\ \A i \in 1 .. N : b[i].left \in Nat
    <2>1. N \in Nat /\ \A i \in 1 .. N : b[i] \in Entry
      BY LenProperties, ElementOfSeq
    <2>2. \A e \in Entry : e.left \in Nat
      BY DEF Entry
    <2>3. QED
      BY <2>1, <2>2
  <1>2. g \in [1 .. N -> [Nat -> Nat]]
    BY <1>1
  <1>3. PICK f : Recursion(N, Nat, 0, g, f)
    <2>1. 0 \in Nat
      OBVIOUS
    <2> HIDE DEF g, N, c
    <2>2. QED
      BY <2>1, <1>1, <1>2, PrimRec
  <1>4. f = [i \in 0 .. N |-> IF i = 0 THEN 0 ELSE f[i - 1] + b[i].left]
    <2> USE DEF Recursion
    <2>1. ASSUME NEW i \in 0 .. N
          PROVE  f[i] = IF i = 0 THEN 0 ELSE f[i - 1] + b[i].left
      <3>1. CASE i = 0
        BY <3>1, <1>3
      <3>2. CASE i # 0
        <4>1. i \in 1 .. N /\ i - 1 \in 0 .. N /\ f[i - 1] \in Nat
          <5>1. i \in 1 .. N /\ i - 1 \in 0 .. N
            BY <3>2, <1>1
          <5>2. QED
            BY <5>1, <1>3
        <4>2. f[i] = g[i][f[i - 1]]
          BY <4>1, <1>3
        <4>3. QED
          BY <4>1, <4>2, <3>2
      <3>3. QED
        BY <3>1, <3>2
    <2>2. QED
      BY <2>1, <1>3
  <1>5. c = [i \in 0 .. N |-> IF i = 0 THEN 0 ELSE c[i - 1] + b[i].left]
    <2> HIDE DEF N
    <2>1. QED
      BY <1>4
  <1>6. \A k : Cells(b, k) = c[k]
    BY DEF Cells
  <1> HIDE DEF c
  <1>7. c[0] = 0 /\ \A k \in 1 .. N : c[k] = c[k - 1] + b[k].left
    BY <1>1, <1>5
  <1>8. \A k \in 0 .. N : c[k] \in Nat
    <2> DEFINE T == {k \in 0 .. N : c[k] \notin Nat}
    <2>1. SUFFICES ASSUME T # {} PROVE FALSE
      OBVIOUS
    <2>2. PICK k \in T : \A j \in T : k <= j
      <3>1. T \subseteq Nat
        BY <1>1
      <3> HIDE DEF T
      <3>2. QED
        BY <2>1, <3>1, Least
    <2>3. k \in 1 .. N
      BY <2>2, <1>1, <1>7
    <2>4. c[k - 1] \in Nat
      BY <2>2, <2>3, <1>1
    <2>5. QED
      BY <2>2, <2>3, <2>4, <1>1, <1>7
  <1>9. QED
    BY <1>6, <1>7, <1>8

\* A read ends after a number of whole messages: there is such a number.
LEMMA WholeDef ==
  ASSUME NEW b \in Seq(Entry)
  PROVE  /\ Whole(b) \in 0 .. Len(b)
         /\ Cells(b, Whole(b)) <= Cap
         /\ Whole(b) < Len(b) => Cells(b, Whole(b) + 1) > Cap
  <1> DEFINE N == Len(b)
             T == {k \in 0 .. N : k = N \/ Cells(b, k + 1) > Cap}
  <1>1. N \in Nat /\ Cap \in Nat
    BY ChannelAssumption
  <1>2. PICK k \in T : \A j \in T : k <= j
    <2>1. T \subseteq Nat /\ N \in T
      BY <1>1
    <2> HIDE DEF T
    <2>2. QED
      BY <2>1, Least
  <1>3. Cells(b, k) <= Cap
    <2>1. CASE k = 0
      BY <2>1, <1>1, CellsRec
    <2>2. CASE k # 0
      <3>1. k - 1 \in 0 .. N /\ k - 1 # N /\ (k - 1) + 1 = k /\ ~(k <= k - 1)
        BY <2>2, <1>1
      <3>2. ~(Cells(b, k) > Cap)
        BY <3>1, <1>2
      <3>3. Cells(b, k) \in Nat
        BY CellsRec
      <3>4. QED
        BY <3>2, <3>3, <1>1
    <2>3. QED
      BY <2>1, <2>2
  <1>4. \E j \in 0 .. Len(b) : Cells(b, j) <= Cap /\ (j < Len(b) => Cells(b, j + 1) > Cap)
    BY <1>2, <1>3
  <1>5. QED
    BY <1>4 DEF Whole

\* What stays after a read: the messages after the whole ones, the first of
\* which may have lost its head.
LEMMA RestDef ==
  ASSUME NEW b \in Seq(Entry),
         \A i \in 1 .. Len(b) :
            /\ b[i].left \in 1 .. MsgLen(b[i].m)
            /\ i > 1 => b[i].left = MsgLen(b[i].m)
  PROVE  /\ Rest(b) \in Seq(Entry)
         /\ Len(Rest(b)) = Len(b) - Whole(b)
         /\ \A i \in 1 .. Len(Rest(b)) :
               /\ Rest(b)[i].m = b[i + Whole(b)].m
               /\ Rest(b)[i].left \in 1 .. MsgLen(Rest(b)[i].m)
               /\ i > 1 => Rest(b)[i].left = MsgLen(Rest(b)[i].m)
  <1> DEFINE k == Whole(b)
             N == Len(b)
  <1>1. k \in 0 .. N /\ N \in Nat /\ Cap \in Nat
    BY WholeDef, ChannelAssumption
  <1>2. CASE k = N
    BY <1>1, <1>2 DEF Rest
  <1>3. CASE k # N
    <2> DEFINE s == SubSeq(b, k + 1, N)
               l == s[1].left - (Cap - Cells(b, k))
    <2>1. /\ s \in Seq(Entry) /\ Len(s) = N - k
          /\ \A i \in 1 .. N - k : s[i] = b[i + k]
      <3>1. k + 1 \in 1 .. N + 1 /\ N \in k .. N
        BY <1>1, <1>3
      <3>2. QED
        BY <3>1, <1>1, SubSeqProperties
    <2>2. Rest(b) = [s EXCEPT ![1].left = l]
      BY <1>3 DEF Rest
    <2>3. /\ Cells(b, k) \in Nat /\ Cells(b, k) <= Cap
          /\ Cells(b, k + 1) = Cells(b, k) + b[k + 1].left
          /\ Cells(b, k + 1) > Cap
      <3>1. k + 1 \in 1 .. N /\ k < N /\ (k + 1) - 1 = k
        BY <1>1, <1>3
      <3>2. QED
        BY <3>1, <1>1, CellsRec, WholeDef
    <2>4. s[1] = b[k + 1] /\ s[1] \in Entry /\ s[1].left \in 1 .. MsgLen(s[1].m)
      BY <2>1, <1>1, <1>3
    <2>5. l \in 1 .. s[1].left
      <3> HIDE DEF s, k
      <3>1. s[1].left \in Nat
        <4>1. MsgLen(s[1].m) \in Nat
          BY MsgLenType
        <4>2. QED
          BY <4>1, <2>4
      <3>2. Cells(b, k) + s[1].left > Cap
        BY <2>3, <2>4
      <3>3. QED
        BY <3>1, <3>2, <2>3, <1>1
    <2> HIDE DEF s, l
    <2>6. [s[1] EXCEPT !.left = l] = [m |-> s[1].m, left |-> l] /\ s[1].m \in Message
      BY <2>4 DEF Entry
    <2>7. 1 \in 1 .. Len(s) /\ DOMAIN s = 1 .. Len(s)
      BY <2>1, <1>1, <1>3
    <2>8. Rest(b) = [s EXCEPT ![1] = [m |-> s[1].m, left |-> l]]
      BY <2>2, <2>6
    <2>9. [m |-> s[1].m, left |-> l] \in Entry
      BY <2>4, <2>5, <2>6 DEF Entry
    <2>10. Rest(b) \in Seq(Entry) /\ Len(Rest(b)) = Len(s)
      BY <2>1, <2>7, <2>8, <2>9, ExceptSeq
    <2>11. ASSUME NEW i \in 1 .. Len(s)
           PROVE  /\ Rest(b)[i].m = b[i + k].m
                  /\ Rest(b)[i].left \in 1 .. MsgLen(Rest(b)[i].m)
                  /\ i > 1 => Rest(b)[i].left = MsgLen(Rest(b)[i].m)
      <3>1. CASE i = 1
        <4>1. Rest(b)[i] = [m |-> s[1].m, left |-> l]
          BY <3>1, <2>7, <2>8
        <4>2. l \in 1 .. MsgLen(s[1].m)
          BY <2>4, <2>5, MsgLenType
        <4>3. QED
          BY <4>1, <4>2, <3>1, <2>4, <1>1
      <3>2. CASE i # 1
        <4>1. Rest(b)[i] = s[i]
          BY <3>2, <2>7, <2>8
        <4>2. s[i] = b[i + k] /\ i + k \in 1 .. N /\ i + k > 1
          BY <2>1, <1>1, <3>2
        <4>3. QED
          BY <4>1, <4>2
      <3>3. QED
        BY <3>1, <3>2
    <2>12. QED
      BY <2>1, <2>10, <2>11
  <1>4. QED
    BY <1>2, <1>3

\* What the parsing loop finds: the whole messages from some point on, from the
\* first one if the read started at a message.
LEMMA ParseDef ==
  ASSUME NEW b \in Seq(Entry), NEW p \in Parses(b)
  PROVE  \E d \in 0 .. Whole(b) :
            /\ p \in Seq(Entry) /\ Len(p) = Whole(b) - d
            /\ \A i \in 1 .. Len(p) : p[i] = b[i + d]
            /\ ~Inside(b) => d = 0
  <1> DEFINE k == Whole(b)
             w == SubSeq(b, 1, k)
  <1>1. k \in 0 .. Len(b) /\ Len(b) \in Nat
    BY WholeDef
  <1>2. w \in Seq(Entry) /\ Len(w) = k /\ \A i \in 1 .. k : w[i] = b[i]
    <2>1. 1 \in 1 .. Len(b) + 1 /\ k \in 1 - 1 .. Len(b)
      BY <1>1
    <2>2. QED
      BY <2>1, <1>1, SubSeqProperties
  <1>3. \/ p = w
        \/ Inside(b) /\ p = <<>>
        \/ Inside(b) /\ \E j \in 2 .. k : p = SubSeq(w, j, k)
    BY <1>2 DEF Parses
  <1> HIDE DEF w
  <1>4. CASE p = w
    BY <1>1, <1>2, <1>4
  <1>5. CASE Inside(b) /\ p = <<>>
    BY <1>1, <1>5
  <1>6. CASE Inside(b) /\ \E j \in 2 .. k : p = SubSeq(w, j, k)
    <2>1. PICK j \in 2 .. k : p = SubSeq(w, j, k)
      BY <1>6
    <2>2. j \in 1 .. Len(w) + 1 /\ k \in j - 1 .. Len(w)
      BY <1>1, <1>2
    <2>3. /\ p \in Seq(Entry) /\ Len(p) = k - j + 1
          /\ \A i \in 1 .. k - j + 1 : p[i] = w[j + i - 1]
      BY <2>1, <2>2, <1>2, SubSeqProperties
    <2>4. Len(p) = k - (j - 1) /\ j - 1 \in 0 .. k
      BY <2>3, <1>1
    <2>5. ASSUME NEW i \in 1 .. Len(p) PROVE p[i] = b[i + (j - 1)]
      <3>1. j + i - 1 \in 1 .. k /\ j + i - 1 = i + (j - 1) /\ i \in 1 .. k - j + 1
        BY <2>4, <1>1
      <3>2. QED
        BY <3>1, <2>3, <1>2
    <2>6. QED
      BY <1>6, <2>3, <2>4, <2>5
  <1>7. QED
    BY <1>3, <1>4, <1>5, <1>6

\* t picks from the first k entries of p those for n, each once: M are their
\* messages.
Picks(n, p, k, M, t) ==
    /\ M \in Seq(Message)
    /\ t \in [1 .. Len(M) -> 1 .. k]
    /\ \A a, c \in 1 .. Len(M) : t[a] = t[c] => a = c
    /\ \A a \in 1 .. Len(M) : ForMe(n, p[t[a]]) /\ M[a] = p[t[a]].m
    /\ \A i \in 1 .. k : ForMe(n, p[i]) => \E a \in 1 .. Len(M) : t[a] = i

\* One more entry of the read.
LEMMA PickOne ==
  ASSUME NEW n, NEW p \in Seq(Entry), NEW k \in 1 .. Len(p), NEW M, NEW t,
         Picks(n, p, k - 1, M, t)
  PROVE  \E u : Picks(n, p, k, IF ForMe(n, p[k]) THEN Append(M, p[k].m) ELSE M, u)
  <1>1. k \in Nat /\ k > 0 /\ Len(M) \in Nat /\ M \in Seq(Message)
    BY DEF Picks
  <1>2. p[k].m \in Message
    <2>1. p[k] \in Entry
      BY ElementOfSeq
    <2>2. QED
      BY <2>1 DEF Entry
  <1>3. CASE ForMe(n, p[k])
    <2> DEFINE A == Append(M, p[k].m)
               u == [a \in 1 .. Len(M) + 1 |-> IF a = Len(M) + 1 THEN k ELSE t[a]]
    <2>1. /\ A \in Seq(Message) /\ Len(A) = Len(M) + 1 /\ A[Len(M) + 1] = p[k].m
          /\ \A a \in 1 .. Len(M) : A[a] = M[a]
      BY <1>1, <1>2, AppendProperties
    <2> HIDE DEF A
    <2>2. \A a \in 1 .. Len(M) : a \in 1 .. Len(M) + 1 /\ u[a] = t[a] /\ t[a] \in 1 .. k - 1
      BY <1>1 DEF Picks
    <2>3. u[Len(M) + 1] = k
      BY <1>1
    <2>4. u \in [1 .. Len(A) -> 1 .. k]
      <3>1. \A a \in 1 .. Len(M) + 1 : a # Len(M) + 1 => a \in 1 .. Len(M)
        BY <1>1
      <3>2. ASSUME NEW a \in 1 .. Len(M) + 1 PROVE u[a] \in 1 .. k
        <4>1. CASE a = Len(M) + 1
          BY <4>1, <2>3, <1>1
        <4>2. CASE a # Len(M) + 1
          <5>1. u[a] \in 1 .. k - 1
            BY <4>2, <3>1, <2>2, Zenon
          <5>2. QED
            BY <5>1, <1>1
        <4>3. QED
          BY <4>1, <4>2
      <3>3. QED
        BY <3>2, <2>1
    <2> HIDE DEF u
    <2>5. \A a \in 1 .. Len(A) : a = Len(M) + 1 \/ a \in 1 .. Len(M)
      BY <1>1, <2>1
    <2>6. ASSUME NEW a \in 1 .. Len(A), NEW c \in 1 .. Len(A), u[a] = u[c] PROVE a = c
      <3>1. CASE a \in 1 .. Len(M) /\ c \in 1 .. Len(M)
        <4>1. t[a] = t[c]
          BY <2>6, <2>2, <3>1
        <4>2. QED
          BY <4>1, <3>1 DEF Picks
      <3>2. CASE a = Len(M) + 1 \/ c = Len(M) + 1
        <4>1. \A x \in 1 .. Len(M) : u[x] # k
          BY <2>2, <1>1
        <4>2. QED
          BY <4>1, <3>2, <2>3, <2>5, <2>6
      <3>3. QED
        BY <3>1, <3>2, <2>5
    <2>7. ASSUME NEW a \in 1 .. Len(A) PROVE ForMe(n, p[u[a]]) /\ A[a] = p[u[a]].m
      <3>1. CASE a = Len(M) + 1
        BY <3>1, <1>3, <2>1, <2>3
      <3>2. CASE a \in 1 .. Len(M)
        BY <3>2, <2>1, <2>2 DEF Picks
      <3>3. QED
        BY <3>1, <3>2, <2>5
    <2>8. ASSUME NEW i \in 1 .. k, ForMe(n, p[i]) PROVE \E a \in 1 .. Len(A) : u[a] = i
      <3>1. CASE i = k
        <4>1. Len(M) + 1 \in 1 .. Len(A)
          BY <1>1, <2>1
        <4>2. QED
          BY <4>1, <3>1, <2>3
      <3>2. CASE i # k
        <4>1. i \in 1 .. k - 1
          BY <3>2, <1>1
        <4>2. PICK a \in 1 .. Len(M) : t[a] = i
          BY <4>1, <2>8 DEF Picks
        <4>3. QED
          BY <4>2, <2>1, <2>2
      <3>3. QED
        BY <3>1, <3>2
    <2>9. Picks(n, p, k, A, u)
      BY <2>1, <2>4, <2>6, <2>7, <2>8 DEF Picks
    <2>10. QED
      BY <2>9, <1>3 DEF A
  <1>4. CASE ~ForMe(n, p[k])
    <2>1. t \in [1 .. Len(M) -> 1 .. k]
      BY <1>1 DEF Picks
    <2>2. \A i \in 1 .. k : i # k => i \in 1 .. k - 1
      BY <1>1
    <2>3. Picks(n, p, k, M, t)
      BY <2>1, <2>2, <1>4 DEF Picks
    <2>4. QED
      BY <2>3, <1>4
  <1>5. QED
    BY <1>3, <1>4

\* What a parsing loop puts in the inboxes: the messages for n, each once.
LEMMA MineDef ==
  ASSUME NEW n, NEW p \in Seq(Entry)
  PROVE  \E t : Picks(n, p, Len(p), Mine(n, p), t)
  <1> DEFINE N == Len(p)
             One(i, s) == IF ForMe(n, p[i]) THEN Append(s, p[i].m) ELSE s
             q[i \in 0 .. N] ==
                 IF i = 0 THEN <<>>
                 ELSE IF ForMe(n, p[i]) THEN Append(q[i - 1], p[i].m)
                 ELSE q[i - 1]
             g == [i \in 1 .. N |-> [s \in Seq(Message) |-> One(i, s)]]
  <1>1. N \in Nat /\ \A i \in 1 .. N : p[i].m \in Message
    <2>1. N \in Nat /\ \A i \in 1 .. N : p[i] \in Entry
      BY LenProperties, ElementOfSeq
    <2>2. \A e \in Entry : e.m \in Message
      BY DEF Entry
    <2>3. QED
      BY <2>1, <2>2
  <1>2. g \in [1 .. N -> [Seq(Message) -> Seq(Message)]]
    <2>1. ASSUME NEW i \in 1 .. N, NEW s \in Seq(Message) PROVE One(i, s) \in Seq(Message)
      BY <1>1, AppendProperties
    <2> HIDE DEF One
    <2>2. QED
      BY <2>1
  <1>3. PICK f : Recursion(N, Seq(Message), <<>>, g, f)
    <2>1. <<>> \in Seq(Message)
      OBVIOUS
    <2> HIDE DEF g, N, q
    <2>2. QED
      BY <2>1, <1>1, <1>2, PrimRec
  <1>4. f = [i \in 0 .. N |-> IF i = 0 THEN <<>>
                              ELSE IF ForMe(n, p[i]) THEN Append(f[i - 1], p[i].m)
                              ELSE f[i - 1]]
    <2>1. ASSUME NEW i \in 0 .. N
          PROVE  f[i] = IF i = 0 THEN <<>> ELSE One(i, f[i - 1])
      <3>1. CASE i = 0
        BY <3>1, <1>3 DEF Recursion
      <3>2. CASE i # 0
        <4>1. i \in 1 .. N /\ i - 1 \in 0 .. N
          BY <3>2, <1>1
        <4>2. f[i - 1] \in Seq(Message) /\ f[i] = g[i][f[i - 1]]
          BY <4>1, <1>3 DEF Recursion
        <4>3. g[i][f[i - 1]] = One(i, f[i - 1])
          <5> HIDE DEF One, N
          <5>1. QED
            BY <4>1, <4>2
        <4>4. QED
          BY <4>2, <4>3, <3>2
      <3>3. QED
        BY <3>1, <3>2
    <2>2. QED
      BY <2>1, <1>3 DEF Recursion
  <1>5. q = [i \in 0 .. N |-> IF i = 0 THEN <<>>
                              ELSE IF ForMe(n, p[i]) THEN Append(q[i - 1], p[i].m)
                              ELSE q[i - 1]]
    <2> HIDE DEF N
    <2>1. QED
      BY <1>4
  <1>6. Mine(n, p) = q[N]
    BY DEF Mine
  <1> HIDE DEF q
  <1>7. q[0] = <<>> /\ \A k \in 1 .. N : q[k] = One(k, q[k - 1])
    <2>1. 0 \in 0 .. N /\ \A k \in 1 .. N : k \in 0 .. N /\ k # 0
      BY <1>1
    <2>2. \A k \in 0 .. N : q[k] = IF k = 0 THEN <<>> ELSE One(k, q[k - 1])
      BY <1>5, Zenon
    <2> HIDE DEF One, N
    <2>3. QED
      BY <2>1, <2>2
  <1>8. \A k \in 0 .. N : \E t : Picks(n, p, k, q[k], t)
    <2> DEFINE T == {k \in 0 .. N : ~\E t : Picks(n, p, k, q[k], t)}
    <2>1. SUFFICES ASSUME T # {} PROVE FALSE
      OBVIOUS
    <2>2. PICK k \in T : \A j \in T : k <= j
      <3>1. T \subseteq Nat
        BY <1>1
      <3> HIDE DEF T
      <3>2. QED
        BY <2>1, <3>1, Least
    <2>3. k # 0
      <3>1. Picks(n, p, 0, <<>>, [a \in 1 .. 0 |-> 0])
        BY DEF Picks
      <3>2. QED
        BY <3>1, <2>2, <1>7
    <2>4. k \in 1 .. N /\ k - 1 \in 0 .. N /\ ~(k <= k - 1)
      BY <2>2, <2>3, <1>1
    <2>5. PICK t : Picks(n, p, k - 1, q[k - 1], t)
      BY <2>2, <2>4
    <2>6. \E u : Picks(n, p, k, One(k, q[k - 1]), u)
      BY <2>4, <2>5, PickOne
    <2> HIDE DEF One
    <2>7. QED
      BY <2>2, <2>4, <2>6, <1>7
  <1>9. N \in 0 .. N
    BY <1>1
  <1>10. \E t : Picks(n, p, N, q[N], t)
    BY <1>8, <1>9, Zenon
  <1>11. QED
    BY <1>6, <1>10

-----------------------------------------------------------------------------
(* What one radio sees, across a read and a transmission.                   *)

\* The facts about a read of f that finds p which the parts of SeenBy need:
\* where a message that stays was before, and where a message that is taken was.
Reads(n, R, f, p) ==
    /\ R[f] \in Seq(Entry) /\ Whole(R[f]) \in 0 .. Len(R[f])
    /\ Rest(R[f]) \in Seq(Entry)
    /\ Len(Rest(R[f])) = Len(R[f]) - Whole(R[f])
    /\ \A i \in 1 .. Len(Rest(R[f])) :
          /\ Rest(R[f])[i].m = R[f][i + Whole(R[f])].m
          /\ Rest(R[f])[i].left \in 1 .. MsgLen(Rest(R[f])[i].m)
          /\ i > 1 => Rest(R[f])[i].left = MsgLen(Rest(R[f])[i].m)
    /\ Mine(n, p) \in Seq(Message)
    /\ \E w \in [1 .. Len(Mine(n, p)) -> 1 .. Whole(R[f])] :
          /\ \A a, c \in 1 .. Len(Mine(n, p)) : w[a] = w[c] => a = c
          /\ \A a \in 1 .. Len(Mine(n, p)) :
                ForMe(n, R[f][w[a]]) /\ Mine(n, p)[a] = R[f][w[a]].m
          /\ ~Inside(R[f]) =>
                \A i \in 1 .. Whole(R[f]) :
                   ForMe(n, R[f][i]) => \E a \in 1 .. Len(Mine(n, p)) : w[a] = i

\* They hold for every read.
LEMMA ReadFacts ==
  ASSUME NEW n, NEW R, NEW G, NEW C, NEW L, SeenBy(n, R, G, C, L),
         NEW f \in Freq, NEW p \in Parses(R[f])
  PROVE  Reads(n, R, f, p)
  <1> DEFINE b == R[f]
             k == Whole(b)
             M == Mine(n, p)
  <1>1. b \in Seq(Entry)
    BY DEF SeenBy
  <1>2. \A i \in 1 .. Len(b) :
            /\ b[i].left \in 1 .. MsgLen(b[i].m)
            /\ i > 1 => b[i].left = MsgLen(b[i].m)
    BY DEF SeenBy, Lengths
  <1> HIDE DEF b
  <1>3. k \in 0 .. Len(b) /\ Len(b) \in Nat
    BY <1>1, WholeDef
  <1>4. /\ Rest(b) \in Seq(Entry)
        /\ Len(Rest(b)) = Len(b) - k
        /\ \A i \in 1 .. Len(Rest(b)) :
               /\ Rest(b)[i].m = b[i + k].m
               /\ Rest(b)[i].left \in 1 .. MsgLen(Rest(b)[i].m)
               /\ i > 1 => Rest(b)[i].left = MsgLen(Rest(b)[i].m)
    BY <1>1, <1>2, RestDef
  <1>5. PICK d \in 0 .. k :
            /\ p \in Seq(Entry) /\ Len(p) = k - d
            /\ \A i \in 1 .. Len(p) : p[i] = b[i + d]
            /\ ~Inside(b) => d = 0
    <2>1. p \in Parses(b)
      BY DEF b
    <2>2. QED
      BY <2>1, <1>1, ParseDef
  <1>6. PICK t : Picks(n, p, Len(p), M, t)
    BY <1>5, MineDef
  <1> HIDE DEF M, k
  <1> DEFINE w == [a \in 1 .. Len(M) |-> t[a] + d]
  <1>7. M \in Seq(Message) /\ \A a \in 1 .. Len(M) : t[a] \in 1 .. Len(p)
    BY <1>6 DEF Picks
  <1>8. ASSUME NEW a \in 1 .. Len(M)
        PROVE  w[a] = t[a] + d /\ w[a] \in 1 .. k /\ p[t[a]] = b[w[a]]
    <2>1. t[a] \in 1 .. Len(p)
      BY <1>7
    <2>2. w[a] = t[a] + d
      OBVIOUS
    <2>3. p[t[a]] = b[t[a] + d]
      BY <2>1, <1>5
    <2>4. t[a] + d \in 1 .. k
      BY <2>1, <1>3, <1>5
    <2>5. QED
      BY <2>2, <2>3, <2>4
  <1>9. w \in [1 .. Len(M) -> 1 .. k]
    <2>1. \A a \in 1 .. Len(M) : t[a] + d \in 1 .. k
      BY <1>8
    <2>2. QED
      BY <2>1
  <1> HIDE DEF w
  <1>10. \A a, c \in 1 .. Len(M) : w[a] = w[c] => a = c
    <2> TAKE a, c \in 1 .. Len(M)
    <2> HAVE w[a] = w[c]
    <2>1. t[a] + d = t[c] + d /\ t[a] \in 1 .. Len(p) /\ t[c] \in 1 .. Len(p)
      BY <1>7, <1>8
    <2>2. t[a] = t[c]
      BY <2>1, <1>3
    <2>3. QED
      BY <2>2, <1>6 DEF Picks
  <1>11. \A a \in 1 .. Len(M) : ForMe(n, b[w[a]]) /\ M[a] = b[w[a]].m
    <2> TAKE a \in 1 .. Len(M)
    <2>1. ForMe(n, p[t[a]]) /\ M[a] = p[t[a]].m
      BY <1>6 DEF Picks
    <2>2. QED
      BY <2>1, <1>8
  <1>12. ASSUME ~Inside(b), NEW i \in 1 .. k, ForMe(n, b[i])
         PROVE  \E a \in 1 .. Len(M) : w[a] = i
    <2>1. d = 0 /\ Len(p) = k
      BY <1>12, <1>5, <1>3
    <2>2. p[i] = b[i]
      BY <2>1, <1>5, <1>3
    <2>3. PICK a \in 1 .. Len(M) : t[a] = i
      BY <2>1, <2>2, <1>12, <1>6 DEF Picks
    <2>4. w[a] = i
      BY <2>1, <2>3, <1>8, <1>3
    <2>5. QED
      BY <2>4
  <1>13. QED
    BY <1>1, <1>3, <1>4, <1>7, <1>9, <1>10, <1>11, <1>12 DEF b, M, k, Reads

\* A read keeps what one radio sees in order.
LEMMA ReadKeeps ==
  ASSUME NEW n, NEW R, NEW G, NEW C, NEW L, L \in Seq(Logged), SeenBy(n, R, G, C, L),
         NEW f \in Freq, NEW p \in Parses(R[f])
  PROVE  SeenBy(n, [R EXCEPT ![f] = Rest(R[f])], G \o Mine(n, p),
                C \/ Inside(Rest(R[f])), L)
  <1> DEFINE k == Whole(R[f])
             M == Mine(n, p)
             Q == [R EXCEPT ![f] = Rest(R[f])]
             H == G \o M
             D == C \/ Inside(Rest(R[f]))
             Old(g, i) == IF g = f THEN i + k ELSE i
  <1>0. Reads(n, R, f, p)
    BY ReadFacts
  <1>1. PICK w \in [1 .. Len(M) -> 1 .. k] :
               /\ \A a, c \in 1 .. Len(M) : w[a] = w[c] => a = c
               /\ \A a \in 1 .. Len(M) : ForMe(n, R[f][w[a]]) /\ M[a] = R[f][w[a]].m
               /\ ~Inside(R[f]) =>
                     \A i \in 1 .. k : ForMe(n, R[f][i]) => \E a \in 1 .. Len(M) : w[a] = i
    BY <1>0 DEF Reads
  <1>2. /\ R[f] \in Seq(Entry) /\ k \in 0 .. Len(R[f])
        /\ Rest(R[f]) \in Seq(Entry)
        /\ Len(Rest(R[f])) = Len(R[f]) - k
        /\ M \in Seq(Message)
    BY <1>0 DEF Reads
  <1>3. \A i \in 1 .. Len(Rest(R[f])) :
               /\ Rest(R[f])[i].m = R[f][i + k].m
               /\ Rest(R[f])[i].left \in 1 .. MsgLen(Rest(R[f])[i].m)
               /\ i > 1 => Rest(R[f])[i].left = MsgLen(Rest(R[f])[i].m)
    BY <1>0 DEF Reads
  <1>4. /\ R \in [Freq -> Seq(Entry)] /\ G \in Seq(Message) /\ C \in BOOLEAN
        /\ Lengths(R) /\ Waiting(n, R, L) /\ Arrived(n, G, L)
        /\ OncePending(R) /\ OnceTaken(G) /\ NotBoth(R, G)
        /\ Aligned(R, C) /\ Kept(n, R, G, C, L)
    BY DEF SeenBy
  <1>5. Len(G) \in Nat /\ Len(M) \in Nat /\ Len(L) \in Nat /\ \A g \in Freq : Len(R[g]) \in Nat
    BY <1>2, <1>4
  <1> HIDE DEF k, M
  <1>6. /\ Q \in [Freq -> Seq(Entry)] /\ Q[f] = Rest(R[f])
        /\ \A g \in Freq : g # f => Q[g] = R[g]
    BY <1>2, <1>4
  <1>7. /\ H \in Seq(Message) /\ Len(H) = Len(G) + Len(M)
        /\ \A i \in 1 .. Len(G) : H[i] = G[i]
        /\ \A a \in 1 .. Len(M) : H[Len(G) + a] = M[a] /\ Len(G) + a \in 1 .. Len(H)
        /\ \A i \in 1 .. Len(H) : i \in 1 .. Len(G) \/ i - Len(G) \in 1 .. Len(M)
    <2>1. H \in Seq(Message) /\ Len(H) = Len(G) + Len(M)
      BY <1>2, <1>4, ConcatProperties
    <2>2. \A i \in 1 .. Len(G) + Len(M) :
             H[i] = IF i <= Len(G) THEN G[i] ELSE M[i - Len(G)]
      BY <1>2, <1>4, ConcatProperties
    <2> HIDE DEF H
    <2>3. \A i \in 1 .. Len(G) : i \in 1 .. Len(G) + Len(M) /\ i <= Len(G)
      BY <1>5
    <2>4. \A a \in 1 .. Len(M) : /\ Len(G) + a \in 1 .. Len(G) + Len(M)
                                 /\ ~(Len(G) + a <= Len(G))
                                 /\ (Len(G) + a) - Len(G) = a
      BY <1>5
    <2>5. \A i \in 1 .. Len(G) : H[i] = G[i]
      BY <2>2, <2>3
    <2>6. \A a \in 1 .. Len(M) : H[Len(G) + a] = M[a] /\ Len(G) + a \in 1 .. Len(H)
      BY <2>1, <2>2, <2>4
    <2>7. \A i \in 1 .. Len(H) : i \in 1 .. Len(G) \/ i - Len(G) \in 1 .. Len(M)
      BY <2>1, <1>5
    <2>8. QED
      BY <2>1, <2>5, <2>6, <2>7
  <1> HIDE DEF H, Q
  <1>8. ASSUME NEW g \in Freq, NEW i \in 1 .. Len(Q[g])
        PROVE  Old(g, i) \in 1 .. Len(R[g]) /\ Q[g][i].m = R[g][Old(g, i)].m
    <2>1. CASE g = f
      <3>1. Old(g, i) = i + k /\ Q[g] = Rest(R[f])
        BY <2>1, <1>6
      <3>2. i \in 1 .. Len(R[f]) - k /\ k \in 0 .. Len(R[f]) /\ Len(R[f]) \in Nat
        BY <2>1, <3>1, <1>2, <1>5
      <3>3. i + k \in 1 .. Len(R[f])
        BY <3>2
      <3>4. Rest(R[f])[i].m = R[f][i + k].m
        BY <3>2, <1>2, <1>3
      <3>5. QED
        BY <2>1, <3>1, <3>3, <3>4
    <2>2. CASE g # f
      BY <2>2, <1>6
    <2>3. QED
      BY <2>1, <2>2
  <1>9. ASSUME NEW a \in 1 .. Len(M)
        PROVE  /\ w[a] \in 1 .. k /\ w[a] \in 1 .. Len(R[f])
               /\ ForMe(n, R[f][w[a]]) /\ M[a] = R[f][w[a]].m
               /\ M[a].id # 0 /\ M[a].id \in 1 .. Len(L) /\ M[a].src # n
    <2>1. /\ w[a] \in 1 .. k /\ w[a] \in 1 .. Len(R[f])
          /\ ForMe(n, R[f][w[a]]) /\ M[a] = R[f][w[a]].m
      BY <1>1, <1>2, <1>5
    <2>2. M[a].type \in Kind
      BY <2>1 DEF ForMe
    <2>3. M[a].id # 0 /\ M[a].src # n /\ M[a].id <= Len(L)
      BY <2>1, <2>2, <1>4 DEF Waiting
    <2>4. M[a].id \in Nat
      <3>1. M[a] \in Message
        BY <1>2, ElementOfSeq
      <3>2. \A m \in Message : m.id \in 0 .. MaxSend
        BY DEF Message
      <3>3. QED
        BY <3>1, <3>2, ChannelAssumption
    <2>5. QED
      BY <2>1, <2>3, <2>4, <1>5
  <1>10. Lengths(Q)
    <2> SUFFICES ASSUME NEW g \in Freq, NEW i \in 1 .. Len(Q[g])
                 PROVE  /\ Q[g][i].left \in 1 .. MsgLen(Q[g][i].m)
                        /\ i > 1 => Q[g][i].left = MsgLen(Q[g][i].m)
      BY DEF Lengths
    <2>1. CASE g = f
      BY <2>1, <1>3, <1>6
    <2>2. CASE g # f
      BY <2>2, <1>4, <1>6 DEF Lengths
    <2>3. QED
      BY <2>1, <2>2
  <1>11. Waiting(n, Q, L)
    <2> HIDE DEF Old
    <2>1. QED
      BY <1>8, <1>4 DEF Waiting
  <1>12. Arrived(n, H, L)
    <2> SUFFICES ASSUME NEW i \in 1 .. Len(H)
                 PROVE  /\ H[i].id \in 1 .. Len(L)
                        /\ H[i].dst \in {n, Broadcast} /\ H[i].src # n
                        /\ H[i].tek = Tek[n]
      BY DEF Arrived
    <2>1. CASE i \in 1 .. Len(G)
      BY <2>1, <1>4, <1>7 DEF Arrived
    <2>2. CASE i - Len(G) \in 1 .. Len(M)
      <3>1. H[i] = M[i - Len(G)]
        <4>1. Len(G) + (i - Len(G)) = i
          BY <1>5
        <4>2. QED
          BY <4>1, <2>2, <1>7
      <3>2. QED
        BY <3>1, <2>2, <1>9 DEF ForMe
    <2>3. QED
      BY <2>1, <2>2, <1>7
  <1>13. OncePending(Q)
    <2> SUFFICES ASSUME NEW g \in Freq, NEW h \in Freq,
                        NEW i \in 1 .. Len(Q[g]), NEW j \in 1 .. Len(Q[h]),
                        Q[g][i].m.id # 0, Q[g][i].m.id = Q[h][j].m.id
                 PROVE  g = h /\ i = j
      BY DEF OncePending
    <2>1. g = h /\ Old(g, i) = Old(h, j)
      <3> HIDE DEF Old
      <3>1. Old(g, i) \in 1 .. Len(R[g]) /\ Q[g][i].m = R[g][Old(g, i)].m
        BY <1>8
      <3>2. Old(h, j) \in 1 .. Len(R[h]) /\ Q[h][j].m = R[h][Old(h, j)].m
        BY <1>8
      <3>3. QED
        BY <3>1, <3>2, <1>4 DEF OncePending
    <2>2. i \in Nat /\ j \in Nat /\ k \in Nat
      BY <1>2, <1>5
    <2>3. QED
      BY <2>1, <2>2
  <1>14. NotBoth(Q, H)
    <2> SUFFICES ASSUME NEW g \in Freq, NEW i \in 1 .. Len(Q[g]), NEW j \in 1 .. Len(H)
                 PROVE  Q[g][i].m.id # H[j].id
      BY DEF NotBoth
    <2>1. CASE j \in 1 .. Len(G)
      <3> HIDE DEF Old
      <3>1. Old(g, i) \in 1 .. Len(R[g]) /\ Q[g][i].m = R[g][Old(g, i)].m
        BY <1>8
      <3>2. H[j] = G[j]
        BY <2>1, <1>7
      <3>3. QED
        BY <2>1, <3>1, <3>2, <1>4 DEF NotBoth
    <2>2. CASE j - Len(G) \in 1 .. Len(M)
      <3> DEFINE a == j - Len(G)
      <3>1. H[j] = M[a]
        <4>1. Len(G) + (j - Len(G)) = j
          BY <1>5
        <4>2. QED
          BY <4>1, <2>2, <1>7
      <3>2. SUFFICES ASSUME Q[g][i].m.id = M[a].id PROVE FALSE
        BY <3>1
      <3> HIDE DEF a
      <3>3. a \in 1 .. Len(M)
        BY <2>2 DEF a
      <3>4. g = f /\ Old(g, i) = w[a]
        <4> HIDE DEF Old
        <4> DEFINE o == Old(g, i)
                   v == w[a]
        <4>1. o \in 1 .. Len(R[g]) /\ Q[g][i].m = R[g][o].m
          BY <1>8
        <4>2. v \in 1 .. Len(R[f]) /\ M[a] = R[f][v].m /\ M[a].id # 0
          BY <3>3, <1>9
        <4> HIDE DEF o, v
        <4>3. R[g][o].m.id = R[f][v].m.id /\ R[g][o].m.id # 0
          BY <3>2, <4>1, <4>2
        <4>4. g = f /\ o = v
          BY <4>1, <4>2, <4>3, <1>4 DEF OncePending
        <4>5. QED
          BY <4>4 DEF o, v
      <3>5. i + k \in 1 .. k /\ i \in Nat /\ i > 0 /\ k \in Nat
        BY <3>3, <3>4, <1>2, <1>5, <1>9
      <3>6. QED
        BY <3>5
    <2>3. QED
      BY <2>1, <2>2, <1>7
  <1>15. OnceTaken(H)
    <2>1. \A i \in 1 .. Len(G), a \in 1 .. Len(M) : G[i].id # M[a].id
      BY <1>4, <1>9 DEF NotBoth
    <2>2. ASSUME NEW a \in 1 .. Len(M), NEW c \in 1 .. Len(M), M[a].id = M[c].id PROVE a = c
      <3>1. R[f][w[a]].m.id # 0 /\ R[f][w[a]].m.id = R[f][w[c]].m.id
        BY <2>2, <1>9
      <3>2. w[a] = w[c]
        BY <3>1, <1>4, <1>9 DEF OncePending
      <3>3. QED
        BY <3>2, <1>1
    <2> SUFFICES ASSUME NEW i \in 1 .. Len(H), NEW j \in 1 .. Len(H), H[i].id = H[j].id
                 PROVE  i = j
      BY DEF OnceTaken
    <2>3. \A x \in 1 .. Len(H) : x - Len(G) \in 1 .. Len(M) => H[x] = M[x - Len(G)]
      <3> TAKE x \in 1 .. Len(H)
      <3> HAVE x - Len(G) \in 1 .. Len(M)
      <3>1. Len(G) + (x - Len(G)) = x
        BY <1>5
      <3>2. QED
        BY <3>1, <1>7
    <2>4. CASE i \in 1 .. Len(G) /\ j \in 1 .. Len(G)
      <3>1. H[i] = G[i] /\ H[j] = G[j]
        BY <2>4, <1>7
      <3>2. QED
        BY <2>4, <3>1, <1>4 DEF OnceTaken
    <2>5. CASE i \in 1 .. Len(G) /\ j - Len(G) \in 1 .. Len(M)
      <3>1. H[i] = G[i] /\ H[j] = M[j - Len(G)]
        BY <2>5, <2>3, <1>7
      <3>2. QED
        BY <2>5, <3>1, <2>1
    <2>6. CASE i - Len(G) \in 1 .. Len(M) /\ j \in 1 .. Len(G)
      <3>1. H[i] = M[i - Len(G)] /\ H[j] = G[j]
        BY <2>6, <2>3, <1>7
      <3>2. QED
        BY <2>6, <3>1, <2>1
    <2>7. CASE i - Len(G) \in 1 .. Len(M) /\ j - Len(G) \in 1 .. Len(M)
      <3>1. i - Len(G) = j - Len(G)
        BY <2>7, <2>2, <2>3
      <3>2. QED
        BY <3>1, <1>5
    <2>8. QED
      BY <2>4, <2>5, <2>6, <2>7, <1>7
  <1>16. Aligned(Q, D)
    BY <1>4, <1>6 DEF Aligned
  <1>17. Kept(n, Q, H, D, L)
    <2> SUFFICES ASSUME NEW x \in 1 .. Len(L),
                        L[x].m.src # n, ForMe(n, L[x]), ~L[x].dropped, ~D
                 PROVE  Present(L[x].m, Q, H)
      BY DEF Kept
    <2>1. ~C /\ Present(L[x].m, R, G)
      BY <1>4 DEF Kept
    <2>2. CASE \E j \in 1 .. Len(G) : G[j] = L[x].m
      <3>1. PICK j \in 1 .. Len(G) : G[j] = L[x].m
        BY <2>2
      <3>2. j \in 1 .. Len(H) /\ H[j] = L[x].m
        BY <3>1, <1>5, <1>7
      <3>3. QED
        BY <3>2 DEF Present
    <2>3. CASE \E g \in Freq : \E i \in 1 .. Len(R[g]) : R[g][i].m = L[x].m
      <3>0. PICK g \in Freq : \E i \in 1 .. Len(R[g]) : R[g][i].m = L[x].m
        BY <2>3
      <3>1. PICK i \in 1 .. Len(R[g]) : R[g][i].m = L[x].m
        BY <3>0
      <3>2. CASE g # f
        BY <3>1, <3>2, <1>6 DEF Present
      <3>3. CASE g = f /\ i > k
        <4>1. i - k \in 1 .. Len(Q[f]) /\ (i - k) + k = i
          BY <3>1, <3>3, <1>2, <1>5, <1>6
        <4>2. Q[f][i - k].m = L[x].m
          BY <4>1, <3>1, <3>3, <1>3, <1>6
        <4>3. QED
          BY <4>1, <4>2 DEF Present
      <3>4. CASE g = f /\ ~(i > k)
        <4>1. i \in 1 .. k
          BY <3>4, <1>2, <1>5
        <4>2. ~Inside(R[f])
          BY <2>1, <1>4 DEF Aligned
        <4>3. ForMe(n, R[f][i])
          BY <3>1, <3>4 DEF ForMe
        <4>4. PICK a \in 1 .. Len(M) : w[a] = i
          BY <4>1, <4>2, <4>3, <1>1
        <4>5. Len(G) + a \in 1 .. Len(H) /\ H[Len(G) + a] = L[x].m
          BY <4>4, <3>1, <3>4, <1>7, <1>9
        <4>6. QED
          BY <4>5 DEF Present
      <3>5. QED
        BY <3>2, <3>3, <3>4
    <2>4. QED
      BY <2>1, <2>2, <2>3 DEF Present
  <1>18. D \in BOOLEAN
    BY <1>4
  <1> HIDE DEF D
  <1>19. SeenBy(n, Q, H, D, L)
    BY <1>6, <1>7, <1>18, <1>10, <1>11, <1>12, <1>13, <1>14, <1>15, <1>16, <1>17 DEF SeenBy
  <1>20. QED
    BY <1>19 DEF Q, H, D, M

\* The log K goes on from L; every new entry is of message m.
Extends(K, L, m) ==
    /\ K \in Seq(Logged) /\ Len(K) >= Len(L)
    /\ \A i \in 1 .. Len(L) : K[i] = L[i]
    /\ \A i \in 1 .. Len(K) : i \notin 1 .. Len(L) => K[i].m = m

\* A message of another radio reaches the buffer of a frequency.
Heard(R, f, m) == [R EXCEPT ![f] = Append(@, [m |-> m, left |-> MsgLen(m)])]

\* A message that is new or a beacon keeps what one radio sees in order.
LEMMA HearKeeps ==
  ASSUME NEW n, NEW R, NEW G, NEW C, NEW L, NEW K, NEW f \in Freq, NEW m \in Message,
         L \in Seq(Logged), SeenBy(n, R, G, C, L), Extends(K, L, m),
         m.id = 0 \/ m.id > Len(L), m.id <= Len(K),
         m.type \in Kind => m.id # 0 /\ m.src # n
  PROVE  SeenBy(n, Heard(R, f, m), G, C, K)
  <1> DEFINE e == [m |-> m, left |-> MsgLen(m)]
             N == Len(R[f])
             Q == Heard(R, f, m)
  <1>1. /\ R \in [Freq -> Seq(Entry)] /\ G \in Seq(Message) /\ C \in BOOLEAN
        /\ Lengths(R) /\ Waiting(n, R, L) /\ Arrived(n, G, L)
        /\ OncePending(R) /\ OnceTaken(G) /\ NotBoth(R, G)
        /\ Aligned(R, C) /\ Kept(n, R, G, C, L)
    BY DEF SeenBy
  <1>2. e \in Entry /\ e.m = m /\ e.left = MsgLen(m) /\ MsgLen(m) \in Nat /\ MsgLen(m) > 0
    BY MsgLenType DEF Entry
  <1>3. /\ Len(L) \in Nat /\ Len(K) \in Nat /\ N \in Nat /\ Len(K) >= Len(L)
        /\ m.id \in Nat
    <2>1. \A x \in Message : x.id \in 0 .. MaxSend
      BY DEF Message
    <2>2. R[f] \in Seq(Entry)
      BY <1>1
    <2>3. QED
      BY <2>1, <2>2, ChannelAssumption DEF Extends
  <1> HIDE DEF e
  <1>4. /\ Q[f] \in Seq(Entry) /\ Len(Q[f]) = N + 1 /\ Q[f][N + 1] = e
        /\ \A i \in 1 .. N : Q[f][i] = R[f][i]
        /\ \A g \in Freq : g # f => Q[g] = R[g]
        /\ Q \in [Freq -> Seq(Entry)]
    <2>1. R[f] \in Seq(Entry)
      BY <1>1
    <2>2. /\ Append(R[f], e) \in Seq(Entry) /\ Len(Append(R[f], e)) = N + 1
          /\ Append(R[f], e)[N + 1] = e
          /\ \A i \in 1 .. N : Append(R[f], e)[i] = R[f][i]
      BY <2>1, <1>2, <1>3, AppendProperties
    <2>3. Q = [R EXCEPT ![f] = Append(R[f], e)]
      BY DEF Heard, e
    <2> HIDE DEF Q
    <2>4. /\ Q[f] = Append(R[f], e) /\ \A g \in Freq : g # f => Q[g] = R[g]
          /\ Q \in [Freq -> Seq(Entry)]
      BY <2>2, <2>3, <1>1
    <2>5. QED
      BY <2>2, <2>4
  <1> HIDE DEF Q
  <1>5. ASSUME NEW g \in Freq, NEW i \in 1 .. Len(Q[g])
        PROVE  \/ g = f /\ i = N + 1 /\ Q[g][i] = e
               \/ i \in 1 .. Len(R[g]) /\ Q[g][i] = R[g][i]
    <2>1. CASE g = f
      BY <2>1, <1>3, <1>4
    <2>2. CASE g # f
      BY <2>2, <1>4
    <2>3. QED
      BY <2>1, <2>2
  <1>6. \A g \in Freq : \A i \in 1 .. Len(R[g]) : i \in 1 .. Len(Q[g]) /\ Q[g][i] = R[g][i]
    <2> TAKE g \in Freq
    <2> TAKE i \in 1 .. Len(R[g])
    <2>1. CASE g = f
      BY <2>1, <1>3, <1>4
    <2>2. CASE g # f
      BY <2>2, <1>4
    <2>3. QED
      BY <2>1, <2>2
  <1>7. \A g \in Freq : \A i \in 1 .. Len(R[g]) :
           R[g][i].m.id <= Len(L) /\ R[g][i].m.id \in Nat
    <2>1. \A x \in Entry : x.m.id \in Nat
      BY ChannelAssumption DEF Entry, Message
    <2>2. \A g \in Freq : \A i \in 1 .. Len(R[g]) : R[g][i] \in Entry
      BY <1>1, ElementOfSeq
    <2>3. QED
      BY <2>1, <2>2, <1>1 DEF Waiting
  <1>8. Lengths(Q)
    <2> SUFFICES ASSUME NEW g \in Freq, NEW i \in 1 .. Len(Q[g])
                 PROVE  /\ Q[g][i].left \in 1 .. MsgLen(Q[g][i].m)
                        /\ i > 1 => Q[g][i].left = MsgLen(Q[g][i].m)
      BY DEF Lengths
    <2>1. CASE Q[g][i] = e
      BY <2>1, <1>2
    <2>2. CASE i \in 1 .. Len(R[g]) /\ Q[g][i] = R[g][i]
      BY <2>2, <1>1 DEF Lengths
    <2>3. QED
      BY <2>1, <2>2, <1>5
  <1>9. Waiting(n, Q, K)
    <2> SUFFICES ASSUME NEW g \in Freq, NEW i \in 1 .. Len(Q[g])
                 PROVE  /\ Q[g][i].m.id <= Len(K)
                        /\ Q[g][i].m.type \in Kind => Q[g][i].m.id # 0 /\ Q[g][i].m.src # n
      BY DEF Waiting
    <2>1. CASE Q[g][i] = e
      BY <2>1, <1>2
    <2>2. CASE i \in 1 .. Len(R[g]) /\ Q[g][i] = R[g][i]
      <3>1. Q[g][i].m.id <= Len(K)
        BY <2>2, <1>3, <1>7
      <3>2. QED
        BY <3>1, <2>2, <1>1 DEF Waiting
    <2>3. QED
      BY <2>1, <2>2, <1>5
  <1>10. Arrived(n, G, K)
    <2>1. \A x \in 1 .. Len(L) : x \in 1 .. Len(K)
      BY <1>3
    <2>2. QED
      BY <2>1, <1>1 DEF Arrived
  <1>11. OncePending(Q)
    <2> SUFFICES ASSUME NEW g \in Freq, NEW h \in Freq,
                        NEW i \in 1 .. Len(Q[g]), NEW j \in 1 .. Len(Q[h]),
                        Q[g][i].m.id # 0, Q[g][i].m.id = Q[h][j].m.id
                 PROVE  g = h /\ i = j
      BY DEF OncePending
    <2>1. \A x \in Freq : \A y \in 1 .. Len(R[x]) : m.id # 0 => R[x][y].m.id # m.id
      BY <1>3, <1>7
    <2>2. CASE g = f /\ i = N + 1 /\ Q[g][i] = e
      <3>1. m.id # 0 /\ Q[h][j].m.id = m.id
        BY <2>2, <1>2
      <3>2. QED
        BY <3>1, <2>1, <2>2, <1>5
    <2>3. CASE i \in 1 .. Len(R[g]) /\ Q[g][i] = R[g][i]
      <3>1. CASE h = f /\ j = N + 1 /\ Q[h][j] = e
        BY <3>1, <2>1, <2>3, <1>2
      <3>2. CASE j \in 1 .. Len(R[h]) /\ Q[h][j] = R[h][j]
        BY <3>2, <2>3, <1>1 DEF OncePending
      <3>3. QED
        BY <3>1, <3>2, <1>5
    <2>4. QED
      BY <2>2, <2>3, <1>5
  <1>12. NotBoth(Q, G)
    <2> SUFFICES ASSUME NEW g \in Freq, NEW i \in 1 .. Len(Q[g]), NEW j \in 1 .. Len(G)
                 PROVE  Q[g][i].m.id # G[j].id
      BY DEF NotBoth
    <2>1. G[j].id \in 1 .. Len(L)
      BY <1>1 DEF Arrived
    <2>2. CASE Q[g][i] = e
      BY <2>1, <2>2, <1>2, <1>3
    <2>3. CASE i \in 1 .. Len(R[g]) /\ Q[g][i] = R[g][i]
      BY <2>3, <1>1 DEF NotBoth
    <2>4. QED
      BY <2>2, <2>3, <1>5
  <1>13. Aligned(Q, C)
    <2> SUFFICES ASSUME ~C, NEW g \in Freq PROVE ~Inside(Q[g])
      BY DEF Aligned
    <2>1. CASE g # f
      BY <2>1, <1>1, <1>4 DEF Aligned
    <2>2. CASE g = f /\ N = 0
      <3>1. Q[g][1] = e
        BY <2>2, <1>4
      <3>2. QED
        BY <3>1, <1>2 DEF Inside
    <2>3. CASE g = f /\ N # 0
      <3>1. 1 \in 1 .. N /\ R[f] # <<>>
        BY <2>3, <1>3
      <3>2. Q[g][1] = R[f][1]
        BY <3>1, <2>3, <1>4
      <3>3. ~(R[f][1].left < MsgLen(R[f][1].m))
        BY <3>1, <1>1 DEF Aligned, Inside
      <3>4. QED
        BY <3>2, <3>3 DEF Inside
    <2>4. QED
      BY <2>1, <2>2, <2>3
  <1>14. Kept(n, Q, G, C, K)
    <2> SUFFICES ASSUME NEW x \in 1 .. Len(K),
                        K[x].m.src # n, ForMe(n, K[x]), ~K[x].dropped, ~C
                 PROVE  Present(K[x].m, Q, G)
      BY DEF Kept
    <2>1. CASE x \in 1 .. Len(L)
      <3>1. K[x] = L[x]
        BY <2>1 DEF Extends
      <3>2. Present(L[x].m, R, G)
        BY <3>1, <2>1, <1>1 DEF Kept
      <3>3. QED
        BY <3>1, <3>2, <1>6 DEF Present
    <2>2. CASE x \notin 1 .. Len(L)
      <3>1. K[x].m = m
        BY <2>2 DEF Extends
      <3>2. N + 1 \in 1 .. Len(Q[f]) /\ Q[f][N + 1].m = m
        BY <1>2, <1>3, <1>4
      <3>3. QED
        BY <3>1, <3>2 DEF Present
    <2>3. QED
      BY <2>1, <2>2
  <1>15. QED
    BY <1>1, <1>4, <1>8, <1>9, <1>10, <1>11, <1>12, <1>13, <1>14 DEF SeenBy, Q

\* So does a message it does not hear, its own or one that was dropped.
LEMMA DeafKeeps ==
  ASSUME NEW n, NEW R, NEW G, NEW C, NEW L, NEW K, NEW m,
         L \in Seq(Logged), SeenBy(n, R, G, C, L), Extends(K, L, m),
         \A i \in 1 .. Len(K) : i \notin 1 .. Len(L) => K[i].dropped \/ m.src = n
  PROVE  SeenBy(n, R, G, C, K)
  <1>1. Len(L) \in Nat /\ Len(K) \in Nat /\ Len(K) >= Len(L)
    BY DEF Extends
  <1>2. R \in [Freq -> Seq(Entry)] /\ Waiting(n, R, L) /\ Arrived(n, G, L) /\ Kept(n, R, G, C, L)
    BY DEF SeenBy
  <1>3. Waiting(n, R, K)
    <2>1. \A x \in Entry : x.m.id \in Nat
      BY ChannelAssumption DEF Entry, Message
    <2>2. \A g \in Freq : \A i \in 1 .. Len(R[g]) : R[g][i] \in Entry
      BY <1>2, ElementOfSeq
    <2>3. \A g \in Freq : \A i \in 1 .. Len(R[g]) : R[g][i].m.id <= Len(K)
      BY <2>1, <2>2, <1>1, <1>2 DEF Waiting
    <2>4. QED
      BY <2>3, <1>2 DEF Waiting
  <1>4. Arrived(n, G, K)
    <2>1. \A x \in 1 .. Len(L) : x \in 1 .. Len(K)
      BY <1>1
    <2>2. QED
      BY <2>1, <1>2 DEF Arrived
  <1>5. Kept(n, R, G, C, K)
    BY <1>2 DEF Kept, Extends
  <1>6. QED
    BY <1>3, <1>4, <1>5 DEF SeenBy

-----------------------------------------------------------------------------
(* The steps.                                                               *)

\* Every frame's hop is a frequency of the channel.
LEMMA HopFreq == \A n \in Node, f \in Frames : Hop[n][f] \in Freq /\ kDiscoveryFreq \in Freq
  BY DEF Freq

\* An empty channel.
LEMMA InitIInv == Init => IInv
  <1> SUFFICES ASSUME Init PROVE IInv
    OBVIOUS
  <1>1. /\ started \in [Node -> BOOLEAN]
        /\ known \in [Node -> SUBSET (Node \union {Phantom})]
        /\ frame \in [Node -> Frames]
        /\ partition \in BOOLEAN /\ odd \in BOOLEAN
        /\ log \in Seq(Logged) /\ Len(log) <= MaxSend
        /\ rx \in [Node -> [Freq -> Seq(Entry)]]
        /\ got \in [Node -> Seq(Message)]
        /\ cut \in [Node -> BOOLEAN]
    <2>1. started \in [Node -> BOOLEAN] /\ cut \in [Node -> BOOLEAN]
      BY DEF Init
    <2>2. partition \in BOOLEAN /\ odd \in BOOLEAN
      BY DEF Init
    <2>3. frame \in [Node -> Frames]
      BY ChannelAssumption DEF Init, Frames
    <2>4. known \in [Node -> SUBSET (Node \union {Phantom})]
      BY DEF Init
    <2>5. log \in Seq(Logged) /\ Len(log) <= MaxSend
      BY ChannelAssumption DEF Init
    <2>6. rx \in [Node -> [Freq -> Seq(Entry)]]
      BY DEF Init
    <2>7. got \in [Node -> Seq(Message)]
      BY DEF Init
    <2>8. QED
      BY <2>1, <2>2, <2>3, <2>4, <2>5, <2>6, <2>7
  <1>2. ASSUME NEW n \in Node PROVE SeenBy(n, rx[n], got[n], cut[n], log)
    <2>1. /\ rx[n] = [f \in Freq |-> <<>>] /\ got[n] = <<>> /\ cut[n] = FALSE /\ log = <<>>
      BY DEF Init
    <2>2. /\ \A f \in Freq : rx[n][f] = <<>> /\ Len(rx[n][f]) = 0
          /\ Len(got[n]) = 0 /\ Len(log) = 0
      BY <2>1
    <2>3. \A x : x \notin 1 .. 0
      OBVIOUS
    <2>4. /\ Lengths(rx[n]) /\ Waiting(n, rx[n], log) /\ OncePending(rx[n])
          /\ NotBoth(rx[n], got[n])
      BY <2>2, <2>3, Zenon DEF Lengths, Waiting, OncePending, NotBoth
    <2>5. Arrived(n, got[n], log) /\ OnceTaken(got[n]) /\ Kept(n, rx[n], got[n], cut[n], log)
      BY <2>2, <2>3, Zenon DEF Arrived, OnceTaken, Kept
    <2>6. Aligned(rx[n], cut[n])
      BY <2>2 DEF Aligned, Inside
    <2>7. QED
      BY <2>4, <2>5, <2>6, <1>1 DEF SeenBy
  <1>3. QED
    BY <1>1, <1>2 DEF IInv

\* Nothing that SeenBy looks at changes.
LEMMA StillSeen ==
  ASSUME IInv, UNCHANGED <<rx, got, cut, log>>
  PROVE  /\ log' \in Seq(Logged) /\ Len(log') <= MaxSend
         /\ rx' \in [Node -> [Freq -> Seq(Entry)]]
         /\ got' \in [Node -> Seq(Message)]
         /\ cut' \in [Node -> BOOLEAN]
         /\ \A n \in Node : SeenBy(n, rx'[n], got'[n], cut'[n], log')
  BY DEF IInv

\* The buffers of another radio after n has transmitted m.
LEMMA TransmitOther ==
  ASSUME NEW n \in Node, NEW r \in Node, r # n, NEW f, NEW m
  PROVE  Transmit(rx, n, f, m)[r] = IF Dropped THEN rx[r] ELSE Heard(rx[r], f, m)
  BY DEF Transmit, Heard

\* A beacon is a message that is not logged.
LEMMA BeaconMessage ==
  ASSUME NEW n \in Node
  PROVE  Beacon(n) \in Message /\ Beacon(n).id = 0 /\ Beacon(n).type \notin Kind
  <1>1. 0 \in 0 .. MaxSend
    BY ChannelAssumption
  <1>2. QED
    BY <1>1 DEF Beacon, Message, Kind

\* tick() in what the other radios see: at most a beacon more.
LEMMA TickOther ==
  ASSUME IInv, NEW n \in Node, tick(n), NEW r \in Node, r # n
  PROVE  SeenBy(r, rx'[r], got'[r], cut'[r], log')
  <1>1. /\ SeenBy(r, rx[r], got[r], cut[r], log) /\ log \in Seq(Logged)
        /\ got \in [Node -> Seq(Message)] /\ cut \in [Node -> BOOLEAN]
    BY DEF IInv
  <1>2. got'[r] = got[r] /\ cut'[r] = cut[r] /\ log' = log
    BY <1>1 DEF tick
  <1>3. rx'[r] = Transmit(rx, n, kDiscoveryFreq, Beacon(n))[r]
    BY DEF tick
  <1>4. rx'[r] = IF Dropped THEN rx[r] ELSE Heard(rx[r], kDiscoveryFreq, Beacon(n))
    BY <1>3, TransmitOther
  <1>5. SeenBy(r, Heard(rx[r], kDiscoveryFreq, Beacon(n)), got[r], cut[r], log)
    <2>1. Extends(log, log, Beacon(n)) /\ Len(log) \in Nat
      BY <1>1 DEF Extends
    <2>2. kDiscoveryFreq \in Freq
      BY DEF Freq
    <2>3. Beacon(n) \in Message /\ Beacon(n).id = 0 /\ Beacon(n).type \notin Kind
      BY BeaconMessage
    <2>4. Beacon(n).id <= Len(log)
      BY <2>1, <2>3
    <2>5. QED
      BY <1>1, <2>1, <2>2, <2>3, <2>4, HearKeeps
  <1>6. QED
    BY <1>1, <1>2, <1>4, <1>5

\* tick() in what the radio itself sees: two reads, one after the other, also
\* when both are on the discovery frequency.
LEMMA TickSelf ==
  ASSUME IInv, NEW n \in Node, tick(n)
  PROVE  /\ SeenBy(n, rx'[n], got'[n], cut'[n], log')
         /\ known' \in [Node -> SUBSET (Node \union {Phantom})]
         /\ got' \in [Node -> Seq(Message)]
  <1> DEFINE hop  == Hop[n][frame[n]]
             bufd == rx[n][kDiscoveryFreq]
             once == [rx[n] EXCEPT ![kDiscoveryFreq] = Rest(bufd)]
             bufh == once[hop]
  <1>1. /\ SeenBy(n, rx[n], got[n], cut[n], log) /\ log \in Seq(Logged)
        /\ got \in [Node -> Seq(Message)] /\ cut \in [Node -> BOOLEAN]
        /\ rx \in [Node -> [Freq -> Seq(Entry)]]
        /\ frame[n] \in Frames
        /\ known \in [Node -> SUBSET (Node \union {Phantom})]
    BY DEF IInv
  <1>2. hop \in Freq /\ kDiscoveryFreq \in Freq
    BY <1>1, HopFreq
  <1>3. PICK pd \in Parses(bufd), ph \in Parses(bufh), ghost \in Ghosts(bufd) :
           /\ known' = [known EXCEPT ![n] = @ \union BeaconsIn(n, pd) \union ghost]
           /\ got' = [got EXCEPT ![n] = @ \o (Mine(n, pd) \o Mine(n, ph))]
    BY DEF tick
  <1>4. /\ rx'[n] = [once EXCEPT ![hop] = Rest(bufh)]
        /\ cut'[n] = ((cut[n] \/ Inside(Rest(bufd))) \/ Inside(Rest(bufh)))
        /\ log' = log
    <2>1. DOMAIN Transmit(rx, n, kDiscoveryFreq, Beacon(n)) = Node
      BY <1>1 DEF Transmit
    <2>2. QED
      BY <2>1, <1>1 DEF tick
  <1> DEFINE G1 == got[n] \o Mine(n, pd)
             C1 == cut[n] \/ Inside(Rest(bufd))
  <1>5. SeenBy(n, once, G1, C1, log)
    BY <1>1, <1>2, ReadKeeps
  <1>6. SeenBy(n, [once EXCEPT ![hop] = Rest(bufh)], G1 \o Mine(n, ph),
               C1 \/ Inside(Rest(bufh)), log)
    <2> HIDE DEF once, G1, C1, hop
    <2>1. QED
      BY <1>1, <1>2, <1>5, ReadKeeps
  <1>7. Mine(n, pd) \in Seq(Message) /\ pd \in Seq(Entry)
    <2>1. bufd \in Seq(Entry)
      BY <1>1, <1>2
    <2> HIDE DEF bufd
    <2>2. pd \in Seq(Entry)
      BY <2>1, <1>3, ParseDef
    <2>3. QED
      BY <2>2, MineDef DEF Picks
  <1>8. Mine(n, ph) \in Seq(Message)
    <2>1. once \in [Freq -> Seq(Entry)]
      BY <1>5 DEF SeenBy
    <2>2. bufh \in Seq(Entry)
      BY <2>1, <1>2
    <2> HIDE DEF bufh
    <2>3. ph \in Seq(Entry)
      BY <2>2, <1>3, ParseDef
    <2>4. QED
      BY <2>3, MineDef DEF Picks
  <1>9. got'[n] = G1 \o Mine(n, ph) /\ got' \in [Node -> Seq(Message)]
    <2>1. got[n] \in Seq(Message)
      BY <1>1
    <2>2. got[n] \o (Mine(n, pd) \o Mine(n, ph)) = G1 \o Mine(n, ph)
      <3>1. \A s, t, u \in Seq(Message) : s \o (t \o u) = (s \o t) \o u
        BY ConcatAssociative
      <3>2. QED
        BY ONLY <3>1, <2>1, <1>7, <1>8, Zenon
    <2>3. got[n] \o (Mine(n, pd) \o Mine(n, ph)) \in Seq(Message)
      BY <2>1, <1>7, <1>8, ConcatProperties
    <2>4. QED
      BY <2>2, <2>3, <1>1, <1>3
  <1>10. SeenBy(n, rx'[n], got'[n], cut'[n], log')
    <2> HIDE DEF once, bufd, bufh, hop, G1
    <2>1. QED
      BY <1>4, <1>6, <1>9
  <1>11. known' \in [Node -> SUBSET (Node \union {Phantom})]
    <2>1. BeaconsIn(n, pd) \subseteq Node
      <3>1. \A e \in Range(pd) : e \in Entry
        BY <1>7, ElementOfSeq DEF Range
      <3>2. \A e \in Entry : e.m.src \in Node
        BY DEF Entry, Message
      <3>3. QED
        BY <3>1, <3>2 DEF BeaconsIn
    <2>2. ghost \subseteq {Phantom}
      BY <1>3 DEF Ghosts
    <2>3. QED
      BY <2>1, <2>2, <1>1, <1>3
  <1>12. QED
    BY <1>9, <1>10, <1>11

\* tick() keeps the invariant.
LEMMA TickIInv == ASSUME IInv, NEW n \in Node, tick(n) PROVE IInv'
  <1>1. \A r \in Node : SeenBy(r, rx'[r], got'[r], cut'[r], log')
    <2> TAKE r \in Node
    <2>1. CASE r = n
      BY <2>1, TickSelf
    <2>2. CASE r # n
      BY <2>2, TickOther
    <2>3. QED
      BY <2>1, <2>2
  <1>2. /\ started' \in [Node -> BOOLEAN]
        /\ partition' \in BOOLEAN /\ odd' \in BOOLEAN
        /\ log' \in Seq(Logged) /\ Len(log') <= MaxSend
    BY DEF IInv, tick
  <1>3. frame' \in [Node -> Frames]
    <2>1. frame' = [frame EXCEPT ![n] = (frame[n] + 1) % (MaxFrame + 1)]
      BY DEF tick
    <2>2. frame \in [Node -> Frames] /\ MaxFrame \in Nat
      BY ChannelAssumption DEF IInv
    <2>3. (frame[n] + 1) % (MaxFrame + 1) \in 0 .. MaxFrame
      <3>1. frame[n] \in Nat
        BY <2>2 DEF Frames
      <3>2. QED
        BY <3>1, <2>2
    <2>4. QED
      BY <2>1, <2>2, <2>3 DEF Frames
  <1>4. rx' \in [Node -> [Freq -> Seq(Entry)]]
    <2>1. \A r \in Node : rx'[r] \in [Freq -> Seq(Entry)]
      BY <1>1 DEF SeenBy
    <2>2. DOMAIN rx' = Node /\ rx' = [r \in DOMAIN rx' |-> rx'[r]]
      <3> DEFINE air == Transmit(rx, n, kDiscoveryFreq, Beacon(n))
      <3>1. DOMAIN air = Node
        BY DEF Transmit, IInv
      <3>2. \E x : rx' = [air EXCEPT ![n] = x]
        BY DEF tick
      <3> HIDE DEF air
      <3>3. QED
        BY <3>1, <3>2
    <2>3. QED
      BY <2>1, <2>2
  <1>5. cut' \in [Node -> BOOLEAN]
    BY DEF IInv, tick, Inside
  <1>6. known' \in [Node -> SUBSET (Node \union {Phantom})] /\ got' \in [Node -> Seq(Message)]
    BY TickSelf
  <1>7. QED
    BY <1>1, <1>2, <1>3, <1>4, <1>5, <1>6 DEF IInv

\* The message of a send() is new: its number is one beyond the log.
LEMMA SendIInv ==
  ASSUME IInv, NEW n \in Node, NEW dest \in Node \union {Broadcast}, NEW kind \in Kind,
         send(n, dest, kind)
  PROVE  IInv'
  <1> DEFINE m == [type |-> kind, src |-> n, dst |-> dest, tek |-> Tek[n], id |-> Len(log) + 1]
             hop == Hop[n][frame[n]]
             e == [m |-> m, dropped |-> Dropped]
  <1>1. /\ log \in Seq(Logged) /\ Len(log) \in Nat /\ MaxSend \in Nat
        /\ got \in [Node -> Seq(Message)] /\ cut \in [Node -> BOOLEAN]
        /\ rx \in [Node -> [Freq -> Seq(Entry)]]
        /\ frame[n] \in Frames
    BY ChannelAssumption DEF IInv
  <1>2. /\ Len(log) < MaxSend
        /\ rx' = Transmit(rx, n, hop, m)
        /\ log' = Append(log, e)
        /\ UNCHANGED <<started, known, frame, partition, cut, got>>
        /\ odd' = (partition /\ ~odd)
    BY DEF send, node
  <1>3. m \in Message
    <2>1. Len(log) + 1 \in 0 .. MaxSend
      BY <1>1, <1>2
    <2>2. Tek[n] \in {Tek[r] : r \in Node} \union {0}
      OBVIOUS
    <2>3. QED
      BY <2>1, <2>2 DEF Message
  <1>4. m.id = Len(log) + 1 /\ m.src = n
    OBVIOUS
  <1>5. e \in Logged /\ e.m = m /\ e.dropped = Dropped
    BY <1>3 DEF Logged, Dropped
  <1>6. hop \in Freq
    BY <1>1, HopFreq
  <1> HIDE DEF m, e, hop
  <1>7. /\ log' \in Seq(Logged) /\ Len(log') = Len(log) + 1 /\ log'[Len(log) + 1] = e
        /\ \A i \in 1 .. Len(log) : log'[i] = log[i]
    BY <1>1, <1>2, <1>5, AppendProperties
  <1>8. \A i \in 1 .. Len(log') : i \notin 1 .. Len(log) => log'[i] = e
    BY <1>1, <1>7
  <1>9. Extends(log', log, m)
    BY <1>1, <1>5, <1>7, <1>8 DEF Extends
  <1>10. ASSUME NEW r \in Node PROVE SeenBy(r, rx'[r], got'[r], cut'[r], log')
    <2>1. SeenBy(r, rx[r], got[r], cut[r], log) /\ got'[r] = got[r] /\ cut'[r] = cut[r]
      BY <1>2 DEF IInv
    <2>2. CASE r = n
      <3>1. rx'[r] = rx[r]
        BY <2>2, <1>2 DEF Transmit
      <3>2. SeenBy(r, rx[r], got[r], cut[r], log')
        BY <2>1, <2>2, <1>1, <1>4, <1>9, DeafKeeps
      <3>3. QED
        BY <3>1, <3>2, <2>1
    <2>3. CASE r # n /\ Dropped
      <3>1. rx'[r] = rx[r]
        BY <2>3, <1>2 DEF Transmit
      <3>2. \A i \in 1 .. Len(log') : i \notin 1 .. Len(log) => log'[i].dropped
        BY <2>3, <1>5, <1>8
      <3>3. SeenBy(r, rx[r], got[r], cut[r], log')
        BY <2>1, <3>2, <1>1, <1>9, DeafKeeps
      <3>4. QED
        BY <3>1, <3>3, <2>1
    <2>4. CASE r # n /\ ~Dropped
      <3>1. rx'[r] = Heard(rx[r], hop, m)
        BY <2>4, <1>2, TransmitOther
      <3>2. m.id > Len(log) /\ m.id <= Len(log') /\ m.id # 0 /\ m.src # r
        BY <2>4, <1>1, <1>4, <1>7
      <3>3. SeenBy(r, Heard(rx[r], hop, m), got[r], cut[r], log')
        BY <2>1, <3>2, <1>1, <1>3, <1>6, <1>9, HearKeeps
      <3>4. QED
        BY <3>1, <3>3, <2>1
    <2>5. QED
      BY <2>2, <2>3, <2>4
  <1>11. rx' \in [Node -> [Freq -> Seq(Entry)]]
    <2>1. \A r \in Node : rx'[r] \in [Freq -> Seq(Entry)]
      BY <1>10 DEF SeenBy
    <2>2. CASE Dropped
      BY <2>2, <1>1, <1>2 DEF Transmit
    <2>3. CASE ~Dropped
      <3>1. DOMAIN rx' = Node /\ rx' = [r \in DOMAIN rx' |-> rx'[r]]
        BY <2>3, <1>2 DEF Transmit
      <3>2. QED
        BY <3>1, <2>1
    <2>4. QED
      BY <2>2, <2>3
  <1>12. Len(log') <= MaxSend
    BY <1>1, <1>2, <1>7
  <1>13. QED
    BY <1>1, <1>2, <1>7, <1>10, <1>11, <1>12 DEF IInv

\* IInv is inductive.
LEMMA StepIInv == IInv /\ [Next]_vars => IInv'
  <1> SUFFICES ASSUME IInv, [Next]_vars PROVE IInv'
    OBVIOUS
  <1>1. ASSUME NEW n \in Node, start(n) PROVE IInv'
    <2>1. UNCHANGED <<known, frame, rx, partition, odd, cut, log, got>>
      BY <1>1 DEF start
    <2>2. started' \in [Node -> BOOLEAN]
      BY <1>1 DEF start, IInv
    <2>3. QED
      BY <2>1, <2>2, StillSeen DEF IInv
  <1>2. ASSUME NEW n \in Node, tick(n) PROVE IInv'
    BY <1>2, TickIInv
  <1>3. ASSUME NEW n \in Node, NEW t \in Traffic, send(n, t[2], t[1]) PROVE IInv'
    <2>1. t[1] \in Kind /\ t[2] \in Node \union {Broadcast}
      BY TrafficAssumption
    <2>2. QED
      BY <1>3, <2>1, SendIInv
  <1>4. ASSUME NEW n \in Node, NEW k \in Kind, receive(n, k) PROVE IInv'
    <2>1. UNCHANGED <<started, known, frame, rx, partition, odd, cut, log, got>>
      BY <1>4 DEF receive, node
    <2>2. QED
      BY <2>1, StillSeen DEF IInv
  <1>5. ASSUME NEW active \in BOOLEAN, set_partition_active(active) PROVE IInv'
    <2>1. UNCHANGED <<started, known, frame, rx, cut, log, got>>
      BY <1>5 DEF set_partition_active, node
    <2>2. partition' \in BOOLEAN /\ odd' \in BOOLEAN
      BY <1>5 DEF set_partition_active
    <2>3. QED
      BY <2>1, <2>2, StillSeen DEF IInv
  <1>6. CASE UNCHANGED vars
    <2>1. UNCHANGED <<started, known, frame, rx, partition, odd, cut, log, got>>
      BY <1>6 DEF vars, node
    <2>2. QED
      BY <2>1, StillSeen DEF IInv
  <1>7. QED
    BY <1>1, <1>2, <1>3, <1>4, <1>5, <1>6 DEF Next

\* IInv holds throughout, whatever the fairness.
LEMMA Always == Spec => []IInv
  BY InitIInv, StepIInv, PTL DEF Spec

\* Type correctness: in particular a message in a buffer is never cut to
\* nothing, and only the first one of a buffer can be cut at all.
THEOREM RadioTypeCorrect == Spec => []TypeOK
  <1>1. IInv => TypeOK
    <2> SUFFICES ASSUME IInv PROVE TypeOK
      OBVIOUS
    <2>1. ASSUME NEW n \in Node, NEW f \in Freq, NEW i \in 1 .. Len(rx[n][f])
          PROVE  /\ rx[n][f][i].m \in Message
                 /\ rx[n][f][i].left \in 1 .. MsgLen(rx[n][f][i].m)
                 /\ i > 1 => rx[n][f][i].left = MsgLen(rx[n][f][i].m)
      <3>1. rx[n][f] \in Seq(Entry) /\ Lengths(rx[n])
        BY DEF IInv, SeenBy
      <3>2. rx[n][f][i] \in Entry
        BY <3>1, ElementOfSeq
      <3>3. QED
        BY <3>1, <3>2 DEF Entry, Lengths
    <2>2. QED
      BY <2>1 DEF IInv, TypeOK
  <1>2. QED
    BY <1>1, Always, PTL

\* What reaches an inbox was sent to this radio by another one of the same net,
\* and no message reaches it twice: for any radios, hop sequences, lengths and
\* cuts in the sample stream.
THEOREM RadioDeliveredOnce == Spec => []DeliveredOnce
  <1>1. IInv => DeliveredOnce
    BY DEF IInv, SeenBy, Arrived, OnceTaken, DeliveredOnce
  <1>2. QED
    BY <1>1, Always, PTL

\* A message the partition did not drop is in the inbox or still waits in the
\* channel, as long as no read of its receiver has cut a message.
THEOREM RadioNothingVanishes == Spec => []NothingVanishes
  <1>1. IInv => NothingVanishes
    <2> SUFFICES ASSUME IInv, NEW n \in Node, NEW i \in 1 .. Len(log),
                        log[i].m.src # n, ForMe(n, log[i]), ~log[i].dropped, ~cut[n]
                 PROVE  \/ \E j \in 1 .. Len(got[n]) : got[n][j] = log[i].m
                        \/ \E f \in Freq : \E e \in Range(rx[n][f]) : e.m = log[i].m
      BY DEF NothingVanishes
    <2>1. Present(log[i].m, rx[n], got[n]) /\ rx[n] \in [Freq -> Seq(Entry)]
      BY DEF IInv, SeenBy, Kept
    <2>2. \A f \in Freq : \A x \in 1 .. Len(rx[n][f]) : rx[n][f][x] \in Range(rx[n][f])
      BY <2>1 DEF Range
    <2>3. QED
      BY <2>1, <2>2 DEF Present
  <1>2. QED
    BY <1>1, Always, PTL
=============================================================================
