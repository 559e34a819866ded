------------------------------ MODULE RadioNet ------------------------------
(***************************************************************************)
(* Radios on one simulated channel: RadioNode (software/src/node), the     *)
(* peer discovery it runs, SimRadioHal and SimChannel (software/src/hal).  *)
(*                                                                         *)
(* SimChannel keeps, for each radio and frequency, the samples sent and    *)
(* not yet read.  A sample carries one byte, and a read takes at most Cap  *)
(* of them, message boundaries or not.  Here a buffer is a sequence of     *)
(* messages, each with the number of its cells still to be read.           *)
(*                                                                         *)
(* A tick() is one step: radios share only the channel, whose operations   *)
(* are atomic, and the tests call tick() from one thread.                  *)
(***************************************************************************)
EXTENDS Integers, Sequences, Functions

CONSTANTS
    Node,        \* the radios on the channel
    Phantom,     \* an identifier that is no radio's
    Tek,         \* Tek[n]: the TEK radio n is provisioned with
    Hop,         \* Hop[n][f]: channel of frame f under n's FHEK
    MaxFrame,    \* frame numbers are 0 .. MaxFrame and wrap (2^32 - 1)
    Cap,         \* cells one read takes (4096)
    BeaconLen,   \* cells of a beacon
    DataLen,     \* cells of a data or voice message
    Traffic,     \* what is sent: pairs of a kind and a destination
    MaxSend,     \* bound: data and voice messages sent
    MaxLead      \* bound: MaxLead[n] beacons of radio n wait at another

\* A hop channel may be the discovery frequency: 300 MHz is on the hop grid.
ASSUME ChannelAssumption ==
    /\ {Cap, BeaconLen, DataLen} \subseteq Nat \ {0}
    /\ {MaxFrame, MaxSend} \subseteq Nat

VARIABLES
    started,     \* state_ # Idle; keys are loaded by start()
    known,       \* discovered_ of PeerDiscovery, and the router's neighbours
    frame,       \* frame_number_
    inbox,       \* data_inbox_ and voice_inbox_
    rx,          \* SimChannel::rx_buffers_
    partition,   \* partition_active_
    odd,         \* transmit_count_ is odd
    cut,         \* history: a read of this radio has cut a message
    log,         \* history: data and voice messages sent, and which were dropped
    got          \* history: those put in a radio's inbox, in order

node == <<started, known, frame>>
vars == <<node, inbox, rx, partition, odd, cut, log, got>>

Frames == 0 .. MaxFrame
kDiscoveryFreq == "discovery"
Freq == {kDiscoveryFreq} \union UNION {{Hop[n][f] : f \in Frames} : n \in Node}
Broadcast == "broadcast"
Kind == {"data", "voice"}

ASSUME TrafficAssumption == Traffic \subseteq Kind \X (Node \union {Broadcast})

MsgLen(m) == IF m.type = "beacon" THEN BeaconLen ELSE DataLen

Beacon(n) == [type |-> "beacon", src |-> n, dst |-> Broadcast, tek |-> 0, id |-> 0]

Init ==
    /\ started = [n \in Node |-> FALSE]
    /\ known = [n \in Node |-> {}]
    /\ frame = [n \in Node |-> 0]
    /\ inbox = [n \in Node |-> [k \in Kind |-> <<>>]]
    /\ rx = [n \in Node |-> [f \in Freq |-> <<>>]]
    /\ partition = FALSE /\ odd = FALSE
    /\ cut = [n \in Node |-> FALSE]
    /\ log = <<>>
    /\ got = [n \in Node |-> <<>>]

-----------------------------------------------------------------------------
(* The channel.                                                             *)

\* SimChannel::transmit() drops every second transmission of a partition.
Dropped == partition /\ odd

\* Faulty variants of Transmit: radios that are not started get nothing; a radio
\* that knows a peer sends no more beacons.
TransmitStarted(b, n, freq, m) ==
    IF Dropped THEN b
    ELSE [r \in Node |->
            IF r = n \/ ~started[r] THEN b[r]
            ELSE [b[r] EXCEPT ![freq] = Append(@, [m |-> m, left |-> MsgLen(m)])]]
TransmitUntilKnown(b, n, freq, m) ==
    IF Dropped \/ (m.type = "beacon" /\ known[n] # {}) THEN b
    ELSE [r \in Node |->
            IF r = n THEN b[r]
            ELSE [b[r] EXCEPT ![freq] = Append(@, [m |-> m, left |-> MsgLen(m)])]]

\* The buffers after n transmits m on freq, from the buffers b.
Transmit(b, n, freq, m) ==
    IF Dropped THEN b
    ELSE [r \in Node |->
            IF r = n THEN b[r]
            ELSE [b[r] EXCEPT ![freq] = Append(@, [m |-> m, left |-> MsgLen(m)])]]

\* The bound on how far n runs ahead of the others.
InStep(n) ==
    \A r \in Node \ {n} :
        Len(SelectSeq(rx[r][kDiscoveryFreq], LAMBDA e : e.m = Beacon(n))) < MaxLead[n]

\* Cells of the first k messages of buffer b.
Cells(b, k) ==
    LET c[i \in 0 .. Len(b)] == IF i = 0 THEN 0 ELSE c[i - 1] + b[i].left
    IN  c[k]

\* How many messages of b end within one read.
Whole(b) ==
    CHOOSE k \in 0 .. Len(b) :
        /\ Cells(b, k) <= Cap
        /\ k < Len(b) => Cells(b, k + 1) > Cap

\* Faulty variants of Rest: nothing is erased; the tail of a cut message counts
\* as a whole one.
RestKept(b) == b
RestWhole(b) ==
    LET k == Whole(b) IN
    IF k = Len(b) THEN <<>> ELSE [SubSeq(b, k + 1, Len(b)) EXCEPT ![1].left = @ + Cap]

\* SimChannel::receive(): what stays in the buffer after one read.  A message
\* longer than what is left of the read is cut, and its tail stays.
Rest(b) ==
    LET k == Whole(b) IN
    IF k = Len(b) THEN <<>>
    ELSE [SubSeq(b, k + 1, Len(b)) EXCEPT ![1].left = @ - (Cap - Cells(b, k))]

\* The next read of b starts inside a message.
Inside(b) == b # <<>> /\ b[1].left < MsgLen(b[1].m)

\* The message sequences that the parsing loop of tick() may find in one read.
\* A read that starts at a boundary yields the whole messages in it.  One that
\* starts inside a message takes its bytes for a header: it may find nothing or
\* fall back into step at any later boundary.
Parses(b) ==
    LET whole == SubSeq(b, 1, Whole(b)) IN
    IF Inside(b) THEN {<<>>} \union {SubSeq(whole, j, Len(whole)) : j \in 2 .. Len(whole)}
    ELSE {whole}

\* Only such a read can show a beacon nobody sent.
Ghosts(b) == IF Inside(b) THEN SUBSET {Phantom} ELSE {{}}

-----------------------------------------------------------------------------
(* A radio.                                                                 *)

\* start(): from Idle only.  Keys, hop sequence, transmitter on.
start(n) ==
    /\ ~started[n]
    /\ started' = [started EXCEPT ![n] = TRUE]
    /\ UNCHANGED <<known, frame, inbox, rx, partition, odd, cut, log, got>>

\* Data or voice for this radio or for all, which its TEK decrypts.
ForMe(n, e) ==
    /\ e.m.type \in Kind
    /\ e.m.dst \in {n, Broadcast}
    /\ e.m.tek = Tek[n]

\* What a parsing loop of tick() puts in the inboxes: those messages, in order.
Mine(n, s) ==
    LET q[i \in 0 .. Len(s)] ==
            IF i = 0 THEN <<>>
            ELSE IF ForMe(n, s[i]) THEN Append(q[i - 1], s[i].m)
            ELSE q[i - 1]
    IN  q[Len(s)]

\* process_beacon(): sources of the beacons in s other than n.
BeaconsIn(n, s) == {e.m.src : e \in {x \in Range(s) : x.m.type = "beacon"}} \ {n}

OfKind(s, k) == SelectSeq(s, LAMBDA m : m.type = k)

\* tick(): beacon out, discovery frequency in, current hop frequency in, next
\* frame.  Beacons are recognised in the first of the two reads only; the second
\* one goes on where the first stopped if both are on the same frequency.
tick(n) ==
    LET hop  == Hop[n][frame[n]]
        bufd == rx[n][kDiscoveryFreq]
        once == [rx[n] EXCEPT ![kDiscoveryFreq] = Rest(bufd)]
        bufh == once[hop]
    IN  /\ started[n]
        /\ InStep(n)
        /\ \E pd \in Parses(bufd), ph \in Parses(bufh), ghost \in Ghosts(bufd) :
              LET taken == Mine(n, pd) \o Mine(n, ph)
              IN  /\ known' = [known EXCEPT ![n] = @ \union BeaconsIn(n, pd) \union ghost]
                  /\ inbox' = [inbox EXCEPT ![n] =
                                 [k \in Kind |-> @[k] \o OfKind(taken, k)]]
                  /\ got' = [got EXCEPT ![n] = @ \o taken]
        /\ rx' = [Transmit(rx, n, kDiscoveryFreq, Beacon(n)) EXCEPT
                    ![n] = [once EXCEPT ![hop] = Rest(bufh)]]
        /\ cut' = [cut EXCEPT ![n] = @ \/ Inside(Rest(bufd)) \/ Inside(Rest(bufh))]
        /\ odd' = (partition /\ ~odd)
        /\ frame' = [frame EXCEPT ![n] = (@ + 1) % (MaxFrame + 1)]
        /\ UNCHANGED <<started, partition, log>>

\* send_data(), voice_tx(): encrypted and sent on the sender's current hop.
send(n, dest, kind) ==
    LET m   == [type |-> kind, src |-> n, dst |-> dest, tek |-> Tek[n], id |-> Len(log) + 1]
        hop == Hop[n][frame[n]]
    IN  /\ started[n]
        /\ Len(log) < MaxSend
        /\ rx' = Transmit(rx, n, hop, m)
        /\ odd' = (partition /\ ~odd)
        /\ log' = Append(log, [m |-> m, dropped |-> Dropped])
        /\ UNCHANGED <<node, inbox, partition, cut, got>>

\* receive_data(), voice_rx(): the oldest message of the inbox, if any.
receive(n, kind) ==
    /\ inbox[n][kind] # <<>>
    /\ inbox' = [inbox EXCEPT ![n][kind] = Tail(@)]
    /\ UNCHANGED <<node, rx, partition, odd, cut, log, got>>

\* The tests cut and heal the net.  Both restart the count.
set_partition_active(active) ==
    /\ partition' = active /\ odd' = FALSE
    /\ UNCHANGED <<node, inbox, rx, cut, log, got>>

Next ==
    \/ \E n \in Node : start(n) \/ tick(n)
    \/ \E n \in Node, t \in Traffic : send(n, t[2], t[1])
    \/ \E n \in Node, k \in Kind : receive(n, k)
    \/ \E active \in BOOLEAN : set_partition_active(active)

\* Radios are started and their tick() is called again and again.
Fairness == \A n \in Node : WF_vars(start(n)) /\ WF_vars(tick(n))

Spec == Init /\ [][Next]_vars /\ Fairness

-----------------------------------------------------------------------------
(* Properties *)

Message == [type : Kind \union {"beacon"}, src : Node, dst : Node \union {Broadcast},
            tek : {Tek[n] : n \in Node} \union {0}, id : 0 .. MaxSend]

\* The values the state takes.
TypeOK ==
    /\ started \in [Node -> BOOLEAN]
    /\ known \in [Node -> SUBSET (Node \union {Phantom})]
    /\ frame \in [Node -> Frames]
    /\ \A n \in Node, f \in Freq :
          \A i \in 1 .. Len(rx[n][f]) :
             /\ rx[n][f][i].m \in Message
             /\ rx[n][f][i].left \in 1 .. MsgLen(rx[n][f][i].m)
             /\ i > 1 => rx[n][f][i].left = MsgLen(rx[n][f][i].m)
    /\ {partition, odd} \subseteq BOOLEAN
    /\ Len(log) <= MaxSend

\* What reaches an inbox was sent to this radio by another one of the same net,
\* and no message reaches it twice, whatever the cuts in the sample stream.
DeliveredOnce ==
    \A n \in Node : \A i, j \in 1 .. Len(got[n]) :
        /\ got[n][i].dst \in {n, Broadcast} /\ got[n][i].src # n
        /\ got[n][i].tek = Tek[n]
        /\ got[n][i].id = got[n][j].id => i = j

\* A message the partition did not drop is in the inbox or still waits in the
\* channel: a receiver that is late, ahead or not started yet loses nothing as
\* long as its reads have cut no message.
NothingVanishes ==
    \A n \in Node : \A i \in 1 .. Len(log) :
        log[i].m.src # n /\ ForMe(n, log[i]) /\ ~log[i].dropped /\ ~cut[n]
            => \/ \E j \in 1 .. Len(got[n]) : got[n][j] = log[i].m
               \/ \E f \in Freq : \E e \in Range(rx[n][f]) : e.m = log[i].m

\* "6-node partition then rejoin reconverges" (test_multinode_stress.cpp): once
\* the channel stays whole every radio comes to know every other one, provided
\* no backlog grew so long that a read cut a message.
Reconverges ==
    <>[](~partition) /\ [](\A n \in Node : ~cut[n]) => <>[](\A n \in Node : Node \ {n} \subseteq known[n])
=============================================================================
