----------------------------- MODULE MeshRouter -----------------------------
(***************************************************************************)
(* Link-state routing between radios: software/src/network/MeshRouter.cpp, *)
(* one per radio, exchanging the advertisements it generates.              *)
(*                                                                         *)
(* Which path is best is RouteTable's business (see that module); here the *)
(* link graph of a router is the set of links it holds, a link being the   *)
(* pair of its ends, and a link's quality is left out.  Advertisements may *)
(* be lost, delayed, repeated and reordered.                               *)
(***************************************************************************)
EXTENDS Integers, FiniteSets

CONSTANTS
    Node,       \* the radios
    MaxGen      \* bound: advertisements generated

VARIABLES
    direct_neighbors,   \* direct_neighbors_ of each router
    table,              \* table_: the links in its adjacency
    last_sequence,      \* last_sequence_; None for a node not in the map
    air,                \* advertisements generated so far
    accepted,           \* history: advertisements each router has processed
    gone                \* history: nodes removed and not heard of since

vars == <<direct_neighbors, table, last_sequence, air, accepted, gone>>

None == -1

\* sequence_: set to 0 at construction; no statement changes it.
sequence(n) == 0

Init ==
    /\ direct_neighbors = [n \in Node |-> {}]
    /\ table = [n \in Node |-> {}]
    /\ last_sequence = [n \in Node |-> [m \in Node |-> None]]
    /\ air = {}
    /\ accepted = [n \in Node |-> {}]
    /\ gone = [n \in Node |-> {}]

-----------------------------------------------------------------------------
\* A direct neighbour is heard: its link is measured.
update_neighbor(n, m) ==
    /\ direct_neighbors' = [direct_neighbors EXCEPT ![n] = @ \union {m}]
    /\ table' = [table EXCEPT ![n] = @ \union {{n, m}}]
    /\ gone' = [gone EXCEPT ![n] = @ \ {m}]
    /\ UNCHANGED <<last_sequence, air, accepted>>

\* A neighbour has timed out: it goes, and every link to it.
remove_neighbor(n, m) ==
    /\ direct_neighbors' = [direct_neighbors EXCEPT ![n] = @ \ {m}]
    /\ table' = [table EXCEPT ![n] = {l \in @ : m \notin l}]
    /\ gone' = [gone EXCEPT ![n] = @ \union {m}]
    /\ UNCHANGED <<last_sequence, air, accepted>>

\* The neighbours there are now, under the sequence number there is.
generate_advertisement(n) ==
    /\ Cardinality(air) < MaxGen
    /\ air' = air \union {[node_id |-> n, neighbors |-> direct_neighbors[n],
                           sequence |-> sequence(n), order |-> Cardinality(air) + 1]}
    /\ UNCHANGED <<direct_neighbors, table, last_sequence, accepted, gone>>

\* Faulty variant of Stale: a repeated number counts as new.
StaleBelow(n, lsa) == lsa.sequence < last_sequence[n][lsa.node_id]

\* "sequence <= last seen".
Stale(n, lsa) == lsa.sequence <= last_sequence[n][lsa.node_id]

\* Faulty variant of process_advertisement: the sender's links are replaced.
ProcessReplaces(n, lsa) ==
    LET from == lsa.node_id
        new  == {{from, m} : m \in lsa.neighbors}
    IN  /\ from # n /\ ~Stale(n, lsa)
        /\ last_sequence' = [last_sequence EXCEPT ![n][from] = lsa.sequence]
        /\ table' = [table EXCEPT ![n] = {l \in @ : from \notin l} \union new]
        /\ accepted' = [accepted EXCEPT ![n] = @ \union {lsa}]
        /\ gone' = [gone EXCEPT ![n] = @ \ UNION new]
        /\ UNCHANGED <<direct_neighbors, air>>

\* process_advertisement() returning true; otherwise nothing changes.  The
\* advertised links are added, none is taken away.
process_advertisement(n, lsa) ==
    LET from == lsa.node_id
        new  == {{from, m} : m \in lsa.neighbors}
    IN  /\ from # n /\ ~Stale(n, lsa)
        /\ last_sequence' = [last_sequence EXCEPT ![n][from] = lsa.sequence]
        /\ table' = [table EXCEPT ![n] = @ \union new]
        /\ accepted' = [accepted EXCEPT ![n] = @ \union {lsa}]
        /\ gone' = IF lsa \in accepted[n] THEN gone
                   ELSE [gone EXCEPT ![n] = @ \ UNION new]
        /\ UNCHANGED <<direct_neighbors, air>>

Next ==
    \/ \E n \in Node : \E m \in Node \ {n} : update_neighbor(n, m) \/ remove_neighbor(n, m)
    \/ \E n \in Node : generate_advertisement(n)
    \/ \E n \in Node, lsa \in air : process_advertisement(n, lsa)

Spec == Init /\ [][Next]_vars

-----------------------------------------------------------------------------
(* Properties *)

\* A node that was removed is in no link, so no route leads to it, until it is
\* heard again, directly or in an advertisement not processed before: an old one
\* that arrives late or twice does not bring it back.
GoneStaysGone == \A n \in Node : \A l \in table[n] : l \intersect gone[n] = {}

\* The link to a direct neighbour, and with it a route, is there as long as it is
\* one, whatever advertisements leave out and whoever else is removed.
NeighborsRouted == \A n \in Node : \A m \in direct_neighbors[n] : {n, m} \in table[n]
=============================================================================
