----------------------------- MODULE RouteTable -----------------------------
(***************************************************************************)
(* One radio's route table, software/src/network/RouteTable.{h,cpp}: the   *)
(* link graph and recompute(), Dijkstra's algorithm for the path of        *)
(* highest quality, where a path's quality is the product of its links'.   *)
(*                                                                         *)
(* Qualities are fractions here, floats in the code: a link quality is     *)
(* l/Scale, a path quality q/One, rounded down where One is no multiple of *)
(* Scale^(N-1).  The order in which a node's neighbours are visited (that  *)
(* of insertion) is arbitrary.                                             *)
(***************************************************************************)
EXTENDS Integers, FiniteSets, Sequences

CONSTANTS
    NodeId,      \* node identifiers, numbers
    local_id,    \* this radio
    Scale,       \* the quality 1.0 of a link
    One,         \* the quality 1.0 of a path
    MaxUpdates   \* bound: changes of the graph

ASSUME LocalAssumption == local_id \in NodeId /\ NodeId \subseteq Nat /\ IsFiniteSet(NodeId)
ASSUME ScaleAssumption == Scale \in Nat \ {0} /\ One \in Nat \ {0}

VARIABLES
    adjacency,    \* adjacency[a][b]: quality of the entry (b, q) of a; NoLink if none
    routes,       \* routes_: route entries, NoRoute where there is none
    pc,           \* where recompute() is
    quality,      \* its map of best qualities so far; Unseen if not in the map
    predecessor,  \* its map of predecessors; local_id where there is none
    pq,           \* its priority queue
    cur,          \* the entry just popped
    todo,         \* neighbours of cur still to be visited
    fresh,        \* history: routes_ has been computed from this graph
    updates       \* number of changes made

work == <<quality, predecessor, pq, cur, todo>>
routeVars == <<adjacency, routes, pc, work, fresh, updates>>

NoLink == -1
Unseen == -1
NoRoute == [next_hop |-> local_id, hop_count |-> 0, path_quality |-> Unseen]
N == Cardinality(NodeId)

\* What is left of path quality q after one more link of quality l.
Times(q, l) == (q * l) \div Scale

\* The graphs that update_link() and remove_node() build: both directions, no
\* radio its own neighbour.
Graphs ==
    {[a \in NodeId |-> [b \in NodeId |-> IF a = b THEN NoLink ELSE link[{a, b}]]] :
        link \in [{s \in SUBSET NodeId : Cardinality(s) = 2} -> NoLink .. Scale]}

RouteInit ==
    /\ adjacency \in Graphs
    /\ routes = [d \in NodeId |-> NoRoute]
    /\ pc = "ready"
    /\ quality = [d \in NodeId |-> Unseen]
    /\ predecessor = [d \in NodeId |-> local_id]
    /\ pq = {} /\ cur = <<0, local_id>> /\ todo = {}
    /\ fresh = FALSE /\ updates = 0

-----------------------------------------------------------------------------
(* Changing the graph.                                                      *)

Change ==
    /\ pc = "ready" /\ updates < MaxUpdates
    /\ updates' = updates + 1 /\ fresh' = FALSE
    /\ UNCHANGED <<routes, pc, work>>

\* Faulty variant of update_link: one direction only.
UpdateOneWay(a, b, q) ==
    /\ Change
    /\ adjacency' = [adjacency EXCEPT ![a][b] = q]

\* update_link(): both directions get the quality.
update_link(a, b, q) ==
    /\ Change
    /\ adjacency' = [adjacency EXCEPT ![a][b] = q, ![b][a] = q]

\* remove_node(): its entry and every entry that points to it.
remove_node(x) ==
    /\ Change
    /\ adjacency' = [a \in NodeId |-> [b \in NodeId |->
                        IF x \in {a, b} THEN NoLink ELSE adjacency[a][b]]]

-----------------------------------------------------------------------------
(* recompute()                                                              *)

recompute ==
    /\ pc = "ready" /\ ~fresh
    /\ routes' = [d \in NodeId |-> NoRoute]
    /\ quality' = [d \in NodeId |-> IF d = local_id THEN One ELSE Unseen]
    /\ predecessor' = [d \in NodeId |-> local_id]
    /\ pq' = {<<One, local_id>>}
    /\ pc' = "pop"
    /\ UNCHANGED <<adjacency, cur, todo, fresh, updates>>

\* Faulty variant of Below: the lowest entry first.
BelowLowest(e, f) == e[1] > f[1] \/ (e[1] = f[1] /\ e[2] > f[2])

\* priority_queue order on (quality, node).
Below(e, f) == e[1] < f[1] \/ (e[1] = f[1] /\ e[2] < f[2])

\* Take the highest entry; skip it if a better path was found since.
Pop ==
    /\ pc = "pop" /\ pq # {}
    /\ \E e \in pq :
          /\ \A f \in pq : ~Below(e, f)
          /\ pq' = pq \ {e}
          /\ cur' = e
          /\ IF e[1] < quality[e[2]]
             THEN pc' = "pop" /\ todo' = {}
             ELSE pc' = "relax" /\ todo' = {v \in NodeId : adjacency[e[2]][v] # NoLink}
    /\ UNCHANGED <<adjacency, routes, quality, predecessor, fresh, updates>>

\* Faulty variants of Better: equal paths count as better; only the first counts.
BetterOrEqual(new, v) == quality[v] = Unseen \/ new >= quality[v]
FirstOnly(new, v) == quality[v] = Unseen

\* Whether a path of quality new to v replaces the one known.
Better(new, v) == quality[v] = Unseen \/ new > quality[v]

\* Visit one neighbour of the popped node.
Relax ==
    /\ pc = "relax" /\ todo # {}
    /\ \E v \in todo :
          LET new == Times(cur[1], adjacency[cur[2]][v]) IN
          /\ todo' = todo \ {v}
          /\ IF Better(new, v)
             THEN /\ quality' = [quality EXCEPT ![v] = new]
                  /\ predecessor' = [predecessor EXCEPT ![v] = cur[2]]
                  /\ pq' = pq \union {<<new, v>>}
             ELSE UNCHANGED <<quality, predecessor, pq>>
    /\ UNCHANGED <<adjacency, routes, pc, cur, fresh, updates>>

Relaxed ==
    /\ pc = "relax" /\ todo = {}
    /\ pc' = "pop"
    /\ UNCHANGED <<adjacency, routes, work, fresh, updates>>

\* The route entry of d: back along the predecessors to the neighbour of this
\* radio, counting the hops.
Trace(d) ==
    LET current[i \in 0 .. N] == IF i = 0 THEN d ELSE predecessor[current[i - 1]]
        hops == CHOOSE i \in 0 .. N : /\ predecessor[current[i]] = local_id
                                     /\ \A j \in 0 .. i - 1 : predecessor[current[j]] # local_id
    IN  [next_hop |-> current[hops], hop_count |-> hops + 1, path_quality |-> quality[d]]

\* Destinations that get a route: those in the quality map, but for this radio.
Reached == {d \in NodeId \ {local_id} : quality[d] # Unseen}

Build ==
    /\ pc = "pop" /\ pq = {}
    /\ routes' = [d \in NodeId |-> IF d \in Reached THEN Trace(d) ELSE NoRoute]
    /\ pc' = "ready" /\ fresh' = TRUE
    /\ UNCHANGED <<adjacency, work, updates>>

RouteNext ==
    \/ \E a, b \in NodeId, q \in 0 .. Scale : a # b /\ update_link(a, b, q)
    \/ \E x \in NodeId \ {local_id} : remove_node(x)
    \/ recompute \/ Pop \/ Relax \/ Relaxed \/ Build

RouteSpec == RouteInit /\ [][RouteNext]_routeVars /\ WF_routeVars(recompute \/ Pop \/ Relax \/ Relaxed \/ Build)

-----------------------------------------------------------------------------
(* Properties *)

\* The values the state takes; the graph stays symmetric.
RouteTypeOK ==
    /\ adjacency \in [NodeId -> [NodeId -> NoLink .. Scale]]
    /\ \A a, b \in NodeId : adjacency[a][b] = adjacency[b][a] /\ adjacency[a][a] = NoLink
    /\ quality \in [NodeId -> Unseen .. One]
    /\ predecessor \in [NodeId -> NodeId]
    /\ pc \in {"ready", "pop", "relax"}
    /\ pq \subseteq (0 .. One) \X NodeId
    /\ todo \subseteq NodeId

\* Sequences of different nodes that start at this radio.
SimplePaths ==
    {p \in UNION {[1 .. k -> NodeId] : k \in 2 .. N} :
        p[1] = local_id /\ \A i, j \in DOMAIN p : p[i] = p[j] => i = j}

IsPath(p) == \A i \in 1 .. Len(p) - 1 : adjacency[p[i]][p[i + 1]] # NoLink

PathQuality(p) ==
    LET q[i \in 0 .. Len(p) - 1] ==
          IF i = 0 THEN One ELSE Times(q[i - 1], adjacency[p[i]][p[i + 1]])
    IN  q[Len(p) - 1]

\* "Best path = highest quality product" (RouteTable.h): when recompute() ends,
\* a destination has a route exactly if a path leads to it; the route's quality
\* is the highest product over all paths, and its next hop and hop count are
\* those of one such path, whatever the insertion order and the ties.
RoutesOptimal ==
    pc = "ready" /\ fresh =>
        \A d \in NodeId \ {local_id} :
            LET to == {p \in SimplePaths : p[Len(p)] = d /\ IsPath(p)}
                r  == routes[d]
            IN  IF to = {} THEN r = NoRoute
                ELSE /\ \A p \in to : PathQuality(p) <= r.path_quality
                     /\ \E p \in to : /\ PathQuality(p) = r.path_quality
                                      /\ p[2] = r.next_hop
                                      /\ Len(p) = r.hop_count + 1

\* In the map, and no entry of its quality is left in the queue.
Settled(v) == quality[v] # Unseen /\ <<quality[v], v>> \notin pq
Unsettled == {v \in NodeId : ~Settled(v)}

\* A node whose links are followed has its best path: until recompute() is called
\* again neither its quality nor its predecessor changes, and its links are not
\* followed a second time.
SettledForGood ==
    [][pc # "ready" =>
          /\ \A v \in NodeId :
                Settled(v) => Settled(v)' /\ quality'[v] = quality[v] /\ predecessor'[v] = predecessor[v]
          /\ pc = "pop" /\ pc' = "relax" => ~Settled(cur'[2])]_routeVars

\* recompute() cannot go round in circles: each of its steps settles a node, or
\* leaves fewer links to follow or ends that, or leaves fewer entries in the queue.
Fewer(S, T) == S \subseteq T /\ S # T
Progress ==
    [][pc # "ready" /\ pc' # "ready" =>
          \/ Fewer(Unsettled', Unsettled)
          \/ Unsettled' = Unsettled /\ pc = "relax" /\ (pc' = "pop" \/ Fewer(todo', todo))
          \/ Unsettled' = Unsettled /\ pc = "pop" /\ pc' = "pop" /\ Fewer(pq', pq)]_routeVars

\* recompute() returns.
Terminates == pc # "ready" ~> pc = "ready"
=============================================================================
