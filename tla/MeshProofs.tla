----------------------------- MODULE MeshProofs -----------------------------
(***************************************************************************)
(* Routing, for any number of radios.  First MeshRouter: removed           *)
(* neighbours stay removed and present ones stay routed.  Then RouteTable: *)
(* recompute() finds the best paths.                                       *)
(***************************************************************************)
EXTENDS MeshRouter, RouteTable, SequenceTheorems, FiniteSetTheorems,
        NaturalsInduction, WellFoundedInduction, TLAPS

\* What the proof needs to know of the maps.
Types ==
    /\ DOMAIN direct_neighbors = Node
    /\ DOMAIN table = Node
    /\ DOMAIN gone = Node
    /\ DOMAIN accepted = Node
    /\ last_sequence \in [Node -> [Node -> Int]]
    /\ \A lsa \in air : lsa.node_id \in Node /\ lsa.sequence \in Int

\* A router's record is not behind any advertisement it has processed.
AcceptedIsStale ==
    \A n \in Node : \A lsa \in accepted[n] :
        /\ lsa.node_id \in Node /\ lsa.sequence \in Int
        /\ Stale(n, lsa)

\* A router never removes itself.
SelfStays == \A n \in Node : n \notin gone[n]

IInv == Types /\ AcceptedIsStale /\ SelfStays /\ GoneStaysGone

\* Nothing is known, nothing is gone.
LEMMA InitIInv == Init => IInv /\ NeighborsRouted
  BY DEF Init, IInv, Types, AcceptedIsStale, SelfStays, GoneStaysGone, NeighborsRouted, None

\* An advertisement that is processed raises the record, and is new.
LEMMA ProcessIInv ==
  ASSUME IInv, NEW n \in Node, NEW lsa \in air, process_advertisement(n, lsa)
  PROVE  IInv'
  <1> USE DEF IInv
  <1> DEFINE new == {{lsa.node_id, m} : m \in lsa.neighbors}
  <1>1. /\ lsa.node_id \in Node /\ lsa.sequence \in Int
        /\ last_sequence[n][lsa.node_id] < lsa.sequence
    BY DEF Types, process_advertisement, Stale
  <1>2. lsa \notin accepted[n]
    BY <1>1 DEF AcceptedIsStale, Stale, Types
  <1>3. /\ last_sequence' = [last_sequence EXCEPT ![n][lsa.node_id] = lsa.sequence]
        /\ table' = [table EXCEPT ![n] = @ \union new]
        /\ accepted' = [accepted EXCEPT ![n] = @ \union {lsa}]
        /\ gone' = [gone EXCEPT ![n] = @ \ UNION new]
        /\ UNCHANGED <<direct_neighbors, air>>
    BY <1>2 DEF process_advertisement
  <1>4. Types'
    BY <1>1, <1>3 DEF Types
  <1>5. AcceptedIsStale'
    <2> SUFFICES ASSUME NEW x \in Node, NEW y \in accepted'[x]
                 PROVE  /\ y.node_id \in Node /\ y.sequence \in Int
                        /\ y.sequence <= last_sequence'[x][y.node_id]
      BY DEF AcceptedIsStale, Stale
    <2>1. CASE x = n /\ y = lsa
      BY <1>1, <1>3, <2>1 DEF Types
    <2>2. CASE y \in accepted[x]
      <3>1. /\ y.node_id \in Node /\ y.sequence \in Int
            /\ y.sequence <= last_sequence[x][y.node_id]
        BY <2>2 DEF AcceptedIsStale, Stale
      <3>2. last_sequence[x][y.node_id] <= last_sequence'[x][y.node_id]
        BY <1>1, <1>3, <3>1 DEF Types
      <3>3. /\ last_sequence[x][y.node_id] \in Int
            /\ last_sequence'[x][y.node_id] \in Int
        BY <1>4, <3>1 DEF Types
      <3>4. QED
        BY <3>1, <3>2, <3>3
    <2>3. QED
      BY <1>3, <2>1, <2>2 DEF Types
  <1>6. GoneStaysGone'
    <2> SUFFICES ASSUME NEW x \in Node, NEW l \in table'[x]
                 PROVE  l \intersect gone'[x] = {}
      BY DEF GoneStaysGone
    <2>1. gone'[x] \subseteq gone[x]
      BY <1>3 DEF Types
    <2>2. CASE l \in table[x]
      BY <2>1, <2>2 DEF GoneStaysGone
    <2>3. CASE l \notin table[x]
      <3> HIDE DEF new
      <3>1. x = n /\ l \in new
        BY <1>3, <2>3 DEF Types
      <3>2. gone'[x] = gone[x] \ UNION new
        BY <1>3, <3>1 DEF Types
      <3>3. QED
        BY <3>1, <3>2
    <2>4. QED
      BY <2>2, <2>3
  <1>7. SelfStays'
    BY <1>3 DEF SelfStays, Types
  <1>8. QED
    BY <1>4, <1>5, <1>6, <1>7

\* IInv is inductive.
LEMMA NextIInv == IInv /\ [Next]_vars => IInv'
  <1> SUFFICES ASSUME IInv, [Next]_vars PROVE IInv'
    OBVIOUS
  <1> USE DEF IInv
  <1>1. ASSUME NEW n \in Node, NEW m \in Node \ {n}, update_neighbor(n, m)
        PROVE  IInv'
    <2>1. Types'
      BY <1>1 DEF update_neighbor, Types
    <2>2. AcceptedIsStale'
      BY <1>1 DEF update_neighbor, AcceptedIsStale, Stale
    <2>3. ASSUME NEW x \in Node, NEW l \in table'[x] PROVE l \intersect gone'[x] = {}
      <3>1. l \in table[x] \/ (x = n /\ l = {n, m})
        BY <1>1 DEF update_neighbor, Types
      <3>2. gone'[x] = IF x = n THEN gone[x] \ {m} ELSE gone[x]
        BY <1>1 DEF update_neighbor, Types
      <3>3. QED
        BY <3>1, <3>2 DEF GoneStaysGone, SelfStays
    <2>4. SelfStays'
      BY <1>1 DEF update_neighbor, SelfStays, Types
    <2>5. QED
      BY <2>1, <2>2, <2>3, <2>4 DEF GoneStaysGone
  <1>2. ASSUME NEW n \in Node, NEW m \in Node \ {n}, remove_neighbor(n, m)
        PROVE  IInv'
    <2>1. Types'
      BY <1>2 DEF remove_neighbor, Types
    <2>2. AcceptedIsStale'
      BY <1>2 DEF remove_neighbor, AcceptedIsStale, Stale
    <2>3. ASSUME NEW x \in Node, NEW l \in table'[x] PROVE l \intersect gone'[x] = {}
      <3>1. l \in table[x] /\ (x = n => m \notin l)
        BY <1>2 DEF remove_neighbor, Types
      <3>2. gone'[x] = IF x = n THEN gone[x] \union {m} ELSE gone[x]
        BY <1>2 DEF remove_neighbor, Types
      <3>3. QED
        BY <3>1, <3>2 DEF GoneStaysGone
    <2>4. SelfStays'
      BY <1>2 DEF remove_neighbor, SelfStays, Types
    <2>5. QED
      BY <2>1, <2>2, <2>3, <2>4 DEF GoneStaysGone
  <1>3. ASSUME NEW n \in Node, generate_advertisement(n) PROVE IInv'
    <2>1. Types'
      BY <1>3 DEF generate_advertisement, Types, sequence
    <2>2. QED
      BY <1>3, <2>1 DEF generate_advertisement, AcceptedIsStale, Stale, SelfStays, GoneStaysGone
  <1>4. CASE UNCHANGED vars
    BY <1>4 DEF vars, Types, AcceptedIsStale, Stale, SelfStays, GoneStaysGone
  <1>5. QED
    BY <1>1, <1>2, <1>3, <1>4, ProcessIInv DEF Next

\* A removed node stays out of the table until it is heard again, for any number
\* of radios and advertisements, in whatever order and however often they come.
THEOREM MeshGoneStaysGone == Spec => []GoneStaysGone
  <1>1. Init => IInv
    BY InitIInv
  <1>2. IInv => GoneStaysGone
    BY DEF IInv
  <1>3. QED
    BY <1>1, <1>2, NextIInv, PTL DEF Spec

\* The link to a direct neighbour survives every advertisement and every removal
\* of somebody else.
THEOREM MeshNeighborsRouted == Spec => []NeighborsRouted
  <1>1. Init => IInv /\ NeighborsRouted
    BY InitIInv
  <1>2. IInv /\ NeighborsRouted /\ [Next]_vars => NeighborsRouted'
    <2> SUFFICES ASSUME IInv, NeighborsRouted, [Next]_vars,
                        NEW x \in Node, NEW y \in direct_neighbors'[x]
                 PROVE  {x, y} \in table'[x]
      BY DEF NeighborsRouted
    <2> USE DEF IInv
    <2>1. ASSUME NEW n \in Node, NEW m \in Node \ {n}, update_neighbor(n, m)
          PROVE  {x, y} \in table'[x]
      BY <2>1 DEF update_neighbor, Types, NeighborsRouted
    <2>2. ASSUME NEW n \in Node, NEW m \in Node \ {n}, remove_neighbor(n, m)
          PROVE  {x, y} \in table'[x]
      <3>1. y \in direct_neighbors[x] /\ (x = n => y # m)
        BY <2>2 DEF remove_neighbor, Types
      <3>2. {x, y} \in table[x]
        BY <3>1 DEF NeighborsRouted
      <3>3. QED
        BY <2>2, <3>1, <3>2 DEF remove_neighbor, Types
    <2>3. ASSUME NEW n \in Node, generate_advertisement(n) PROVE {x, y} \in table'[x]
      BY <2>3 DEF generate_advertisement, NeighborsRouted
    <2>4. ASSUME NEW n \in Node, NEW lsa \in air, process_advertisement(n, lsa)
          PROVE  {x, y} \in table'[x]
      <3>1. {x, y} \in table[x]
        BY <2>4 DEF process_advertisement, NeighborsRouted
      <3>2. table[x] \subseteq table'[x]
        BY <2>4 DEF process_advertisement, Types
      <3>3. QED
        BY <3>1, <3>2
    <2>5. CASE UNCHANGED vars
      BY <2>5 DEF vars, NeighborsRouted
    <2>6. QED
      BY <2>1, <2>2, <2>3, <2>4, <2>5 DEF Next
  <1>3. QED
    BY <1>1, <1>2, NextIInv, PTL DEF Spec

-----------------------------------------------------------------------------
(* The route table.  What is left of a quality after a link: all that is    *)
(* needed is that it is no more than before, and more from more.            *)

\* The quotient of two natural numbers.
LEMMA Quotient ==
  ASSUME NEW x \in Nat, NEW s \in Nat \ {0}
  PROVE  x \div s \in Nat /\ s * (x \div s) <= x /\ x < s * (x \div s) + s
  OBVIOUS

\* A link makes a path no better.
LEMMA TimesBound ==
  ASSUME NEW q \in Nat, NEW l \in 0 .. Scale
  PROVE  Times(q, l) \in Nat /\ Times(q, l) <= q
  <1>1. q * l \in Nat /\ q * l <= q * Scale
    BY ScaleAssumption
  <1> DEFINE t == (q * l) \div Scale
  <1>2. t \in Nat /\ Scale * t <= q * l
    BY <1>1, Quotient, ScaleAssumption
  <1>3. Scale * t <= Scale * q
    BY <1>1, <1>2, ScaleAssumption
  <1> HIDE DEF t
  <1>4. t <= q
    BY <1>2, <1>3, ScaleAssumption
  <1>5. QED
    BY <1>2, <1>4 DEF Times, t

\* Over the same link the better path stays the better one.
LEMMA TimesMonotone ==
  ASSUME NEW q \in Nat, NEW r \in Nat, q <= r, NEW l \in 0 .. Scale
  PROVE  Times(q, l) <= Times(r, l)
  <1> DEFINE t == (q * l) \div Scale
             u == (r * l) \div Scale
  <1>1. q * l \in Nat /\ r * l \in Nat /\ q * l <= r * l
    BY ScaleAssumption
  <1>2. t \in Nat /\ Scale * t <= q * l
    BY <1>1, Quotient, ScaleAssumption
  <1>3. u \in Nat /\ r * l < Scale * u + Scale
    BY <1>1, Quotient, ScaleAssumption
  <1>4. Scale * t < Scale * u + Scale
    BY <1>1, <1>2, <1>3, ScaleAssumption
  <1> HIDE DEF t, u
  <1>5. t < u + 1
    BY <1>2, <1>3, <1>4, ScaleAssumption
  <1>6. QED
    BY <1>2, <1>3, <1>5 DEF Times, t, u

-----------------------------------------------------------------------------
Source == quality[local_id] = One /\ predecessor[local_id] = local_id

\* No entry promises more than is known of its node, or than a settled node has.
Queue ==
    \A e \in pq :
        /\ quality[e[2]] # Unseen /\ e[1] <= quality[e[2]]
        /\ \A u \in NodeId : Settled(u) => e[1] <= quality[u]

\* The links of a settled node have been followed, but for those still to do.
Edges ==
    \A u, v \in NodeId :
        /\ Settled(u) /\ adjacency[u][v] # NoLink
        /\ ~(pc = "relax" /\ u = cur[2] /\ v \in todo)
        => quality[v] # Unseen /\ Times(quality[u], adjacency[u][v]) <= quality[v]

\* The node being visited was the worst of the settled ones.
Current ==
    pc = "relax" =>
        /\ cur \in (0 .. One) \X NodeId
        /\ Settled(cur[2]) /\ cur[1] = quality[cur[2]]
        /\ \A u \in NodeId : Settled(u) => cur[1] <= quality[u]
        /\ \A v \in todo : adjacency[cur[2]][v] # NoLink

\* A node's quality is that of its predecessor, which is settled, and the link.
Tree ==
    \A v \in NodeId \ {local_id} : quality[v] # Unseen =>
        /\ Settled(predecessor[v]) /\ adjacency[predecessor[v]][v] # NoLink
        /\ quality[v] = Times(quality[predecessor[v]], adjacency[predecessor[v]][v])

\* p leads from this radio to d, backwards along the predecessors.
Chain(p, d) ==
    /\ p \in Seq(NodeId) /\ Len(p) >= 1 /\ p[1] = local_id /\ p[Len(p)] = d
    /\ \A i, j \in 1 .. Len(p) : p[i] = p[j] => i = j
    /\ \A i \in 1 .. Len(p) - 1 : predecessor[p[i + 1]] = p[i] /\ Settled(p[i])

Chains == \A d \in NodeId : quality[d] # Unseen => \E p : Chain(p, d)

Searching == Source /\ Queue /\ Edges /\ Current /\ Tree /\ Chains

\* The inductive invariant.
RouteInv == RouteTypeOK /\ (pc # "ready" => Searching) /\ RoutesOptimal

-----------------------------------------------------------------------------

\* Two different nodes make a pair.
LEMMA PairOfTwo ==
  ASSUME NEW a \in NodeId, NEW b \in NodeId, a # b
  PROVE  {a, b} \in {s \in SUBSET NodeId : Cardinality(s) = 2}
  <1>1. IsFiniteSet({a}) /\ Cardinality({a}) = 1
    BY FS_Singleton
  <1>2. Cardinality({a} \union {b}) = 2
    BY <1>1, FS_AddElement
  <1>3. {a} \union {b} = {a, b}
    OBVIOUS
  <1>4. QED
    BY <1>2, <1>3

\* Nothing is routed, and the graph is as update_link() makes them.
LEMMA InitRoute == RouteInit => RouteInv
  <1> SUFFICES ASSUME RouteInit PROVE RouteInv
    OBVIOUS
  <1> USE LocalAssumption, ScaleAssumption
  <1>1. PICK link \in [{s \in SUBSET NodeId : Cardinality(s) = 2} -> NoLink .. Scale] :
           adjacency = [a \in NodeId |-> [b \in NodeId |->
                           IF a = b THEN NoLink ELSE link[{a, b}]]]
    BY DEF RouteInit, Graphs
  <1>2. ASSUME NEW a \in NodeId, NEW b \in NodeId
        PROVE  /\ adjacency[a][b] \in NoLink .. Scale
               /\ adjacency[a][b] = adjacency[b][a] /\ adjacency[a][a] = NoLink
    <2>1. NoLink \in NoLink .. Scale
      BY DEF NoLink
    <2>2. CASE a = b
      BY <1>1, <2>1, <2>2
    <2>3. CASE a # b
      <3>1. {a, b} = {b, a}
        OBVIOUS
      <3>2. link[{a, b}] \in NoLink .. Scale
        BY <2>3, PairOfTwo
      <3>3. QED
        BY <1>1, <2>3, <3>1, <3>2
    <2>4. QED
      BY <2>2, <2>3
  <1>3. adjacency \in [NodeId -> [NodeId -> NoLink .. Scale]]
    BY <1>1, <1>2
  <1>4. RouteTypeOK
    BY <1>2, <1>3 DEF RouteInit, RouteTypeOK, Unseen
  <1>5. QED
    BY <1>4 DEF RouteInit, RouteInv, RoutesOptimal

\* A change of the graph leaves it symmetric, and the routes are out of date.
LEMMA ChangeRoute ==
  ASSUME RouteInv,
         \/ \E a, b \in NodeId, q \in 0 .. Scale : a # b /\ update_link(a, b, q)
         \/ \E x \in NodeId \ {local_id} : remove_node(x)
  PROVE  RouteInv'
  <1> USE DEF RouteInv
  <1>1. /\ pc' = "ready" /\ fresh' = FALSE
        /\ UNCHANGED <<quality, predecessor, pq, cur, todo>>
    BY DEF update_link, remove_node, Change, work
  <1>2. /\ adjacency' \in [NodeId -> [NodeId -> NoLink .. Scale]]
        /\ \A c, d \in NodeId : adjacency'[c][d] = adjacency'[d][c] /\ adjacency'[c][c] = NoLink
    <2>1. CASE \E a, b \in NodeId, q \in 0 .. Scale : a # b /\ update_link(a, b, q)
      <3>1. PICK a \in NodeId, b \in NodeId, q \in 0 .. Scale : a # b /\ update_link(a, b, q)
        BY <2>1
      <3>2. adjacency' = [adjacency EXCEPT ![a][b] = q, ![b][a] = q]
        BY <3>1 DEF update_link
      <3>3. q \in NoLink .. Scale
        BY DEF NoLink
      <3>4. QED
        BY <3>1, <3>2, <3>3 DEF RouteTypeOK
    <2>2. CASE \E x \in NodeId \ {local_id} : remove_node(x)
      <3>1. PICK x \in NodeId : remove_node(x)
        BY <2>2
      <3>2. adjacency' = [a \in NodeId |-> [b \in NodeId |->
                             IF x \in {a, b} THEN NoLink ELSE adjacency[a][b]]]
        BY <3>1 DEF remove_node
      <3>3. NoLink \in NoLink .. Scale
        BY ScaleAssumption DEF NoLink
      <3>4. QED
        BY <3>2, <3>3 DEF RouteTypeOK
    <2>3. QED
      BY <2>1, <2>2
  <1>3. RouteTypeOK'
    BY <1>1, <1>2 DEF RouteTypeOK
  <1>4. QED
    BY <1>1, <1>3 DEF RoutesOptimal

\* The search starts with this radio alone.
LEMMA StartRoute == ASSUME RouteInv, recompute PROVE RouteInv'
  <1> USE LocalAssumption, ScaleAssumption DEF RouteInv, recompute
  <1>1. RouteTypeOK'
    BY DEF RouteTypeOK, Unseen
  <1>2. One # Unseen /\ \A v \in NodeId : ~Settled(v)'
    BY DEF Settled, Unseen
  <1>3. Source' /\ Queue'
    BY <1>2 DEF Source, Queue
  <1>4. Edges' /\ Current' /\ Tree'
    BY <1>2 DEF Edges, Current, Tree
  <1>5. Chains'
    <2>1. ASSUME NEW d \in NodeId, quality'[d] # Unseen PROVE Chain(<<local_id>>, d)'
      BY <2>1 DEF Chain
    <2>2. QED
      BY <2>1 DEF Chains
  <1>6. QED
    BY <1>1, <1>3, <1>4, <1>5 DEF Searching, RoutesOptimal

\* What holds of the qualities in a search.
LEMMA Numbers ==
  ASSUME RouteTypeOK
  PROVE  /\ \A v \in NodeId : quality[v] # Unseen => quality[v] \in 0 .. One
         /\ \A u, v \in NodeId : adjacency[u][v] # NoLink => adjacency[u][v] \in 0 .. Scale
         /\ \A e \in pq : e[1] \in 0 .. One /\ e[2] \in NodeId /\ e = <<e[1], e[2]>>
         /\ One \in Nat /\ Scale \in Nat
  <1> USE LocalAssumption, ScaleAssumption
  <1>1. \A v \in NodeId : quality[v] \in Unseen .. One
    BY DEF RouteTypeOK
  <1>2. \A u, v \in NodeId : adjacency[u][v] \in NoLink .. Scale
    BY DEF RouteTypeOK
  <1>3. QED
    BY <1>1, <1>2 DEF RouteTypeOK, Unseen, NoLink

\* The path to d is not disturbed by what happens to nodes that are not settled.
LEMMA ChainKept ==
  ASSUME NEW p, NEW d, Chain(p, d),
         \A w \in NodeId : Settled(w) => Settled(w)',
         \A w \in NodeId : Settled(w) \/ w = d => predecessor'[w] = predecessor[w]
  PROVE  Chain(p, d)'
  <1>1. p \in Seq(NodeId) /\ Len(p) \in Nat /\ Len(p) >= 1 /\ p[Len(p)] = d
    BY DEF Chain
  <1>2. \A i \in 1 .. Len(p) : p[i] \in NodeId
    BY <1>1
  <1>3. ASSUME NEW i \in 1 .. Len(p) - 1 PROVE predecessor'[p[i + 1]] = p[i] /\ Settled(p[i])'
    <2>1. /\ predecessor[p[i + 1]] = p[i] /\ Settled(p[i])
          /\ i \in 1 .. Len(p) /\ i + 1 \in 1 .. Len(p)
      BY <1>1 DEF Chain
    <2>2. Settled(p[i + 1]) \/ p[i + 1] = d
      <3>1. CASE i + 1 = Len(p)
        BY <3>1, <1>1
      <3>2. CASE i + 1 # Len(p)
        <4>1. i + 1 \in 1 .. Len(p) - 1
          BY <3>2, <1>1
        <4>2. QED
          BY <4>1 DEF Chain
      <3>3. QED
        BY <3>1, <3>2
    <2>3. QED
      BY <1>2, <2>1, <2>2
  <1>4. QED
    BY <1>3 DEF Chain

\* An entry that comes too late is thrown away.
LEMMA SkipRoute ==
  ASSUME RouteInv, pc = "pop", NEW e \in pq, e[1] < quality[e[2]],
         pq' = pq \ {e}, cur' = e, pc' = "pop", todo' = {},
         UNCHANGED <<adjacency, routes, quality, predecessor, fresh, updates>>
  PROVE  RouteInv' /\ \A v \in NodeId : Settled(v)' <=> Settled(v)
  <1> USE DEF RouteInv, Searching
  <1>1. RouteTypeOK'
    BY DEF RouteTypeOK
  <1>2. \A v \in NodeId : Settled(v)' <=> Settled(v)
    BY Numbers DEF Settled
  <1>3. Source' /\ Current'
    BY DEF Source, Current
  <1>4. Queue'
    BY <1>2 DEF Queue
  <1>5. Edges'
    BY <1>2 DEF Edges
  <1>6. Tree'
    BY <1>2 DEF Tree, RouteTypeOK
  <1>7. Chains'
    BY <1>2, ChainKept DEF Chains
  <1>8. QED
    BY <1>1, <1>2, <1>3, <1>4, <1>5, <1>6, <1>7 DEF RoutesOptimal

\* The best entry settles its node.
LEMMA SettleRoute ==
  ASSUME RouteInv, pc = "pop", NEW e \in pq, \A f \in pq : ~Below(e, f),
         ~(e[1] < quality[e[2]]),
         pq' = pq \ {e}, cur' = e, pc' = "relax",
         todo' = {v \in NodeId : adjacency[e[2]][v] # NoLink},
         UNCHANGED <<adjacency, routes, quality, predecessor, fresh, updates>>
  PROVE  /\ RouteInv'
         /\ e[2] \in NodeId /\ ~Settled(e[2])
         /\ \A v \in NodeId : Settled(v)' <=> Settled(v) \/ v = e[2]
  <1> USE DEF RouteInv, Searching
  <1>1. RouteTypeOK'
    BY DEF RouteTypeOK
  <1>2. /\ e = <<quality[e[2]], e[2]>> /\ e[2] \in NodeId /\ e[1] \in 0 .. One
        /\ quality[e[2]] # Unseen /\ e[1] = quality[e[2]]
    BY Numbers DEF Queue
  <1>3. \A v \in NodeId : Settled(v)' <=> Settled(v) \/ v = e[2]
    BY <1>2 DEF Settled
  <1>4. \A f \in pq : f[1] <= e[1]
    BY Numbers DEF Below
  <1>5. \A u \in NodeId : Settled(u) => e[1] <= quality[u]
    BY DEF Queue
  <1>6. Source'
    BY DEF Source
  <1>7. Current'
    BY <1>2, <1>3, <1>5 DEF Current
  <1>8. Queue'
    BY <1>2, <1>3, <1>4 DEF Queue
  <1>9. Edges'
    BY <1>3 DEF Edges
  <1>10. Tree'
    BY <1>3 DEF Tree, RouteTypeOK
  <1>11. Chains'
    BY <1>3, ChainKept DEF Chains
  <1>12. ~Settled(e[2])
    BY <1>2 DEF Settled
  <1>13. QED
    BY <1>1, <1>2, <1>3, <1>12, <1>6, <1>7, <1>8, <1>9, <1>10, <1>11 DEF RoutesOptimal

\* A link that leads to nothing better.
LEMMA KeepRoute ==
  ASSUME RouteInv, pc = "relax", NEW v \in todo,
         ~Better(Times(cur[1], adjacency[cur[2]][v]), v),
         todo' = todo \ {v},
         UNCHANGED <<quality, predecessor, pq, adjacency, routes, pc, cur, fresh, updates>>
  PROVE  RouteInv' /\ \A w \in NodeId : Settled(w)' <=> Settled(w)
  <1> USE DEF RouteInv, Searching
  <1>1. RouteTypeOK' /\ v \in NodeId
    BY DEF RouteTypeOK
  <1>2. \A u \in NodeId : Settled(u)' <=> Settled(u)
    BY DEF Settled
  <1>3. Source' /\ Queue' /\ Tree'
    BY <1>2 DEF Source, Queue, Tree, RouteTypeOK
  <1>4. Current'
    BY <1>2 DEF Current
  <1>5. quality[v] # Unseen /\ Times(quality[cur[2]], adjacency[cur[2]][v]) <= quality[v]
    <2> DEFINE new == Times(cur[1], adjacency[cur[2]][v])
    <2>1. new \in Nat
      BY Numbers, TimesBound, <1>1 DEF Current
    <2>2. quality[v] # Unseen /\ ~(new > quality[v]) /\ new = Times(quality[cur[2]], adjacency[cur[2]][v])
      BY DEF Better, Current
    <2> HIDE DEF new
    <2>3. quality[v] \in 0 .. One
      BY Numbers, <1>1, <2>2
    <2>4. QED
      BY <2>1, <2>2, <2>3, Numbers
  <1>6. Edges'
    BY <1>2, <1>5 DEF Edges, Current
  <1>7. Chains'
    BY <1>2, ChainKept DEF Chains
  <1>8. QED
    BY <1>1, <1>2, <1>3, <1>4, <1>6, <1>7 DEF RoutesOptimal

\* A better path to v: v was not settled, so it is on nobody's path but its own.
LEMMA ImproveRoute ==
  ASSUME RouteInv, pc = "relax", NEW v \in todo, NEW new,
         new = Times(cur[1], adjacency[cur[2]][v]), Better(new, v),
         todo' = todo \ {v},
         quality' = [quality EXCEPT ![v] = new],
         predecessor' = [predecessor EXCEPT ![v] = cur[2]],
         pq' = pq \union {<<new, v>>},
         UNCHANGED <<adjacency, routes, pc, cur, fresh, updates>>
  PROVE  RouteInv' /\ v \in NodeId /\ ~Settled(v) /\ \A w \in NodeId : Settled(w)' <=> Settled(w)
  <1> USE DEF RouteInv, Searching
  <1> DEFINE u == cur[2]
  <1>1. /\ v \in NodeId /\ u \in NodeId /\ Settled(u) /\ cur[1] = quality[u]
        /\ adjacency[u][v] # NoLink /\ cur[1] \in 0 .. One /\ quality[u] # Unseen
    BY Numbers DEF RouteTypeOK, Current, Settled
  <1>2. new \in 0 .. One /\ new <= cur[1] /\ new # Unseen
    BY <1>1, Numbers, TimesBound DEF Unseen
  <1>3. ~Settled(v)
    <2>1. SUFFICES ASSUME Settled(v) PROVE FALSE
      OBVIOUS
    <2>2. cur[1] <= quality[v] /\ quality[v] # Unseen /\ quality[v] \in 0 .. One
      BY <2>1, <1>1, Numbers DEF Current, Settled
    <2>3. QED
      BY <2>2, <1>1, <1>2, Numbers DEF Better
  <1>4. v # local_id
    <2>1. SUFFICES ASSUME v = local_id PROVE FALSE
      OBVIOUS
    <2>2. new > One
      BY <2>1, Numbers DEF Better, Source, Unseen
    <2>3. QED
      BY <2>2, <1>2, Numbers
  <1>5. v # u
    BY <1>1, <1>3
  <1>6. /\ \A w \in NodeId \ {v} : quality'[w] = quality[w] /\ predecessor'[w] = predecessor[w]
        /\ quality'[v] = new /\ predecessor'[v] = u
    BY <1>1 DEF RouteTypeOK
  <1>7. \A w \in NodeId : Settled(w)' <=> Settled(w)
    <2>1. ASSUME NEW w \in NodeId, w # v PROVE Settled(w)' <=> Settled(w)
      BY <2>1, <1>6 DEF Settled
    <2>2. ~Settled(v)'
      BY <1>6 DEF Settled
    <2>3. QED
      BY <2>1, <2>2, <1>3
  <1>8. RouteTypeOK'
    <2>1. new \in Unseen .. One
      BY <1>2, Numbers DEF Unseen
    <2>2. quality' \in [NodeId -> Unseen .. One] /\ predecessor' \in [NodeId -> NodeId]
      BY <1>1, <2>1 DEF RouteTypeOK
    <2>3. pq' \subseteq (0 .. One) \X NodeId
      BY <1>1, <1>2 DEF RouteTypeOK
    <2>4. QED
      BY <2>2, <2>3 DEF RouteTypeOK
  <1>9. Source'
    BY <1>4, <1>6, LocalAssumption DEF Source
  <1>10. Current'
    BY <1>1, <1>3, <1>5, <1>6, <1>7 DEF Current
  <1>11. Queue'
    <2>1. ASSUME NEW e \in pq PROVE quality'[e[2]] # Unseen /\ e[1] <= quality'[e[2]]
      <3>1. /\ e[1] \in 0 .. One /\ e[2] \in NodeId
            /\ quality[e[2]] # Unseen /\ e[1] <= quality[e[2]]
            /\ quality[e[2]] \in 0 .. One
        BY Numbers DEF Queue
      <3>2. CASE e[2] = v
        BY <3>1, <3>2, <1>2, <1>6, Numbers DEF Better
      <3>3. CASE e[2] # v
        BY <3>1, <3>3, <1>6
      <3>4. QED
        BY <3>2, <3>3
    <2>2. ASSUME NEW e \in pq, NEW w \in NodeId, Settled(w) PROVE e[1] <= quality'[w]
      BY <2>2, <1>3, <1>6 DEF Queue
    <2>3. ASSUME NEW w \in NodeId, Settled(w) PROVE new <= quality'[w]
      <3>1. cur[1] <= quality[w] /\ quality[w] \in 0 .. One
        BY <2>3, Numbers DEF Current, Settled
      <3>2. QED
        BY <3>1, <2>3, <1>1, <1>2, <1>3, <1>6, Numbers
    <2>4. new <= quality'[v]
      BY <1>2, <1>6, Numbers
    <2>5. QED
      BY <2>1, <2>2, <2>3, <2>4, <1>2, <1>6, <1>7 DEF Queue
  <1>12. Edges'
    <2> SUFFICES ASSUME NEW x \in NodeId, NEW w \in NodeId,
                        Settled(x), adjacency[x][w] # NoLink,
                        ~(x = u /\ w \in todo \ {v})
                 PROVE  /\ quality'[w] # Unseen
                        /\ Times(quality'[x], adjacency[x][w]) <= quality'[w]
      BY <1>7 DEF Edges
    <2>1. quality'[x] = quality[x]
      BY <1>3, <1>6
    <2>2. CASE w # v
      BY <2>1, <2>2, <1>6 DEF Edges
    <2>3. CASE w = v /\ x = u
      BY <2>1, <2>3, <1>1, <1>2, <1>6, Numbers
    <2>4. CASE w = v /\ x # u
      <3>1. quality[v] # Unseen /\ Times(quality[x], adjacency[x][v]) <= quality[v]
        BY <2>4 DEF Edges
      <3>2. quality[v] \in 0 .. One /\ quality[x] \in Nat /\ adjacency[x][v] \in 0 .. Scale
        BY <3>1, <2>4, <1>1, Numbers DEF Settled
      <3>3. Times(quality[x], adjacency[x][v]) \in Nat
        BY <3>2, TimesBound
      <3>4. QED
        BY <3>1, <3>2, <3>3, <2>1, <2>4, <1>2, <1>6, Numbers DEF Better
    <2>5. QED
      BY <2>2, <2>3, <2>4
  <1>13. Tree'
    <2> SUFFICES ASSUME NEW w \in NodeId \ {local_id}, quality'[w] # Unseen
                 PROVE  /\ Settled(predecessor'[w]) /\ predecessor'[w] \in NodeId
                        /\ adjacency[predecessor'[w]][w] # NoLink
                        /\ quality'[w] = Times(quality'[predecessor'[w]], adjacency[predecessor'[w]][w])
      BY <1>7 DEF Tree
    <2>1. CASE w = v
      BY <2>1, <1>1, <1>5, <1>6
    <2>2. CASE w # v
      <3>1. /\ Settled(predecessor[w]) /\ adjacency[predecessor[w]][w] # NoLink
            /\ quality[w] = Times(quality[predecessor[w]], adjacency[predecessor[w]][w])
            /\ predecessor[w] \in NodeId
        BY <2>2, <1>6 DEF Tree, RouteTypeOK
      <3>2. QED
        BY <3>1, <2>2, <1>3, <1>6
    <2>3. QED
      BY <2>1, <2>2
  <1>14. ASSUME NEW p, NEW d \in NodeId, Chain(p, d), d # v PROVE Chain(p, d)'
    BY <1>3, <1>6, <1>7, <1>14, ChainKept
  <1>15. \E p : Chain(p, v)'
    <2>1. PICK p : Chain(p, u)
      BY <1>1 DEF Chains
    <2> DEFINE r == Append(p, v)
    <2>2. p \in Seq(NodeId) /\ Len(p) \in Nat /\ Len(p) >= 1 /\ p[Len(p)] = u /\ p[1] = local_id
      BY <2>1 DEF Chain
    <2>3. \A i \in 1 .. Len(p) : p[i] \in NodeId /\ p[i] # v /\ Settled(p[i])
      BY <2>1, <2>2, <1>1, <1>3 DEF Chain
    <2>4. /\ r \in Seq(NodeId) /\ Len(r) = Len(p) + 1 /\ r[Len(p) + 1] = v
          /\ \A i \in 1 .. Len(p) : r[i] = p[i]
      BY <2>2, <1>1, AppendProperties
    <2> HIDE DEF r
    <2>5. ASSUME NEW i \in 1 .. Len(r), NEW j \in 1 .. Len(r), r[i] = r[j] PROVE i = j
      <3>1. CASE i \in 1 .. Len(p) /\ j \in 1 .. Len(p)
        BY <3>1, <2>1, <2>4, <2>5 DEF Chain
      <3>2. CASE i = Len(p) + 1 \/ j = Len(p) + 1
        <4>1. \A k \in 1 .. Len(r) : k \in 1 .. Len(p) \/ k = Len(p) + 1
          BY <2>2, <2>4
        <4>2. QED
          BY <3>2, <4>1, <2>2, <2>3, <2>4, <2>5
      <3>3. QED
        BY <3>1, <3>2, <2>2, <2>4
    <2>6. ASSUME NEW i \in 1 .. Len(r) - 1
          PROVE  predecessor'[r[i + 1]] = r[i] /\ Settled(r[i])'
      <3>1. i \in 1 .. Len(p) /\ r[i] = p[i] /\ Settled(r[i])'
        BY <2>2, <2>3, <2>4, <1>7
      <3>2. CASE i = Len(p)
        BY <3>1, <3>2, <2>2, <2>4, <1>6
      <3>3. CASE i # Len(p)
        <4>1. i + 1 \in 1 .. Len(p) /\ i \in 1 .. Len(p) - 1
          BY <3>1, <3>3, <2>2
        <4>2. predecessor[p[i + 1]] = p[i] /\ p[i + 1] \in NodeId /\ p[i + 1] # v
          BY <4>1, <2>1, <2>3 DEF Chain
        <4>3. QED
          BY <4>1, <4>2, <3>1, <2>4, <1>6
      <3>4. QED
        BY <3>2, <3>3
    <2>7. Chain(r, v)'
      BY <2>2, <2>4, <2>5, <2>6 DEF Chain
    <2>8. QED
      BY <2>7
  <1>16. Chains'
    <2>1. ASSUME NEW d \in NodeId, quality'[d] # Unseen PROVE \E p : Chain(p, d)'
      <3>1. CASE d = v
        BY <3>1, <1>15
      <3>2. CASE d # v
        BY <3>2, <2>1, <1>6, <1>14 DEF Chains
      <3>3. QED
        BY <3>1, <3>2
    <2>2. QED
      BY <2>1 DEF Chains
  <1>17. QED
    BY <1>1, <1>3, <1>7, <1>8, <1>9, <1>10, <1>11, <1>12, <1>13, <1>16 DEF RoutesOptimal, Current

\* All links of the node have been followed.
LEMMA RelaxedRoute ==
  ASSUME RouteInv, Relaxed
  PROVE  RouteInv' /\ \A u \in NodeId : Settled(u)' <=> Settled(u)
  <1> USE DEF RouteInv, Searching, Relaxed, work
  <1>1. RouteTypeOK'
    BY DEF RouteTypeOK
  <1>2. \A u \in NodeId : Settled(u)' <=> Settled(u)
    BY DEF Settled
  <1>3. Source' /\ Queue' /\ Tree' /\ Current'
    BY <1>2 DEF Source, Queue, Tree, Current, RouteTypeOK
  <1>4. Edges'
    BY <1>2 DEF Edges
  <1>5. Chains'
    BY <1>2, ChainKept DEF Chains
  <1>6. QED
    BY <1>1, <1>2, <1>3, <1>4, <1>5 DEF RoutesOptimal

-----------------------------------------------------------------------------
(* Induction by the least counterexample, and what a recursion defines.     *)

\* A set of natural numbers that is not empty has a least element.
LEMMA Least ==
  ASSUME NEW T, T \subseteq Nat, T # {}
  PROVE  \E k \in T : \A j \in T : k <= j
  <1>1. PICK k \in T : \A j \in T : ~(<<j, k>> \in OpToRel(<, Nat))
    BY NatLessThanWellFounded, WFMin
  <1>2. \A j \in T : ~(j < k)
    BY <1>1 DEF OpToRel
  <1>3. QED
    BY <1>2

\* f starts with z and goes on by the steps g.
Recursion(m, S, z, g, f) ==
    f \in [0 .. m -> S] /\ f[0] = z /\ \A i \in 1 .. m : f[i] = g[i][f[i - 1]]

\* A function can be defined on 0 .. m by its first value and its steps.
LEMMA PrimRec ==
  ASSUME NEW m \in Nat, NEW S, NEW z \in S, NEW g \in [1 .. m -> [S -> S]]
  PROVE  \E f : Recursion(m, S, z, g, f)
  <1> DEFINE Up(k, f) == f[0] = z /\ \A i \in 1 .. k : f[i] = g[i][f[i - 1]]
             T == {k \in 0 .. m : ~\E f \in [0 .. k -> S] : Up(k, f)}
  <1>1. SUFFICES ASSUME T # {} PROVE FALSE
    <2>1. m \in 0 .. m
      OBVIOUS
    <2>2. m \notin T => \E f \in [0 .. m -> S] : Up(m, f)
      BY <2>1
    <2>3. QED
      BY <2>2 DEF Recursion
  <1>2. PICK k \in T : \A j \in T : k <= j
    <2>1. T \subseteq Nat
      OBVIOUS
    <2> HIDE DEF T
    <2>2. QED
      BY <1>1, <2>1, Least
  <1>3. k # 0
    <2>1. SUFFICES ASSUME k = 0 PROVE FALSE
      OBVIOUS
    <2> DEFINE f == [i \in 0 .. 0 |-> z]
    <2>2. f \in [0 .. 0 -> S] /\ Up(0, f)
      OBVIOUS
    <2>3. QED
      BY <2>1, <2>2
  <1>4. PICK f \in [0 .. k - 1 -> S] : Up(k - 1, f)
    <2>1. k - 1 \in 0 .. m /\ ~(k <= k - 1)
      BY <1>3
    <2>2. k - 1 \notin T
      BY <2>1, <1>2
    <2>3. QED
      BY <2>1, <2>2
  <1> DEFINE h == [i \in 0 .. k |-> IF i = k THEN g[k][f[k - 1]] ELSE f[i]]
  <1>5. k \in 1 .. m /\ f[k - 1] \in S
    BY <1>3
  <1>6. g[k][f[k - 1]] \in S
    BY <1>5
  <1>7. h \in [0 .. k -> S]
    BY <1>5, <1>6
  <1>8. Up(k, h)
    <2>1. h[0] = z
      BY <1>4, <1>5
    <2>2. ASSUME NEW i \in 1 .. k PROVE h[i] = g[i][h[i - 1]]
      <3>1. h[i - 1] = f[i - 1]
        BY <1>5
      <3>2. CASE i = k
        BY <3>1, <3>2, <1>5
      <3>3. CASE i # k
        <4>1. i \in 1 .. k - 1
          BY <3>3, <1>5
        <4>2. h[i] = f[i]
          BY <4>1, <1>5
        <4>3. QED
          BY <4>1, <4>2, <3>1, <1>4
      <3>4. QED
        BY <3>2, <3>3
    <2>3. QED
      BY <2>1, <2>2
  <1>9. QED
    BY <1>2, <1>7, <1>8

-----------------------------------------------------------------------------
\* The search is over.
Over == RouteTypeOK /\ Searching /\ pc = "pop" /\ pq = {}

\* When the queue is empty every link of a known node has been followed.
LEMMA OverFacts ==
  ASSUME Over
  PROVE  /\ \A u \in NodeId : Settled(u) <=> quality[u] # Unseen
         /\ \A u, v \in NodeId : quality[u] # Unseen /\ adjacency[u][v] # NoLink =>
               quality[v] # Unseen /\ Times(quality[u], adjacency[u][v]) <= quality[v]
  <1>1. \A u \in NodeId : Settled(u) <=> quality[u] # Unseen
    BY DEF Over, Settled
  <1>2. QED
    BY <1>1 DEF Over, Searching, Edges

\* The quality of a path is what its recursive definition says: f[i] is what is
\* left after i links.
PathSteps(p, f) ==
    /\ f \in [0 .. Len(p) - 1 -> Nat] /\ f[0] = One /\ PathQuality(p) = f[Len(p) - 1]
    /\ \A i \in 1 .. Len(p) - 1 : f[i] = Times(f[i - 1], adjacency[p[i]][p[i + 1]])

\* There are such steps for every path.
LEMMA PathQualityRec ==
  ASSUME RouteTypeOK, NEW p \in Seq(NodeId), Len(p) >= 1, IsPath(p)
  PROVE  \E f : PathSteps(p, f)
  <1> DEFINE m == Len(p) - 1
             l(i) == adjacency[p[i]][p[i + 1]]
             q[i \in 0 .. m] == IF i = 0 THEN One ELSE Times(q[i - 1], l(i))
             g == [i \in 1 .. m |-> [x \in Nat |-> Times(x, l(i))]]
  <1>1. m \in Nat /\ \A i \in 1 .. m : l(i) \in 0 .. Scale
    <2>1. Len(p) \in Nat /\ \A i \in 1 .. Len(p) : p[i] \in NodeId
      BY LenProperties, ElementOfSeq
    <2>2. \A i \in 1 .. m : l(i) # NoLink /\ p[i] \in NodeId /\ p[i + 1] \in NodeId
      BY <2>1 DEF IsPath
    <2>3. QED
      BY <2>1, <2>2, Numbers
  <1> HIDE DEF m, l
  <1>2. \A i \in 1 .. m : \A x \in Nat : Times(x, l(i)) \in Nat
    BY <1>1, TimesBound
  <1>3. g \in [1 .. m -> [Nat -> Nat]]
    BY <1>2
  <1>4. PICK f : Recursion(m, Nat, One, g, f)
    <2>1. One \in Nat
      BY ScaleAssumption
    <2> HIDE DEF g, q
    <2>2. QED
      BY <2>1, <1>1, <1>3, PrimRec
  <1>5. \A i \in 1 .. m : f[i] = Times(f[i - 1], l(i))
    <2> USE DEF Recursion
    <2>1. ASSUME NEW i \in 1 .. m PROVE f[i] = Times(f[i - 1], l(i))
      <3>1. i - 1 \in 0 .. m /\ f[i - 1] \in Nat
        BY <1>1, <1>4
      <3>2. f[i] = g[i][f[i - 1]]
        BY <1>4
      <3>3. QED
        BY <3>1, <3>2
    <2>2. QED
      BY <2>1
  <1>6. f = [i \in 0 .. m |-> IF i = 0 THEN One ELSE Times(f[i - 1], l(i))]
    <2>1. f \in [0 .. m -> Nat] /\ f[0] = One
      BY <1>4 DEF Recursion
    <2>2. \A i \in 0 .. m : f[i] = IF i = 0 THEN One ELSE Times(f[i - 1], l(i))
      BY <2>1, <1>1, <1>5
    <2>3. QED
      BY <2>1, <2>2
  <1>7. q = [i \in 0 .. m |-> IF i = 0 THEN One ELSE Times(q[i - 1], l(i))]
    BY <1>6
  <1>8. PathQuality(p) = q[m]
    BY DEF PathQuality, m, l
  <1> HIDE DEF q, g
  <1>9. q[0] = One /\ \A i \in 1 .. m : q[i] = Times(q[i - 1], l(i))
    BY <1>1, <1>7
  <1>10. q \in [0 .. m -> Nat]
    <2> DEFINE T == {k \in 0 .. m : q[k] \notin Nat}
    <2>1. SUFFICES ASSUME T # {} PROVE FALSE
      <3>1. \A k \in 0 .. m : q[k] \in Nat
        BY <2>1
      <3>2. QED
        BY <3>1, <1>7
    <2>2. PICK k \in T : \A j \in T : k <= j
      <3>1. T \subseteq Nat
        OBVIOUS
      <3> HIDE DEF T
      <3>2. QED
        BY <2>1, <3>1, Least
    <2>3. k \in 1 .. m
      BY <2>2, <1>1, <1>9, ScaleAssumption
    <2>4. k - 1 \in 0 .. m /\ ~(k <= k - 1)
      BY <2>3, <1>1
    <2>5. q[k - 1] \in Nat
      BY <2>2, <2>4
    <2>6. QED
      BY <2>2, <2>3, <2>5, <1>2, <1>9
  <1>11. PathSteps(p, q)
    BY <1>8, <1>9, <1>10 DEF PathSteps, m, l
  <1>12. QED
    BY <1>11

\* No path is better than what the search has found.
LEMMA NoneBetter ==
  ASSUME Over, NEW p \in Seq(NodeId), Len(p) >= 1, p[1] = local_id, IsPath(p)
  PROVE  quality[p[Len(p)]] # Unseen /\ PathQuality(p) <= quality[p[Len(p)]]
  <1>1. PICK f : PathSteps(p, f)
    BY PathQualityRec DEF Over
  <1>2. Len(p) \in Nat /\ \A i \in 1 .. Len(p) : p[i] \in NodeId
    BY LenProperties, ElementOfSeq
  <1> DEFINE Good(i) == quality[p[i + 1]] # Unseen /\ f[i] <= quality[p[i + 1]]
             T == {i \in 0 .. Len(p) - 1 : ~Good(i)}
  <1>3. T = {}
    <2>1. SUFFICES ASSUME T # {} PROVE FALSE
      OBVIOUS
    <2>2. PICK k \in T : \A j \in T : k <= j
      <3>1. T \subseteq Nat
        BY <1>2
      <3> HIDE DEF T
      <3>2. QED
        BY <2>1, <3>1, Least
    <2>3. Good(0)
      BY <1>1, ScaleAssumption DEF PathSteps, Over, Searching, Source, Unseen
    <2>4. k \in 1 .. Len(p) - 1
      BY <2>2, <2>3, <1>2
    <2>5. k - 1 \in 0 .. Len(p) - 1 /\ ~(k <= k - 1)
      BY <2>4, <1>2
    <2>6. Good(k - 1)
      BY <2>2, <2>5
    <2> DEFINE u == p[k]
               v == p[k + 1]
    <2>7. /\ u \in NodeId /\ v \in NodeId /\ adjacency[u][v] # NoLink
          /\ f[k] = Times(f[k - 1], adjacency[u][v]) /\ f[k - 1] \in Nat
          /\ quality[u] # Unseen /\ f[k - 1] <= quality[u]
      <3>1. k \in 1 .. Len(p) /\ k + 1 \in 1 .. Len(p) /\ k - 1 + 1 = k
        BY <2>4, <1>2
      <3>2. u \in NodeId /\ v \in NodeId
        BY <3>1, <1>2
      <3>3. adjacency[u][v] # NoLink
        BY <2>4 DEF IsPath
      <3>4. f[k] = Times(f[k - 1], adjacency[u][v]) /\ f[k - 1] \in Nat
        BY <2>4, <2>5, <1>1 DEF PathSteps
      <3>5. quality[u] # Unseen /\ f[k - 1] <= quality[u]
        BY <2>6, <3>1
      <3>6. QED
        BY <3>2, <3>3, <3>4, <3>5
    <2> HIDE DEF u, v
    <2>8. /\ quality[v] # Unseen /\ Times(quality[u], adjacency[u][v]) <= quality[v]
          /\ quality[u] \in Nat /\ quality[v] \in Nat /\ adjacency[u][v] \in 0 .. Scale
      BY <2>7, OverFacts, Numbers DEF Over
    <2>9. /\ Times(f[k - 1], adjacency[u][v]) <= Times(quality[u], adjacency[u][v])
          /\ Times(f[k - 1], adjacency[u][v]) \in Nat
          /\ Times(quality[u], adjacency[u][v]) \in Nat
      BY <2>7, <2>8, TimesMonotone, TimesBound
    <2>10. Good(k)
      BY <2>7, <2>8, <2>9 DEF v
    <2>11. QED
      BY <2>2, <2>10
  <1>4. Good(Len(p) - 1)
    <2>1. Len(p) - 1 \in 0 .. Len(p) - 1
      BY <1>2
    <2>2. \A i \in 0 .. Len(p) - 1 : Good(i)
      BY <1>3
    <2> HIDE DEF Good
    <2>3. QED
      BY <2>1, <2>2
  <1>5. QED
    BY <1>1, <1>2, <1>4 DEF PathSteps

\* The chain of predecessors is a path of different nodes.
LEMMA ChainIsPath ==
  ASSUME Over, NEW d \in NodeId \ {local_id}, quality[d] # Unseen, NEW p, Chain(p, d)
  PROVE  /\ p \in Seq(NodeId) /\ Len(p) \in 2 .. N /\ p \in SimplePaths /\ IsPath(p)
         /\ \A i \in 1 .. Len(p) - 1 :
               /\ p[i] \in NodeId /\ p[i + 1] \in NodeId
               /\ quality[p[i + 1]] = Times(quality[p[i]], adjacency[p[i]][p[i + 1]])
  <1>1. /\ p \in Seq(NodeId) /\ Len(p) \in Nat /\ p \in [1 .. Len(p) -> NodeId]
        /\ DOMAIN p = 1 .. Len(p) /\ \A i \in 1 .. Len(p) : p[i] \in NodeId
    BY LenProperties, ElementOfSeq DEF Chain
  <1>2. Len(p) >= 2
    BY <1>1 DEF Chain
  <1>3. Len(p) <= N
    <2>1. SUFFICES ASSUME Len(p) > N PROVE FALSE
      BY <1>1, LocalAssumption, FS_CardinalityType DEF N
    <2>2. IsFiniteSet(1 .. Len(p)) /\ Cardinality(1 .. Len(p)) = Len(p)
      BY <1>1, <1>2, FS_Interval
    <2>3. Cardinality(NodeId) < Cardinality(1 .. Len(p))
      BY <2>1, <2>2, <1>1, LocalAssumption, FS_CardinalityType DEF N
    <2>4. \E x, y \in 1 .. Len(p) : x # y /\ p[x] = p[y]
      BY <2>2, <2>3, <1>1, LocalAssumption, FS_PigeonHole
    <2>5. QED
      BY <2>4 DEF Chain
  <1>4. Len(p) \in 2 .. N
    BY <1>1, <1>2, <1>3, LocalAssumption, FS_CardinalityType DEF N
  <1>5. p \in SimplePaths
    <2>1. p \in UNION {[1 .. k -> NodeId] : k \in 2 .. N}
      BY <1>1, <1>4
    <2>2. QED
      BY <2>1, <1>1 DEF SimplePaths, Chain
  <1>6. ASSUME NEW i \in 1 .. Len(p) - 1
        PROVE  /\ p[i] \in NodeId /\ p[i + 1] \in NodeId
               /\ adjacency[p[i]][p[i + 1]] # NoLink
               /\ quality[p[i + 1]] = Times(quality[p[i]], adjacency[p[i]][p[i + 1]])
    <2>1. i \in 1 .. Len(p) /\ i + 1 \in 1 .. Len(p) /\ 1 \in 1 .. Len(p) /\ i + 1 # 1
      BY <1>1
    <2>2. p[i] \in NodeId /\ p[i + 1] \in NodeId /\ predecessor[p[i + 1]] = p[i]
      BY <2>1, <1>1 DEF Chain
    <2>3. p[i + 1] # local_id
      BY <2>1 DEF Chain
    <2>4. quality[p[i + 1]] # Unseen
      <3>1. CASE i + 1 = Len(p)
        BY <3>1 DEF Chain
      <3>2. CASE i + 1 # Len(p)
        <4>1. i + 1 \in 1 .. Len(p) - 1
          <5>1. Len(p) \in Nat
            BY <1>1
          <5>2. QED
            BY <3>2, <5>1
        <4>2. Settled(p[i + 1])
          BY <4>1 DEF Chain
        <4>3. QED
          BY <4>2 DEF Settled
      <3>3. QED
        BY <3>1, <3>2
    <2>5. QED
      BY <2>2, <2>3, <2>4 DEF Over, Searching, Tree
  <1>7. QED
    BY <1>1, <1>4, <1>5, <1>6 DEF IsPath

\* Its quality is the one the search has noted.
LEMMA ChainQuality ==
  ASSUME Over, NEW d \in NodeId \ {local_id}, quality[d] # Unseen, NEW p, Chain(p, d)
  PROVE  PathQuality(p) = quality[d]
  <1>1. p \in Seq(NodeId) /\ Len(p) \in Nat /\ Len(p) >= 2 /\ IsPath(p)
    BY ChainIsPath
  <1>2. PICK f : PathSteps(p, f)
    BY <1>1, PathQualityRec DEF Over
  <1> DEFINE Good(i) == f[i] = quality[p[i + 1]]
             T == {i \in 0 .. Len(p) - 1 : ~Good(i)}
  <1>3. T = {}
    <2>1. SUFFICES ASSUME T # {} PROVE FALSE
      OBVIOUS
    <2>2. PICK k \in T : \A j \in T : k <= j
      <3>1. T \subseteq Nat
        BY <1>1
      <3> HIDE DEF T
      <3>2. QED
        BY <2>1, <3>1, Least
    <2>3. Good(0)
      BY <1>2 DEF PathSteps, Over, Searching, Source, Chain
    <2>4. k \in 1 .. Len(p) - 1
      BY <2>2, <2>3, <1>1
    <2>5. k - 1 \in 0 .. Len(p) - 1 /\ ~(k <= k - 1) /\ k - 1 + 1 = k
      BY <2>4, <1>1
    <2>6. Good(k - 1)
      BY <2>2, <2>5
    <2>7. f[k] = Times(f[k - 1], adjacency[p[k]][p[k + 1]]) /\ f[k - 1] = quality[p[k]]
      BY <2>4, <2>5, <2>6, <1>2 DEF PathSteps
    <2>8. quality[p[k + 1]] = Times(quality[p[k]], adjacency[p[k]][p[k + 1]])
      BY <2>4, ChainIsPath
    <2>9. Good(k)
      BY <2>7, <2>8
    <2>10. QED
      BY <2>2, <2>9
  <1>4. Good(Len(p) - 1)
    <2>1. Len(p) - 1 \in 0 .. Len(p) - 1
      BY <1>1
    <2>2. \A i \in 0 .. Len(p) - 1 : Good(i)
      BY <1>3
    <2> HIDE DEF Good
    <2>3. QED
      BY <2>1, <2>2
  <1>5. Len(p) - 1 + 1 = Len(p)
    BY <1>1
  <1>6. QED
    BY <1>2, <1>4, <1>5 DEF PathSteps, Chain

\* Tracing back from d finds the second node of the chain, and counts its links.
LEMMA TraceChain ==
  ASSUME Over, NEW d \in NodeId \ {local_id}, quality[d] # Unseen, NEW p, Chain(p, d)
  PROVE  Trace(d) = [next_hop |-> p[2], hop_count |-> Len(p) - 1, path_quality |-> quality[d]]
  <1> DEFINE c[i \in 0 .. N] == IF i = 0 THEN d ELSE predecessor[c[i - 1]]
             g == [i \in 1 .. N |-> predecessor]
             At(i) == /\ predecessor[c[i]] = local_id
                      /\ \A j \in 0 .. i - 1 : predecessor[c[j]] # local_id
             hops == CHOOSE i \in 0 .. N : At(i)
  <1>1. N \in Nat /\ predecessor \in [NodeId -> NodeId] /\ d \in NodeId
    BY LocalAssumption, FS_CardinalityType DEF N, Over, RouteTypeOK
  <1>2. Len(p) \in 2 .. N
    BY ChainIsPath
  <1>3. PICK f : Recursion(N, NodeId, d, g, f)
    <2>1. g \in [1 .. N -> [NodeId -> NodeId]]
      BY <1>1
    <2> HIDE DEF g, c
    <2>2. QED
      BY <2>1, <1>1, PrimRec
  <1>4. f = [i \in 0 .. N |-> IF i = 0 THEN d ELSE predecessor[f[i - 1]]]
    BY <1>1, <1>3 DEF Recursion
  <1>5. c = [i \in 0 .. N |-> IF i = 0 THEN d ELSE predecessor[c[i - 1]]]
    BY <1>4
  <1>6. Trace(d) = [next_hop |-> c[hops], hop_count |-> hops + 1, path_quality |-> quality[d]]
    BY DEF Trace
  <1> HIDE DEF c, g
  <1>7. \A i \in 0 .. Len(p) - 1 : c[i] = p[Len(p) - i]
    <2> DEFINE T == {i \in 0 .. Len(p) - 1 : c[i] # p[Len(p) - i]}
    <2>1. SUFFICES ASSUME T # {} PROVE FALSE
      OBVIOUS
    <2>2. PICK k \in T : \A j \in T : k <= j
      <3>1. T \subseteq Nat
        BY <1>2
      <3> HIDE DEF T
      <3>2. QED
        BY <2>1, <3>1, Least
    <2>3. c[0] = p[Len(p) - 0]
      BY <1>1, <1>2, <1>5 DEF Chain
    <2>4. k \in 1 .. Len(p) - 1
      BY <2>2, <2>3, <1>2
    <2>5. k - 1 \in 0 .. Len(p) - 1 /\ ~(k <= k - 1) /\ k \in 0 .. N /\ k # 0
      BY <2>4, <1>1, <1>2
    <2>6. c[k - 1] = p[Len(p) - (k - 1)]
      BY <2>2, <2>5
    <2>7. c[k] = predecessor[c[k - 1]]
      BY <2>5, <1>5
    <2> DEFINE i == Len(p) - k
    <2>8. i \in 1 .. Len(p) - 1 /\ i + 1 = Len(p) - (k - 1)
      BY <2>4, <1>1, <1>2
    <2>9. predecessor[p[i + 1]] = p[i]
      BY <2>8 DEF Chain
    <2>10. QED
      BY <2>2, <2>6, <2>7, <2>8, <2>9
  <1> DEFINE h == Len(p) - 2
  <1>8. \A j \in 0 .. h : c[j] = p[Len(p) - j] /\ predecessor[c[j]] = p[Len(p) - j - 1]
    <2>1. ASSUME NEW j \in 0 .. h
          PROVE  c[j] = p[Len(p) - j] /\ predecessor[c[j]] = p[Len(p) - j - 1]
      <3> DEFINE i == Len(p) - j - 1
      <3>1. j \in 0 .. Len(p) - 1 /\ i \in 1 .. Len(p) - 1 /\ i + 1 = Len(p) - j
        BY <1>1, <1>2
      <3>2. predecessor[p[i + 1]] = p[i]
        BY <3>1 DEF Chain
      <3>3. QED
        BY <3>1, <3>2, <1>7
    <2>2. QED
      BY <2>1
  <1>9. h \in 0 .. N /\ c[h] = p[2] /\ At(h)
    <2>1. h \in 0 .. N /\ h \in 0 .. h /\ Len(p) - h = 2 /\ Len(p) - h - 1 = 1
      BY <1>1, <1>2
    <2>2. c[h] = p[2] /\ predecessor[c[h]] = local_id
      BY <2>1, <1>8 DEF Chain
    <2>3. ASSUME NEW j \in 0 .. h - 1 PROVE predecessor[c[j]] # local_id
      <3>1. j \in 0 .. h /\ Len(p) - j - 1 \in 2 .. Len(p) /\ 1 \in 1 .. Len(p)
        BY <1>1, <1>2
      <3>2. Len(p) - j - 1 # 1 /\ Len(p) - j - 1 \in 1 .. Len(p)
        BY <3>1, <1>2
      <3>3. p[Len(p) - j - 1] # p[1]
        BY <3>1, <3>2 DEF Chain
      <3>4. QED
        BY <3>1, <3>3, <1>8 DEF Chain
    <2>4. QED
      BY <2>1, <2>2, <2>3
  <1>10. \A i \in 0 .. N : At(i) => i = h
    <2>1. ASSUME NEW i \in 0 .. N, At(i) PROVE i = h
      <3>1. CASE i < h
        <4>1. i \in 0 .. h - 1
          BY <3>1, <1>2
        <4>2. QED
          BY <4>1, <2>1, <1>9
      <3>2. CASE h < i
        <4>1. h \in 0 .. i - 1
          BY <3>2, <1>9
        <4>2. QED
          BY <4>1, <2>1, <1>9
      <3>3. QED
        BY <3>1, <3>2, <1>2, <1>9
    <2>2. QED
      BY <2>1
  <1>11. hops = h
    <2> HIDE DEF At, h
    <2>1. QED
      BY <1>9, <1>10
  <1>12. h + 1 = Len(p) - 1
    BY <1>2
  <1> HIDE DEF hops, h
  <1>13. QED
    BY <1>6, <1>9, <1>11, <1>12

\* What Build writes is optimal.
LEMMA BuildRoute == ASSUME RouteInv, Build PROVE RouteInv'
  <1>1. Over
    BY DEF RouteInv, Build, Over
  <1>2. RouteTypeOK' /\ pc' = "ready" /\ adjacency' = adjacency
    BY DEF RouteInv, RouteTypeOK, Build, work
  <1> DEFINE To(d) == {p \in SimplePaths : p[Len(p)] = d /\ IsPath(p)}
  <1>3. ASSUME NEW d \in NodeId \ {local_id}, NEW p \in To(d)
        PROVE  quality[d] # Unseen /\ PathQuality(p) <= quality[d]
    <2>1. p \in SimplePaths /\ p[Len(p)] = d /\ IsPath(p)
      OBVIOUS
    <2>2. PICK k \in 2 .. N : p \in [1 .. k -> NodeId]
      BY <2>1 DEF SimplePaths
    <2>3. p \in Seq(NodeId) /\ Len(p) = k /\ k >= 2
      BY <2>2, LocalAssumption, FS_CardinalityType DEF N
    <2>4. p[1] = local_id
      BY <2>1 DEF SimplePaths
    <2>5. Len(p) >= 1
      BY <2>3
    <2>6. QED
      BY <2>1, <2>3, <2>4, <2>5, <1>1, NoneBetter
  <1>4. ASSUME NEW d \in NodeId \ {local_id}, quality[d] # Unseen
        PROVE  \E p \in To(d) : /\ PathQuality(p) = Trace(d).path_quality
                                /\ p[2] = Trace(d).next_hop
                                /\ Len(p) = Trace(d).hop_count + 1
                                /\ Trace(d).path_quality = quality[d]
    <2>1. PICK p : Chain(p, d)
      BY <1>1, <1>4 DEF Over, Searching, Chains
    <2>2. p \in To(d) /\ Len(p) \in Nat
      BY <1>1, <1>4, <2>1, ChainIsPath DEF Chain
    <2>3. PathQuality(p) = quality[d]
      BY <1>1, <1>4, <2>1, ChainQuality
    <2>4. Trace(d) = [next_hop |-> p[2], hop_count |-> Len(p) - 1, path_quality |-> quality[d]]
      BY <1>1, <1>4, <2>1, TraceChain
    <2> HIDE DEF To
    <2>5. QED
      BY <2>2, <2>3, <2>4
  <1>5. \A d \in NodeId \ {local_id} :
           /\ quality[d] = Unseen => routes'[d] = NoRoute
           /\ quality[d] # Unseen => routes'[d] = Trace(d)
    BY DEF Build, Reached
  <1>6. ASSUME NEW d \in NodeId \ {local_id}
        PROVE  IF To(d) = {} THEN routes'[d] = NoRoute
               ELSE /\ \A p \in To(d) : PathQuality(p) <= routes'[d].path_quality
                    /\ \E p \in To(d) : /\ PathQuality(p) = routes'[d].path_quality
                                        /\ p[2] = routes'[d].next_hop
                                        /\ Len(p) = routes'[d].hop_count + 1
    <2> HIDE DEF To
    <2>1. CASE To(d) = {}
      BY <2>1, <1>4, <1>5
    <2>2. CASE To(d) # {}
      <3>1. quality[d] # Unseen
        BY <2>2, <1>3
      <3>2. routes'[d] = Trace(d)
        BY <3>1, <1>5
      <3>3. QED
        BY <2>2, <3>1, <3>2, <1>3, <1>4
    <2>3. QED
      BY <2>1, <2>2
  <1>7. \A d \in NodeId : To(d)' = To(d)
    BY <1>2 DEF SimplePaths, IsPath
  <1>8. \A p : PathQuality(p)' = PathQuality(p)
    BY <1>2 DEF PathQuality
  <1>9. RoutesOptimal'
    BY <1>6, <1>7, <1>8 DEF RoutesOptimal
  <1>10. QED
    BY <1>2, <1>9 DEF RouteInv

\* Every step keeps the invariant.
LEMMA StepRoute == RouteInv /\ [RouteNext]_routeVars => RouteInv'
  <1> SUFFICES ASSUME RouteInv, [RouteNext]_routeVars PROVE RouteInv'
    OBVIOUS
  <1>1. CASE \/ \E a, b \in NodeId, q \in 0 .. Scale : a # b /\ update_link(a, b, q)
             \/ \E x \in NodeId \ {local_id} : remove_node(x)
    BY <1>1, ChangeRoute
  <1>2. CASE recompute
    BY <1>2, StartRoute
  <1>3. CASE Pop
    <2>1. PICK e \in pq :
             /\ \A f \in pq : ~Below(e, f)
             /\ pq' = pq \ {e} /\ cur' = e
             /\ IF e[1] < quality[e[2]]
                THEN pc' = "pop" /\ todo' = {}
                ELSE pc' = "relax" /\ todo' = {v \in NodeId : adjacency[e[2]][v] # NoLink}
      BY <1>3 DEF Pop
    <2>2. pc = "pop" /\ UNCHANGED <<adjacency, routes, quality, predecessor, fresh, updates>>
      BY <1>3 DEF Pop
    <2>3. CASE e[1] < quality[e[2]]
      BY <2>1, <2>2, <2>3, SkipRoute
    <2>4. CASE ~(e[1] < quality[e[2]])
      BY <2>1, <2>2, <2>4, SettleRoute
    <2>5. QED
      BY <2>3, <2>4
  <1>4. CASE Relax
    <2>1. PICK v \in todo :
             LET new == Times(cur[1], adjacency[cur[2]][v]) IN
             /\ todo' = todo \ {v}
             /\ IF Better(new, v)
                THEN /\ quality' = [quality EXCEPT ![v] = new]
                     /\ predecessor' = [predecessor EXCEPT ![v] = cur[2]]
                     /\ pq' = pq \union {<<new, v>>}
                ELSE UNCHANGED <<quality, predecessor, pq>>
      BY <1>4 DEF Relax
    <2>2. pc = "relax" /\ UNCHANGED <<adjacency, routes, pc, cur, fresh, updates>>
      BY <1>4 DEF Relax
    <2>3. CASE Better(Times(cur[1], adjacency[cur[2]][v]), v)
      BY <2>1, <2>2, <2>3, ImproveRoute
    <2>4. CASE ~Better(Times(cur[1], adjacency[cur[2]][v]), v)
      BY <2>1, <2>2, <2>4, KeepRoute
    <2>5. QED
      BY <2>3, <2>4
  <1>5. CASE Relaxed
    BY <1>5, RelaxedRoute
  <1>6. CASE Build
    BY <1>6, BuildRoute
  <1>7. CASE UNCHANGED routeVars
    <2> USE <1>7 DEF RouteInv, routeVars, work
    <2>1. RouteTypeOK'
      BY DEF RouteTypeOK
    <2>2. Searching' <=> Searching
      BY DEF Searching, Source, Queue, Edges, Current, Tree, Chains, Chain, Settled
    <2>3. /\ \A p : IsPath(p)' <=> IsPath(p)
          /\ \A p : PathQuality(p)' = PathQuality(p)
      BY DEF IsPath, PathQuality
    <2>4. RoutesOptimal'
      BY <2>3 DEF RoutesOptimal, SimplePaths
    <2>5. QED
      BY <2>1, <2>2, <2>4
  <1>8. QED
    BY <1>1, <1>2, <1>3, <1>4, <1>5, <1>6, <1>7 DEF RouteNext

\* Where a step only moves on, nothing is unsettled by it.
LEMMA SameUnsettled ==
  ASSUME \A v \in NodeId : Settled(v)' <=> Settled(v)
  PROVE  Unsettled' = Unsettled
  BY DEF Unsettled

\* What one step of the search does to the settled nodes, and what it uses up.
LEMMA StepSettles ==
  ASSUME RouteInv, [RouteNext]_routeVars, pc # "ready"
  PROVE  /\ \A v \in NodeId :
               Settled(v) => Settled(v)' /\ quality'[v] = quality[v] /\ predecessor'[v] = predecessor[v]
         /\ pc = "pop" /\ pc' = "relax" => ~Settled(cur'[2])
         /\ \/ pc' = "ready" \/ UNCHANGED routeVars
            \/ Fewer(Unsettled', Unsettled)
            \/ Unsettled' = Unsettled /\ pc = "relax" /\ (pc' = "pop" \/ Fewer(todo', todo))
            \/ Unsettled' = Unsettled /\ pc = "pop" /\ pc' = "pop" /\ Fewer(pq', pq)
  <1>1. CASE Pop
    <2>1. PICK e \in pq :
             /\ \A f \in pq : ~Below(e, f)
             /\ pq' = pq \ {e} /\ cur' = e
             /\ IF e[1] < quality[e[2]]
                THEN pc' = "pop" /\ todo' = {}
                ELSE pc' = "relax" /\ todo' = {v \in NodeId : adjacency[e[2]][v] # NoLink}
      BY <1>1 DEF Pop
    <2>2. pc = "pop" /\ UNCHANGED <<adjacency, routes, quality, predecessor, fresh, updates>>
      BY <1>1 DEF Pop
    <2>3. CASE e[1] < quality[e[2]]
      <3>1. \A v \in NodeId : Settled(v)' <=> Settled(v)
        BY <2>1, <2>2, <2>3, SkipRoute
      <3>2. Unsettled' = Unsettled
        BY <3>1, SameUnsettled
      <3>3. Fewer(pq', pq)
        BY <2>1 DEF Fewer
      <3>4. QED
        BY <3>1, <3>2, <3>3, <2>1, <2>2, <2>3
    <2>4. CASE ~(e[1] < quality[e[2]])
      <3>1. /\ e[2] \in NodeId /\ ~Settled(e[2])
            /\ \A v \in NodeId : Settled(v)' <=> Settled(v) \/ v = e[2]
        BY <2>1, <2>2, <2>4, SettleRoute
      <3>2. Fewer(Unsettled', Unsettled)
        BY <3>1 DEF Fewer, Unsettled
      <3>3. QED
        BY <3>1, <3>2, <2>1, <2>2
    <2>5. QED
      BY <2>3, <2>4
  <1>2. CASE Relax
    <2>1. PICK v \in todo :
             LET new == Times(cur[1], adjacency[cur[2]][v]) IN
             /\ todo' = todo \ {v}
             /\ IF Better(new, v)
                THEN /\ quality' = [quality EXCEPT ![v] = new]
                     /\ predecessor' = [predecessor EXCEPT ![v] = cur[2]]
                     /\ pq' = pq \union {<<new, v>>}
                ELSE UNCHANGED <<quality, predecessor, pq>>
      BY <1>2 DEF Relax
    <2>2. pc = "relax" /\ UNCHANGED <<adjacency, routes, pc, cur, fresh, updates>>
      BY <1>2 DEF Relax
    <2>3. Fewer(todo', todo)
      BY <2>1 DEF Fewer
    <2>4. CASE Better(Times(cur[1], adjacency[cur[2]][v]), v)
      <3>1. v \in NodeId /\ ~Settled(v) /\ \A w \in NodeId : Settled(w)' <=> Settled(w)
        BY <2>1, <2>2, <2>4, ImproveRoute
      <3>2. \A w \in NodeId : w # v => quality'[w] = quality[w] /\ predecessor'[w] = predecessor[w]
        BY <2>1, <2>4 DEF RouteInv, RouteTypeOK
      <3>3. QED
        BY <3>1, <3>2, <2>2, <2>3, SameUnsettled
    <2>5. CASE ~Better(Times(cur[1], adjacency[cur[2]][v]), v)
      <3>1. \A w \in NodeId : Settled(w)' <=> Settled(w)
        BY <2>1, <2>2, <2>5, KeepRoute
      <3>2. QED
        BY <3>1, <2>1, <2>2, <2>3, <2>5, SameUnsettled
    <2>6. QED
      BY <2>4, <2>5
  <1>3. CASE Relaxed
    <2>1. \A w \in NodeId : Settled(w)' <=> Settled(w)
      BY <1>3, RelaxedRoute
    <2>2. QED
      BY <1>3, <2>1, SameUnsettled DEF Relaxed, work
  <1>4. CASE Build \/ UNCHANGED routeVars
    BY <1>4 DEF Build, routeVars, work, Settled
  <1>5. QED
    BY <1>1, <1>2, <1>3, <1>4 DEF RouteNext, Change, update_link, remove_node, recompute

\* So the invariant always holds.
LEMMA RouteAlways == RouteSpec => []RouteInv
  BY InitRoute, StepRoute, PTL DEF RouteSpec

\* The graph of update_link() and remove_node() stays symmetric, and the search
\* keeps to the values of its maps, for any number of radios and of changes.
THEOREM RouteTypeCorrect == RouteSpec => []RouteTypeOK
  <1>1. RouteInv => RouteTypeOK
    BY DEF RouteInv
  <1>2. QED
    BY <1>1, RouteAlways, PTL

\* recompute() finds the best paths: on every graph, with any number of radios,
\* in any visiting order and with any ties.
THEOREM RouteOptimality == RouteSpec => []RoutesOptimal
  <1>1. RouteInv => RoutesOptimal
    BY DEF RouteInv
  <1>2. QED
    BY <1>1, RouteAlways, PTL

\* Dijkstra's argument: a node popped with its best quality has its best path, so
\* its route does not change and its links are not followed again.
THEOREM RouteSettledForGood == RouteSpec => SettledForGood
  <1>1. RouteInv /\ [RouteNext]_routeVars =>
          [pc # "ready" =>
             /\ \A v \in NodeId :
                   Settled(v) => Settled(v)' /\ quality'[v] = quality[v] /\ predecessor'[v] = predecessor[v]
             /\ pc = "pop" /\ pc' = "relax" => ~Settled(cur'[2])]_routeVars
    BY StepSettles
  <1>2. QED
    BY <1>1, RouteAlways, PTL DEF RouteSpec, SettledForGood

\* Every step of recompute() uses something up that it has only finitely much of:
\* unsettled nodes, links to follow, entries of the queue.
THEOREM RouteProgress == RouteSpec => Progress
  <1>1. RouteInv /\ [RouteNext]_routeVars =>
          [pc # "ready" /\ pc' # "ready" =>
             \/ Fewer(Unsettled', Unsettled)
             \/ Unsettled' = Unsettled /\ pc = "relax" /\ (pc' = "pop" \/ Fewer(todo', todo))
             \/ Unsettled' = Unsettled /\ pc = "pop" /\ pc' = "pop" /\ Fewer(pq', pq)]_routeVars
    BY StepSettles
  <1>2. QED
    BY <1>1, RouteAlways, PTL DEF RouteSpec, Progress
=============================================================================
