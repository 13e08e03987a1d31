------------------------------ MODULE Scenario ------------------------------
(***************************************************************************)
(* Scenario files of the capstone (internal/scenario/scenario.go) and the  *)
(* server's demo map (internal/model/topology.go): how a file's roads are  *)
(* numbered, doubled, validated and built into the graph that the engine   *)
(* indexes by road.  Distance, speed and congestion of a road are only     *)
(* legal or not.                                                           *)
(***************************************************************************)
EXTENDS Integers, Sequences, FiniteSets, SequencesExt, FiniteSetsExt

Road(id, from, to, legal) == [id |-> id, from |-> from, to |-> to, legal |-> legal]
Reversed(r, id) == Road(id, r.to, r.from, r.legal)

Ids(s) == {s[k].id : k \in DOMAIN s}
DistinctIds(s) == Cardinality(Ids(s)) = Len(s)

-----------------------------------------------------------------------------
(* Roads *)

\* A pair of neighbours as two roads, the pairs in order.
BothWays(pairs, legal) ==
  FlattenSeq([k \in DOMAIN pairs |->
    <<Road(2 * k - 1, pairs[k][1], pairs[k][2], legal), Road(2 * k, pairs[k][2], pairs[k][1], legal)>>])

\* Numbered column by column, vertical roads before horizontal ones.
generateGrid(g) ==
  LET id(col, row) == col * g.rows + row
      vertical == FlattenSeq([c \in 1..g.cols |-> [r \in 1..(g.rows - 1) |-> <<id(c - 1, r - 1), id(c - 1, r)>>]])
      horizontal == FlattenSeq([c \in 1..(g.cols - 1) |-> [r \in 1..g.rows |-> <<id(c - 1, r - 1), id(c, r - 1)>>]])
  IN  [intersections |-> [k \in 1..(g.cols * g.rows) |->
                            [id |-> k - 1, xy |-> <<(k - 1) \div g.rows, (k - 1) % g.rows>>]],
       roads |-> BothWays(vertical \o horizontal, g.legal)]

\* Every road once more the other way, under the next numbers that no road of the file has.
appendBidirectional(roads) ==
  LET next(n) == Min({m \in n..(n + Len(roads)) : m \notin Ids(roads)})
      add(acc, r) == [roads |-> Append(acc.roads, Reversed(r, next(acc.nextID))), nextID |-> next(acc.nextID) + 1]
  IN  FoldLeft(add, [roads |-> roads, nextID |-> Len(roads) + 1], roads).roads

\* The two formats of "roads".  A road object without a number gets its place.
parseRoads(file) ==
  IF file.format = "objects"
  THEN LET named == [k \in DOMAIN file.roads |-> IF file.roads[k].id = 0 THEN [file.roads[k] EXCEPT !.id = k] ELSE file.roads[k]]
       IN  IF file.bidirectional THEN appendBidirectional(named) ELSE named
  ELSE IF file.bidirectional
  THEN FlattenSeq([k \in DOMAIN file.roads |->
         <<[file.roads[k] EXCEPT !.id = 2 * k - 1], Reversed(file.roads[k], 2 * k)>>])
  ELSE [k \in DOMAIN file.roads |-> [file.roads[k] EXCEPT !.id = k]]

-----------------------------------------------------------------------------
(* LoadFile, Validate, Build *)

\* Grid shorthand replaces intersections and roads.
Parsed(file) ==
  LET map == IF file.format = "grid" THEN generateGrid(file.grid)
             ELSE [intersections |-> file.intersections, roads |-> parseRoads(file)]
  IN  [tickMs |-> file.tickMs, vehicle |-> file.vehicle, events |-> file.events,
       intersections |-> map.intersections, roads |-> map.roads]

Validate(s) ==
  LET nodes == Ids(s.intersections)
  IN  /\ s.tickMs > 0
      /\ s.intersections # <<>> /\ s.roads # <<>>
      /\ s.vehicle.plate # "" /\ s.vehicle.type \in {"normal", "emergency"}
      /\ DistinctIds(s.intersections) /\ \A k \in DOMAIN s.intersections : s.intersections[k].xy # <<>>
      /\ {s.vehicle.from, s.vehicle.to} \subseteq nodes
      /\ DistinctIds(s.roads)
      /\ \A k \in DOMAIN s.roads : {s.roads[k].from, s.roads[k].to} \subseteq nodes /\ s.roads[k].legal
      /\ \A k \in DOMAIN s.events :
           /\ s.events[k].tick >= 1 /\ s.events[k].type = "emergency" /\ s.events[k].plate # ""
           /\ {s.events[k].from, s.events[k].to} \subseteq nodes

\* sort.Slice by tick, which keeps no order among the events of one tick.
Sorted(events) ==
  {order \in SetToSeqs({<<k, events[k]>> : k \in DOMAIN events}) :
     \A i, j \in DOMAIN order : i < j => order[i][2].tick <= order[j][2].tick}

\* The scenarios LoadFile may return; none is an error.
LoadFile(file) ==
  IF ~Validate(Parsed(file)) THEN {}
  ELSE {[Parsed(file) EXCEPT !.events = [k \in DOMAIN order |-> order[k][2]]] : order \in Sorted(file.events)}

Contiguous(s) == Ids(s.intersections) = 0..(Len(s.intersections) - 1)

\* The graph: each node's outgoing roads in the order of the file.
Build(s) == [n \in 0..(Len(s.intersections) - 1) |-> SelectSeq(s.roads, LAMBDA r : r.from = n)]

\* engine.New's roadByID: of several roads with one number any may be the one that is kept.
RoadsByID(graph) ==
  LET all == UNION {ToSet(graph[n]) : n \in DOMAIN graph}
  IN  [id \in {r.id : r \in all} |-> {r \in all : r.id = id}]

-----------------------------------------------------------------------------
(* The server's map: a chain of 20 nodes with six shortcuts, both ways. *)

Shortcuts == <<<<0, 5>>, <<5, 10>>, <<10, 15>>, <<15, 19>>, <<2, 12>>, <<7, 17>>>>

GenerateDemoGraph ==
  LET chain == FlattenSeq([i \in 1..19 |-> <<Road(i - 1, i - 1, i, TRUE), Road(i + 99, i, i - 1, TRUE)>>])
      cuts == FlattenSeq([i \in DOMAIN Shortcuts |->
                <<Road(999 + i, Shortcuts[i][1], Shortcuts[i][2], TRUE), Road(1099 + i, Shortcuts[i][2], Shortcuts[i][1], TRUE)>>])
  IN  [n \in 0..19 |-> SelectSeq(chain \o cuts, LAMBDA r : r.from = n)]

-----------------------------------------------------------------------------
(* What a graph should be. *)

Successors(graph, n) == {graph[n][k].to : k \in DOMAIN graph[n]}

Reached(graph, from) ==
  FoldLeft(LAMBDA seen, k : seen \cup UNION {Successors(graph, n) : n \in seen}, {from},
           [k \in 1..Cardinality(DOMAIN graph) |-> k])

Connected(graph) == \A n \in DOMAIN graph : Reached(graph, n) = DOMAIN graph

\* Roads in both directions between the same nodes, as many each way.
TwoWay(graph) ==
  LET count(a, b) == Cardinality({k \in DOMAIN graph[a] : graph[a][k].to = b})
  IN  \A a, b \in DOMAIN graph : count(a, b) = count(b, a)

\* The engine's index loses no road.
IndexedExactly(graph) == \A id \in DOMAIN RoadsByID(graph) : Cardinality(RoadsByID(graph)[id]) = 1
=============================================================================
