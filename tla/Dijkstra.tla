------------------------------ MODULE Dijkstra ------------------------------
(***************************************************************************)
(* Route computation: dijkstra.ShortestPath over the engine's graphView    *)
(* (capstone/internal/dijkstra, ds/priority_queue.go and graphView in      *)
(* engine.go).  graphView takes roadMu once per road, so the congestion    *)
(* updater and a dispatch may change costs while a route is computed.      *)
(*                                                                         *)
(* dist and prev are functions on the nodes reached (the code's +Inf and   *)
(* -1 are absence).  The heap is the set of its items: which of two equal  *)
(* priorities it pops is left open.  Costs are WeightMinutes scaled to     *)
(* integers: Length[e] is the free-flow time of e over 600.                *)
(***************************************************************************)
EXTENDS Naturals, Sequences, FiniteSets

CONSTANTS
  Nodes, Roads,
  From(_), To(_),  \* a road's two ends
  Length,            \* Length[e], distance over speed limit
  Src,
  Avoid,             \* avoidEmergency: TRUE for a normal vehicle
  Levels             \* congestion levels the roads take, within 1..10

ASSUME DijkstraConstants ==
  /\ IsFiniteSet(Nodes) /\ Src \in Nodes
  /\ \A e \in Roads : From(e) \in Nodes /\ To(e) \in Nodes
  /\ Length \in [Roads -> Nat \ {0}]
  /\ Avoid \in BOOLEAN /\ Levels \subseteq 1..10

VARIABLES
  dst,                 \* the destination asked for
  congestion, onCorr,  \* roadState.congestion and roadOnCorr, read live
  dist, prev, queue,
  cur, todo,           \* the node being expanded and its roads still to relax
  pc,                  \* "pop", "relax" or "done"
  disturbed            \* history: a road changed during the computation

inputVars == <<dst, congestion, onCorr, disturbed>>
vars == <<inputVars, dist, prev, queue, cur, todo, pc>>

\* Broken variant: the corridor costs nothing extra.
Cost_NoPenalty(e) == Length[e] * (9 + congestion[e])

\* WeightMinutes of the copy of road e that graphView.Neighbors returns now.
Cost(e) ==
  IF Avoid /\ e \in onCorr THEN 50 * Length[e] * 19
  ELSE Length[e] * (9 + congestion[e])

Out(n) == {e \in Roads : From(e) = n}

Init ==
  /\ dst \in Nodes /\ disturbed = FALSE
  /\ congestion \in [Roads -> Levels] /\ onCorr \in SUBSET Roads
  /\ dist = [n \in {Src} |-> 0] /\ prev = [n \in {} |-> Src]
  /\ queue = {<<Src, 0>>}
  /\ cur = Src /\ todo = {} /\ pc = "pop"

\* Broken variant: the item is looked at and stays in the heap.
Pop_Peek ==
  /\ pc = "pop"
  /\ \E item \in queue :
       /\ \A other \in queue : item[2] <= other[2]
       /\ \/ item[2] > dist[item[1]] /\ UNCHANGED <<cur, todo, pc>>
          \/ /\ item[2] <= dist[item[1]] /\ item[1] = dst
             /\ pc' = "done" /\ UNCHANGED <<cur, todo>>
          \/ /\ item[2] <= dist[item[1]] /\ item[1] # dst
             /\ cur' = item[1] /\ todo' = Out(item[1])
             /\ pc' = IF Out(item[1]) = {} THEN "pop" ELSE "relax"
  /\ UNCHANGED <<inputVars, dist, prev, queue>>

\* An item of least priority is taken; it is stale if the node has been given a
\* shorter distance since, and the search ends at dst.
Pop ==
  /\ pc = "pop"
  /\ \E item \in queue :
       /\ \A other \in queue : item[2] <= other[2]
       /\ queue' = queue \ {item}
       /\ \/ /\ item[2] > dist[item[1]]
             /\ UNCHANGED <<cur, todo, pc>>
          \/ /\ item[2] <= dist[item[1]] /\ item[1] = dst
             /\ pc' = "done" /\ UNCHANGED <<cur, todo>>
          \/ /\ item[2] <= dist[item[1]] /\ item[1] # dst
             /\ cur' = item[1] /\ todo' = Out(item[1])
             /\ pc' = IF Out(item[1]) = {} THEN "pop" ELSE "relax"
  /\ UNCHANGED <<inputVars, dist, prev>>

Exhausted ==
  /\ pc = "pop" /\ queue = {}
  /\ pc' = "done"
  /\ UNCHANGED <<inputVars, dist, prev, queue, cur, todo>>

\* Broken variant: the first distance found is kept.
Shorter_First(alt, v) == v \notin DOMAIN dist

Shorter(alt, v) == v \notin DOMAIN dist \/ alt < dist[v]

\* f with v mapped to x.
With(f, v, x) == [n \in DOMAIN f \cup {v} |-> IF n = v THEN x ELSE f[n]]

\* One road out of cur is read and relaxed.
Relax(e) ==
  /\ pc = "relax" /\ e \in todo
  /\ LET v == To(e)
         alt == dist[cur] + Cost(e)
     IN  IF Shorter(alt, v)
         THEN /\ dist' = With(dist, v, alt) /\ prev' = With(prev, v, cur)
              /\ queue' = queue \cup {<<v, alt>>}
         ELSE UNCHANGED <<dist, prev, queue>>
  /\ todo' = todo \ {e}
  /\ pc' = IF todo' = {} THEN "pop" ELSE "relax"
  /\ UNCHANGED <<inputVars, cur>>

\* The updater or a dispatch changes a road under the computation.
Disturb ==
  /\ pc # "done"
  /\ disturbed' = TRUE
  /\ \/ \E e \in Roads, c \in Levels :
          congestion' = [congestion EXCEPT ![e] = c] /\ UNCHANGED onCorr
     \/ \E e \in Roads :
          onCorr' \in {onCorr \cup {e}, {}} /\ UNCHANGED congestion
  /\ UNCHANGED <<dst, dist, prev, queue, cur, todo, pc>>

SearchStep == Pop \/ Exhausted \/ \E e \in Roads : Relax(e)

Next == SearchStep \/ Disturb

Spec == Init /\ [][Next]_vars

\* The caller's goroutine keeps running.
FairSpec == Spec /\ WF_vars(SearchStep)

-----------------------------------------------------------------------------
(* The path: prev followed back from dst. *)

Size == Cardinality(Nodes)

\* The node k steps back from n; it stays at a node with no predecessor.
Back(n) ==
  LET back[k \in 0..Size] ==
        IF k = 0 THEN n
        ELSE LET b == back[k - 1] IN IF b \in DOMAIN prev THEN prev[b] ELSE b
  IN  back

\* The nodes of the path to n.
PathNodes(n) == {Back(n)[k] : k \in 0..Size}

-----------------------------------------------------------------------------
(* Properties *)

TypeOK ==
  /\ dst \in Nodes /\ disturbed \in BOOLEAN
  /\ congestion \in [Roads -> 1..10] /\ onCorr \subseteq Roads
  /\ Src \in DOMAIN dist /\ DOMAIN dist \subseteq Nodes
  /\ \A n \in DOMAIN dist : dist[n] \in Nat
  /\ DOMAIN prev \subseteq Nodes /\ \A n \in DOMAIN prev : prev[n] \in Nodes
  /\ \A q \in queue : q[1] \in DOMAIN dist /\ q[2] \in Nat
  /\ cur \in DOMAIN dist /\ todo \subseteq Out(cur)
  /\ pc \in {"pop", "relax", "done"}

\* Every node reached, except the source, hangs on a neighbour that is strictly
\* closer; so the loop that rebuilds the path cannot run in a circle, even when
\* costs change between two reads of them.
PrevDescends ==
  /\ DOMAIN dist = DOMAIN prev \cup {Src} /\ Src \notin DOMAIN prev
  /\ \A n \in DOMAIN prev :
       /\ prev[n] \in DOMAIN dist /\ dist[prev[n]] < dist[n]
       /\ \E e \in Roads : From(e) = prev[n] /\ To(e) = n

\* Roads that lead head to tail from Src to n; the longest path without a circle has one
\* road less than there are nodes.
Leads(p, n) ==
  IF p = <<>> THEN n = Src
  ELSE From(p[1]) = Src /\ To(p[Len(p)]) = n /\ \A i \in 1..(Len(p) - 1) : To(p[i]) = From(p[i + 1])

Walks(n) == {p \in UNION {[1..k -> Roads] : k \in 0..(Size - 1)} : Leads(p, n)}

WalkCost(p) ==
  LET sum[i \in 0..Len(p)] == IF i = 0 THEN 0 ELSE sum[i - 1] + Cost(p[i])
  IN  sum[Len(p)]

\* p is what following prev back from its end gives.
Follows(p) == \A i \in DOMAIN p : To(p[i]) \in DOMAIN prev /\ prev[To(p[i])] = From(p[i])

\* With costs that stayed at rest, the distance found is the least cost of all paths to dst,
\* the path that prev gives has that cost, and there is no path when no distance is found.
ShortestFound ==
  pc = "done" /\ ~disturbed =>
    IF dst \in DOMAIN dist
    THEN /\ \A p \in Walks(dst) : dist[dst] <= WalkCost(p)
         /\ \E p \in Walks(dst) : Follows(p) /\ WalkCost(p) = dist[dst]
    ELSE Walks(dst) = {}

WalkLength(p) ==
  LET sum[i \in 0..Len(p)] == IF i = 0 THEN 0 ELSE sum[i - 1] + Length[p[i]]
  IN  sum[Len(p)]

OffCorridor(p) == \A i \in DOMAIN p : p[i] \notin onCorr

\* A normal vehicle's route keeps off the emergency corridor, whatever the congestion, when it
\* can do so on a way not fifty times as long as a road of the corridor.
KeepsOffCorridor ==
  /\ pc = "done" /\ ~disturbed /\ Avoid
  /\ \E q \in Walks(dst) : OffCorridor(q) /\ \A e \in onCorr : WalkLength(q) < 50 * Length[e]
  => \E p \in Walks(dst) : Follows(p) /\ OffCorridor(p)

\* The search ends, although costs may keep changing, and following prev back from any
\* node reached, as the rebuilding of the path does, leads to Src.
SearchEnds == <>(pc = "done" /\ \A n \in DOMAIN dist : Back(n)[Size] = Src)
=============================================================================
