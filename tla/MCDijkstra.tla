----------------------------- MODULE MCDijkstra -----------------------------
(***************************************************************************)
(* TLC instance of Dijkstra.                                               *)
(***************************************************************************)
EXTENDS Dijkstra

\* Roads are pairs of nodes.
MCFrom(e) == e[1]
MCTo(e) == e[2]

MCNodes == 1..5
\* A triangle with a way back, node 4 behind it; node 5 cannot be reached.
MCRoads == {<<1, 2>>, <<2, 3>>, <<1, 3>>, <<3, 2>>, <<2, 4>>}
MCLength == [e \in MCRoads |-> IF e = <<1, 3>> THEN 2 ELSE 1]
=============================================================================
