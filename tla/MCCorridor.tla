----------------------------- MODULE MCCorridor -----------------------------
(* TLC instance of Corridor: a T-junction with two routes. *)
EXTENDS Corridor

CONSTANTS d1, d2, n1, n2, n3, r12, r23, r13

MCRoutes == {
  << [node |-> n1, road |-> r12], [node |-> n2, road |-> r23] >>,
  << [node |-> n1, road |-> r13] >>,
  << >> }

\* All dispatches ask for one plate, so every one after the first is refused it.
SamePlate(d) == "AMB-1"
=============================================================================
