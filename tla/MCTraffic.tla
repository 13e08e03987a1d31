------------------------------ MODULE MCTraffic ------------------------------
(* TLC instances of Traffic. *)
EXTENDS Traffic, TLC

CONSTANTS v1, v2

\* 0 -> 1 is north-south, 0 -> 2 east-west, 1 -> 2 north-south.
MCRoadOf == <<0, 1>> :> 0 @@ <<0, 2>> :> 1 @@ <<1, 2>> :> 2
MCInitCongestion == [r \in 0..2 |-> 1]

\* One tick in free flow and, on road 0, two when it is busy.
MCTravelTicks == [r \in 0..2 |-> [c \in 1..10 |-> IF r = 0 /\ c > 2 THEN 2 ELSE 1]]

\* v1 goes straight on or turns off, v2 turns off: they meet in conflicting
\* directions at node 0, and on road 1.  A dispatched v1 may be given another route
\* than its corridor.
MCTrips == v1 :> {<<0, 1, 2>>, <<0, 2>>} @@ v2 :> {<<0, 2>>}
=============================================================================
