--------------------------- MODULE MCRideDispatch ---------------------------
(* TLC instance of RideDispatch: three places on a line, in two blocks; one rider asks
   twice. *)
EXTENDS RideDispatch

CONSTANTS r1, r2, r3, p1, p2

MCLocations == 0..2
MCBlock(l) == l \div 2
MCNear == [b \in 0..1 |-> 0..1]
MCDistance(k, l) == IF k < l THEN l - k ELSE k - l
MCRequests == {r1, r2, r3}
MCRider == [r \in MCRequests |-> IF r = r3 THEN p2 ELSE p1]
MCPickup == [r \in MCRequests |-> CASE r = r1 -> 0 [] r = r2 -> 1 [] r = r3 -> 2]
MCDropoff == [r \in MCRequests |-> CASE r = r1 -> 2 [] r = r2 -> 0 [] r = r3 -> 1]
=============================================================================
