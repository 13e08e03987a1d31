------------------------- MODULE PriorityForwarding -------------------------
(***************************************************************************)
(* What a packet router promises: every packet is queued or refused; the   *)
(* next one forwarded is the longest waiting of the first level that has   *)
(* one; a packet leaves once, forwarded or dropped when its TTL runs out.  *)
(***************************************************************************)
EXTENDS Naturals, Sequences

CONSTANT Levels  \* 1..n, the first served first

VARIABLES
  waiting,    \* packets [id, ttl] by level
  forwarded,  \* the ids given to the next hop, in order
  dropped     \* the ids refused or dropped, in order

forwardingVars == <<waiting, forwarded, dropped>>

Init == waiting = [l \in Levels |-> <<>>] /\ forwarded = <<>> /\ dropped = <<>>

\* Only a packet with hops left is queued, behind the others of its level.
Accept ==
  /\ \E l \in Levels :
       /\ Len(waiting'[l]) = Len(waiting[l]) + 1
       /\ waiting'[l][Len(waiting'[l])].ttl > 0
       /\ waiting' = [waiting EXCEPT ![l] = Append(@, waiting'[l][Len(waiting'[l])])]
  /\ UNCHANGED <<forwarded, dropped>>

Refuse ==
  /\ Len(dropped') = Len(dropped) + 1 /\ SubSeq(dropped', 1, Len(dropped)) = dropped
  /\ UNCHANGED <<waiting, forwarded>>

Serve ==
  \E l \in Levels :
    /\ waiting[l] # <<>> /\ \A k \in Levels : k < l => waiting[k] = <<>>
    /\ waiting' = [waiting EXCEPT ![l] = Tail(@)]
    /\ LET p == Head(waiting[l])
       IN  IF p.ttl > 1
           THEN forwarded' = Append(forwarded, p.id) /\ UNCHANGED dropped
           ELSE dropped' = Append(dropped, p.id) /\ UNCHANGED forwarded

Next == Accept \/ Refuse \/ Serve

ForwardingSpec == Init /\ [][Next]_forwardingVars
=============================================================================
