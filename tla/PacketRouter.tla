---------------------------- MODULE PacketRouter ----------------------------
(***************************************************************************)
(* The packet router (04-day/project): a queue for each of the priority    *)
(* levels, served in order.  NewRouter is given the kind of queue: a ring  *)
(* that grows, a linked list or a slice.                                   *)
(***************************************************************************)
EXTENDS Integers, Sequences

CONSTANTS
  Inputs,          \* packets as they come: [ttl, traffic, priority]
  PriorityLevels,  \* 5 in the code
  InitialSlots,    \* of a ring, 16 in the code
  MaxPackets       \* bound: packets that come in

ASSUME RouterConstants ==
  /\ PriorityLevels \in Nat \ {0} /\ InitialSlots \in Nat \ {0} /\ MaxPackets \in Nat
  /\ \A p \in Inputs : p.ttl \in Int /\ p.priority \in Int

VARIABLES
  queues,     \* Router.queues, by level
  nextID,     \* the ID of the next packet
  forwarded,  \* IDs of the packets ProcessNext gave back, in order
  drops       \* Router.drops: [id, reason]

routerVars == <<queues, nextID, forwarded, drops>>

RouterLevels == 1..PriorityLevels
NoPacket == [id |-> 0, ttl |-> 0, priority |-> 0]

Ring(n) == [kind |-> "ring", items |-> [i \in 0..(n - 1) |-> NoPacket], head |-> 0, tail |-> 0, size |-> 0]
LinkedList == [kind |-> "linked", head |-> 0, tail |-> 0, size |-> 0, next |-> [i \in 1..MaxPackets |-> 0],
               value |-> [i \in 1..MaxPackets |-> NoPacket]]
Slice == [kind |-> "slice", items |-> <<>>]

RouterInit ==
  /\ \E q \in {Ring(InitialSlots), LinkedList, Slice} : queues = [l \in RouterLevels |-> q]
  /\ nextID = 1 /\ forwarded = <<>> /\ drops = <<>>

-----------------------------------------------------------------------------
(* RingBufferQueue *)

RingSlots(q) == 1 + CHOOSE last \in DOMAIN q.items : \A i \in DOMAIN q.items : i <= last

\* The items, oldest first, from slot 0 of a ring of twice as many slots on.
Grown(q) ==
  [q EXCEPT !.items = [i \in 0..(2 * RingSlots(q) - 1) |->
                         IF i < q.size THEN q.items[(q.head + i) % RingSlots(q)] ELSE NoPacket],
            !.head = 0, !.tail = q.size]

\* Broken variant: the new ring copies the slots as they are.
RingRoom_CopiesSlots(q) ==
  IF q.size < RingSlots(q) THEN q
  ELSE [q EXCEPT !.items = [i \in 0..(2 * RingSlots(q) - 1) |-> IF i < q.size THEN q.items[i] ELSE NoPacket],
                 !.head = 0, !.tail = q.size]

\* A full ring grows.
RingRoom(q) == IF q.size < RingSlots(q) THEN q ELSE Grown(q)

RingEnqueue(q, p) ==
  LET r == RingRoom(q)
  IN  [r EXCEPT !.items[r.tail] = p, !.tail = (r.tail + 1) % RingSlots(r), !.size = r.size + 1]

RingDequeue(q) ==
  [q EXCEPT !.items[q.head] = NoPacket, !.head = (q.head + 1) % RingSlots(q), !.size = q.size - 1]

(* LinkedListQueue, with the packet's ID for the address of its node; 0 is nil. *)

ListEnqueue(q, p) ==
  [q EXCEPT !.value[p.id] = p,
            !.next = IF q.size = 0 THEN @ ELSE [@ EXCEPT ![q.tail] = p.id],
            !.head = IF q.size = 0 THEN p.id ELSE @,
            !.tail = p.id, !.size = q.size + 1]

\* The node dequeued is garbage.
ListDequeue(q) ==
  [q EXCEPT !.head = q.next[q.head], !.size = q.size - 1, !.tail = IF q.size = 1 THEN 0 ELSE @,
            !.next[q.head] = 0, !.value[q.head] = NoPacket]

Enqueued(q, p) ==
  CASE q.kind = "ring" -> RingEnqueue(q, p)
    [] q.kind = "linked" -> ListEnqueue(q, p)
    [] OTHER -> [q EXCEPT !.items = Append(@, p)]

Dequeued(q) ==
  CASE q.kind = "ring" -> RingDequeue(q)
    [] q.kind = "linked" -> ListDequeue(q)
    [] OTHER -> [q EXCEPT !.items = Tail(@)]

IsEmpty(q) == IF q.kind = "slice" THEN q.items = <<>> ELSE q.size = 0

Front(q) ==
  CASE q.kind = "ring" -> q.items[q.head]
    [] q.kind = "linked" -> q.value[q.head]
    [] OTHER -> Head(q.items)

-----------------------------------------------------------------------------
(* Router *)

NormalizePriority(priority) ==
  IF priority < 1 THEN 1 ELSE IF priority > PriorityLevels THEN PriorityLevels ELSE priority

\* DefaultClassifier.  The traffic is ping, syn (without ack) or other.
Classify(p) ==
  CASE p.traffic = "ping" -> 1
    [] p.traffic = "syn" -> 2
    [] OTHER -> NormalizePriority(p.priority)

LogDrop(id, reason) == drops' = Append(drops, [id |-> id, reason |-> reason])

EnqueueNil ==
  /\ LogDrop(0, "nil_packet") /\ nextID <= MaxPackets /\ nextID' = nextID + 1
  /\ UNCHANGED <<queues, forwarded>>

Enqueue(p) ==
  /\ nextID <= MaxPackets /\ nextID' = nextID + 1
  /\ IF p.ttl <= 0
     THEN LogDrop(nextID, "ttl_expired") /\ UNCHANGED queues
     ELSE LET l == NormalizePriority(Classify(p))
              packet == [id |-> nextID, ttl |-> p.ttl, priority |-> l]
          IN  queues' = [queues EXCEPT ![l] = Enqueued(@, packet)] /\ UNCHANGED drops
  /\ UNCHANGED forwarded

\* The level Dequeue takes from.
FirstLevel == CHOOSE l \in RouterLevels : ~IsEmpty(queues[l]) /\ \A k \in RouterLevels : k < l => IsEmpty(queues[k])

ProcessNext ==
  /\ \E l \in RouterLevels : ~IsEmpty(queues[l])
  /\ LET p == Front(queues[FirstLevel])
     IN  IF p.ttl - 1 <= 0
         THEN LogDrop(p.id, "ttl_expired") /\ UNCHANGED forwarded
         ELSE forwarded' = Append(forwarded, p.id) /\ UNCHANGED drops
  /\ queues' = [queues EXCEPT ![FirstLevel] = Dequeued(@)]
  /\ UNCHANGED nextID

RouterNext == EnqueueNil \/ (\E p \in Inputs : Enqueue(p)) \/ ProcessNext

RouterSpec == RouterInit /\ [][RouterNext]_routerVars

-----------------------------------------------------------------------------

\* The packets of a linked queue, from its head on.
Linked(q) ==
  LET node[i \in 1..q.size] == IF i = 1 THEN q.head ELSE q.next[node[i - 1]]
  IN  [i \in 1..q.size |-> q.value[node[i]]]

\* The packets in a queue, first to last.
Packets(q) ==
  CASE q.kind = "ring" -> [i \in 1..q.size |-> q.items[(q.head + i - 1) % RingSlots(q)]]
    [] q.kind = "linked" -> Linked(q)
    [] OTHER -> q.items

\* What the service tells of packets.
Seen(packets) == [i \in DOMAIN packets |-> [id |-> packets[i].id, ttl |-> packets[i].ttl]]

Forwarding == INSTANCE PriorityForwarding WITH
  Levels <- RouterLevels,
  waiting <- [l \in RouterLevels |-> Seen(Packets(queues[l]))],
  dropped <- [i \in DOMAIN drops |-> drops[i].id]

\* ImplementsForwarding: with each kind of queue the router serves strictly by level and in order
\* of arrival within one, and every packet leaves exactly once, also across the growth of a
\* ring whose packets wrap around and the reuse of an emptied list.
ImplementsForwarding == Forwarding!ForwardingSpec
=============================================================================
