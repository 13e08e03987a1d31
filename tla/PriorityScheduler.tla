-------------------------- MODULE PriorityScheduler --------------------------
(***************************************************************************)
(* The priority mode of the CPU scheduler (10-day/cpu-scheduler): a        *)
(* producer pushes tasks into a heap under a mutex and leaves a token in a *)
(* channel of one place; the scheduler runs what it pops and waits for a   *)
(* token when there is nothing; an aging service raises the priority of    *)
(* whoever waits; main waits for the producer, then for an empty heap.     *)
(***************************************************************************)
EXTENDS Naturals, Sequences, FiniteSets

CONSTANTS
  NumTasks,      \* totalTasks
  MaxPriority    \* priorityMax; 1 is the highest

ASSUME PrioritySchedulerConstants == NumTasks \in Nat /\ MaxPriority \in Nat \ {0}

VARIABLES
  heap,       \* SafeTaskHeap.heap: tasks [pid, priority]
  token,      \* there is a token in notifyCh
  produced,   \* tasks pushed so far; a task's PID is its place in the order of arrival
  producer,   \* "next", "notify" (pushed, the token not yet left), "done"
  running,    \* <<>>, or the scheduler's task
  scheduler,  \* "pop", "empty" (it found nothing), "wait", "run", "done"
  completed,  \* the PIDs of the tasks done, in order
  aging,      \* the aging service runs
  main        \* waits for: "producer", "drain", "scheduler", "aging"; "done"

psVars == <<heap, token, produced, producer, running, scheduler, completed, aging, main>>

\* A task as far as its place in the heap goes.
QueuedTask == [pid : Nat, priority : Nat]

\* LessTask.  Arrival times are in the order of the PIDs.
LessTask(t, u) ==
  IF t.priority # u.priority THEN t.priority < u.priority ELSE t.pid < u.pid

-----------------------------------------------------------------------------
(* heap/min_heap.go: a slice in which no item is less than its parent.  Item i's *)
(* parent is i \div 2. *)

Swap(h, i, j) == [h EXCEPT ![i] = h[j], ![j] = h[i]]

\* A slice of n items, and the index of the one that moves.
Moving(n) == [items : [1..n -> QueuedTask], index : 1..n]

MovedTo(w, i) == [items |-> Swap(w.items, w.index, i), index |-> i]

HeapifyUp(h, i) ==
  LET up[w \in Moving(Len(h))] ==
        IF w.index = 1 \/ ~LessTask(w.items[w.index], w.items[w.index \div 2]) THEN w.items
        ELSE up[MovedTo(w, w.index \div 2)]
  IN  up[[items |-> h, index |-> i]]

\* Broken variant: only the left child is looked at.
SmallestOf_LeftOnly(h, i) ==
  LET smaller(c, m) == IF c \in DOMAIN h /\ LessTask(h[c], h[m]) THEN c ELSE m
  IN  smaller(2 * i, i)

\* Of an item and its children, the index of the smallest.
SmallestOf(h, i) ==
  LET smaller(c, m) == IF c \in DOMAIN h /\ LessTask(h[c], h[m]) THEN c ELSE m
  IN  smaller(2 * i + 1, smaller(2 * i, i))

HeapifyDown(h, i) ==
  LET down[w \in Moving(Len(h))] ==
        IF SmallestOf(w.items, w.index) = w.index THEN w.items
        ELSE down[MovedTo(w, SmallestOf(w.items, w.index))]
  IN  down[[items |-> h, index |-> i]]

Push(h, x) == HeapifyUp(Append(h, x), Len(h) + 1)

\* What Pop leaves: the last item takes the root's place and sinks.
Popped(h) ==
  LET rest == SubSeq([h EXCEPT ![1] = h[Len(h)]], 1, Len(h) - 1)
  IN  IF rest = <<>> THEN rest ELSE HeapifyDown(rest, 1)

-----------------------------------------------------------------------------

PSInit ==
  /\ heap = <<>> /\ token = FALSE
  /\ produced = 0 /\ producer = "next"
  /\ running = <<>> /\ scheduler = "pop" /\ completed = <<>>
  /\ aging = TRUE /\ main = "producer"

Cancelled == main \in {"scheduler", "aging", "done"}

-----------------------------------------------------------------------------
(* TaskProducer.Run and SafeTaskHeap.Push.  The context is cancelled only after *)
(* the producer is done. *)

PushTask ==
  /\ producer = "next" /\ produced < NumTasks
  /\ \E p \in 1..MaxPriority : heap' = Push(heap, [pid |-> produced + 1, priority |-> p])
  /\ produced' = produced + 1 /\ producer' = "notify"
  /\ UNCHANGED <<token, running, scheduler, completed, aging, main>>

\* Broken variant: the channel has no place, so only a scheduler that waits is told.
Notify_Unbuffered ==
  /\ producer = "notify"
  /\ token' = (scheduler = "wait") /\ producer' = "next"
  /\ UNCHANGED <<heap, produced, running, scheduler, completed, aging, main>>

Notify ==
  /\ producer = "notify"
  /\ token' = TRUE /\ producer' = "next"
  /\ UNCHANGED <<heap, produced, running, scheduler, completed, aging, main>>

ProducerDone ==
  /\ producer = "next" /\ produced = NumTasks
  /\ producer' = "done"
  /\ UNCHANGED <<heap, token, produced, running, scheduler, completed, aging, main>>

-----------------------------------------------------------------------------
(* PriorityScheduler.Run *)

PopEmpty ==
  /\ scheduler = "pop" /\ heap = <<>>
  /\ scheduler' = "empty"
  /\ UNCHANGED <<heap, token, produced, producer, running, completed, aging, main>>

\* Tasks may have come since it looked.
Listen ==
  /\ scheduler = "empty"
  /\ scheduler' = "wait"
  /\ UNCHANGED <<heap, token, produced, producer, running, completed, aging, main>>

PopTask ==
  /\ scheduler = "pop" /\ heap # <<>>
  /\ running' = <<Head(heap)>> /\ heap' = Popped(heap)
  /\ scheduler' = "run"
  /\ UNCHANGED <<token, produced, producer, completed, aging, main>>

\* The token may be of a task that has long been popped: the scheduler looks again.
Wake ==
  /\ scheduler = "wait" /\ token
  /\ token' = FALSE /\ scheduler' = "pop"
  /\ UNCHANGED <<heap, produced, producer, running, completed, aging, main>>

\* Only a scheduler with nothing to pop listens to the context.
SchedulerDone ==
  /\ scheduler = "wait" /\ Cancelled
  /\ scheduler' = "done"
  /\ UNCHANGED <<heap, token, produced, producer, running, completed, aging, main>>

RunTask ==
  /\ scheduler = "run"
  /\ completed' = Append(completed, running[1].pid) /\ running' = <<>>
  /\ scheduler' = "pop"
  /\ UNCHANGED <<heap, token, produced, producer, aging, main>>

-----------------------------------------------------------------------------
(* AgingService.Run and SafeTaskHeap.AgeWaitingTasks *)

Aged(t) == IF t.priority > 1 THEN [t EXCEPT !.priority = @ - 1] ELSE t

\* Tasks on their way from a heap to a slice, or from a slice to a heap.
InTransit == [from : Seq(QueuedTask), to : Seq(QueuedTask)]

AgeFirst(w) == [from |-> Popped(w.from), to |-> Append(w.to, Aged(Head(w.from)))]
PushFirst(w) == [from |-> Tail(w.from), to |-> Push(w.to, Head(w.from))]

\* All tasks of heap h are popped and aged, in order,
Refill(h) ==
  LET pop[w \in InTransit] == IF w.from = <<>> THEN w.to ELSE pop[AgeFirst(w)]
  IN  pop[[from |-> h, to |-> <<>>]]

\* and then pushed again.
PushAll(tasks) ==
  LET push[w \in InTransit] == IF w.from = <<>> THEN w.to ELSE push[PushFirst(w)]
  IN  push[[from |-> tasks, to |-> <<>>]]

Age ==
  /\ aging
  /\ heap' = PushAll(Refill(heap))
  /\ UNCHANGED <<token, produced, producer, running, scheduler, completed, aging, main>>

AgingDone ==
  /\ aging /\ Cancelled
  /\ aging' = FALSE
  /\ UNCHANGED <<heap, token, produced, producer, running, scheduler, completed, main>>

-----------------------------------------------------------------------------
(* runPriority *)

Awaken(from, to, condition) ==
  /\ main = from /\ condition /\ main' = to
  /\ UNCHANGED <<heap, token, produced, producer, running, scheduler, completed, aging>>

SeeProducerDone == Awaken("producer", "drain", producer = "done")
\* The heap is empty; its last task may still run.
Cancel == Awaken("drain", "scheduler", heap = <<>>)
SeeSchedulerDone == Awaken("scheduler", "aging", scheduler = "done")
SeeAgingDone == Awaken("aging", "done", ~aging)

ProducerStep == PushTask \/ Notify \/ ProducerDone
SchedulerStep == PopEmpty \/ Listen \/ PopTask \/ Wake \/ SchedulerDone \/ RunTask
MainStep == SeeProducerDone \/ Cancel \/ SeeSchedulerDone \/ SeeAgingDone

PSNext == ProducerStep \/ SchedulerStep \/ Age \/ AgingDone \/ MainStep

PSSpec == PSInit /\ [][PSNext]_psVars

-----------------------------------------------------------------------------
(* Properties *)

PIDs == 1..NumTasks

\* The task taken is the first by priority and then by arrival among those queued,
\* whatever pushes, pops and agings came before it.
TakesFirst ==
  [][scheduler = "pop" /\ scheduler' = "run" =>
       \A i \in DOMAIN heap' : LessTask(running'[1], heap'[i])]_psVars

\* Main has returned and every task has run exactly once.
Ended == main = "done" /\ Len(completed) = NumTasks /\ {completed[i] : i \in 1..NumTasks} = PIDs
=============================================================================
