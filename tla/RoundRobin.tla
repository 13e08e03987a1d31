----------------------------- MODULE RoundRobin -----------------------------
(***************************************************************************)
(* The round-robin mode of the CPU scheduler: three queues by priority     *)
(* class, a turn of the class's quantum cut into chunks, preemption at the *)
(* end of a chunk when a high-priority task is queued.  Time is counted in *)
(* chunks.  The driver is runRoundRobin of cmd/sim (all tasks are there    *)
(* before the scheduler starts) and the main of cmd/rr-sim (some come      *)
(* while it runs).                                                         *)
(***************************************************************************)
EXTENDS Naturals, Sequences, FiniteSets

CONSTANTS
  RRTasks,   \* taskCount, totalTasks
  HighQuantum, MediumQuantum, LowQuantum,  \* a turn of each class, in chunks
  MaxBurst   \* the longest CPUBurst of a task pushed, in chunks

VARIABLES
  ready,     \* RoundRobinQueue: tasks [pid, class, burst] by class
  pushed,    \* tasks pushed so far
  started,   \* the scheduler's goroutine runs
  turn,      \* where RoundRobinScheduler.Run is: "top", "pop", "run", "done"
  current,   \* <<>>, or the task whose turn it is
  left,      \* chunks left of its turn
  finished,  \* the PIDs recorded complete, in order
  driver,    \* "push", "poll", "wait" (cancelled), "done"
  timedOut,  \* the driver gave up waiting
  overtaken  \* chunks given to others since a high-priority task is queued

rrVars == <<ready, pushed, started, turn, current, left, finished, driver, timedOut, overtaken>>

Classes == {"high", "medium", "low"}

RRInit ==
  /\ ready = [c \in Classes |-> <<>>] /\ pushed = 0 /\ started = FALSE
  /\ turn = "top" /\ current = <<>> /\ left = 0 /\ finished = <<>>
  /\ driver = "push" /\ timedOut = FALSE /\ overtaken = 0

Quantum(c) == CASE c = "high" -> HighQuantum [] c = "medium" -> MediumQuantum [] OTHER -> LowQuantum

QueuePush(t) == ready' = [ready EXCEPT ![t.class] = Append(@, t)]

HasHighPriorityTask == ready["high"] # <<>>

-----------------------------------------------------------------------------
(* The driver *)

RRPushTask ==
  /\ driver = "push" /\ pushed < RRTasks
  /\ \E c \in Classes, b \in 1..MaxBurst : QueuePush([pid |-> pushed + 1, class |-> c, burst |-> b])
  /\ pushed' = pushed + 1
  /\ UNCHANGED <<started, turn, current, left, finished, driver, timedOut, overtaken>>

StartScheduler ==
  /\ driver = "push" /\ ~started
  /\ started' = TRUE
  /\ UNCHANGED <<ready, pushed, turn, current, left, finished, driver, timedOut, overtaken>>

DriverMoves(from, to) ==
  /\ driver = from /\ driver' = to
  /\ UNCHANGED <<ready, pushed, started, turn, current, left, finished, overtaken>>

StartPolling == started /\ pushed = RRTasks /\ DriverMoves("push", "poll") /\ UNCHANGED timedOut

\* IsComplete, then cancel.
SeeComplete == Len(finished) >= RRTasks /\ DriverMoves("poll", "wait") /\ UNCHANGED timedOut

GiveUp == DriverMoves("poll", "wait") /\ timedOut' = TRUE

SeeSchedulerGone == turn = "done" /\ DriverMoves("wait", "done") /\ UNCHANGED timedOut

-----------------------------------------------------------------------------
(* RoundRobinScheduler.Run *)

SchedulerMoves(from, to) == started /\ turn = from /\ turn' = to

SeeContext ==
  /\ SchedulerMoves("top", IF driver = "wait" THEN "done" ELSE "pop")
  /\ UNCHANGED <<ready, pushed, started, current, left, finished, driver, timedOut, overtaken>>

\* It sleeps, and looks at the context again.
PopNothing ==
  /\ SchedulerMoves("pop", "top")
  /\ \A c \in Classes : ready[c] = <<>>
  /\ UNCHANGED <<ready, pushed, started, current, left, finished, driver, timedOut, overtaken>>

\* The class whose queue Pop takes from.
FirstClass ==
  CASE HasHighPriorityTask -> "high"
    [] ~HasHighPriorityTask /\ ready["medium"] # <<>> -> "medium"
    [] OTHER -> "low"

RRPopTask ==
  /\ SchedulerMoves("pop", "run")
  /\ \E c \in Classes : ready[c] # <<>>
  /\ LET c == FirstClass
         t == Head(ready[c])
         high == IF c = "high" THEN Tail(ready[c]) ELSE ready["high"]
     IN  /\ current' = <<t>>
         /\ ready' = [ready EXCEPT ![c] = Tail(@)]
         /\ left' = IF t.burst < Quantum(c) THEN t.burst ELSE Quantum(c)
         /\ overtaken' = IF high = <<>> THEN 0 ELSE overtaken
  /\ UNCHANGED <<pushed, started, finished, driver, timedOut>>

\* The task as the chunk leaves it.
Worked == [current[1] EXCEPT !.burst = @ - 1]

\* One sleep of runTask.
Chunk(to) ==
  /\ SchedulerMoves("run", to)
  /\ overtaken' = IF Worked.class # "high" /\ HasHighPriorityTask THEN overtaken + 1 ELSE overtaken
  /\ UNCHANGED <<pushed, started, driver, timedOut>>

Complete ==
  /\ Chunk("top") /\ Worked.burst = 0
  /\ finished' = Append(finished, Worked.pid) /\ current' = <<>> /\ left' = 0
  /\ UNCHANGED ready

\* Broken variant: only low-priority tasks make way.
Preempted_LowOnly == Worked.class = "low" /\ HasHighPriorityTask

Preempted == Worked.class # "high" /\ HasHighPriorityTask

\* Preempted, or at the end of its turn, the task goes to the back of its queue.
Requeue ==
  /\ Chunk("top") /\ Worked.burst > 0
  /\ Preempted \/ left = 1
  /\ QueuePush(Worked)
  /\ current' = <<>> /\ left' = 0
  /\ UNCHANGED finished

WorkOn ==
  /\ Chunk("run") /\ Worked.burst > 0
  /\ ~Preempted /\ left > 1
  /\ current' = <<Worked>> /\ left' = left - 1
  /\ UNCHANGED <<ready, finished>>

-----------------------------------------------------------------------------

DriverStep == RRPushTask \/ StartScheduler \/ StartPolling \/ SeeComplete \/ SeeSchedulerGone
RRSchedulerStep == SeeContext \/ PopNothing \/ RRPopTask \/ Complete \/ Requeue \/ WorkOn

RRNext == DriverStep \/ GiveUp \/ RRSchedulerStep

RRSpec == RRInit /\ [][RRNext]_rrVars

\* PreemptionBound: once a high-priority task is queued, tasks of the lower classes get at most
\* the chunk that was under way (HasHighPriorityTask is asked after every chunk), however pushes
\* fall between Pop and the chunks.
PreemptionBound == overtaken <= 1

\* The driver has returned; unless it gave up, every task has run once.
RREnded == driver = "done" /\ (timedOut \/ {finished[i] : i \in DOMAIN finished} = 1..RRTasks)
=============================================================================
