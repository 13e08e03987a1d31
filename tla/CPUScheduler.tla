---------------------------- MODULE CPUScheduler ----------------------------
(***************************************************************************)
(* cmd/sim's main: the -scheduler flag selects the priority scheduler or   *)
(* the round-robin scheduler for the whole run.                            *)
(***************************************************************************)
EXTENDS PriorityScheduler, RoundRobin

VARIABLE mode  \* "priority" or "rr"

simVars == <<mode, psVars, rrVars>>

SimInit == mode \in {"priority", "rr"} /\ PSInit /\ RRInit

PriorityStep(Step) == mode = "priority" /\ Step /\ UNCHANGED <<mode, rrVars>>
RRStep(Step) == mode = "rr" /\ Step /\ UNCHANGED <<mode, psVars>>

SimNext ==
  \/ PriorityStep(PSNext)
  \/ RRStep(DriverStep)
  \/ RRStep(GiveUp)
  \/ RRStep(RRSchedulerStep)

\* Each goroutine takes its next step; nothing makes the driver's timeout fire or a task age.
SimFairness ==
  /\ WF_simVars(PriorityStep(ProducerStep)) /\ WF_simVars(PriorityStep(SchedulerStep))
  /\ WF_simVars(PriorityStep(AgingDone)) /\ WF_simVars(PriorityStep(MainStep))
  /\ WF_simVars(RRStep(DriverStep)) /\ WF_simVars(RRStep(RRSchedulerStep))

SimSpec == SimInit /\ [][SimNext]_simVars /\ SimFairness

-----------------------------------------------------------------------------
(* Properties *)

\* SimulationEnds: in both modes main returns, and by then every task has run exactly once
\* (unless the round-robin driver gave up): a task pushed between Run's look at the heap and its
\* wait is not missed, main, which polls the heap while AgeWaitingTasks empties and refills it,
\* does not cancel while tasks are queued, and no requeued task is lost.
SimulationEnds == <>(IF mode = "priority" THEN Ended ELSE RREnded)
=============================================================================
