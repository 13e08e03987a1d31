---------------------------- MODULE Intersection ----------------------------
(***************************************************************************)
(* One signal controller under everything the engine can do to it: the     *)
(* tick loop of its goroutine, vehicles joining and leaving its queues, and *)
(* emergency dispatches preempting it, in any order.                       *)
(***************************************************************************)
EXTENDS Signal

CONSTANTS MaxQueue,      \* bound on each queue (vehicles in the model)
          MaxPreempts    \* bound on the number of dispatches through this node

ASSUME EnvironmentBounds == MaxQueue \in Nat /\ MaxPreempts \in Nat

VARIABLES
  sig,       \* the controller's record
  preempts,  \* how many times setPreempt has been called
  \* history of the steps taken, to state the timing properties
  dwell,     \* steps the phase has been shown, since the transition that set it
  timed,     \* TRUE while the phase shown was set by a transition and no
             \* preemption has interrupted it
  held,      \* preempted steps since the last setPreempt
  waited     \* waited[g]: steps since the light was last green for group g

history == <<dwell, timed, held, waited>>
vars == <<sig, preempts, dwell, timed, held, waited>>

Init ==
  /\ sig = NewIntersection
  /\ preempts = 0
  /\ dwell = 0 /\ timed = TRUE /\ held = 0
  /\ waited = [g \in Group |-> 0]

Counted ==
  /\ dwell' = IF sig.preempt \/ sig.remaining - 1 <= 0 THEN 0 ELSE dwell + 1
  /\ timed' = (~sig.preempt /\ (timed \/ sig.remaining - 1 <= 0))
  /\ held' = IF sig.preempt THEN held + 1 ELSE held
  /\ waited' = [g \in Group |->
                 IF ~timed \/ ~timed' \/ PhaseAllows(sig'.phase, g) THEN 0 ELSE waited[g] + 1]

\* Broken variant: a preempted light is passed over.
Step_SkipsPreempted == ~sig.preempt /\ sig' = StepSignal(sig) /\ Counted /\ UNCHANGED preempts

\* The goroutine's step for one tick.
Step == sig' = StepSignal(sig) /\ Counted /\ UNCHANGED preempts

\* A vehicle at a red light joins a queue.
Arrive(g) ==
  /\ sig.queue[g] < MaxQueue
  /\ sig' = Enqueue(sig, g)
  /\ UNCHANGED <<preempts, history>>

\* A queued vehicle crosses.
Leave(g) ==
  /\ sig.queue[g] > 0
  /\ sig' = Dequeue(sig, g)
  /\ UNCHANGED <<preempts, history>>

\* setEmergencyCorridor preempts the node for the direction of its path.
Preempt(p) ==
  /\ preempts < MaxPreempts
  /\ preempts' = preempts + 1
  /\ sig' = SetPreempt(sig, p)
  /\ held' = 0
  /\ UNCHANGED <<dwell, timed, waited>>

Next ==
  \/ Step
  \/ \E g \in Group : Arrive(g) \/ Leave(g)
  \/ \E p \in GreenPhase : Preempt(p)

Spec == Init /\ [][Next]_vars

\* The goroutine steps at every tick, and the clock ticks for ever.
FairSpec == Spec /\ WF_vars(Step)

-----------------------------------------------------------------------------
(* Properties *)

TypeOK ==
  /\ sig \in SignalRecord
  /\ preempts \in Nat
  /\ dwell \in Nat /\ timed \in BOOLEAN /\ held \in Nat
  /\ waited \in [Group -> Nat]

Light == INSTANCE TrafficLight WITH
  phase <- sig.phase,
  age   <- IF timed THEN dwell ELSE 0,
  mode  <- IF timed THEN "cycle" ELSE "override"

\* The controller is a traffic light: every phase is shown for a legal time, the
\* yellow between two greens is skipped only by a preemption, and after one the
\* light goes on through the yellow of the green it was forced to.
ImplementsTrafficLight == Light!LightSpec

\* The strengthening behind the dwell bounds: the ticks a phase has been shown
\* and the ticks it has left always add up to a legal duration, whatever the
\* queues were when it was chosen and whatever they have become since.
DwellPlusRemaining ==
  timed => dwell + AtLeastOne(sig.remaining) \in Light!Shortest(sig.phase)..Light!Longest(sig.phase)

\* A preemption, once it lapses, has been shown for exactly PreemptionTicks
\* steps (one, if it is 0), even when a second dispatch re-armed it on the way.
PreemptionExact ==
  [][sig.preempt /\ ~sig'.preempt => held' = AtLeastOne(PreemptionTicks)]_vars

\* While a preemption runs and has been picked up by a step, the light shows
\* the phase of the latest dispatch and no other.
PreemptedShows ==
  sig.preempt /\ held > 0 => sig.phase = sig.preemptPhase

\* With no preemption a direction waits for its green at most the other
\* direction's longest green and two yellows.
RedBounded ==
  \A g \in Group :
    waited[g] <= AtLeastOne(MaxGreenTicks) + 2 * AtLeastOne(YellowTicks)

\* Preemptions being finitely many, each direction turns green again and again.
NoDirectionStarves == \A g \in Group : []<>PhaseAllows(sig.phase, g)
=============================================================================
