------------------------ MODULE Intersection_proofs ------------------------
(***************************************************************************)
(* The signal controller is correct for every configuration, queue bound   *)
(* and number of dispatches.                                               *)
(***************************************************************************)
EXTENDS Intersection, TLAPS

\* Clamp keeps the adaptive duration within the configured green times.
LEMMA ClampInRange ==
  ASSUME NEW v \in Int, NEW lo \in Int, NEW hi \in Int, lo <= hi
  PROVE  Clamp(v, lo, hi) \in lo..hi
BY DEF Clamp

\* Whatever the queues, a phase is given a legal number of ticks.
LEMMA DurationLegal ==
  ASSUME NEW q \in [Group -> Nat], NEW p \in Phase
  PROVE  /\ Duration(q, p) \in Nat
         /\ AtLeastOne(Duration(q, p)) \in Light!Shortest(p)..Light!Longest(p)
<1>1. ASSUME NEW g \in Group
      PROVE  AdaptiveGreenTicks(q, g) \in MinGreenTicks..MaxGreenTicks
  <2> DEFINE total == q["NS"] + q["EW"]
             span  == MaxGreenTicks - MinGreenTicks
             extra == Round(q[g] * span, total)
  <2>1. q["NS"] \in Nat /\ q["EW"] \in Nat /\ q[g] \in Nat
    BY DEF Group
  <2>2. MinGreenTicks \in Int /\ MaxGreenTicks \in Int /\ MinGreenTicks <= MaxGreenTicks
    BY SignalConfig
  <2>3. CASE total = 0
    BY <2>2, <2>3 DEF AdaptiveGreenTicks
  <2>4. CASE total # 0
    <3>1. q[g] * span \in Int
      BY <2>1, <2>2
    <3>2. extra \in Int
      <4>1. 2 * total \in Int /\ 2 * total > 0
        BY <2>1, <2>4
      <4>2. 2 * (q[g] * span) + total \in Int
        BY <2>1, <3>1
      <4> QED
        BY <4>1, <4>2 DEF Round
    <3>3. MinGreenTicks + extra \in Int
      BY <2>2, <3>2
    <3>4. Clamp(MinGreenTicks + extra, MinGreenTicks, MaxGreenTicks)
            \in MinGreenTicks..MaxGreenTicks
      BY <2>2, <3>3, ClampInRange
    <3> QED
      BY <2>4, <3>4 DEF AdaptiveGreenTicks
  <2> QED
    BY <2>3, <2>4
<1>2. AdaptiveGreenTicks(q, "NS") \in MinGreenTicks..MaxGreenTicks
  BY <1>1 DEF Group
<1>3. AdaptiveGreenTicks(q, "EW") \in MinGreenTicks..MaxGreenTicks
  BY <1>1 DEF Group
<1> QED
  BY <1>2, <1>3, SignalConfig
  DEF Duration, AtLeastOne, Light!Shortest, Light!Longest, Phase, GreenPhase,
      Light!AtLeastOne, Light!GreenPhase

-----------------------------------------------------------------------------
(* Type correctness, for the controller as every other proof needs it. *)

LEMMA SetPreemptKeepsRecord ==
  ASSUME NEW s \in SignalRecord, NEW p \in GreenPhase
  PROVE  /\ SetPreempt(s, p) \in SignalRecord
         /\ SetPreempt(s, p).preemptPhase = p
<1> DEFINE on == TRUE
<1>1. on \in BOOLEAN
  OBVIOUS
<1>2. SetPreempt(s, p) =
        [s EXCEPT !.preempt = on, !.preemptPhase = p, !.preemptRemain = PreemptionTicks]
  BY DEF SetPreempt
<1>3. PreemptionTicks \in Int
  BY SignalConfig
<1> HIDE DEF on
<1> QED
  BY <1>1, <1>2, <1>3 DEF SignalRecord

LEMMA StepKeepsRecord ==
  ASSUME NEW s \in SignalRecord,
         s.preempt => s.preemptPhase \in GreenPhase
  PROVE  /\ StepSignal(s) \in SignalRecord
         /\ StepSignal(s).preempt => StepSignal(s).preemptPhase \in GreenPhase
<1>1. CASE s.preempt
  <2> DEFINE on == s.preemptRemain - 1 > 0
  <2>1. on \in BOOLEAN /\ s.preemptRemain - 1 \in Int
    BY DEF SignalRecord
  <2>2. s.preemptPhase \in Phase /\ s.preemptPhase \in GreenPhase
    BY <1>1 DEF GreenPhase, Phase
  <2>3. StepSignal(s) = [s EXCEPT !.phase = s.preemptPhase,
                                  !.preemptRemain = s.preemptRemain - 1,
                                  !.preempt = on]
    BY <1>1 DEF StepSignal, HoldPreempted
  <2> HIDE DEF on
  <2> QED
    BY <2>1, <2>2, <2>3 DEF SignalRecord
<1>2. CASE ~s.preempt /\ s.remaining - 1 > 0
  BY <1>2 DEF StepSignal, CountDown, SignalRecord
<1>3. CASE ~s.preempt /\ ~(s.remaining - 1 > 0)
  <2>1. NextPhase(s.phase) \in Phase
    BY DEF NextPhase, SignalRecord, Phase
  <2>2. s.queue \in [Group -> Nat]
    BY DEF SignalRecord
  <2>3. Duration(s.queue, NextPhase(s.phase)) \in Int
    BY <2>1, <2>2, DurationLegal
  <2> QED
    BY <1>3, <2>1, <2>3 DEF StepSignal, Transition, SignalRecord
<1> QED
  BY <1>1, <1>2, <1>3

\* A preempting controller has been told which green to show: with it TypeOK
\* is inductive.
TypeInv == TypeOK /\ (sig.preempt => sig.preemptPhase \in GreenPhase)

LEMMA Typing == Spec => []TypeInv
<1>1. Init => TypeInv
  BY SignalConfig
  DEF Init, TypeInv, TypeOK, NewIntersection, SignalRecord, Phase, GreenPhase, NoPhase
<1>2. TypeInv /\ [Next]_vars => TypeInv'
  <2> SUFFICES ASSUME TypeInv, [Next]_vars
               PROVE  TypeInv'
    OBVIOUS
  <2> USE DEF TypeInv, TypeOK
  <2>1. CASE Step
    BY <2>1, StepKeepsRecord DEF Step, Counted
  <2>2. ASSUME NEW g \in Group, Arrive(g)
        PROVE  TypeInv'
    BY <2>2 DEF Arrive, Enqueue, history, SignalRecord
  <2>3. ASSUME NEW g \in Group, Leave(g)
        PROVE  TypeInv'
    BY <2>3 DEF Leave, Dequeue, history, SignalRecord
  <2>4. ASSUME NEW p \in GreenPhase, Preempt(p)
        PROVE  TypeInv'
    BY <2>4, SetPreemptKeepsRecord DEF Preempt
  <2>5. CASE UNCHANGED vars
    BY <2>5 DEF vars
  <2> QED
    BY <2>1, <2>2, <2>3, <2>4, <2>5 DEF Next
<1> QED
  BY <1>1, <1>2, PTL DEF Spec

\* The controller's record keeps its type: no step shows a phase outside the
\* cycle and no queue count goes negative.
THEOREM TypeCorrect == Spec => []TypeOK
BY Typing, PTL DEF TypeInv

-----------------------------------------------------------------------------
(* The three outcomes of a step, and what the other actions leave alone. *)

LEMMA StepOutcome ==
  ASSUME TypeInv, Step
  PROVE  \/ /\ sig.preempt /\ ~timed' /\ dwell' = 0 /\ held' = held + 1
            /\ sig'.phase = sig.preemptPhase /\ sig'.preemptPhase = sig.preemptPhase
            /\ sig'.preemptRemain = sig.preemptRemain - 1
            /\ sig'.preempt <=> sig.preemptRemain - 1 > 0
         \/ /\ ~sig.preempt /\ sig.remaining > 1 /\ ~sig'.preempt
            /\ timed' = timed /\ dwell' = dwell + 1 /\ held' = held
            /\ sig'.phase = sig.phase /\ sig'.remaining = sig.remaining - 1
         \/ /\ ~sig.preempt /\ sig.remaining <= 1 /\ ~sig'.preempt
            /\ timed' /\ dwell' = 0 /\ held' = held
            /\ sig'.phase = NextPhase(sig.phase)
            /\ sig'.remaining = Duration(sig.queue, NextPhase(sig.phase))
<1> sig \in SignalRecord /\ timed \in BOOLEAN
  BY DEF TypeInv, TypeOK
<1> sig.remaining \in Int
  BY DEF SignalRecord
<1>1. CASE sig.preempt
  BY <1>1 DEF Step, Counted, StepSignal, HoldPreempted, SignalRecord
<1>2. CASE ~sig.preempt /\ sig.remaining - 1 > 0
  <2>1. timed' = timed /\ dwell' = dwell + 1 /\ held' = held
    BY <1>2 DEF Step, Counted
  <2> QED
    BY <1>2, <2>1 DEF Step, Counted, StepSignal, CountDown, SignalRecord
<1>3. CASE ~sig.preempt /\ ~(sig.remaining - 1 > 0)
  <2>0. ~sig.preempt /\ sig.remaining - 1 <= 0
    BY <1>3
  <2>1. timed' /\ dwell' = 0 /\ held' = held
    BY <2>0, Zenon DEF Step, Counted
  <2> QED
    BY <1>3, <2>1 DEF Step, Counted, StepSignal, Transition, SignalRecord
<1> QED
  BY <1>1, <1>2, <1>3

LEMMA QueueActionsKeepTiming ==
  ASSUME TypeInv, NEW g \in Group, Arrive(g) \/ Leave(g)
  PROVE  /\ sig'.phase = sig.phase /\ sig'.remaining = sig.remaining
         /\ sig'.preempt = sig.preempt /\ sig'.preemptPhase = sig.preemptPhase
         /\ sig'.preemptRemain = sig.preemptRemain
         /\ UNCHANGED history
BY DEF TypeInv, TypeOK, Arrive, Leave, Enqueue, Dequeue, SignalRecord

LEMMA PreemptOutcome ==
  ASSUME TypeInv, NEW p \in GreenPhase, Preempt(p)
  PROVE  /\ sig'.phase = sig.phase /\ sig'.remaining = sig.remaining
         /\ sig'.preempt /\ sig'.preemptRemain = PreemptionTicks
         /\ held' = 0 /\ UNCHANGED <<dwell, timed, waited>>
BY DEF TypeInv, TypeOK, Preempt, SetPreempt, SignalRecord

-----------------------------------------------------------------------------
(* Legal durations. *)

LEMMA DwellInductive ==
  ASSUME TypeInv, DwellPlusRemaining, [Next]_vars
  PROVE  DwellPlusRemaining'
<1> USE DEF DwellPlusRemaining
<1>t. /\ sig \in SignalRecord /\ timed \in BOOLEAN /\ dwell \in Nat
      /\ sig.phase \in Phase /\ sig.remaining \in Int
      /\ sig.queue \in [Group -> Nat]
  BY DEF TypeInv, TypeOK, SignalRecord
<1>1. CASE Step
  <2>1. CASE sig.preempt
    BY <1>1, <2>1, StepOutcome
  <2>2. CASE ~sig.preempt /\ sig.remaining > 1
    <3>1. /\ timed' = timed /\ dwell' = dwell + 1
          /\ sig'.phase = sig.phase /\ sig'.remaining = sig.remaining - 1
      BY <1>1, <1>t, <2>2, StepOutcome
    <3>2. dwell' + AtLeastOne(sig'.remaining) = dwell + AtLeastOne(sig.remaining)
      BY <1>t, <2>2, <3>1 DEF AtLeastOne
    <3> QED
      BY <3>1, <3>2
  <2>3. CASE ~sig.preempt /\ sig.remaining <= 1
    <3>1. /\ dwell' = 0 /\ sig'.phase = NextPhase(sig.phase)
          /\ sig'.remaining = Duration(sig.queue, NextPhase(sig.phase))
      BY <1>1, <1>t, <2>3, StepOutcome
    <3>2. NextPhase(sig.phase) \in Phase
      BY <1>t DEF NextPhase, Phase
    <3>3. /\ sig'.remaining \in Nat
          /\ AtLeastOne(sig'.remaining)
               \in Light!Shortest(sig'.phase)..Light!Longest(sig'.phase)
      BY <1>t, <3>1, <3>2, DurationLegal
    <3>4. dwell' + AtLeastOne(sig'.remaining) = AtLeastOne(sig'.remaining)
      BY <3>1, <3>3 DEF AtLeastOne
    <3> QED
      BY <3>3, <3>4
  <2> QED
    BY <1>t, <2>1, <2>2, <2>3
<1>2. ASSUME NEW g \in Group, Arrive(g) \/ Leave(g)
      PROVE  DwellPlusRemaining'
  BY <1>2, QueueActionsKeepTiming DEF history
<1>3. ASSUME NEW p \in GreenPhase, Preempt(p)
      PROVE  DwellPlusRemaining'
  BY <1>3, PreemptOutcome
<1>4. CASE UNCHANGED vars
  BY <1>4 DEF vars
<1> QED
  BY <1>1, <1>2, <1>3, <1>4 DEF Next

\* Every phase, when no preemption interferes, is given and keeps a duration
\* between the shortest and the longest the configuration allows.
THEOREM DurationsLegal == Spec => []DwellPlusRemaining
<1>1. Init => DwellPlusRemaining
  BY SignalConfig
  DEF Init, DwellPlusRemaining, NewIntersection, AtLeastOne, GreenPhase,
      Light!Shortest, Light!Longest, Light!AtLeastOne, Light!GreenPhase
<1> QED
  BY <1>1, Typing, DwellInductive, PTL DEF Spec

\* The controller implements the abstract traffic light: every step is a stay,
\* a legal change, an override by an emergency or the way out of one.
THEOREM Refinement == Spec => ImplementsTrafficLight
<1> USE DEF Light!LightInit, Light!LightNext, Light!Stay, Light!Change, Light!Override,
            Light!Resume, Light!lightVars
<1>1. Init => Light!LightInit
  BY DEF Init, NewIntersection
<1>2. TypeInv /\ DwellPlusRemaining /\ [Next]_vars => [Light!LightNext]_(Light!lightVars)
  <2> SUFFICES ASSUME TypeInv, DwellPlusRemaining, [Next]_vars
               PROVE  [Light!LightNext]_(Light!lightVars)
    OBVIOUS
  <2>t. /\ timed \in BOOLEAN /\ dwell \in Nat /\ sig.remaining \in Int
        /\ sig.phase \in Phase /\ (sig.preempt => sig.preemptPhase \in GreenPhase)
    BY DEF TypeInv, TypeOK, SignalRecord
  <2>1. CASE Step
    <3>1. CASE sig.preempt
      <4>1. /\ ~timed' /\ sig'.phase \in GreenPhase
        BY <2>1, <2>t, <3>1, StepOutcome
      <4> QED
        BY <4>1 DEF Light!GreenPhase, GreenPhase
    <3>2. CASE ~sig.preempt /\ sig.remaining > 1
      <4>1. /\ timed' = timed /\ dwell' = dwell + 1 /\ sig'.phase = sig.phase
        BY <2>1, <2>t, <3>2, StepOutcome
      <4>2. timed => dwell + 1 < Light!Longest(sig.phase)
        <5>1. /\ AtLeastOne(MaxGreenTicks) \in Int /\ AtLeastOne(MinGreenTicks) \in Int
              /\ AtLeastOne(YellowTicks) \in Int
          BY SignalConfig DEF AtLeastOne
        <5>2. Light!Longest(sig.phase) \in Int /\ Light!Shortest(sig.phase) \in Int
          BY <5>1, SignalConfig DEF Light!Longest, Light!Shortest, Light!AtLeastOne, AtLeastOne
        <5>3. AtLeastOne(sig.remaining) = sig.remaining
          BY <2>t, <3>2 DEF AtLeastOne
        <5>4. timed => dwell + sig.remaining \in Light!Shortest(sig.phase)..Light!Longest(sig.phase)
          BY <5>3 DEF DwellPlusRemaining
        <5> QED
          BY <2>t, <3>2, <5>2, <5>4
      <4> QED
        BY <2>t, <4>1, <4>2
    <3>3. CASE ~sig.preempt /\ sig.remaining <= 1
      <4>1. /\ timed' /\ dwell' = 0 /\ sig'.phase = NextPhase(sig.phase)
        BY <2>1, <2>t, <3>3, StepOutcome
      <4>2. timed => dwell + 1 >= Light!Shortest(sig.phase)
        <5>1. Light!Longest(sig.phase) \in Int /\ Light!Shortest(sig.phase) \in Int
          BY SignalConfig DEF Light!Longest, Light!Shortest, Light!AtLeastOne, AtLeastOne
        <5>2. AtLeastOne(sig.remaining) = 1
          BY <2>t, <3>3 DEF AtLeastOne
        <5>3. timed => dwell + 1 \in Light!Shortest(sig.phase)..Light!Longest(sig.phase)
          BY <5>2 DEF DwellPlusRemaining
        <5> QED
          BY <2>t, <5>1, <5>3
      <4>3. Light!NextPhase(sig.phase) = NextPhase(sig.phase)
        BY DEF Light!NextPhase, NextPhase
      <4> QED
        BY <4>1, <4>2, <4>3, <2>t
    <3> QED
      BY <2>t, <3>1, <3>2, <3>3
  <2>2. ASSUME NEW g \in Group, Arrive(g) \/ Leave(g)
        PROVE  UNCHANGED Light!lightVars
    BY <2>2, QueueActionsKeepTiming DEF history
  <2>3. ASSUME NEW p \in GreenPhase, Preempt(p)
        PROVE  UNCHANGED Light!lightVars
    BY <2>3, PreemptOutcome
  <2>4. CASE UNCHANGED vars
    BY <2>4 DEF vars
  <2> QED
    BY <2>1, <2>2, <2>3, <2>4 DEF Next
<1> QED
  BY <1>1, <1>2, Typing, DurationsLegal, PTL DEF Spec, ImplementsTrafficLight, Light!LightSpec

-----------------------------------------------------------------------------
(* Preemption. *)

\* Shown and remaining preempted ticks add up to PreemptionTicks.
HoldInv ==
  sig.preempt => /\ held + AtLeastOne(sig.preemptRemain) = AtLeastOne(PreemptionTicks)
                 /\ held > 0 => sig.phase = sig.preemptPhase

LEMMA HoldInductive ==
  ASSUME TypeInv, HoldInv, [Next]_vars
  PROVE  /\ HoldInv'
         /\ sig.preempt /\ ~sig'.preempt => held' = AtLeastOne(PreemptionTicks)
<1>t. held \in Nat /\ sig.preemptRemain \in Int /\ sig.remaining \in Int
  BY DEF TypeInv, TypeOK, SignalRecord
<1>1. CASE Step
  <2>1. CASE sig.preempt
    <3>1. /\ held' = held + 1 /\ sig'.phase = sig'.preemptPhase
          /\ sig'.preemptRemain = sig.preemptRemain - 1
          /\ sig'.preempt <=> sig.preemptRemain - 1 > 0
      BY <1>1, <1>t, <2>1, StepOutcome
    <3>0. held + AtLeastOne(sig.preemptRemain) = AtLeastOne(PreemptionTicks)
      BY <2>1 DEF HoldInv
    <3>2. CASE sig.preemptRemain - 1 > 0
      <4>1. held' + AtLeastOne(sig'.preemptRemain) = AtLeastOne(PreemptionTicks)
        BY <1>t, <3>0, <3>1, <3>2, SignalConfig DEF AtLeastOne
      <4>2. sig'.preempt
        BY <3>1, <3>2
      <4> QED
        BY <3>1, <4>1, <4>2 DEF HoldInv
    <3>3. CASE ~(sig.preemptRemain - 1 > 0)
      <4>1. held' = AtLeastOne(PreemptionTicks)
        BY <1>t, <3>0, <3>1, <3>3, SignalConfig DEF AtLeastOne
      <4>2. ~sig'.preempt
        BY <3>1, <3>3
      <4> QED
        BY <4>1, <4>2 DEF HoldInv
    <3> QED
      BY <3>2, <3>3
  <2>2. CASE ~sig.preempt
    BY <1>1, <1>t, <2>2, StepOutcome DEF HoldInv
  <2> QED
    BY <2>1, <2>2
<1>2. ASSUME NEW g \in Group, Arrive(g) \/ Leave(g)
      PROVE  HoldInv' /\ sig'.preempt = sig.preempt
  BY <1>2, QueueActionsKeepTiming DEF history, HoldInv
<1>3. ASSUME NEW p \in GreenPhase, Preempt(p)
      PROVE  HoldInv' /\ sig'.preempt
  BY <1>3, <1>t, PreemptOutcome, SignalConfig DEF HoldInv, AtLeastOne
<1>4. CASE UNCHANGED vars
  BY <1>4 DEF vars, HoldInv
<1> QED
  BY <1>1, <1>2, <1>3, <1>4 DEF Next

LEMMA HoldInvariant == Spec => []HoldInv
<1>1. Init => HoldInv
  BY DEF Init, NewIntersection, HoldInv
<1> QED
  BY <1>1, Typing, HoldInductive, PTL DEF Spec

\* While a preemption runs the light shows the phase of the latest dispatch.
THEOREM PreemptionShown == Spec => []PreemptedShows
<1>1. HoldInv => PreemptedShows
  BY DEF HoldInv, PreemptedShows
<1> QED
  BY <1>1, HoldInvariant, PTL

\* A preemption lapses after exactly PreemptionTicks steps of the controller.
THEOREM PreemptionTimed == Spec => PreemptionExact
<1>1. TypeInv /\ HoldInv /\ [Next]_vars
        => [sig.preempt /\ ~sig'.preempt => held' = AtLeastOne(PreemptionTicks)]_vars
  BY HoldInductive
<1> QED
  BY <1>1, Typing, HoldInvariant, PTL DEF Spec, PreemptionExact

-----------------------------------------------------------------------------
(* The wait at a red light. *)

\* The longest a group can have waited when phase p begins, since its own green.
Before(g, p) ==
  IF p = (IF g = "NS" THEN "Yellow-NS" ELSE "Yellow-EW") THEN 0
  ELSE IF p \in GreenPhase THEN AtLeastOne(YellowTicks)
  ELSE AtLeastOne(YellowTicks) + AtLeastOne(MaxGreenTicks)

WaitInv ==
  \A g \in Group :
    IF timed /\ ~PhaseAllows(sig.phase, g)
    THEN waited[g] <= Before(g, sig.phase) + dwell + 1
    ELSE waited[g] = 0

LEMMA BeforeGrows ==
  ASSUME NEW g \in Group, NEW p \in Phase, ~PhaseAllows(NextPhase(p), g)
  PROVE  /\ Before(g, p) \in Nat /\ Before(g, NextPhase(p)) \in Nat
         /\ ~PhaseAllows(p, g)
              => Before(g, p) + Light!Longest(p) <= Before(g, NextPhase(p))
<1>1. AtLeastOne(YellowTicks) \in Nat /\ AtLeastOne(MaxGreenTicks) \in Nat
  BY SignalConfig DEF AtLeastOne
<1>2. Light!Longest(p) = IF p \in GreenPhase THEN AtLeastOne(MaxGreenTicks)
                                             ELSE AtLeastOne(YellowTicks)
  BY DEF Light!Longest, Light!AtLeastOne, AtLeastOne, Light!GreenPhase, GreenPhase
<1> QED
  BY <1>1, <1>2 DEF Before, PhaseAllows, GreenOf, NextPhase, Phase, Group, GreenPhase

LEMMA WaitInductive ==
  ASSUME TypeInv, DwellPlusRemaining, WaitInv, [Next]_vars
  PROVE  WaitInv'
<1>t. /\ timed \in BOOLEAN /\ dwell \in Nat /\ waited \in [Group -> Nat]
      /\ sig.phase \in Phase /\ sig.remaining \in Int
  BY DEF TypeInv, TypeOK, SignalRecord
<1>1. CASE Step
  <2> SUFFICES ASSUME NEW g \in Group
               PROVE  IF timed' /\ ~PhaseAllows(sig'.phase, g)
                      THEN waited'[g] <= Before(g, sig'.phase) + dwell' + 1
                      ELSE waited'[g] = 0
    BY DEF WaitInv
  <2>w. waited'[g] = IF ~timed \/ ~timed' \/ PhaseAllows(sig'.phase, g)
                     THEN 0 ELSE waited[g] + 1
    BY <1>1 DEF Step, Counted
  <2>1. CASE sig.preempt
    <3>1. ~timed'
      BY <1>1, <1>t, <2>1, StepOutcome
    <3> QED
      BY <2>w, <3>1
  <2>2. CASE ~sig.preempt /\ sig.remaining > 1
    <3>1. timed' = timed /\ dwell' = dwell + 1 /\ sig'.phase = sig.phase
      BY <1>1, <1>t, <2>2, StepOutcome
    <3>2. CASE timed /\ ~PhaseAllows(sig.phase, g)
      <4>1. waited'[g] = waited[g] + 1
        BY <2>w, <3>1, <3>2
      <4>2. waited[g] <= Before(g, sig.phase) + dwell + 1
        BY <3>2 DEF WaitInv
      <4>3. Before(g, sig.phase) \in Nat
        BY SignalConfig DEF Before, AtLeastOne
      <4>4. waited'[g] <= Before(g, sig'.phase) + dwell' + 1
        BY <1>t, <3>1, <4>1, <4>2, <4>3
      <4> QED
        BY <3>1, <3>2, <4>4
    <3>3. CASE ~(timed /\ ~PhaseAllows(sig.phase, g))
      BY <2>w, <3>1, <3>3
    <3> QED
      BY <3>2, <3>3
  <2>3. CASE ~sig.preempt /\ sig.remaining <= 1
    <3>1. timed' /\ dwell' = 0 /\ sig'.phase = NextPhase(sig.phase)
      BY <1>1, <1>t, <2>3, StepOutcome
    <3>2. CASE ~timed \/ PhaseAllows(sig'.phase, g)
      <4>1. waited'[g] = 0
        BY <2>w, <3>2
      <4>2. Before(g, sig'.phase) \in Nat
        BY SignalConfig DEF Before, AtLeastOne
      <4> QED
        BY <3>1, <4>1, <4>2
    <3>3. CASE timed /\ ~PhaseAllows(sig'.phase, g)
      <4>1. waited'[g] = waited[g] + 1
        BY <2>w, <3>1, <3>3
      <4>2. /\ Before(g, sig.phase) \in Nat /\ Before(g, sig'.phase) \in Nat
            /\ ~PhaseAllows(sig.phase, g)
                 => Before(g, sig.phase) + Light!Longest(sig.phase) <= Before(g, sig'.phase)
        BY <1>t, <3>1, <3>3, BeforeGrows
      <4>3. dwell + 1 <= Light!Longest(sig.phase)
        <5>1. Light!Longest(sig.phase) \in Int /\ Light!Shortest(sig.phase) \in Int
          BY SignalConfig DEF Light!Longest, Light!Shortest, Light!AtLeastOne, AtLeastOne
        <5>2. AtLeastOne(sig.remaining) = 1
          BY <1>t, <2>3 DEF AtLeastOne
        <5>3. dwell + 1 \in Light!Shortest(sig.phase)..Light!Longest(sig.phase)
          BY <3>3, <5>2 DEF DwellPlusRemaining
        <5> QED
          BY <1>t, <5>1, <5>3
      <4>4. Light!Longest(sig.phase) \in Nat
        BY SignalConfig DEF Light!Longest, Light!AtLeastOne
      <4>5. CASE PhaseAllows(sig.phase, g)
        <5>1. waited[g] = 0
          BY <4>5 DEF WaitInv
        <5>2. waited'[g] <= Before(g, sig'.phase) + dwell' + 1
          BY <3>1, <4>1, <4>2, <5>1
        <5> QED
          BY <3>1, <3>3, <5>2
      <4>6. CASE ~PhaseAllows(sig.phase, g)
        <5>1. waited[g] <= Before(g, sig.phase) + dwell + 1
          BY <3>3, <4>6 DEF WaitInv
        <5>2. waited'[g] <= Before(g, sig'.phase) + dwell' + 1
          BY <1>t, <3>1, <4>1, <4>2, <4>3, <4>4, <4>6, <5>1
        <5> QED
          BY <3>1, <3>3, <5>2
      <4> QED
        BY <4>5, <4>6
    <3> QED
      BY <1>t, <3>2, <3>3
  <2> QED
    BY <1>t, <2>1, <2>2, <2>3
<1>2. ASSUME NEW g \in Group, Arrive(g) \/ Leave(g)
      PROVE  WaitInv'
  BY <1>2, QueueActionsKeepTiming DEF history, WaitInv
<1>3. ASSUME NEW p \in GreenPhase, Preempt(p)
      PROVE  WaitInv'
  BY <1>3, PreemptOutcome DEF WaitInv
<1>4. CASE UNCHANGED vars
  BY <1>4 DEF vars, WaitInv
<1> QED
  BY <1>1, <1>2, <1>3, <1>4 DEF Next

\* With no preemption, a vehicle at a red light waits at most two yellows and
\* the other direction's longest green, whatever the queues on either side.
THEOREM RedIsBounded == Spec => []RedBounded
<1>1. Init => WaitInv
  BY SignalConfig
  DEF Init, NewIntersection, WaitInv, PhaseAllows, GreenOf, Before, AtLeastOne, Group, GreenPhase
<1>2. TypeInv /\ DwellPlusRemaining /\ WaitInv => RedBounded
  <2> SUFFICES ASSUME TypeInv, DwellPlusRemaining, WaitInv, NEW g \in Group
               PROVE  waited[g] <= AtLeastOne(MaxGreenTicks) + 2 * AtLeastOne(YellowTicks)
    BY DEF RedBounded
  <2>t. /\ timed \in BOOLEAN /\ dwell \in Nat /\ waited[g] \in Nat
        /\ sig.phase \in Phase /\ sig.remaining \in Int
    BY DEF TypeInv, TypeOK, SignalRecord
  <2>0. AtLeastOne(YellowTicks) \in Nat /\ AtLeastOne(MaxGreenTicks) \in Nat
    BY SignalConfig DEF AtLeastOne
  <2>1. CASE timed /\ ~PhaseAllows(sig.phase, g)
    <3>1. waited[g] <= Before(g, sig.phase) + dwell + 1
      BY <2>1 DEF WaitInv
    <3>2. Light!Longest(sig.phase) = IF sig.phase \in GreenPhase
                                     THEN AtLeastOne(MaxGreenTicks) ELSE AtLeastOne(YellowTicks)
      BY DEF Light!Longest, Light!AtLeastOne, AtLeastOne, Light!GreenPhase, GreenPhase
    <3>3. dwell + 1 <= Light!Longest(sig.phase)
      <4>1. Light!Longest(sig.phase) \in Int /\ Light!Shortest(sig.phase) \in Int
        BY SignalConfig DEF Light!Longest, Light!Shortest, Light!AtLeastOne, AtLeastOne
      <4>2. dwell + AtLeastOne(sig.remaining) \in Light!Shortest(sig.phase)..Light!Longest(sig.phase)
        BY <2>1 DEF DwellPlusRemaining
      <4>3. AtLeastOne(sig.remaining) \in Int /\ AtLeastOne(sig.remaining) >= 1
        BY <2>t DEF AtLeastOne
      <4> QED
        BY <2>t, <4>1, <4>2, <4>3
    <3> QED
      BY <2>t, <2>0, <3>1, <3>2, <3>3 DEF Before
  <2>2. CASE ~(timed /\ ~PhaseAllows(sig.phase, g))
    BY <2>0, <2>2 DEF WaitInv
  <2> QED
    BY <2>1, <2>2
<1> QED
  BY <1>1, <1>2, Typing, DurationsLegal, WaitInductive, PTL DEF Spec
=============================================================================
