------------------------------- MODULE Signal -------------------------------
(***************************************************************************)
(* The signal controller of one intersection, as operators on its record:  *)
(* capstone/internal/engine/engine.go, type intersection and its methods.  *)
(* Every method holds the intersection's mutex for its whole body, so each *)
(* operator is one atomic change.  Intersection.tla runs one controller    *)
(* alone; Traffic.tla runs one per node.                                   *)
(***************************************************************************)
EXTENDS Integers

CONSTANTS MinGreenTicks, MaxGreenTicks, YellowTicks, PreemptionTicks

\* New (engine.go:64) validates none of these; DefaultConfig and every test
\* give naturals with MinGreenTicks <= MaxGreenTicks.  Zero is allowed.
ASSUME SignalConfig ==
  /\ MinGreenTicks \in Nat /\ MaxGreenTicks \in Nat
  /\ MinGreenTicks <= MaxGreenTicks
  /\ YellowTicks \in Nat /\ PreemptionTicks \in Nat

Group == {"NS", "EW"}
Phase == {"Green-NS", "Yellow-NS", "Green-EW", "Yellow-EW"}
GreenPhase == {"Green-NS", "Green-EW"}

\* Go's zero value of preemptPhase, before any setPreempt.
NoPhase == "none"

GreenOf(g) == IF g = "NS" THEN "Green-NS" ELSE "Green-EW"
PhaseAllows(p, g) == p = GreenOf(g)

\* A phase set to last d ticks lasts at least one: the countdown decrements
\* before it tests.
AtLeastOne(d) == IF d < 1 THEN 1 ELSE d

SignalRecord ==
  [phase : Phase, remaining : Int, queue : [Group -> Nat], preempt : BOOLEAN,
   preemptPhase : GreenPhase \cup {NoPhase}, preemptRemain : Int]

NewIntersection ==
  [phase |-> "Green-NS", remaining |-> MinGreenTicks, queue |-> [g \in Group |-> 0],
   preempt |-> FALSE, preemptPhase |-> NoPhase, preemptRemain |-> 0]

\* math.Round of num/den, halves away from zero, for num >= 0 and den > 0.
Round(num, den) == (2 * num + den) \div (2 * den)

Clamp(v, lo, hi) == IF v < lo THEN lo ELSE IF v > hi THEN hi ELSE v

AdaptiveGreenTicks(q, g) ==
  LET total == q["NS"] + q["EW"]
  IN  IF total = 0 THEN MinGreenTicks
      ELSE Clamp(MinGreenTicks + Round(q[g] * (MaxGreenTicks - MinGreenTicks), total),
                 MinGreenTicks, MaxGreenTicks)

\* Broken variants, which the properties must catch, stand before the operator
\* they vary: here the round gives no yellow, or never leaves north-south.
NextPhase_NoYellow(p) ==
  IF p \in {"Green-NS", "Yellow-NS"} THEN "Green-EW" ELSE "Green-NS"

NextPhase_OnlyNS(p) == IF p = "Green-NS" THEN "Yellow-NS" ELSE "Green-NS"

NextPhase(p) ==
  CASE p = "Green-NS"  -> "Yellow-NS"
    [] p = "Yellow-NS" -> "Green-EW"
    [] p = "Green-EW"  -> "Yellow-EW"
    [] p = "Yellow-EW" -> "Green-NS"

\* The value remaining is set to on entering phase p with queues q.
Duration(q, p) ==
  CASE p = "Green-NS" -> AdaptiveGreenTicks(q, "NS")
    [] p = "Green-EW" -> AdaptiveGreenTicks(q, "EW")
    [] p \notin GreenPhase -> YellowTicks

-----------------------------------------------------------------------------
(* intersection.step: preemption, else countdown, else transition. *)

\* Broken variants: one tick too many; never released.
HoldPreempted_OneMore(s) ==
  [s EXCEPT !.phase = s.preemptPhase,
            !.preemptRemain = s.preemptRemain - 1,
            !.preempt = s.preemptRemain > 0]

HoldPreempted_Forever(s) == [s EXCEPT !.phase = s.preemptPhase]

HoldPreempted(s) ==
  [s EXCEPT !.phase = s.preemptPhase,
            !.preemptRemain = s.preemptRemain - 1,
            !.preempt = s.preemptRemain - 1 > 0]

CountDown(s) == [s EXCEPT !.remaining = s.remaining - 1]

\* Broken variant: the yellow is skipped.
Transition_Skips(s) ==
  LET p == NextPhase(NextPhase(s.phase))
  IN  [s EXCEPT !.phase = p, !.remaining = Duration(s.queue, p)]

Transition(s) ==
  [s EXCEPT !.phase = NextPhase(s.phase),
            !.remaining = Duration(s.queue, NextPhase(s.phase))]

StepSignal(s) ==
  IF s.preempt THEN HoldPreempted(s)
  ELSE IF s.remaining - 1 > 0 THEN CountDown(s)
  ELSE Transition(s)

Enqueue(s, g) == [s EXCEPT !.queue[g] = @ + 1]
Dequeue(s, g) == [s EXCEPT !.queue[g] = IF @ > 0 THEN @ - 1 ELSE @]

SetPreempt(s, p) ==
  [s EXCEPT !.preempt = TRUE, !.preemptPhase = p, !.preemptRemain = PreemptionTicks]
=============================================================================
