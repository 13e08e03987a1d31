---------------------------- MODULE TrafficLight ----------------------------
(***************************************************************************)
(* What one controller promises to the traffic, with no queues, countdowns *)
(* or emergency state: it cycles through the four phases, each shown for a *)
(* legal time, unless an emergency overrides it; an override shows greens  *)
(* only, and the light leaves it along the cycle, through a yellow.        *)
(***************************************************************************)
EXTENDS Signal

VARIABLES phase, age, mode

lightVars == <<phase, age, mode>>

Shortest(p) == AtLeastOne(IF p \in GreenPhase THEN MinGreenTicks ELSE YellowTicks)
Longest(p)  == AtLeastOne(IF p \in GreenPhase THEN MaxGreenTicks ELSE YellowTicks)

LightInit == phase = "Green-NS" /\ age = 0 /\ mode = "cycle"

\* The phase is shown for one tick more.
Stay ==
  /\ mode = "cycle" /\ age + 1 < Longest(phase)
  /\ age' = age + 1
  /\ UNCHANGED <<phase, mode>>

\* The phase has been shown long enough and gives way to the next.
Change ==
  /\ mode = "cycle" /\ age + 1 >= Shortest(phase)
  /\ phase' = NextPhase(phase) /\ age' = 0
  /\ UNCHANGED mode

\* An emergency forces a green, from any phase.
Override ==
  /\ phase' \in GreenPhase /\ age' = 0 /\ mode' = "override"

\* The override is over: the cycle goes on from the phase it left.
Resume ==
  /\ mode = "override"
  /\ phase' = NextPhase(phase) /\ age' = 0 /\ mode' = "cycle"

LightNext == Stay \/ Change \/ Override \/ Resume

LightSpec == LightInit /\ [][LightNext]_lightVars
=============================================================================
