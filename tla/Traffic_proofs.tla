--------------------------- MODULE Traffic_proofs ---------------------------
(***************************************************************************)
(* For any road network, vehicles, trips and timings: vehicles keep to     *)
(* their paths, the counts of the roads and of the controllers' queues are *)
(* exact, and lights that are never preempted let nobody cross a           *)
(* conflicting stream.                                                     *)
(***************************************************************************)
EXTENDS Traffic, FiniteSetTheorems, TLAPS

\* Inside a step, between the tick it takes and Finish.
Stepping(v) == pc[v] \in {"look", "wait", "unqueue", "measure", "enter"}

\* What holds of a vehicle between any two locks of its step: VehicleConsistent, and
\* where its step stands.
OnItsWay(v) ==
  /\ veh[v].path \in Paths /\ veh[v].idx \in 1..Len(veh[v].path)
  /\ ~Driving(v) => veh[v].state = "at_intersection"
  /\ pc[v] = "absent" => veh[v].kind = "normal"
  /\ pc[v] = "dispatched" => veh[v].kind = "emergency"
  /\ Stepping(v) =>
       /\ veh[v].state \in {"at_intersection", "waiting_signal"}
       /\ From(v) # Goal(v) /\ veh[v].idx < Len(veh[v].path) /\ vehLag[v] > 0
  /\ Driving(v) /\ veh[v].state # "on_road" => veh[v].at = From(v)
  /\ veh[v].queued => veh[v].state = "waiting_signal" /\ veh[v].group = Heading(v)
  /\ veh[v].state = "waiting_signal" =>
       /\ From(v) # Goal(v)
       /\ veh[v].queued <=> pc[v] \notin {"measure", "enter"}
  /\ pc[v] = "unqueue" => veh[v].queued
  /\ pc[v] = "enter" => veh[v].road = RoadOf[NextHop(v)] /\ veh[v].remaining > 0
  /\ veh[v].state = "on_road" =>
       /\ veh[v].remaining > 0 /\ veh[v].idx > 1
       /\ veh[v].road = RoadOf[<<veh[v].at, From(v)>>]
  /\ veh[v].state = "arrived" => pc[v] = "idle" /\ veh[v].at = Goal(v)

\* A preempting controller has been told which green to show.
World ==
  /\ sig \in [Nodes -> SignalRecord]
  /\ \A i \in Nodes : sig[i].preempt => sig[i].preemptPhase \in GreenPhase
  /\ occupancy \in [Roads -> Nat] /\ congestion \in [Roads -> 1..10]
  /\ sigLag \in [Nodes -> 0..MaxLag] /\ updLag \in Nat /\ elapsed \in Nat

Position == {"absent", "dispatched", "idle", "look", "wait", "unqueue", "measure", "enter"}

Fleet ==
  /\ veh \in [Vehicles -> VehicleRecord] /\ pc \in [Vehicles -> Position]
  /\ vehLag \in [Vehicles -> Nat]
  /\ \A v \in Vehicles : OnItsWay(v)

-----------------------------------------------------------------------------
(* What the operators return. *)

LEMMA DurationType ==
  ASSUME NEW q \in [Group -> Nat], NEW p \in Phase
  PROVE  Duration(q, p) \in Int
<1>1. ASSUME NEW g \in Group PROVE AdaptiveGreenTicks(q, g) \in Int
  <2> DEFINE total == q["NS"] + q["EW"]
             extra == Round(q[g] * (MaxGreenTicks - MinGreenTicks), total)
  <2>1. q["NS"] \in Nat /\ q["EW"] \in Nat /\ q[g] \in Nat
    BY DEF Group
  <2>2. MinGreenTicks \in Int /\ MaxGreenTicks \in Int
    BY SignalConfig
  <2>3. total # 0 => extra \in Int
    <3>1. q[g] * (MaxGreenTicks - MinGreenTicks) \in Int
      BY <2>1, <2>2
    <3>2. total # 0 => 2 * total \in Int /\ 2 * total > 0
      BY <2>1
    <3>3. 2 * (q[g] * (MaxGreenTicks - MinGreenTicks)) + total \in Int
      BY <2>1, <3>1
    <3> QED BY <3>2, <3>3 DEF Round
  <2> HIDE DEF extra
  <2> QED BY <2>2, <2>3 DEF AdaptiveGreenTicks, Clamp, extra
<1>2. AdaptiveGreenTicks(q, "NS") \in Int /\ AdaptiveGreenTicks(q, "EW") \in Int
  BY <1>1 DEF Group
<1> QED BY <1>2, SignalConfig DEF Duration, Phase, GreenPhase

\* A controller's step leaves the queues alone; without a preemption it shows the same
\* phase or the next.
LEMMA StepFacts ==
  ASSUME NEW s \in SignalRecord, s.preempt => s.preemptPhase \in GreenPhase
  PROVE  /\ StepSignal(s) \in SignalRecord /\ StepSignal(s).queue = s.queue
         /\ StepSignal(s).preempt => StepSignal(s).preemptPhase \in GreenPhase
         /\ ~s.preempt => /\ ~StepSignal(s).preempt
                          /\ StepSignal(s).phase \in {s.phase, NextPhase(s.phase)}
<1>1. CASE s.preempt
  <2> DEFINE on == s.preemptRemain - 1 > 0
  <2>1. on \in BOOLEAN /\ s.preemptRemain - 1 \in Int
    BY DEF SignalRecord
  <2>2. s.preemptPhase \in Phase /\ s.preemptPhase \in GreenPhase
    BY <1>1 DEF GreenPhase, Phase
  <2>3. StepSignal(s) = [s EXCEPT !.phase = s.preemptPhase,
                                  !.preemptRemain = s.preemptRemain - 1, !.preempt = on]
    BY <1>1 DEF StepSignal, HoldPreempted
  <2> HIDE DEF on
  <2> QED BY <1>1, <2>1, <2>2, <2>3 DEF SignalRecord
<1>2. CASE ~s.preempt /\ s.remaining - 1 > 0
  BY <1>2 DEF StepSignal, CountDown, SignalRecord
<1>3. CASE ~s.preempt /\ ~(s.remaining - 1 > 0)
  <2>1. NextPhase(s.phase) \in Phase /\ s.queue \in [Group -> Nat]
    BY DEF NextPhase, SignalRecord, Phase
  <2>2. Duration(s.queue, NextPhase(s.phase)) \in Int
    BY <2>1, DurationType
  <2> QED BY <1>3, <2>1, <2>2 DEF StepSignal, Transition, SignalRecord
<1> QED BY <1>1, <1>2, <1>3

LEMMA PreemptFacts ==
  ASSUME NEW s \in SignalRecord, NEW p \in GreenPhase
  PROVE  /\ SetPreempt(s, p) \in SignalRecord /\ SetPreempt(s, p).queue = s.queue
         /\ SetPreempt(s, p).preemptPhase = p
<1> DEFINE on == TRUE
<1>1. on \in BOOLEAN /\ PreemptionTicks \in Int
  BY SignalConfig
<1>2. SetPreempt(s, p) =
        [s EXCEPT !.preempt = on, !.preemptPhase = p, !.preemptRemain = PreemptionTicks]
  BY DEF SetPreempt
<1> HIDE DEF on
<1> QED BY <1>1, <1>2 DEF SignalRecord

\* The queues' methods change one count by one and nothing else.
LEMMA QueueFacts ==
  ASSUME NEW s \in SignalRecord, NEW g \in Group
  PROVE  /\ Enqueue(s, g) \in SignalRecord /\ Dequeue(s, g) \in SignalRecord
         /\ \A t \in {Enqueue(s, g), Dequeue(s, g)} :
              /\ t.phase = s.phase /\ t.preempt = s.preempt /\ t.preemptPhase = s.preemptPhase
              /\ \A h \in Group \ {g} : t.queue[h] = s.queue[h]
         /\ Enqueue(s, g).queue[g] = s.queue[g] + 1
         /\ s.queue[g] > 0 => Dequeue(s, g).queue[g] = s.queue[g] - 1
BY DEF Enqueue, Dequeue, SignalRecord

\* A path leads from node to node over roads of the network.
LEMMA PathFacts ==
  ASSUME NEW p \in Paths, NEW i \in 1..Len(p)
  PROVE  /\ p \in Seq(Nodes) /\ Len(p) \in Nat \ {0} /\ p[i] \in Nodes
         /\ p[1] \in Nodes /\ p[Len(p)] \in Nodes
         /\ i < Len(p) => <<p[i], p[i + 1]>> \in Hops /\ RoadOf[<<p[i], p[i + 1]>>] \in Roads
<1>1. p \in Seq(Nodes) /\ Len(p) > 0 /\ \A j \in 1..(Len(p) - 1) : <<p[j], p[j + 1]>> \in Hops
  BY DEF Paths
<1>2. Len(p) \in Nat /\ \A j \in 1..Len(p) : p[j] \in Nodes
  BY <1>1
<1>3. i < Len(p) => <<p[i], p[i + 1]>> \in Hops
  BY <1>1, <1>2
<1>4. \A h \in Hops : RoadOf[h] \in Roads
  BY DEF Roads
<1> QED BY <1>1, <1>2, <1>3, <1>4

LEMMA HeadingType == \A v : Heading(v) \in Group
BY DEF Heading, Direction, Group

-----------------------------------------------------------------------------
(* Types, and vehicles on their paths. *)

\* An operation on one vehicle leaves the others as they are.
LEMMA OneVehicle ==
  ASSUME Fleet, NEW v \in Vehicles,
         NEW r \in VehicleRecord, NEW where \in Position, NEW n \in Nat,
         veh' = [veh EXCEPT ![v] = r], pc' = [pc EXCEPT ![v] = where],
         vehLag' = [vehLag EXCEPT ![v] = n], OnItsWay(v)'
  PROVE  Fleet'
<1>1. /\ veh \in [Vehicles -> VehicleRecord] /\ pc \in [Vehicles -> Position]
      /\ vehLag \in [Vehicles -> Nat]
  BY DEF Fleet
<1>2. ASSUME NEW w \in Vehicles, w # v PROVE OnItsWay(w)'
  <2>1. veh'[w] = veh[w] /\ pc'[w] = pc[w] /\ vehLag'[w] = vehLag[w]
    BY <1>1, <1>2
  <2>2. OnItsWay(w)
    BY DEF Fleet
  <2> QED
    BY <2>1, <2>2 DEF OnItsWay, Driving, Stepping, From, Heading, NextHop, Goal
<1> QED BY <1>1, <1>2 DEF Fleet

\* A vehicle nobody has registered.
LEMMA ParkedFacts ==
  /\ Parked \in VehicleRecord /\ Parked.kind = "normal" /\ Parked.state = "at_intersection"
  /\ Parked.idx = 1 /\ Parked.path = <<0>> /\ <<0>> \in Paths /\ ~Parked.queued
<1> DEFINE no == FALSE
<1>1. no \in BOOLEAN /\ 0 \in Nodes
  BY TrafficConstants DEF Nodes
<1>2. Parked = [kind |-> "normal", state |-> "at_intersection", at |-> 0, path |-> <<0>>,
                idx |-> 1, road |-> 0, remaining |-> 0, queued |-> no, group |-> "NS"]
  BY DEF Parked
<1> HIDE DEF no
<1>3. <<0>> \in Seq(Nodes)
  BY <1>1
<1>4. ~Parked.queued
  BY DEF Parked
<1>5. <<0>> \in Paths
  BY <1>3 DEF Paths
<1> QED BY <1>1, <1>2, <1>3, <1>4, <1>5 DEF VehicleRecord, State, Group

\* A new goroutine stands at the start of its path.
LEMMA LaunchFacts ==
  ASSUME World, Fleet, NEW v \in Vehicles, NEW p \in Trips[v], NEW kind \in {"normal", "emergency"},
         Launch(v, p, kind)
  PROVE  Fleet'
<1> DEFINE r == [Parked EXCEPT !.kind = kind, !.at = p[1], !.path = p]
<1>1. p \in Paths
  BY TrafficConstants
<1>2. p \in Seq(Nodes) /\ Len(p) \in Nat \ {0} /\ p[1] \in Nodes
  BY <1>1 DEF Paths
<1>3. Parked \in VehicleRecord /\ Parked.state = "at_intersection" /\ Parked.idx = 1
      /\ ~Parked.queued
  BY ParkedFacts
<1>4. /\ r \in VehicleRecord /\ r.kind = kind /\ r.at = p[1] /\ r.path = p
      /\ r.state = "at_intersection" /\ r.idx = 1 /\ ~r.queued
  BY <1>2, <1>3 DEF VehicleRecord
<1> HIDE DEF r
<1>5. veh' = [veh EXCEPT ![v] = r] /\ pc' = [pc EXCEPT ![v] = "idle"]
      /\ vehLag' = [vehLag EXCEPT ![v] = elapsed]
  BY DEF Launch, r
<1>6. /\ veh'[v] = r /\ pc'[v] = "idle" /\ elapsed \in Nat
  BY <1>5 DEF World, Fleet
<1>7. OnItsWay(v)'
  BY <1>1, <1>2, <1>4, <1>6 DEF OnItsWay, Driving, Stepping, From, Goal
<1> QED BY <1>4, <1>5, <1>6, <1>7, OneVehicle DEF Position

\* Where a vehicle is, and where it goes.
LEMMA PlaceFacts ==
  ASSUME Fleet, NEW v \in Vehicles
  PROVE  /\ veh[v].path \in Seq(Nodes) /\ Len(veh[v].path) \in Nat \ {0}
         /\ veh[v].idx \in Nat /\ veh[v].idx \in 1..Len(veh[v].path)
         /\ From(v) \in Nodes /\ Goal(v) \in Nodes
<1>1. veh[v].idx \in 1..Len(veh[v].path) /\ veh[v].path \in Paths
  BY DEF Fleet, OnItsWay
<1>2. veh[v].path \in Seq(Nodes) /\ Len(veh[v].path) \in Nat \ {0}
  BY <1>1 DEF Paths
<1>3. \A i \in 1..Len(veh[v].path) : veh[v].path[i] \in Nodes
  BY <1>2
<1> QED BY <1>1, <1>2, <1>3 DEF From, Goal

\* A step at an intersection, between the light and the road.
LEMMA SteppingFacts ==
  ASSUME Fleet, NEW v \in Vehicles, Stepping(v)
  PROVE  /\ veh[v] \in VehicleRecord /\ veh[v].path \in Paths /\ veh[v].idx \in Nat
         /\ veh[v].at = From(v) /\ From(v) \in Nodes /\ Heading(v) \in Group
         /\ NextHop(v) \in Hops /\ RoadOf[NextHop(v)] \in Roads
         /\ veh[v].idx + 1 \in 1..Len(veh[v].path)
         /\ vehLag[v] \in Nat \ {0} /\ veh[v].state \in {"at_intersection", "waiting_signal"}
<1>1. OnItsWay(v) /\ veh[v] \in VehicleRecord /\ vehLag[v] \in Nat
  BY DEF Fleet
<1>2. /\ veh[v].path \in Paths /\ veh[v].idx \in 1..Len(veh[v].path)
      /\ veh[v].idx < Len(veh[v].path) /\ vehLag[v] > 0 /\ veh[v].at = From(v)
      /\ veh[v].state \in {"at_intersection", "waiting_signal"}
  BY <1>1 DEF OnItsWay, Stepping, Driving
<1>3. /\ From(v) \in Nodes /\ NextHop(v) \in Hops /\ RoadOf[NextHop(v)] \in Roads
      /\ veh[v].idx \in Nat /\ Len(veh[v].path) \in Nat
  BY <1>2, PathFacts DEF From, NextHop
<1> QED BY <1>1, <1>2, <1>3, HeadingType

LEMMA StepKeepsFleet ==
  ASSUME World, Fleet, NEW v \in Vehicles, VehicleStep(v)
  PROVE  Fleet'
<1>f. /\ veh \in [Vehicles -> VehicleRecord] /\ pc \in [Vehicles -> Position]
      /\ vehLag \in [Vehicles -> Nat] /\ OnItsWay(v) /\ veh[v] \in VehicleRecord
  BY DEF Fleet
<1>i. veh[v].idx \in 1..Len(veh[v].path) /\ veh[v].path \in Paths
  BY <1>f DEF OnItsWay
<1>p. /\ veh[v].path \in Seq(Nodes) /\ veh[v].idx \in Nat
      /\ Len(veh[v].path) \in Nat \ {0} /\ From(v) \in Nodes /\ Goal(v) \in Nodes
  BY PlaceFacts
<1> USE DEF Driving, Stepping, From, Heading, NextHop, Goal
<1>1. CASE Idle(v)
  <2> DEFINE r == IF veh[v].state = "arrived" THEN veh[v]
                  ELSE [veh[v] EXCEPT !.remaining = @ - 1]
  <2>1. /\ pc[v] = "idle" /\ vehLag[v] > 0 /\ veh' = [veh EXCEPT ![v] = r]
        /\ pc' = [pc EXCEPT ![v] = "idle"] /\ vehLag' = [vehLag EXCEPT ![v] = vehLag[v] - 1]
        /\ veh[v].state # "arrived" => veh[v].state = "on_road" /\ veh[v].remaining > 1
    BY <1>1, <1>f DEF Idle, Finish
  <2>2. r \in VehicleRecord /\ vehLag[v] - 1 \in Nat
    <3>1. veh[v].state # "arrived" => veh[v].remaining - 1 \in Nat
      BY <1>f, <2>1 DEF VehicleRecord
    <3>2. veh[v].state # "arrived" => [veh[v] EXCEPT !.remaining = @ - 1] \in VehicleRecord
      BY <1>f, <3>1 DEF VehicleRecord
    <3> QED BY <1>f, <2>1, <3>2
  <2>3. OnItsWay(v)'
    BY <1>f, <2>1 DEF OnItsWay, VehicleRecord
  <2> HIDE DEF r
  <2> QED BY <2>1, <2>2, <2>3, OneVehicle DEF Position
<1>2. CASE LeaveRoad(v)
  <2> DEFINE state == IF From(v) = Goal(v) THEN "arrived" ELSE "at_intersection"
             no == FALSE
             r == [veh[v] EXCEPT !.remaining = @ - 1, !.road = 0, !.at = From(v),
                                 !.queued = no, !.state = state]
             where == IF From(v) = Goal(v) THEN "idle" ELSE "look"
             n == IF From(v) = Goal(v) THEN vehLag[v] - 1 ELSE vehLag[v]
  <2>1. /\ pc[v] = "idle" /\ vehLag[v] > 0 /\ veh[v].state = "on_road"
        /\ veh' = [veh EXCEPT ![v] = r]
        /\ pc' = [pc EXCEPT ![v] = where] /\ vehLag' = [vehLag EXCEPT ![v] = n]
    BY <1>2, <1>f DEF LeaveRoad, Finish, Proceed, lagVars
  <2>2. r \in VehicleRecord /\ where \in Position /\ n \in Nat
    <3>1. veh[v].remaining - 1 \in Nat
      BY <1>f, <2>1 DEF OnItsWay, VehicleRecord
    <3>2. state \in State /\ no \in BOOLEAN
      BY DEF State
    <3>3. where \in Position /\ n \in Nat
      BY <1>f, <2>1 DEF Position
    <3> HIDE DEF state, no
    <3>4. r \in VehicleRecord
      BY <1>f, <1>p, <3>1, <3>2 DEF VehicleRecord
    <3> QED BY <3>3, <3>4
  <2>3. /\ veh'[v].path = veh[v].path /\ veh'[v].idx = veh[v].idx /\ veh'[v].kind = veh[v].kind
        /\ veh'[v].at = From(v) /\ ~veh'[v].queued
        /\ veh'[v].state = IF From(v) = Goal(v) THEN "arrived" ELSE "at_intersection"
        /\ pc'[v] = where /\ vehLag'[v] = n
    BY <1>f, <2>1 DEF VehicleRecord
  <2>4. From(v) # Goal(v) => veh[v].idx < Len(veh[v].path)
    BY <1>i, <1>p
  <2>5. OnItsWay(v)'
    BY <1>f, <2>1, <2>3, <2>4 DEF OnItsWay
  <2> HIDE DEF r, where, n
  <2> QED BY <2>1, <2>2, <2>5, OneVehicle
<1>3. CASE Approach(v)
  <2> DEFINE r == IF veh[v].at = Goal(v) THEN [veh[v] EXCEPT !.state = "arrived"] ELSE veh[v]
             where == IF veh[v].at = Goal(v) THEN "idle" ELSE "look"
             n == IF veh[v].at = Goal(v) THEN vehLag[v] - 1 ELSE vehLag[v]
  <2>1. /\ pc[v] = "idle" /\ vehLag[v] > 0
        /\ veh[v].state \in {"at_intersection", "waiting_signal"}
        /\ veh' = [veh EXCEPT ![v] = r]
        /\ pc' = [pc EXCEPT ![v] = where] /\ vehLag' = [vehLag EXCEPT ![v] = n]
    BY <1>3, <1>f DEF Approach, Finish, Proceed, lagVars
  <2>2. r \in VehicleRecord /\ where \in Position /\ n \in Nat
    <3>1. [veh[v] EXCEPT !.state = "arrived"] \in VehicleRecord
      BY <1>f DEF VehicleRecord, State
    <3>2. where \in Position /\ n \in Nat
      BY <1>f, <2>1 DEF Position
    <3> QED BY <1>f, <3>1, <3>2
  <2>3. veh[v].at # Goal(v) => veh[v].idx < Len(veh[v].path)
    BY <1>f, <1>i, <1>p, <2>1 DEF OnItsWay
  <2>4. /\ veh'[v].path = veh[v].path /\ veh'[v].idx = veh[v].idx /\ veh'[v].kind = veh[v].kind
        /\ veh'[v].at = veh[v].at /\ veh'[v].queued = veh[v].queued
        /\ veh'[v].group = veh[v].group
        /\ veh'[v].state = IF veh[v].at = Goal(v) THEN "arrived" ELSE veh[v].state
        /\ pc'[v] = where /\ vehLag'[v] = n
    BY <1>f, <2>1 DEF VehicleRecord
  <2>5. OnItsWay(v)'
    <3>1. CASE veh[v].at = Goal(v)
      BY <1>f, <2>1, <2>4, <3>1 DEF OnItsWay
    <3>2. CASE veh[v].at # Goal(v)
      BY <1>f, <2>1, <2>3, <2>4, <3>2 DEF OnItsWay
    <3> QED BY <3>1, <3>2
  <2> HIDE DEF r, where, n
  <2> QED BY <2>1, <2>2, <2>5, OneVehicle
<1>s. ASSUME Stepping(v)
      PROVE  /\ NextHop(v) \in Hops /\ RoadOf[NextHop(v)] \in Roads /\ Heading(v) \in Group
             /\ veh[v].idx + 1 \in 1..Len(veh[v].path)
             /\ veh[v].idx < Len(veh[v].path) /\ vehLag[v] - 1 \in Nat
             /\ veh[v].state \in {"at_intersection", "waiting_signal"}
             /\ veh[v].at = From(v) /\ From(v) # Goal(v)
  BY <1>f, <1>s, SteppingFacts DEF OnItsWay
<1>4. CASE Look(v)
  <2> DEFINE where == IF ~PhaseAllows(sig[From(v)].phase, Heading(v)) THEN "wait"
                      ELSE IF veh[v].queued THEN "unqueue" ELSE "measure"
  <2>1. /\ pc[v] = "look" /\ veh' = [veh EXCEPT ![v] = veh[v]]
        /\ pc' = [pc EXCEPT ![v] = where] /\ vehLag' = [vehLag EXCEPT ![v] = vehLag[v]]
    BY <1>4, <1>f DEF Look, Proceed, lagVars
  <2>2. where \in {"wait", "unqueue", "measure"} /\ (where = "unqueue" => veh[v].queued)
        /\ (where = "measure" => ~veh[v].queued)
    OBVIOUS
  <2> HIDE DEF where
  <2>3. OnItsWay(v)'
    BY <1>f, <2>1, <2>2 DEF OnItsWay
  <2> QED BY <1>f, <2>1, <2>2, <2>3, OneVehicle DEF Position
<1>5. CASE Wait(v)
  <2> DEFINE on == TRUE
             r == IF veh[v].queued THEN [veh[v] EXCEPT !.state = "waiting_signal"]
                  ELSE [veh[v] EXCEPT !.state = "waiting_signal", !.queued = on,
                                      !.group = Heading(v)]
  <2>1. /\ pc[v] = "wait" /\ veh' = [veh EXCEPT ![v] = r]
        /\ pc' = [pc EXCEPT ![v] = "idle"] /\ vehLag' = [vehLag EXCEPT ![v] = vehLag[v] - 1]
    BY <1>5, <1>f DEF Wait, Finish
  <2>2. r \in VehicleRecord
    <3>1. on \in BOOLEAN /\ Heading(v) \in Group
      BY <1>s, <2>1
    <3> HIDE DEF on
    <3>2. [veh[v] EXCEPT !.state = "waiting_signal"] \in VehicleRecord
      BY <1>f DEF VehicleRecord, State
    <3>3. [veh[v] EXCEPT !.state = "waiting_signal", !.queued = on, !.group = Heading(v)]
            \in VehicleRecord
      BY <1>f, <3>1 DEF VehicleRecord, State
    <3> QED BY <3>2, <3>3
  <2>3. /\ veh'[v].path = veh[v].path /\ veh'[v].idx = veh[v].idx /\ veh'[v].kind = veh[v].kind
        /\ veh'[v].at = veh[v].at /\ veh'[v].state = "waiting_signal" /\ veh'[v].queued
        /\ veh'[v].group = IF veh[v].queued THEN veh[v].group ELSE Heading(v)
        /\ pc'[v] = "idle"
    BY <1>f, <2>1 DEF VehicleRecord
  <2>4. OnItsWay(v)'
    BY <1>f, <1>s, <2>1, <2>3 DEF OnItsWay
  <2> HIDE DEF r
  <2> QED BY <1>s, <2>1, <2>2, <2>4, OneVehicle DEF Position
<1>6. CASE Unqueue(v)
  <2> DEFINE no == FALSE
             r == [veh[v] EXCEPT !.queued = no]
  <2>1. /\ pc[v] = "unqueue" /\ veh' = [veh EXCEPT ![v] = r]
        /\ pc' = [pc EXCEPT ![v] = "measure"] /\ vehLag' = [vehLag EXCEPT ![v] = vehLag[v]]
    BY <1>6, <1>f DEF Unqueue, Proceed, lagVars
  <2>2. r \in VehicleRecord
    <3>1. no \in BOOLEAN
      OBVIOUS
    <3> HIDE DEF no
    <3> QED BY <1>f, <3>1 DEF VehicleRecord
  <2>3. /\ veh'[v].path = veh[v].path /\ veh'[v].idx = veh[v].idx /\ veh'[v].kind = veh[v].kind
        /\ veh'[v].at = veh[v].at /\ veh'[v].state = veh[v].state /\ ~veh'[v].queued
        /\ pc'[v] = "measure" /\ vehLag'[v] = vehLag[v]
    BY <1>f, <2>1 DEF VehicleRecord
  <2>4. OnItsWay(v)'
    BY <1>f, <1>s, <2>1, <2>3 DEF OnItsWay
  <2> HIDE DEF r
  <2> QED BY <1>f, <2>1, <2>2, <2>4, OneVehicle DEF Position
<1>7. CASE Measure(v)
  <2> DEFINE road == RoadOf[NextHop(v)]
             ticks == TravelTicks[road][congestion[road]]
             r == [veh[v] EXCEPT !.road = road, !.remaining = ticks]
  <2>1. /\ pc[v] = "measure" /\ veh' = [veh EXCEPT ![v] = r]
        /\ pc' = [pc EXCEPT ![v] = "enter"] /\ vehLag' = [vehLag EXCEPT ![v] = vehLag[v]]
    BY <1>7, <1>f DEF Measure, Proceed, lagVars
  <2>2. road \in Roads /\ ticks \in Nat \ {0}
    <3>1. road \in Roads
      BY <1>s, <2>1
    <3>2. congestion[road] \in 1..10
      BY <3>1 DEF World
    <3> QED BY <3>1, <3>2, TrafficConstants
  <2>3. r \in VehicleRecord
    <3> HIDE DEF road, ticks
    <3> QED BY <1>f, <2>2 DEF VehicleRecord
  <2>4. /\ veh'[v].path = veh[v].path /\ veh'[v].idx = veh[v].idx /\ veh'[v].kind = veh[v].kind
        /\ veh'[v].at = veh[v].at /\ veh'[v].state = veh[v].state
        /\ veh'[v].queued = veh[v].queued /\ veh'[v].road = road /\ veh'[v].remaining = ticks
        /\ pc'[v] = "enter" /\ vehLag'[v] = vehLag[v]
    BY <1>f, <2>1 DEF VehicleRecord
  <2>5. ~veh'[v].queued
    <3> HIDE DEF road, ticks, r
    <3>1. ~veh[v].queued
      BY <1>f, <2>1 DEF OnItsWay
    <3> QED BY <2>4, <3>1
  <2>6. OnItsWay(v)'
    <3>1. road = RoadOf[NextHop(v)'] /\ ticks > 0
      BY <2>2, <2>4
    <3> HIDE DEF road, ticks
    <3> QED BY <1>f, <1>s, <2>1, <2>4, <2>5, <3>1 DEF OnItsWay
  <2> HIDE DEF r
  <2> QED BY <1>f, <2>1, <2>3, <2>6, OneVehicle DEF Position
<1>8. CASE EnterRoad(v)
  <2> DEFINE r == [veh[v] EXCEPT !.state = "on_road", !.idx = @ + 1]
  <2>1. /\ pc[v] = "enter" /\ veh' = [veh EXCEPT ![v] = r]
        /\ pc' = [pc EXCEPT ![v] = "idle"] /\ vehLag' = [vehLag EXCEPT ![v] = vehLag[v] - 1]
    BY <1>8, <1>f DEF EnterRoad, Finish
  <2>2. r \in VehicleRecord
    <3>1. veh[v].idx + 1 \in Nat
      BY <1>p
    <3> QED BY <1>f, <3>1 DEF VehicleRecord, State
  <2>3. /\ veh'[v].path = veh[v].path /\ veh'[v].idx = veh[v].idx + 1
        /\ veh'[v].kind = veh[v].kind
        /\ veh'[v].at = veh[v].at /\ veh'[v].state = "on_road"
        /\ veh'[v].queued = veh[v].queued /\ veh'[v].road = veh[v].road
        /\ veh'[v].remaining = veh[v].remaining /\ pc'[v] = "idle"
    BY <1>f, <2>1 DEF VehicleRecord
  <2>4. /\ ~veh[v].queued /\ veh[v].remaining > 0
        /\ veh[v].road = RoadOf[<<veh[v].at, veh[v].path[veh[v].idx + 1]>>]
    BY <1>f, <1>s, <2>1 DEF OnItsWay
  <2>5. OnItsWay(v)'
    BY <1>f, <1>i, <1>p, <1>s, <2>1, <2>3, <2>4 DEF OnItsWay
  <2> HIDE DEF r
  <2> QED BY <1>s, <2>1, <2>2, <2>5, OneVehicle DEF Position
<1> QED BY <1>1, <1>2, <1>3, <1>4, <1>5, <1>6, <1>7, <1>8 DEF VehicleStep

\* setPreempt for one node of the corridor after another.
LEMMA PreemptNextFacts ==
  ASSUME World, Fleet, NEW v \in Vehicles, PreemptNext(v)
  PROVE  /\ Fleet' /\ From(v) \in Nodes /\ veh[v].kind = "emergency"
         /\ GreenOf(Heading(v)) \in GreenPhase
<1>1. /\ veh \in [Vehicles -> VehicleRecord] /\ pc \in [Vehicles -> Position]
      /\ vehLag \in [Vehicles -> Nat] /\ OnItsWay(v) /\ veh[v] \in VehicleRecord
  BY DEF Fleet
<1>2. veh[v].path \in Paths /\ veh[v].idx \in 1..Len(veh[v].path)
  BY <1>1 DEF OnItsWay
<1>3. /\ From(v) \in Nodes /\ veh[v].idx \in Nat /\ Len(veh[v].path) \in Nat
  BY PlaceFacts
<1> DEFINE r == [veh[v] EXCEPT !.idx = @ + 1]
<1>4. /\ pc[v] = "dispatched" /\ veh[v].idx < Len(veh[v].path)
      /\ veh' = [veh EXCEPT ![v] = r]
      /\ pc' = [pc EXCEPT ![v] = "dispatched"] /\ vehLag' = [vehLag EXCEPT ![v] = vehLag[v]]
  BY <1>1 DEF PreemptNext, lagVars
<1>5. r \in VehicleRecord
  <2>1. veh[v].idx + 1 \in Nat
    BY <1>3
  <2> QED BY <1>1, <2>1 DEF VehicleRecord
<1>6. /\ veh'[v].path = veh[v].path /\ veh'[v].idx = veh[v].idx + 1
      /\ veh'[v].kind = veh[v].kind /\ veh'[v].state = veh[v].state
      /\ veh'[v].queued = veh[v].queued /\ pc'[v] = "dispatched"
  BY <1>1, <1>4 DEF VehicleRecord
<1>7. veh[v].state = "at_intersection" /\ veh[v].kind = "emergency" /\ ~veh[v].queued
  BY <1>1, <1>4 DEF OnItsWay, Driving
<1>8. OnItsWay(v)'
  BY <1>2, <1>3, <1>4, <1>6, <1>7 DEF OnItsWay, Driving, Stepping
<1>9. Fleet'
  <2> HIDE DEF r
  <2> QED BY <1>1, <1>4, <1>5, <1>8, OneVehicle DEF Position
<1> QED BY <1>3, <1>7, <1>9 DEF GreenOf, GreenPhase

LEMMA DispatchFacts ==
  ASSUME World, Fleet, NEW v \in Vehicles, DispatchEmergency(v)
  PROVE  Fleet'
<1>1. PICK p \in Trips[v] :
        veh' = [veh EXCEPT ![v] = [Parked EXCEPT !.kind = "emergency", !.at = p[1], !.path = p]]
  BY DEF DispatchEmergency
<1> DEFINE r == [Parked EXCEPT !.kind = "emergency", !.at = p[1], !.path = p]
<1>2. /\ veh \in [Vehicles -> VehicleRecord] /\ pc \in [Vehicles -> Position]
      /\ vehLag \in [Vehicles -> Nat]
  BY DEF Fleet
<1>3. p \in Paths /\ p \in Seq(Nodes) /\ Len(p) \in Nat \ {0} /\ p[1] \in Nodes
  BY TrafficConstants DEF Paths
<1>4. /\ r \in VehicleRecord /\ r.kind = "emergency" /\ r.path = p
      /\ r.state = "at_intersection" /\ r.idx = 1 /\ ~r.queued
  BY <1>3, ParkedFacts DEF VehicleRecord
<1> HIDE DEF r
<1>5. /\ veh' = [veh EXCEPT ![v] = r] /\ pc' = [pc EXCEPT ![v] = "dispatched"]
      /\ vehLag' = [vehLag EXCEPT ![v] = vehLag[v]]
  BY <1>1, <1>2 DEF DispatchEmergency, lagVars, r
<1>6. OnItsWay(v)'
  BY <1>2, <1>3, <1>4, <1>5 DEF OnItsWay, Driving, Stepping
<1> QED BY <1>2, <1>4, <1>5, <1>6, OneVehicle DEF Position

\* The clock, the controllers and the updater leave the vehicles where they are.
LEMMA FleetStays ==
  ASSUME Fleet, UNCHANGED <<veh, pc>>, vehLag' \in [Vehicles -> Nat],
         \A v \in Vehicles : vehLag'[v] >= vehLag[v]
  PROVE  Fleet'
<1>1. ASSUME NEW v \in Vehicles PROVE OnItsWay(v)'
  <2>1. OnItsWay(v) /\ vehLag[v] \in Nat /\ vehLag'[v] \in Nat /\ vehLag'[v] >= vehLag[v]
    BY DEF Fleet
  <2> QED BY <2>1 DEF OnItsWay, Driving, Stepping, From, Heading, NextHop, Goal
<1> QED BY <1>1 DEF Fleet

LEMMA TypingInductive == World /\ Fleet /\ [Next]_vars => World' /\ Fleet'
<1> SUFFICES ASSUME World, Fleet, [Next]_vars PROVE World' /\ Fleet'
  OBVIOUS
<1> USE DEF lagVars
<1>1. CASE Tick
  <2>1. MaxLag \in Nat \ {0} /\ vehLag \in [Vehicles -> Nat]
    BY TrafficConstants DEF Fleet
  <2>2. Fleet'
    BY <1>1, <2>1, FleetStays DEF Tick
  <2>3. World'
    BY <1>1, <2>1 DEF Tick, World
  <2> QED BY <2>2, <2>3
<1>2. CASE UpdateCongestion
  <2>1. Fleet'
    BY <1>2, FleetStays DEF UpdateCongestion, Fleet
  <2>2. \A r \in Roads : ClampCongestion(2 + occupancy[r] \div OccPerLevel) \in 1..10
    <3>1. ASSUME NEW r \in Roads PROVE occupancy[r] \div OccPerLevel \in Int
      BY TrafficConstants DEF World
    <3> QED BY <3>1 DEF ClampCongestion
  <2>3. World'
    BY <1>2, <2>2 DEF UpdateCongestion, World
  <2> QED BY <2>1, <2>3
<1>3. ASSUME NEW i \in Nodes, SignalStep(i) PROVE World' /\ Fleet'
  <2>1. Fleet'
    BY <1>3, FleetStays DEF SignalStep, Fleet
  <2>2. World'
    BY <1>3, StepFacts, TrafficConstants DEF SignalStep, World
  <2> QED BY <2>1, <2>2
<1>4. ASSUME NEW v \in Vehicles, RegisterVehicle(v) \/ LaunchEmergency(v) PROVE World' /\ Fleet'
  <2>1. \E p \in Trips[v], kind \in {"normal", "emergency"} : Launch(v, p, kind)
    BY <1>4 DEF RegisterVehicle, LaunchEmergency
  <2>2. Fleet'
    BY <2>1, LaunchFacts
  <2>3. World'
    BY <1>4 DEF RegisterVehicle, LaunchEmergency, World
  <2> QED BY <2>2, <2>3
<1>5. ASSUME NEW v \in Vehicles, DispatchEmergency(v) PROVE World' /\ Fleet'
  <2>1. World'
    BY <1>5 DEF DispatchEmergency, World
  <2> QED BY <1>5, <2>1, DispatchFacts
<1>6. ASSUME NEW v \in Vehicles, PreemptNext(v) PROVE World' /\ Fleet'
  <2>1. Fleet' /\ From(v) \in Nodes /\ GreenOf(Heading(v)) \in GreenPhase
    BY <1>6, PreemptNextFacts
  <2>2. World'
    BY <1>6, <2>1, PreemptFacts DEF PreemptNext, World
  <2> QED BY <2>1, <2>2
<1>7. ASSUME NEW v \in Vehicles, VehicleStep(v) PROVE World' /\ Fleet'
  <2>1. Fleet'
    BY <1>7, StepKeepsFleet
  <2>2. World'
    <3> USE DEF World
    <3>1. CASE Wait(v)
      <4>1. Stepping(v)
        BY <3>1 DEF Wait, Stepping
      <4>2. From(v) \in Nodes /\ Heading(v) \in Group
        BY <4>1, SteppingFacts
      <4>3. /\ Enqueue(sig[From(v)], Heading(v)) \in SignalRecord
            /\ Enqueue(sig[From(v)], Heading(v)).preempt = sig[From(v)].preempt
            /\ Enqueue(sig[From(v)], Heading(v)).preemptPhase = sig[From(v)].preemptPhase
        BY <4>2, QueueFacts
      <4>4. /\ sig' = sig \/ sig' = [sig EXCEPT ![From(v)] = Enqueue(sig[From(v)], Heading(v))]
            /\ UNCHANGED <<occupancy, congestion, sigLag, updLag, elapsed>>
        BY <3>1 DEF Wait, Finish
      <4> QED BY <4>2, <4>3, <4>4
    <3>2. CASE Unqueue(v)
      <4>1. Stepping(v)
        BY <3>2 DEF Unqueue, Stepping
      <4>2. From(v) \in Nodes /\ veh[v].group \in Group
        BY <4>1, SteppingFacts DEF VehicleRecord
      <4>3. /\ Dequeue(sig[From(v)], veh[v].group) \in SignalRecord
            /\ Dequeue(sig[From(v)], veh[v].group).preempt = sig[From(v)].preempt
            /\ Dequeue(sig[From(v)], veh[v].group).preemptPhase = sig[From(v)].preemptPhase
        BY <4>2, QueueFacts
      <4>4. /\ sig' = [sig EXCEPT ![From(v)] = Dequeue(sig[From(v)], veh[v].group)]
            /\ UNCHANGED <<occupancy, congestion, sigLag, updLag, elapsed>>
        BY <3>2 DEF Unqueue, Proceed
      <4> QED BY <4>2, <4>3, <4>4
    <3>3. CASE LeaveRoad(v)
      <4> DEFINE Left(n) == IF n > 0 THEN n - 1 ELSE n
      <4>1. /\ occupancy' = [occupancy EXCEPT ![veh[v].road] = Left(@)]
            /\ UNCHANGED <<sig, congestion, sigLag, updLag, elapsed>>
        BY <3>3 DEF LeaveRoad, Finish, Proceed
      <4>2. \A n \in Nat : Left(n) \in Nat
        OBVIOUS
      <4> HIDE DEF Left
      <4>3. /\ occupancy' = [r \in Roads |-> occupancy'[r]]
            /\ \A r \in Roads : occupancy'[r] \in {occupancy[r], Left(occupancy[r])}
        BY <4>1
      <4>4. \A r \in Roads : occupancy'[r] \in Nat
        BY <4>2, <4>3
      <4> QED BY <4>1, <4>3, <4>4
    <3>4. CASE EnterRoad(v)
      <4>1. /\ occupancy' = [occupancy EXCEPT ![veh[v].road] = @ + 1]
            /\ UNCHANGED <<sig, congestion, sigLag, updLag, elapsed>>
        BY <3>4 DEF EnterRoad, Finish
      <4>2. /\ occupancy' = [r \in Roads |-> occupancy'[r]]
            /\ \A r \in Roads : occupancy'[r] \in {occupancy[r], occupancy[r] + 1}
        BY <4>1
      <4>3. \A r \in Roads : occupancy'[r] \in Nat
        BY <4>2
      <4> QED BY <4>1, <4>2, <4>3
    <3>5. CASE Idle(v) \/ Approach(v) \/ Look(v) \/ Measure(v)
      BY <3>5 DEF Idle, Approach, Look, Measure, Finish, Proceed
    <3> QED BY <1>7, <3>1, <3>2, <3>3, <3>4, <3>5 DEF VehicleStep
  <2> QED BY <2>1, <2>2
<1>8. CASE UNCHANGED vars
  <2>1. Fleet'
    BY <1>8, FleetStays DEF vars, Fleet
  <2>2. World'
    BY <1>8 DEF vars, World
  <2> QED BY <2>1, <2>2
<1> QED BY <1>1, <1>2, <1>3, <1>4, <1>5, <1>6, <1>7, <1>8 DEF Next, Dispatch

LEMMA TypingInvariant == Spec => [](World /\ Fleet)
<1>1. Init => World /\ Fleet
  <2> SUFFICES ASSUME Init PROVE World /\ Fleet
    OBVIOUS
  <2>1. World
    <3>1. NewIntersection \in SignalRecord /\ ~NewIntersection.preempt
      BY SignalConfig DEF NewIntersection, SignalRecord, Phase, GreenPhase, NoPhase
    <3> QED BY <3>1, TrafficConstants DEF Init, World
  <2>2. Fleet
    <3>1. ASSUME NEW v \in Vehicles PROVE OnItsWay(v)
      <4>1. veh[v] = Parked /\ pc[v] = "absent"
        BY DEF Init
      <4>2. Len(<<0>>) = 1
        OBVIOUS
      <4> QED BY <4>1, <4>2, ParkedFacts DEF OnItsWay, Driving, Stepping
    <3> QED BY <3>1, ParkedFacts DEF Init, Fleet, Position
  <2> QED BY <2>1, <2>2
<1> QED BY <1>1, TypingInductive, PTL DEF Spec

\* The records of the controllers, the roads and the vehicles keep their types, and every
\* vehicle is where its path says, between any two locks of any steps.
THEOREM TypeCorrect == Spec => [](TypeOK /\ VehicleConsistent)
<1>1. World /\ Fleet => TypeOK
  BY TrafficConstants DEF World, Fleet, TypeOK, Position
<1>2. World /\ Fleet => VehicleConsistent
  BY DEF Fleet, OnItsWay, VehicleConsistent, Driving, From
<1> QED BY <1>1, <1>2, TypingInvariant, PTL

-----------------------------------------------------------------------------
(* The counts are exact. *)

OnRoad(r) == {v \in Vehicles : veh[v].state = "on_road" /\ veh[v].road = r}
Waiting(i, g) == {v \in Vehicles : veh[v].queued /\ veh[v].at = i /\ veh[v].group = g}

\* Vehicles come to a place and leave it one at a time.
LEMMA Counted ==
  ASSUME NEW S \in SUBSET Vehicles
  PROVE  /\ Cardinality(S) \in Nat
         /\ \A v \in Vehicles \ S : Cardinality(S \cup {v}) = Cardinality(S) + 1
         /\ \A v \in S : Cardinality(S \ {v}) = Cardinality(S) - 1 /\ Cardinality(S) > 0
<1>1. IsFiniteSet(S) /\ Cardinality(S) \in Nat
  BY TrafficConstants, FS_Subset, FS_CardinalityType
<1>2. ASSUME NEW v \in Vehicles \ S PROVE Cardinality(S \cup {v}) = Cardinality(S) + 1
  BY <1>1, <1>2, FS_AddElement
<1>3. ASSUME NEW v \in S PROVE Cardinality(S \ {v}) = Cardinality(S) - 1 /\ Cardinality(S) > 0
  <2>1. Cardinality(S \ {v}) = Cardinality(S) - 1
    BY <1>1, <1>3, FS_RemoveElement
  <2>2. Cardinality(S) # 0
    BY <1>1, <1>3, FS_EmptySet
  <2> QED BY <1>1, <2>1, <2>2
<1> QED BY <1>1, <1>2, <1>3

LEMMA RoadsSame ==
  ASSUME OccupancyExact, UNCHANGED occupancy, \A r \in Roads : OnRoad(r)' = OnRoad(r)
  PROVE  OccupancyExact'
<1>1. ASSUME NEW r \in Roads
      PROVE  occupancy'[r] = Cardinality(OnRoad(r)')
  <2>1. occupancy[r] = Cardinality(OnRoad(r))
    BY DEF OccupancyExact, OnRoad
  <2> QED BY <2>1
<1> QED BY <1>1 DEF OccupancyExact, OnRoad

LEMMA QueuesSame ==
  ASSUME QueueExact, \A i \in Nodes, g \in Group : sig'[i].queue[g] = sig[i].queue[g],
         \A i \in Nodes, g \in Group : Waiting(i, g)' = Waiting(i, g)
  PROVE  QueueExact'
<1>1. ASSUME NEW i \in Nodes, NEW g \in Group
      PROVE  sig'[i].queue[g] = Cardinality(Waiting(i, g)')
  <2>1. sig[i].queue[g] = Cardinality(Waiting(i, g))
    BY DEF QueueExact, Waiting
  <2> QED BY <2>1
<1> QED BY <1>1 DEF QueueExact, Waiting

\* Whoever is on no road and in no queue before and after is not counted.
LEMMA Uncounted ==
  ASSUME CountsExact, NEW v \in Vehicles,
         \A w \in Vehicles \ {v} : veh'[w] = veh[w],
         UNCHANGED occupancy,
         \A i \in Nodes, g \in Group : sig'[i].queue[g] = sig[i].queue[g],
         veh[v].state # "on_road", veh'[v].state # "on_road",
         ~veh[v].queued, ~veh'[v].queued
  PROVE  CountsExact'
<1>1. \A r \in Roads : OnRoad(r)' = OnRoad(r)
  BY DEF OnRoad
<1>2. \A i \in Nodes, g \in Group : Waiting(i, g)' = Waiting(i, g)
  BY DEF Waiting
<1> QED BY <1>1, <1>2, RoadsSame, QueuesSame DEF CountsExact

LEMMA StepKeepsCounts ==
  ASSUME World, Fleet, CountsExact, NEW v \in Vehicles, VehicleStep(v)
  PROVE  CountsExact'
<1>f. /\ veh \in [Vehicles -> VehicleRecord] /\ OnItsWay(v) /\ veh[v] \in VehicleRecord
      /\ occupancy \in [Roads -> Nat] /\ sig \in [Nodes -> SignalRecord]
  BY DEF World, Fleet
<1>o. OccupancyExact /\ QueueExact
  BY DEF CountsExact
<1>s. Stepping(v) => /\ veh[v].state # "on_road" /\ From(v) \in Nodes /\ veh[v].at = From(v)
                     /\ Heading(v) \in Group
  BY SteppingFacts
<1>1. CASE Idle(v) \/ Look(v) \/ Approach(v)
  <2>1. /\ UNCHANGED <<sig, occupancy>> /\ \A w \in Vehicles \ {v} : veh'[w] = veh[w]
        /\ veh'[v].queued = veh[v].queued /\ veh'[v].at = veh[v].at
        /\ veh'[v].group = veh[v].group /\ veh'[v].road = veh[v].road
        /\ (veh'[v].state = "on_road") <=> (veh[v].state = "on_road")
    BY <1>1, <1>f DEF Idle, Look, Approach, VehicleRecord
  <2>2. \A r \in Roads : OnRoad(r)' = OnRoad(r)
    BY <2>1 DEF OnRoad
  <2>3. \A i \in Nodes, g \in Group : Waiting(i, g)' = Waiting(i, g)
    BY <2>1 DEF Waiting
  <2> QED BY <1>o, <2>1, <2>2, <2>3, RoadsSame, QueuesSame DEF CountsExact
<1>2. CASE LeaveRoad(v)
  <2> DEFINE road == veh[v].road
  <2>1. /\ veh[v].state = "on_road" /\ ~veh[v].queued
        /\ veh'[v].state # "on_road" /\ ~veh'[v].queued
        /\ \A w \in Vehicles \ {v} : veh'[w] = veh[w]
        /\ UNCHANGED sig
        /\ occupancy' = [occupancy EXCEPT ![road] = IF @ > 0 THEN @ - 1 ELSE @]
    BY <1>2, <1>f DEF LeaveRoad, OnItsWay, VehicleRecord
  <2>2. ASSUME NEW r \in Roads PROVE occupancy'[r] = Cardinality(OnRoad(r)')
    <3>1. occupancy[r] = Cardinality(OnRoad(r))
      BY <1>o DEF OccupancyExact, OnRoad
    <3>2. CASE r = road
      <4>1. v \in OnRoad(r) /\ OnRoad(r)' = OnRoad(r) \ {v} /\ OnRoad(r) \in SUBSET Vehicles
        BY <2>1, <3>2 DEF OnRoad
      <4>2. Cardinality(OnRoad(r)') = Cardinality(OnRoad(r)) - 1 /\ Cardinality(OnRoad(r)) > 0
        BY <4>1, Counted
      <4>3. occupancy'[r] = occupancy[r] - 1
        BY <1>f, <2>1, <3>1, <3>2, <4>2
      <4> QED BY <3>1, <4>2, <4>3
    <3>3. CASE r # road
      <4>1. OnRoad(r)' = OnRoad(r) /\ occupancy'[r] = occupancy[r]
        BY <1>f, <2>1, <3>3 DEF OnRoad
      <4> QED BY <3>1, <4>1
    <3> QED BY <3>2, <3>3
  <2>3. OccupancyExact'
    BY <2>2 DEF OccupancyExact, OnRoad
  <2>4. \A i \in Nodes, g \in Group : Waiting(i, g)' = Waiting(i, g)
    BY <2>1 DEF Waiting
  <2> QED BY <1>o, <2>1, <2>3, <2>4, QueuesSame DEF CountsExact
<1>3. CASE Wait(v) /\ veh[v].queued
  <2>1. /\ UNCHANGED <<sig, occupancy>> /\ \A w \in Vehicles \ {v} : veh'[w] = veh[w]
        /\ veh'[v].queued = veh[v].queued /\ veh'[v].at = veh[v].at
        /\ veh'[v].group = veh[v].group
        /\ veh'[v].state # "on_road" /\ veh[v].state # "on_road"
    BY <1>3, <1>f, <1>s DEF Wait, VehicleRecord, Stepping
  <2>2. \A r \in Roads : OnRoad(r)' = OnRoad(r)
    BY <2>1 DEF OnRoad
  <2>3. \A i \in Nodes, g \in Group : Waiting(i, g)' = Waiting(i, g)
    BY <2>1 DEF Waiting
  <2> QED BY <1>o, <2>1, <2>2, <2>3, RoadsSame, QueuesSame DEF CountsExact
<1>4. CASE Wait(v) /\ ~veh[v].queued
  <2> DEFINE j == From(v)
             h == Heading(v)
  <2>1. /\ j \in Nodes /\ h \in Group /\ veh[v].state # "on_road" /\ veh[v].at = j
    BY <1>4, <1>s DEF Wait, Stepping
  <2>2. /\ sig' = [sig EXCEPT ![j] = Enqueue(sig[j], h)] /\ UNCHANGED occupancy
        /\ \A w \in Vehicles \ {v} : veh'[w] = veh[w]
        /\ veh'[v].queued /\ veh'[v].group = h /\ veh'[v].at = j /\ veh'[v].state # "on_road"
    BY <1>4, <1>f, <2>1 DEF Wait, VehicleRecord
  <2>3. /\ Enqueue(sig[j], h).queue[h] = sig[j].queue[h] + 1
        /\ \A g \in Group \ {h} : Enqueue(sig[j], h).queue[g] = sig[j].queue[g]
    BY <1>f, <2>1, QueueFacts
  <2> HIDE DEF j, h
  <2>4. ASSUME NEW i \in Nodes, NEW g \in Group
        PROVE  sig'[i].queue[g] = Cardinality(Waiting(i, g)')
    <3>1. sig[i].queue[g] = Cardinality(Waiting(i, g)) /\ Waiting(i, g) \in SUBSET Vehicles
      BY <1>o DEF QueueExact, Waiting
    <3>2. CASE i = j /\ g = h
      <4>1. v \notin Waiting(i, g) /\ Waiting(i, g)' = Waiting(i, g) \cup {v}
        BY <1>4, <2>2, <3>2 DEF Waiting
      <4>2. sig'[i].queue[g] = sig[i].queue[g] + 1
        BY <1>f, <2>2, <2>3, <3>2
      <4> QED BY <3>1, <4>1, <4>2, Counted
    <3>3. CASE ~(i = j /\ g = h)
      <4>1. Waiting(i, g)' = Waiting(i, g)
        BY <1>4, <2>2, <3>3 DEF Waiting
      <4>2. sig'[i].queue[g] = sig[i].queue[g]
        BY <1>f, <2>1, <2>2, <2>3, <3>3
      <4> QED BY <3>1, <4>1, <4>2
    <3> QED BY <3>2, <3>3
  <2>5. QueueExact'
    BY <2>4 DEF QueueExact, Waiting
  <2>6. \A r \in Roads : OnRoad(r)' = OnRoad(r)
    BY <2>1, <2>2 DEF OnRoad
  <2> QED BY <1>o, <2>2, <2>5, <2>6, RoadsSame DEF CountsExact
<1>5. CASE Unqueue(v)
  <2> DEFINE j == From(v)
             h == veh[v].group
  <2>1. /\ j \in Nodes /\ h \in Group /\ veh[v].state # "on_road" /\ veh[v].at = j
        /\ veh[v].queued
    BY <1>5, <1>f, <1>s DEF Unqueue, Stepping, OnItsWay, VehicleRecord
  <2>2. /\ sig' = [sig EXCEPT ![j] = Dequeue(sig[j], h)] /\ UNCHANGED occupancy
        /\ \A w \in Vehicles \ {v} : veh'[w] = veh[w]
        /\ ~veh'[v].queued /\ veh'[v].state # "on_road"
    BY <1>5, <1>f, <2>1 DEF Unqueue, VehicleRecord
  <2>3. /\ sig[j].queue[h] > 0 => Dequeue(sig[j], h).queue[h] = sig[j].queue[h] - 1
        /\ \A g \in Group \ {h} : Dequeue(sig[j], h).queue[g] = sig[j].queue[g]
    BY <1>f, <2>1, QueueFacts
  <2>0. h = veh[v].group
    OBVIOUS
  <2> HIDE DEF j, h
  <2>4. ASSUME NEW i \in Nodes, NEW g \in Group
        PROVE  sig'[i].queue[g] = Cardinality(Waiting(i, g)')
    <3>1. sig[i].queue[g] = Cardinality(Waiting(i, g)) /\ Waiting(i, g) \in SUBSET Vehicles
      BY <1>o DEF QueueExact, Waiting
    <3>2. CASE i = j /\ g = h
      <4>1. v \in Waiting(i, g) /\ Waiting(i, g)' = Waiting(i, g) \ {v}
        BY <2>0, <2>1, <2>2, <3>2 DEF Waiting
      <4>2. /\ Cardinality(Waiting(i, g)') = Cardinality(Waiting(i, g)) - 1
            /\ Cardinality(Waiting(i, g)) > 0
        BY <3>1, <4>1, Counted
      <4>3. sig'[i].queue[g] = sig[i].queue[g] - 1
        BY <1>f, <2>2, <2>3, <3>1, <3>2, <4>2
      <4> QED BY <3>1, <4>2, <4>3
    <3>3. CASE ~(i = j /\ g = h)
      <4>1. Waiting(i, g)' = Waiting(i, g)
        BY <2>0, <2>1, <2>2, <3>3 DEF Waiting
      <4>2. sig'[i].queue[g] = sig[i].queue[g]
        BY <1>f, <2>1, <2>2, <2>3, <3>3
      <4> QED BY <3>1, <4>1, <4>2
    <3> QED BY <3>2, <3>3
  <2>5. QueueExact'
    BY <2>4 DEF QueueExact, Waiting
  <2>6. \A r \in Roads : OnRoad(r)' = OnRoad(r)
    BY <2>1, <2>2 DEF OnRoad
  <2> QED BY <1>o, <2>2, <2>5, <2>6, RoadsSame DEF CountsExact
<1>6. CASE Measure(v)
  <2>1. /\ UNCHANGED <<sig, occupancy>> /\ \A w \in Vehicles \ {v} : veh'[w] = veh[w]
        /\ veh'[v].queued = veh[v].queued /\ veh'[v].state = veh[v].state
        /\ veh[v].state # "on_road"
    BY <1>6, <1>f, <1>s DEF Measure, VehicleRecord, Stepping
  <2>2. ~veh[v].queued
    BY <1>6, <1>f DEF Measure, OnItsWay
  <2> QED BY <2>1, <2>2, Uncounted
<1>7. CASE EnterRoad(v)
  <2> DEFINE road == veh[v].road
  <2>1. /\ veh[v].state # "on_road" /\ ~veh[v].queued
    BY <1>7, <1>f, <1>s DEF EnterRoad, Stepping, OnItsWay
  <2>2. /\ veh'[v].state = "on_road" /\ ~veh'[v].queued /\ veh'[v].road = road
        /\ \A w \in Vehicles \ {v} : veh'[w] = veh[w]
        /\ UNCHANGED sig /\ occupancy' = [occupancy EXCEPT ![road] = @ + 1]
    BY <1>7, <1>f, <2>1 DEF EnterRoad, VehicleRecord
  <2> HIDE DEF road
  <2>3. ASSUME NEW r \in Roads PROVE occupancy'[r] = Cardinality(OnRoad(r)')
    <3>1. occupancy[r] = Cardinality(OnRoad(r)) /\ OnRoad(r) \in SUBSET Vehicles
      BY <1>o DEF OccupancyExact, OnRoad
    <3>2. CASE r = road
      <4>1. v \notin OnRoad(r) /\ OnRoad(r)' = OnRoad(r) \cup {v}
        BY <2>1, <2>2, <3>2 DEF OnRoad
      <4>2. occupancy'[r] = occupancy[r] + 1
        BY <1>f, <2>2, <3>2
      <4> QED BY <3>1, <4>1, <4>2, Counted
    <3>3. CASE r # road
      <4>1. OnRoad(r)' = OnRoad(r) /\ occupancy'[r] = occupancy[r]
        BY <1>f, <2>1, <2>2, <3>3 DEF OnRoad
      <4> QED BY <3>1, <4>1
    <3> QED BY <3>2, <3>3
  <2>4. OccupancyExact'
    BY <2>3 DEF OccupancyExact, OnRoad
  <2>5. \A i \in Nodes, g \in Group : Waiting(i, g)' = Waiting(i, g)
    BY <2>1, <2>2 DEF Waiting
  <2> QED BY <1>o, <2>2, <2>4, <2>5, QueuesSame DEF CountsExact
<1> QED BY <1>1, <1>2, <1>3, <1>4, <1>5, <1>6, <1>7 DEF VehicleStep

LEMMA CountsInductive == World /\ Fleet /\ CountsExact /\ [Next]_vars => CountsExact'
<1> SUFFICES ASSUME World, Fleet, CountsExact, [Next]_vars PROVE CountsExact'
  OBVIOUS
<1>f. /\ veh \in [Vehicles -> VehicleRecord] /\ sig \in [Nodes -> SignalRecord]
      /\ \A v \in Vehicles : OnItsWay(v)
  BY DEF World, Fleet
<1>o. OccupancyExact /\ QueueExact
  BY DEF CountsExact
<1>1. CASE Tick \/ UpdateCongestion \/ UNCHANGED vars \/ \E i \in Nodes : SignalStep(i)
  <2>1. UNCHANGED <<occupancy, veh>>
    BY <1>1 DEF Tick, UpdateCongestion, SignalStep, vars
  <2>2. \A i \in Nodes : sig'[i].queue = sig[i].queue
    <3>1. CASE \E i \in Nodes : SignalStep(i)
      <4>1. PICK i \in Nodes : sig' = [sig EXCEPT ![i] = StepSignal(sig[i])]
        BY <3>1 DEF SignalStep
      <4>2. StepSignal(sig[i]).queue = sig[i].queue
        BY <1>f, StepFacts DEF World
      <4> QED BY <1>f, <4>1, <4>2
    <3> QED BY <1>1, <3>1 DEF Tick, UpdateCongestion, vars
  <2> QED BY <1>o, <2>1, <2>2, RoadsSame, QueuesSame DEF CountsExact, OnRoad, Waiting
<1>2. ASSUME NEW v \in Vehicles, RegisterVehicle(v) \/ LaunchEmergency(v) \/ DispatchEmergency(v)
      PROVE  CountsExact'
  <2>1. veh[v].state # "on_road" /\ ~veh[v].queued
    BY <1>2, <1>f DEF RegisterVehicle, LaunchEmergency, DispatchEmergency, OnItsWay, Driving
  <2>2. PICK p \in Trips[v], kind \in {"normal", "emergency"} :
          /\ veh' = [veh EXCEPT ![v] = [Parked EXCEPT !.kind = kind, !.at = p[1], !.path = p]]
          /\ UNCHANGED <<sig, occupancy>>
    BY <1>2 DEF RegisterVehicle, LaunchEmergency, DispatchEmergency, Launch
  <2>3. /\ veh'[v].state # "on_road" /\ ~veh'[v].queued
        /\ \A w \in Vehicles \ {v} : veh'[w] = veh[w]
    BY <1>f, <2>2, ParkedFacts DEF VehicleRecord
  <2> QED BY <2>1, <2>2, <2>3, Uncounted
<1>3. ASSUME NEW v \in Vehicles, PreemptNext(v) PROVE CountsExact'
  <2>1. veh[v].state # "on_road" /\ ~veh[v].queued
    BY <1>3, <1>f DEF PreemptNext, OnItsWay, Driving
  <2>2. /\ veh'[v].state # "on_road" /\ ~veh'[v].queued /\ UNCHANGED occupancy
        /\ \A w \in Vehicles \ {v} : veh'[w] = veh[w]
    BY <1>3, <1>f, <2>1 DEF PreemptNext, VehicleRecord
  <2>3. From(v) \in Nodes /\ GreenOf(Heading(v)) \in GreenPhase
    BY <1>3, PreemptNextFacts
  <2>4. SetPreempt(sig[From(v)], GreenOf(Heading(v))).queue = sig[From(v)].queue
    BY <1>f, <2>3, PreemptFacts
  <2>5. \A i \in Nodes, g \in Group : sig'[i].queue[g] = sig[i].queue[g]
    BY <1>3, <1>f, <2>3, <2>4 DEF PreemptNext
  <2> QED BY <2>1, <2>2, <2>5, Uncounted
<1>4. ASSUME NEW v \in Vehicles, VehicleStep(v) PROVE CountsExact'
  BY <1>4, StepKeepsCounts
<1> QED BY <1>1, <1>2, <1>3, <1>4 DEF Next, Dispatch

\* No interleaving of vehicle steps loses or doubles an entry into a road or a queue, or
\* an exit: what updateCongestion and adaptiveGreenTicks act on is what the vehicles did.
THEOREM CountsAreExact == Spec => []CountsExact
<1>1. Init => CountsExact
  <2> SUFFICES ASSUME Init PROVE CountsExact
    OBVIOUS
  <2>1. \A v \in Vehicles : veh[v].state = "at_intersection" /\ ~veh[v].queued
    BY ParkedFacts DEF Init
  <2>2. OccupancyExact
    <3>1. ASSUME NEW r \in Roads PROVE occupancy[r] = Cardinality(OnRoad(r))
      <4>1. OnRoad(r) = {}
        BY <2>1 DEF OnRoad
      <4> QED BY <4>1, FS_EmptySet DEF Init
    <3> QED BY <3>1 DEF OccupancyExact, OnRoad
  <2>3. QueueExact
    <3>1. ASSUME NEW i \in Nodes, NEW g \in Group
          PROVE  sig[i].queue[g] = Cardinality(Waiting(i, g))
      <4>1. Waiting(i, g) = {}
        BY <2>1 DEF Waiting
      <4> QED BY <4>1, FS_EmptySet DEF Init, NewIntersection
    <3> QED BY <3>1 DEF QueueExact, Waiting
  <2> QED BY <2>2, <2>3 DEF CountsExact
<1> QED BY <1>1, CountsInductive, TypingInvariant, PTL DEF Spec

-----------------------------------------------------------------------------
(* Nobody crosses a conflicting stream. *)

\* A vehicle that crosses holds the clock at its tick.  Since then the light has kept
\* the green it saw, or it took its one step of the tick and is yellow.
YellowOf(g) == IF g = "NS" THEN "Yellow-NS" ELSE "Yellow-EW"

CrossesOnGreen ==
  (\A v \in Vehicles : veh[v].kind = "normal") =>
    /\ \A i \in Nodes : ~sig[i].preempt
    /\ \A v \in Vehicles : Crossing(v) =>
         \/ sig[veh[v].at].phase = GreenOf(Heading(v))
         \/ sig[veh[v].at].phase = YellowOf(Heading(v)) /\ sigLag[veh[v].at] = 0

LEMMA CrossesInductive ==
  ASSUME MaxLag = 1, World, Fleet, CrossesOnGreen, [Next]_vars
  PROVE  CrossesOnGreen'
<1> SUFFICES ASSUME \A v \in Vehicles : veh'[v].kind = "normal"
             PROVE  /\ \A i \in Nodes : ~sig'[i].preempt
                    /\ \A v \in Vehicles : Crossing(v)' =>
                         \/ sig'[veh'[v].at].phase = GreenOf(Heading(v)')
                         \/ /\ sig'[veh'[v].at].phase = YellowOf(Heading(v)')
                            /\ sigLag'[veh'[v].at] = 0
  BY DEF CrossesOnGreen
<1>f. /\ veh \in [Vehicles -> VehicleRecord] /\ pc \in [Vehicles -> Position]
      /\ sig \in [Nodes -> SignalRecord] /\ sigLag \in [Nodes -> 0..1]
      /\ \A v \in Vehicles : OnItsWay(v)
  BY DEF World, Fleet
<1>k. ASSUME \A v \in Vehicles : veh[v].kind = "normal"
      PROVE  /\ \A i \in Nodes : ~sig[i].preempt
             /\ \A v \in Vehicles : Crossing(v) =>
                  \/ sig[veh[v].at].phase = GreenOf(Heading(v))
                  \/ sig[veh[v].at].phase = YellowOf(Heading(v)) /\ sigLag[veh[v].at] = 0
  BY <1>k DEF CrossesOnGreen
<1>c. ASSUME NEW v \in Vehicles, Crossing(v)
      PROVE  /\ veh[v].at \in Nodes /\ veh[v].at = From(v) /\ Heading(v) \in Group
             /\ vehLag[v] > 0 /\ Driving(v)
  BY <1>c, SteppingFacts DEF Crossing, Stepping, Driving
<1> USE DEF lagVars
<1>1. CASE Tick
  <2>1. ASSUME NEW v \in Vehicles PROVE ~Crossing(v)
    <3>1. Driving(v) => vehLag[v] < 1
      BY <1>1 DEF Tick
    <3>2. vehLag[v] \in Nat
      BY DEF Fleet
    <3> QED BY <1>c, <3>1, <3>2
  <2>2. UNCHANGED <<sig, veh, pc>>
    BY <1>1 DEF Tick
  <2> QED BY <1>k, <2>1, <2>2 DEF Crossing
<1>2. CASE UpdateCongestion \/ UNCHANGED vars
  <2>1. UNCHANGED <<sig, veh, pc, sigLag>>
    BY <1>2 DEF UpdateCongestion, vars
  <2> QED BY <1>k, <2>1 DEF Crossing, Heading, NextHop, From
<1>3. ASSUME NEW i \in Nodes, SignalStep(i)
      PROVE  /\ \A j \in Nodes : ~sig'[j].preempt
             /\ \A v \in Vehicles : Crossing(v)' =>
                  \/ sig'[veh'[v].at].phase = GreenOf(Heading(v)')
                  \/ /\ sig'[veh'[v].at].phase = YellowOf(Heading(v)')
                     /\ sigLag'[veh'[v].at] = 0
  <2>1. /\ sigLag[i] > 0 /\ sigLag' = [sigLag EXCEPT ![i] = @ - 1]
        /\ sig' = [sig EXCEPT ![i] = StepSignal(sig[i])] /\ UNCHANGED <<veh, pc>>
    BY <1>3 DEF SignalStep
  <2>2. ~sig[i].preempt
    BY <1>k, <2>1
  <2>3. ~StepSignal(sig[i]).preempt /\ StepSignal(sig[i]).phase \in {sig[i].phase, NextPhase(sig[i].phase)}
    BY <1>f, <2>2, StepFacts
  <2>4. \A j \in Nodes : ~sig'[j].preempt
    BY <1>f, <1>k, <2>1, <2>3
  <2>5. ASSUME NEW v \in Vehicles, Crossing(v)'
        PROVE  \/ sig'[veh'[v].at].phase = GreenOf(Heading(v)')
               \/ /\ sig'[veh'[v].at].phase = YellowOf(Heading(v)')
                  /\ sigLag'[veh'[v].at] = 0
    <3>1. Crossing(v) /\ Heading(v)' = Heading(v) /\ veh'[v] = veh[v]
      BY <2>1, <2>5 DEF Crossing, Heading, NextHop, From
    <3>2. veh[v].at \in Nodes /\ Heading(v) \in Group
      BY <1>c, <3>1
    <3>3. CASE veh[v].at = i
      <4>1. sig[i].phase = GreenOf(Heading(v))
        BY <1>k, <2>1, <3>1, <3>3
      <4>2. NextPhase(GreenOf(Heading(v))) = YellowOf(Heading(v))
        BY <3>2 DEF NextPhase, GreenOf, YellowOf, Group
      <4>3. sigLag'[i] = 0
        BY <1>f, <2>1
      <4>4. sig'[i].phase \in {GreenOf(Heading(v)), YellowOf(Heading(v))}
        BY <1>f, <2>1, <2>3, <4>1, <4>2
      <4> QED BY <3>1, <3>3, <4>3, <4>4
    <3>4. CASE veh[v].at # i
      <4>1. sig'[veh[v].at] = sig[veh[v].at] /\ sigLag'[veh[v].at] = sigLag[veh[v].at]
        BY <1>f, <2>1, <3>2, <3>4
      <4> QED BY <1>k, <2>1, <3>1, <4>1
    <3> QED BY <3>3, <3>4
  <2> QED BY <2>4, <2>5
<1>4. ASSUME NEW v \in Vehicles,
             RegisterVehicle(v) \/ DispatchEmergency(v) \/ LaunchEmergency(v) \/ PreemptNext(v)
      PROVE  RegisterVehicle(v)
  <2>1. ASSUME NEW p \in Trips[v]
        PROVE  veh' # [veh EXCEPT ![v] = [Parked EXCEPT !.kind = "emergency", !.at = p[1],
                                                       !.path = p]]
    <3>1. [Parked EXCEPT !.kind = "emergency", !.at = p[1], !.path = p].kind = "emergency"
      BY ParkedFacts DEF VehicleRecord
    <3> QED BY <1>f, <3>1
  <2>2. ~DispatchEmergency(v) /\ ~LaunchEmergency(v)
    BY <2>1 DEF DispatchEmergency, LaunchEmergency, Launch
  <2>3. ~PreemptNext(v)
    <3>1. PreemptNext(v) => veh'[v].kind = veh[v].kind /\ veh[v].kind = "emergency"
      BY <1>f, PreemptNextFacts DEF PreemptNext, VehicleRecord
    <3> QED BY <3>1
  <2> QED BY <1>4, <2>2, <2>3
<1>5. ASSUME NEW v \in Vehicles, RegisterVehicle(v)
      PROVE  /\ \A j \in Nodes : ~sig'[j].preempt
             /\ \A w \in Vehicles : Crossing(w)' =>
                  \/ sig'[veh'[w].at].phase = GreenOf(Heading(w)')
                  \/ /\ sig'[veh'[w].at].phase = YellowOf(Heading(w)')
                     /\ sigLag'[veh'[w].at] = 0
  <2>1. /\ UNCHANGED <<sig, sigLag>> /\ pc[v] = "absent" /\ pc'[v] = "idle"
        /\ \A w \in Vehicles \ {v} : veh'[w] = veh[w] /\ pc'[w] = pc[w]
    BY <1>5, <1>f DEF RegisterVehicle, Launch
  <2>2. \A w \in Vehicles : veh[w].kind = "normal"
    <3>1. veh[v].kind = "normal"
      BY <1>f, <2>1 DEF OnItsWay
    <3> QED BY <2>1, <3>1
  <2> QED BY <1>k, <2>1, <2>2 DEF Crossing, Heading, NextHop, From
<1>6. ASSUME NEW v \in Vehicles, VehicleStep(v)
      PROVE  /\ \A j \in Nodes : ~sig'[j].preempt
             /\ \A w \in Vehicles : Crossing(w)' =>
                  \/ sig'[veh'[w].at].phase = GreenOf(Heading(w)')
                  \/ /\ sig'[veh'[w].at].phase = YellowOf(Heading(w)')
                     /\ sigLag'[veh'[w].at] = 0
  <2>1. /\ \A w \in Vehicles \ {v} : veh'[w] = veh[w] /\ pc'[w] = pc[w]
        /\ veh'[v].kind = veh[v].kind /\ UNCHANGED sigLag
    BY <1>6, <1>f DEF VehicleStep, Idle, LeaveRoad, Approach, Look, Wait, Unqueue, Measure,
                      EnterRoad, Finish, Proceed, VehicleRecord
  <2>2. \A w \in Vehicles : veh[w].kind = "normal"
    BY <2>1
  <2>3. \A i \in Nodes : sig'[i].phase = sig[i].phase /\ ~sig'[i].preempt
    <3>1. CASE Wait(v)
      <4>1. From(v) \in Nodes /\ Heading(v) \in Group
        BY <3>1, SteppingFacts DEF Wait, Stepping
      <4>2. /\ Enqueue(sig[From(v)], Heading(v)).phase = sig[From(v)].phase
            /\ Enqueue(sig[From(v)], Heading(v)).preempt = sig[From(v)].preempt
        BY <1>f, <4>1, QueueFacts
      <4>3. sig' = sig \/ sig' = [sig EXCEPT ![From(v)] = Enqueue(sig[From(v)], Heading(v))]
        BY <3>1 DEF Wait
      <4> QED BY <1>f, <1>k, <2>2, <4>1, <4>2, <4>3
    <3>2. CASE Unqueue(v)
      <4>1. From(v) \in Nodes /\ veh[v].group \in Group
        BY <1>f, <3>2, SteppingFacts DEF Unqueue, Stepping, VehicleRecord
      <4>2. /\ Dequeue(sig[From(v)], veh[v].group).phase = sig[From(v)].phase
            /\ Dequeue(sig[From(v)], veh[v].group).preempt = sig[From(v)].preempt
        BY <1>f, <4>1, QueueFacts
      <4>3. sig' = [sig EXCEPT ![From(v)] = Dequeue(sig[From(v)], veh[v].group)]
        BY <3>2 DEF Unqueue
      <4> QED BY <1>f, <1>k, <2>2, <4>1, <4>2, <4>3
    <3>3. CASE Idle(v) \/ LeaveRoad(v) \/ Approach(v) \/ Look(v) \/ Measure(v) \/ EnterRoad(v)
      BY <3>3, <1>k, <2>2 DEF Idle, LeaveRoad, Approach, Look, Measure, EnterRoad
    <3> QED BY <1>6, <3>1, <3>2, <3>3 DEF VehicleStep
  <2>4. ASSUME NEW w \in Vehicles \ {v}, Crossing(w)'
        PROVE  \/ sig'[veh'[w].at].phase = GreenOf(Heading(w)')
               \/ /\ sig'[veh'[w].at].phase = YellowOf(Heading(w)')
                  /\ sigLag'[veh'[w].at] = 0
    <3>1. Crossing(w) /\ Heading(w)' = Heading(w) /\ veh'[w] = veh[w]
      BY <2>1, <2>4 DEF Crossing, Heading, NextHop, From
    <3>2. veh[w].at \in Nodes
      BY <1>c, <3>1
    <3> QED BY <1>k, <2>1, <2>2, <2>3, <3>1, <3>2
  <2>5. ASSUME Crossing(v)'
        PROVE  \/ sig'[veh'[v].at].phase = GreenOf(Heading(v)')
               \/ /\ sig'[veh'[v].at].phase = YellowOf(Heading(v)')
                  /\ sigLag'[veh'[v].at] = 0
    <3>1. /\ Look(v) \/ Unqueue(v) \/ Measure(v)
          /\ veh'[v].at = veh[v].at /\ veh'[v].path = veh[v].path /\ veh'[v].idx = veh[v].idx
      <4>1. Look(v) \/ Unqueue(v) \/ Measure(v)
        BY <1>6, <1>f, <2>5
        DEF VehicleStep, Idle, LeaveRoad, Approach, Wait, EnterRoad, Finish, Proceed, Crossing
      <4>2. CASE Look(v)
        BY <4>2 DEF Look
      <4>3. CASE Unqueue(v)
        BY <1>f, <4>3 DEF Unqueue, VehicleRecord
      <4>4. CASE Measure(v)
        BY <1>f, <4>4 DEF Measure, VehicleRecord
      <4> QED BY <4>1, <4>2, <4>3, <4>4
    <3>2. Heading(v)' = Heading(v)
      BY <3>1 DEF Heading, NextHop, From
    <3>3. veh[v].at \in Nodes /\ veh[v].at = From(v)
      BY <3>1, SteppingFacts DEF Look, Unqueue, Measure, Stepping
    <3>4. CASE Look(v)
      <4>1. PhaseAllows(sig[From(v)].phase, Heading(v))
        BY <1>f, <2>5, <3>4 DEF Look, Proceed, Crossing
      <4> QED BY <2>3, <3>1, <3>2, <3>3, <4>1 DEF PhaseAllows
    <3>5. CASE Unqueue(v) \/ Measure(v)
      <4>1. Crossing(v)
        BY <3>5 DEF Unqueue, Measure, Crossing
      <4> QED BY <1>k, <2>1, <2>2, <2>3, <3>1, <3>2, <3>3, <4>1
    <3> QED BY <3>1, <3>4, <3>5
  <2> QED BY <2>3, <2>4, <2>5
<1> QED BY <1>1, <1>2, <1>3, <1>4, <1>5, <1>6 DEF Next, Dispatch

\* While every goroutine keeps within a tick of the clock and no emergency preempts the
\* lights, two vehicles never cross one intersection in conflicting directions, although
\* each acts on a phase it read some time ago.
THEOREM CrossingsAgree == MaxLag = 1 => (Spec => []NoConflictingCrossings)
<1> SUFFICES ASSUME MaxLag = 1 PROVE Spec => []NoConflictingCrossings
  OBVIOUS
<1>1. Init => CrossesOnGreen
  BY DEF Init, CrossesOnGreen, NewIntersection, Crossing
<1>2. World /\ Fleet /\ CrossesOnGreen /\ [Next]_vars => CrossesOnGreen'
  BY CrossesInductive
<1>3. World /\ Fleet /\ CrossesOnGreen => NoConflictingCrossings
  <2> SUFFICES ASSUME World, Fleet, CrossesOnGreen, \A v \in Vehicles : veh[v].kind = "normal",
                      NEW v \in Vehicles, NEW w \in Vehicles,
                      Crossing(v), Crossing(w), veh[v].at = veh[w].at
               PROVE  Heading(v) = Heading(w)
    BY DEF NoConflictingCrossings
  <2>1. \A x \in {v, w} : sig[veh[x].at].phase \in {GreenOf(Heading(x)), YellowOf(Heading(x))}
    BY DEF CrossesOnGreen
  <2> QED BY <2>1, HeadingType DEF GreenOf, YellowOf, Group
<1> QED BY <1>1, <1>2, <1>3, TypingInvariant, PTL DEF Spec
=============================================================================
