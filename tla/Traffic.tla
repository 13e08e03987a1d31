------------------------------- MODULE Traffic -------------------------------
(***************************************************************************)
(* Vehicles, signal controllers, road occupancy and congestion, stepped by *)
(* the ticks, with emergency dispatches preempting the signals             *)
(* (capstone/internal/engine/engine.go).  Every goroutine has its own      *)
(* backlog of ticks; within a tick they run in any order, and a vehicle's  *)
(* step releases each lock before it takes the next one.                   *)
(*                                                                         *)
(* Only differences between tick numbers matter here, so a goroutine's     *)
(* state has its lag, not its last tick; MaxLag bounds it.                 *)
(***************************************************************************)
EXTENDS Signal, Sequences, FiniteSets

CONSTANTS
  NumIntersections,
  RoadOf,        \* [hops -> road IDs]; a hop is <<from, to>>
  InitCongestion,\* [roads -> 1..10], the congestion of the road's definition
  TravelTicks,   \* TravelTicks[r][c]: ceil(WeightMinutes), at least 1
  OccPerLevel,   \* vehicles per congestion level: 5 in updateCongestion
  Vehicles,
  Emergencies,   \* those that may be registered by DispatchEmergency
  Trips,         \* Trips[v]: the paths route() may give v
  MaxLag,        \* ticks a goroutine may lag behind the clock
  LateStarts     \* TRUE: vehicles may be registered after the first tick

Nodes == 0..(NumIntersections - 1)
Hops  == DOMAIN RoadOf
Roads == {RoadOf[h] : h \in Hops}
Paths == {p \in Seq(Nodes) : /\ Len(p) > 0
                             /\ \A i \in 1..(Len(p) - 1) : <<p[i], p[i + 1]>> \in Hops}

ASSUME TrafficConstants ==
  /\ NumIntersections \in Nat \ {0} /\ OccPerLevel \in Nat \ {0} /\ MaxLag \in Nat \ {0}
  /\ Hops \subseteq Nodes \X Nodes
  /\ IsFiniteSet(Vehicles) /\ Emergencies \subseteq Vehicles
  /\ DOMAIN Trips = Vehicles /\ \A v \in Vehicles : Trips[v] \subseteq Paths
  /\ InitCongestion \in [Roads -> 1..10]
  /\ TravelTicks \in [Roads -> [1..10 -> Nat \ {0}]]
  /\ LateStarts \in BOOLEAN

VARIABLES
  sig,         \* sig[i]: node i's controller (see Signal)
  occupancy,   \* occupancy[r]
  congestion,  \* congestion[r]
  veh,         \* veh[v]: the vehicle's record
  pc,          \* pc[v]: where v is in its life or in its step
  sigLag, updLag, vehLag,  \* ticks published and not yet processed
  elapsed      \* ticks published so far, up to MaxLag

lagVars == <<sigLag, updLag, vehLag, elapsed>>
vars == <<sig, occupancy, congestion, veh, pc, lagVars>>

State == {"at_intersection", "waiting_signal", "on_road", "arrived"}

VehicleRecord ==
  [kind : {"normal", "emergency"}, state : State, at : Nodes, path : Seq(Nodes), idx : Nat,
   road : Roads \cup {0}, remaining : Nat, queued : BOOLEAN, group : Group]

\* movementDirection
Direction(from, to) == IF to - from = 1 \/ from - to = 1 THEN "NS" ELSE "EW"

From(v)  == veh[v].path[veh[v].idx]
NextHop(v) == <<From(v), veh[v].path[veh[v].idx + 1]>>
Heading(v) == Direction(NextHop(v)[1], NextHop(v)[2])
Goal(v)  == veh[v].path[Len(veh[v].path)]

Parked == [kind |-> "normal", state |-> "at_intersection", at |-> 0, path |-> <<0>>, idx |-> 1,
           road |-> 0, remaining |-> 0, queued |-> FALSE, group |-> "NS"]

Init ==
  /\ sig = [i \in Nodes |-> NewIntersection]
  /\ occupancy = [r \in Roads |-> 0]
  /\ congestion = InitCongestion
  /\ veh = [v \in Vehicles |-> Parked]
  /\ pc = [v \in Vehicles |-> "absent"]
  /\ sigLag = [i \in Nodes |-> 0] /\ updLag = 0 /\ vehLag = [v \in Vehicles |-> 0]
  /\ elapsed = 0

Driving(v) == pc[v] \notin {"absent", "dispatched"}

-----------------------------------------------------------------------------
(* The clock, the controllers and the congestion updater. *)

Tick ==
  /\ \A i \in Nodes : sigLag[i] < MaxLag
  /\ updLag < MaxLag
  /\ \A v \in Vehicles : Driving(v) => vehLag[v] < MaxLag
  /\ sigLag' = [i \in Nodes |-> sigLag[i] + 1]
  /\ updLag' = updLag + 1
  /\ vehLag' = [v \in Vehicles |-> IF Driving(v) THEN vehLag[v] + 1 ELSE vehLag[v]]
  /\ elapsed' = IF elapsed < MaxLag THEN elapsed + 1 ELSE elapsed
  /\ UNCHANGED <<sig, occupancy, congestion, veh, pc>>

SignalStep(i) ==
  /\ sigLag[i] > 0
  /\ sig' = [sig EXCEPT ![i] = StepSignal(@)]
  /\ sigLag' = [sigLag EXCEPT ![i] = @ - 1]
  /\ UNCHANGED <<occupancy, congestion, veh, pc, updLag, vehLag, elapsed>>

ClampCongestion(c) == IF c < 1 THEN 1 ELSE IF c > 10 THEN 10 ELSE c

\* updateCongestion's loop over the roads; the corridor's expiry is in Corridor,
\* the history in RingBuffer.
UpdateCongestion ==
  /\ updLag > 0
  /\ congestion' = [r \in Roads |-> ClampCongestion(2 + occupancy[r] \div OccPerLevel)]
  /\ updLag' = updLag - 1
  /\ UNCHANGED <<sig, occupancy, veh, pc, sigLag, vehLag, elapsed>>

-----------------------------------------------------------------------------
(* RegisterVehicle and DispatchEmergency. *)

\* A new goroutine starts from tick 0 and replays the ticks it missed.
Launch(v, p, kind) ==
  /\ veh' = [veh EXCEPT ![v] = [Parked EXCEPT !.kind = kind, !.at = p[1], !.path = p]]
  /\ pc' = [pc EXCEPT ![v] = "idle"]
  /\ vehLag' = [vehLag EXCEPT ![v] = elapsed]

\* Bound: emergencies are dispatched before the first tick, and vehicles join after
\* it only if there is none.
MayJoin == elapsed = 0 \/ (LateStarts /\ \A v \in Vehicles : veh[v].kind = "normal")

RegisterVehicle(v) ==
  /\ pc[v] = "absent" /\ MayJoin
  /\ \E p \in Trips[v] : Launch(v, p, "normal")
  /\ UNCHANGED <<sig, occupancy, congestion, sigLag, updLag, elapsed>>

\* A dispatch has its route: it will preempt the signals on it one by one.  A
\* route of one node has no corridor.
DispatchEmergency(v) ==
  /\ pc[v] = "absent" /\ v \in Emergencies /\ elapsed = 0
  /\ \E p \in Trips[v] :
       veh' = [veh EXCEPT ![v] = [Parked EXCEPT !.kind = "emergency", !.at = p[1], !.path = p]]
  /\ pc' = [pc EXCEPT ![v] = "dispatched"]
  /\ UNCHANGED <<sig, occupancy, congestion, lagVars>>

PreemptNext(v) ==
  /\ pc[v] = "dispatched" /\ veh[v].idx < Len(veh[v].path)
  /\ sig' = [sig EXCEPT ![From(v)] = SetPreempt(@, GreenOf(Heading(v)))]
  /\ veh' = [veh EXCEPT ![v].idx = @ + 1]
  /\ UNCHANGED <<occupancy, congestion, pc, lagVars>>

\* RegisterVehicle computes the route again; it may have changed.
LaunchEmergency(v) ==
  /\ pc[v] = "dispatched" /\ veh[v].idx = Len(veh[v].path)
  /\ \E p \in Trips[v] : p[1] = veh[v].path[1] /\ p[Len(p)] = Goal(v) /\ Launch(v, p, "emergency")
  /\ UNCHANGED <<sig, occupancy, congestion, sigLag, updLag, elapsed>>

-----------------------------------------------------------------------------
(* vehicle.step, from one lock to the next. *)

\* The step ends: processedTick moves on.
Finish(v) ==
  /\ pc' = [pc EXCEPT ![v] = "idle"]
  /\ vehLag' = [vehLag EXCEPT ![v] = @ - 1]
  /\ UNCHANGED <<sigLag, updLag, elapsed>>

Proceed(v, where) == pc' = [pc EXCEPT ![v] = where] /\ UNCHANGED lagVars

\* Nothing to do, or one more tick on the road.
Idle(v) ==
  /\ pc[v] = "idle" /\ vehLag[v] > 0
  /\ \/ veh[v].state = "arrived" /\ UNCHANGED veh
     \/ /\ veh[v].state = "on_road" /\ veh[v].remaining > 1
        /\ veh' = [veh EXCEPT ![v].remaining = @ - 1]
  /\ Finish(v)
  /\ UNCHANGED <<sig, occupancy, congestion>>

\* Broken variant: a vehicle that goes on still counts in the queue.
Unqueue_KeepsCount(v) ==
  /\ pc[v] = "unqueue"
  /\ veh' = [veh EXCEPT ![v].queued = FALSE]
  /\ Proceed(v, "measure")
  /\ UNCHANGED <<sig, occupancy, congestion>>

\* The end of the road: leave it, and be at the next intersection.
LeaveRoad(v) ==
  /\ pc[v] = "idle" /\ vehLag[v] > 0
  /\ veh[v].state = "on_road" /\ veh[v].remaining <= 1
  /\ occupancy' = [occupancy EXCEPT ![veh[v].road] = IF @ > 0 THEN @ - 1 ELSE @]
  /\ veh' = [veh EXCEPT ![v].remaining = @ - 1, ![v].road = 0, ![v].at = From(v),
                        ![v].queued = FALSE,
                        ![v].state = IF From(v) = Goal(v) THEN "arrived" ELSE "at_intersection"]
  /\ IF From(v) = Goal(v) THEN Finish(v) ELSE Proceed(v, "look")
  /\ UNCHANGED <<sig, congestion>>

\* At an intersection: arrived (a route of one node), or look at the light.
Approach(v) ==
  /\ pc[v] = "idle" /\ vehLag[v] > 0
  /\ veh[v].state \in {"at_intersection", "waiting_signal"}
  /\ IF veh[v].at = Goal(v)
     THEN veh' = [veh EXCEPT ![v].state = "arrived"] /\ Finish(v)
     ELSE UNCHANGED veh /\ Proceed(v, "look")
  /\ UNCHANGED <<sig, occupancy, congestion>>

Look(v) ==
  /\ pc[v] = "look"
  /\ Proceed(v, IF ~PhaseAllows(sig[From(v)].phase, Heading(v)) THEN "wait"
                ELSE IF veh[v].queued THEN "unqueue" ELSE "measure")
  /\ UNCHANGED <<sig, occupancy, congestion, veh>>

Wait(v) ==
  /\ pc[v] = "wait"
  /\ IF veh[v].queued
     THEN UNCHANGED sig /\ veh' = [veh EXCEPT ![v].state = "waiting_signal"]
     ELSE /\ sig' = [sig EXCEPT ![From(v)] = Enqueue(@, Heading(v))]
          /\ veh' = [veh EXCEPT ![v].state = "waiting_signal", ![v].queued = TRUE,
                                ![v].group = Heading(v)]
  /\ Finish(v)
  /\ UNCHANGED <<occupancy, congestion>>

Unqueue(v) ==
  /\ pc[v] = "unqueue"
  /\ sig' = [sig EXCEPT ![From(v)] = Dequeue(@, veh[v].group)]
  /\ veh' = [veh EXCEPT ![v].queued = FALSE]
  /\ Proceed(v, "measure")
  /\ UNCHANGED <<occupancy, congestion>>

\* roadForHop: the travel time at the congestion of this moment.
Measure(v) ==
  /\ pc[v] = "measure"
  /\ LET r == RoadOf[NextHop(v)]
     IN  veh' = [veh EXCEPT ![v].road = r, ![v].remaining = TravelTicks[r][congestion[r]]]
  /\ Proceed(v, "enter")
  /\ UNCHANGED <<sig, occupancy, congestion>>

EnterRoad(v) ==
  /\ pc[v] = "enter"
  /\ occupancy' = [occupancy EXCEPT ![veh[v].road] = @ + 1]
  /\ veh' = [veh EXCEPT ![v].state = "on_road", ![v].idx = @ + 1]
  /\ Finish(v)
  /\ UNCHANGED <<sig, congestion>>

VehicleStep(v) ==
  \/ Idle(v) \/ LeaveRoad(v) \/ Approach(v)
  \/ Look(v) \/ Wait(v) \/ Unqueue(v) \/ Measure(v) \/ EnterRoad(v)

Dispatch(v) == PreemptNext(v) \/ LaunchEmergency(v)

Next ==
  \/ Tick \/ UpdateCongestion
  \/ \E i \in Nodes : SignalStep(i)
  \/ \E v \in Vehicles :
       RegisterVehicle(v) \/ DispatchEmergency(v) \/ Dispatch(v) \/ VehicleStep(v)

Spec == Init /\ [][Next]_vars

\* The clock ticks for ever and every goroutine keeps running; nobody has to
\* register a vehicle.
FairSpec ==
  /\ Spec
  /\ WF_vars(Tick) /\ WF_vars(UpdateCongestion)
  /\ \A i \in Nodes : WF_vars(SignalStep(i))
  /\ \A v \in Vehicles : WF_vars(VehicleStep(v)) /\ WF_vars(Dispatch(v))

-----------------------------------------------------------------------------
(* Properties *)

TypeOK ==
  /\ sig \in [Nodes -> SignalRecord]
  /\ occupancy \in [Roads -> Nat] /\ congestion \in [Roads -> 1..10]
  /\ veh \in [Vehicles -> VehicleRecord]
  /\ pc \in [Vehicles -> {"absent", "dispatched", "idle", "look", "wait", "unqueue",
                          "measure", "enter"}]
  /\ sigLag \in [Nodes -> 0..MaxLag] /\ updLag \in Nat /\ vehLag \in [Vehicles -> Nat]
  /\ elapsed \in Nat

\* A road's occupancy is the number of vehicles on it, at every moment: no
\* interleaving of vehicle steps loses or doubles an entry or an exit.
OccupancyExact ==
  \A r \in Roads :
    occupancy[r] = Cardinality({v \in Vehicles : veh[v].state = "on_road" /\ veh[v].road = r})

\* A controller's queue counts, from which it computes its green times, are the
\* numbers of vehicles waiting there in each direction.
QueueExact ==
  \A i \in Nodes, g \in Group :
    sig[i].queue[g] =
      Cardinality({v \in Vehicles : veh[v].queued /\ veh[v].at = i /\ veh[v].group = g})

\* The two counts together: what the updater and the controllers act on is what
\* the vehicles did.
CountsExact == OccupancyExact /\ QueueExact

\* A vehicle is where its path says: standing at path[idx], or on the road that
\* leads there from the node it left; and it is queued, for the direction it is
\* heading, exactly while it waits.
VehicleConsistent ==
  \A v \in {w \in Vehicles : Driving(w)} :
    /\ veh[v].idx \in 1..Len(veh[v].path)
    /\ veh[v].state = "on_road" =>
         /\ ~veh[v].queued /\ veh[v].remaining > 0 /\ veh[v].idx > 1
         /\ veh[v].road = RoadOf[<<veh[v].at, From(v)>>]
    /\ veh[v].state # "on_road" => veh[v].at = From(v)
    /\ veh[v].queued => veh[v].state = "waiting_signal" /\ veh[v].group = Heading(v)
    /\ veh[v].state = "waiting_signal" /\ pc[v] \notin {"measure", "enter"} => veh[v].queued
    /\ veh[v].state = "arrived" =>
         pc[v] = "idle" /\ veh[v].at = Goal(v) /\ ~veh[v].queued

\* A vehicle past the light check and not yet on its road.
Crossing(v) == pc[v] \in {"unqueue", "measure", "enter"}

\* Two vehicles never cross one intersection in conflicting directions, although
\* each acts on a phase it read some time ago (without an emergency and its
\* preemption, which changes phases at once, and with MaxLag = 1).
NoConflictingCrossings ==
  (\A v \in Vehicles : veh[v].kind = "normal") =>
  \A v, w \in Vehicles :
    Crossing(v) /\ Crossing(w) /\ veh[v].at = veh[w].at => Heading(v) = Heading(w)

\* Every vehicle on the map arrives.
EveryoneArrives == \A v \in Vehicles : Driving(v) ~> veh[v].state = "arrived"
=============================================================================
