------------------------------ MODULE Corridor ------------------------------
(***************************************************************************)
(* The emergency corridor: DispatchEmergency and setEmergencyCorridor      *)
(* against the congestion updater that expires it, and against each other  *)
(* (capstone/internal/engine/engine.go).  A dispatch is an HTTP handler's  *)
(* goroutine; it takes tickMu, roadMu and the signals' mutexes one after   *)
(* another, once per road and per signal, so others run in between.        *)
(*                                                                         *)
(* The route is any of Routes: which one Dijkstra.tla says.  What the      *)
(* corridor does to vehicles and lights is in Traffic.tla.                 *)
(***************************************************************************)
EXTENDS Naturals, Sequences, FiniteSets

CONSTANTS
  Dispatches,       \* the calls of DispatchEmergency
  Plate(_),         \* the plate each asks for
  Plates0,          \* plates registered before
  Nodes, Roads,
  Routes,           \* possible routes between the ends all dispatches ask for,
                    \* sequences of hops; << >> stands for from = to
  PreemptionTicks,
  MaxTicks          \* bound on the ticks published

Hop == [node : Nodes, road : Roads]
NoDispatch == "none"

ASSUME CorridorConstants ==
  /\ PreemptionTicks \in Nat \ {0} /\ MaxTicks \in Nat
  /\ Routes \subseteq Seq(Hop)
  /\ NoDispatch \notin Dispatches

VARIABLES
  tickN,      \* the published tick
  updTick,    \* the tick the updater was last handed by waitTick
  updBusy,    \* TRUE between that waitTick and the end of updateCongestion
  roadOnCorr, \* roads of the active corridor
  until,      \* emergencyUntilTick, 0 when no corridor is armed
  told,       \* told[n]: the dispatch whose setPreempt node n saw last
  vehicles,   \* registered plates
  pc,         \* pc[d]: where dispatch d is
  route,      \* route[d]: its path
  now,        \* now[d]: the tick it read
  hop,        \* hop[d]: next hop to mark or to preempt
  armed,      \* history: the dispatch that last armed the corridor
  rushed      \* history: two dispatches overlapped, or one outlasted its expiry

InFlight(d) == pc[d] \in {"routed", "timed", "marking", "preempting", "registering"}

roadVars == <<roadOnCorr, until>>
dispVars == <<pc, route, now, hop>>
vars == <<tickN, updTick, updBusy, roadVars, told, vehicles, dispVars, armed, rushed>>

Init ==
  /\ tickN = 0 /\ updTick = 0 /\ updBusy = FALSE
  /\ roadOnCorr = {} /\ until = 0
  /\ told = [n \in Nodes |-> NoDispatch]
  /\ vehicles = Plates0
  /\ pc = [d \in Dispatches |-> "idle"]
  /\ route = [d \in Dispatches |-> <<>>]
  /\ now = [d \in Dispatches |-> 0]
  /\ hop = [d \in Dispatches |-> 0]
  /\ armed = NoDispatch
  /\ rushed = FALSE

-----------------------------------------------------------------------------
(* Time and the congestion updater. *)

Tick ==
  /\ tickN < MaxTicks
  /\ tickN' = tickN + 1
  /\ rushed' = (rushed \/ \E d \in Dispatches :
                            pc[d] \in {"timed", "marking", "preempting"}
                            /\ tickN' > now[d] + PreemptionTicks)
  /\ UNCHANGED <<updTick, updBusy, roadVars, told, vehicles, dispVars, armed>>

UpdaterWake ==
  /\ ~updBusy /\ updTick < tickN
  /\ updTick' = updTick + 1 /\ updBusy' = TRUE
  /\ UNCHANGED <<tickN, roadVars, told, vehicles, dispVars, armed, rushed>>

\* Broken variants: the corridor expires a tick early; its expiry is never reset.
UpdateCongestion_Early ==
  /\ updBusy
  /\ updBusy' = FALSE
  /\ IF until > 0 /\ updTick >= until
     THEN roadOnCorr' = {} /\ until' = 0
     ELSE UNCHANGED roadVars
  /\ UNCHANGED <<tickN, updTick, told, vehicles, dispVars, armed, rushed>>

UpdateCongestion_KeepsExpiry ==
  /\ updBusy
  /\ updBusy' = FALSE
  /\ roadOnCorr' = IF until > 0 /\ updTick > until THEN {} ELSE roadOnCorr
  /\ UNCHANGED <<tickN, updTick, until, told, vehicles, dispVars, armed, rushed>>

\* updateCongestion, one critical section of roadMu.
UpdateCongestion ==
  /\ updBusy
  /\ updBusy' = FALSE
  /\ IF until > 0 /\ updTick > until
     THEN roadOnCorr' = {} /\ until' = 0
     ELSE UNCHANGED roadVars
  /\ UNCHANGED <<tickN, updTick, told, vehicles, dispVars, armed, rushed>>

-----------------------------------------------------------------------------
(* DispatchEmergency. *)

\* route(): some path; "no route" and an empty plate change nothing.  A path of
\* one node has no corridor.
ComputeRoute(d) ==
  /\ pc[d] = "idle"
  /\ rushed' = (rushed \/ \E e \in Dispatches : InFlight(e))
  /\ \E r \in Routes :
       /\ route' = [route EXCEPT ![d] = r]
       /\ pc' = [pc EXCEPT ![d] = IF r = <<>> THEN "registering" ELSE "routed"]
  /\ UNCHANGED <<tickN, updTick, updBusy, roadVars, told, vehicles, now, hop, armed>>

ReadTick(d) ==
  /\ pc[d] = "routed"
  /\ now' = [now EXCEPT ![d] = tickN]
  /\ pc' = [pc EXCEPT ![d] = "timed"]
  /\ UNCHANGED <<tickN, updTick, updBusy, roadVars, told, vehicles, route, hop, armed, rushed>>

\* Broken variant: the old corridor is kept.
Arm_KeepsRoads(d) ==
  /\ pc[d] = "timed"
  /\ until' = now[d] + PreemptionTicks
  /\ armed' = d
  /\ hop' = [hop EXCEPT ![d] = 1]
  /\ pc' = [pc EXCEPT ![d] = "marking"]
  /\ UNCHANGED <<tickN, updTick, updBusy, roadOnCorr, told, vehicles, route, now, rushed>>

\* The old corridor is dropped and the new expiry set, before any road of the
\* new one is marked.
Arm(d) ==
  /\ pc[d] = "timed"
  /\ roadOnCorr' = {} /\ until' = now[d] + PreemptionTicks
  /\ armed' = d
  /\ hop' = [hop EXCEPT ![d] = 1]
  /\ pc' = [pc EXCEPT ![d] = "marking"]
  /\ UNCHANGED <<tickN, updTick, updBusy, told, vehicles, route, now, rushed>>

MarkRoad(d) ==
  /\ pc[d] = "marking"
  /\ roadOnCorr' = roadOnCorr \cup {route[d][hop[d]].road}
  /\ IF hop[d] < Len(route[d])
     THEN hop' = [hop EXCEPT ![d] = @ + 1] /\ UNCHANGED pc
     ELSE hop' = [hop EXCEPT ![d] = 1] /\ pc' = [pc EXCEPT ![d] = "preempting"]
  /\ UNCHANGED <<tickN, updTick, updBusy, until, told, vehicles, route, now, armed, rushed>>

PreemptSignal(d) ==
  /\ pc[d] = "preempting"
  /\ told' = [told EXCEPT ![route[d][hop[d]].node] = d]
  /\ IF hop[d] < Len(route[d])
     THEN hop' = [hop EXCEPT ![d] = @ + 1] /\ UNCHANGED pc
     ELSE pc' = [pc EXCEPT ![d] = "registering"] /\ UNCHANGED hop
  /\ UNCHANGED <<tickN, updTick, updBusy, roadVars, vehicles, route, now, armed, rushed>>

\* RegisterVehicle refuses a plate it knows; nothing undoes the corridor then.
\* (It computes the vehicle's route again: see LaunchEmergency in Traffic.)
Register(d) ==
  /\ pc[d] = "registering"
  /\ IF Plate(d) \in vehicles
     THEN pc' = [pc EXCEPT ![d] = "failed"] /\ UNCHANGED vehicles
     ELSE /\ pc' = [pc EXCEPT ![d] = "done"] /\ vehicles' = vehicles \cup {Plate(d)}
  /\ UNCHANGED <<tickN, updTick, updBusy, roadVars, told, route, now, hop, armed, rushed>>

Dispatch(d) ==
  \/ ComputeRoute(d) \/ ReadTick(d) \/ Arm(d)
  \/ MarkRoad(d) \/ PreemptSignal(d) \/ Register(d)

Updater == UpdaterWake \/ UpdateCongestion

Next == Tick \/ Updater \/ \E d \in Dispatches : Dispatch(d)

Spec == Init /\ [][Next]_vars

\* The clock ticks, the updater and a handler that has begun keep running.
FairSpec ==
  /\ Spec
  /\ WF_vars(Tick) /\ WF_vars(Updater)
  /\ \A d \in Dispatches : WF_vars(InFlight(d) /\ Dispatch(d))

-----------------------------------------------------------------------------
(* Properties *)

RoadsOf(r) == {r[i].road : i \in DOMAIN r}

TypeOK ==
  /\ tickN \in Nat /\ updTick \in Nat /\ updBusy \in BOOLEAN
  /\ roadOnCorr \subseteq Roads /\ until \in Nat
  /\ told \in [Nodes -> Dispatches \cup {NoDispatch}]
  /\ pc \in [Dispatches -> {"idle", "routed", "timed", "marking", "preempting",
                            "registering", "done", "failed"}]
  /\ route \in [Dispatches -> Routes \cup {<<>>}]
  /\ now \in [Dispatches -> Nat] /\ hop \in [Dispatches -> Nat]
  /\ armed \in Dispatches \cup {NoDispatch} /\ rushed \in BOOLEAN

Quiet == \A d \in Dispatches : ~InFlight(d)

\* As long as dispatches came one at a time and none outlasted its expiry,
\* whenever none is in progress the
\* corridor is all or nothing: either it is off, with no expiry pending, or it is
\* exactly the latest dispatch's roads and has an expiry, and every light on that
\* route was last told by that dispatch.
CorridorExact ==
  Quiet /\ ~rushed =>
    \/ roadOnCorr = {} /\ until = 0
    \/ /\ armed # NoDispatch
       /\ roadOnCorr = RoadsOf(route[armed])
       /\ until = now[armed] + PreemptionTicks
       /\ \A i \in DOMAIN route[armed] : told[route[armed][i].node] = armed

\* The updater never expires a corridor within PreemptionTicks ticks of the tick
\* its dispatch read, however the dispatches interleave.
NotExpiredEarly ==
  [][until > 0 /\ until' = 0
       => armed # NoDispatch /\ updTick > now[armed] + PreemptionTicks]_vars

\* An armed corridor is expired by the updater or replaced by another dispatch,
\* provided the clock goes on past its expiry.
EveryExpiryFires ==
  \A d \in Dispatches :
    (armed = d /\ until \in 1..(MaxTicks - 1) /\ updTick < MaxTicks)
      ~> (until = 0 \/ armed # d)

\* engine.go:432 says the corridor expires after PreemptionTicks ticks: no road
\* is on it once the updater is past the expiry of every dispatch.
CorridorExpires ==
  (/\ Quiet /\ ~updBusy
   /\ \A d \in Dispatches : pc[d] # "idle" => updTick > now[d] + PreemptionTicks)
  => roadOnCorr = {}
=============================================================================
