---------------------------- MODULE ScenarioCLI -----------------------------
(***************************************************************************)
(* The capstone's command line client (cmd/cli/main.go): it loads a        *)
(* scenario, starts the engine, registers the vehicle and then follows the *)
(* ticks: fires the scheduled emergencies, looks at the vehicle and prints *)
(* what has changed, until the vehicle arrives, the ticks are used up or   *)
(* the process is interrupted.  It is one more waiter on the engine's      *)
(* ticks: it may lag behind the engine and behind the vehicle.  The lights *)
(* and the time a road takes are left open here (see Traffic).             *)
(***************************************************************************)
EXTENDS Scenario

CONSTANTS
  Files,     \* scenario files
  MaxTicks   \* the flag -max-ticks; the clock ticks once more at most

VARIABLES
  cliAt,     \* "load", "register", "check", "wait", "events", "look"; "failed" or "returned"
  file, scenario,
  tickN, closed, interrupted,   \* the engine's ticks; the tick bus has closed; the context is cancelled
  vehicle,   \* [state, at, idx, remaining, path, last]
  tick, evIdx, lastState,       \* main's variables
  fired,     \* history: the ticks at which events were fired, in order
  reported   \* history: the arrival has been printed

cliVars == <<cliAt, file, scenario, tickN, closed, interrupted, vehicle, tick, evIdx, lastState, fired, reported>>
engineVars == <<tickN, closed, interrupted>>

NoVehicle == [state |-> "none", at |-> 0, idx |-> 1, remaining |-> 0, path |-> <<>>, last |-> 0]
NoState == [state |-> "", at |-> 0, next |-> 0, signal |-> ""]
NoScenario == [events |-> <<>>]

Init ==
  /\ file \in Files /\ cliAt = "load" /\ scenario = NoScenario
  /\ tickN = 0 /\ closed = FALSE /\ interrupted = FALSE
  /\ vehicle = NoVehicle /\ tick = 0 /\ evIdx = 0 /\ lastState = NoState
  /\ fired = <<>> /\ reported = FALSE

Graph == Build(scenario)
Running == cliAt \notin {"load", "failed", "returned"}

-----------------------------------------------------------------------------
(* main up to the loop *)

Load ==
  /\ cliAt = "load"
  /\ \/ /\ LoadFile(file) = {} \/ ~Contiguous(Parsed(file))
        /\ cliAt' = "failed" /\ UNCHANGED scenario
     \/ /\ Contiguous(Parsed(file))
        /\ scenario' \in LoadFile(file) /\ cliAt' = "register"
  /\ UNCHANGED <<file, engineVars, vehicle, tick, evIdx, lastState, fired, reported>>

\* A path with the fewest roads stands for the one of least cost.
Paths(from, to) ==
  LET arrived(paths) == {p \in paths : Last(p) = to}
      grow(paths, k) ==
        IF arrived(paths) # {} THEN paths
        ELSE UNION {{Append(p, n) : n \in Successors(Graph, Last(p)) \ ToSet(p)} : p \in paths}
  IN  arrived(FoldLeft(grow, {<<from>>}, [k \in DOMAIN scenario.intersections |-> k]))

RegisterVehicle ==
  /\ cliAt = "register"
  /\ LET v == scenario.vehicle
     IN  \/ /\ interrupted \/ Paths(v.from, v.to) = {}
            /\ cliAt' = "failed" /\ UNCHANGED vehicle
         \/ /\ ~interrupted
            /\ \E p \in Paths(v.from, v.to) :
                 vehicle' = [NoVehicle EXCEPT !.state = "at_intersection", !.at = v.from, !.path = p]
            /\ cliAt' = "check"
  /\ UNCHANGED <<file, scenario, engineVars, tick, evIdx, lastState, fired, reported>>

-----------------------------------------------------------------------------
(* The loop *)

CheckContext ==
  /\ cliAt = "check"
  /\ cliAt' = IF interrupted THEN "returned" ELSE "wait"
  /\ UNCHANGED <<file, scenario, engineVars, vehicle, tick, evIdx, lastState, fired, reported>>

\* WaitNextTick hands out every tick in turn.
WaitNextTick ==
  /\ cliAt = "wait"
  /\ \/ closed /\ cliAt' = "returned" /\ tick' = 0
     \/ /\ ~closed /\ tickN > tick
        /\ tick' = tick + 1
        /\ cliAt' = IF tick + 1 > MaxTicks THEN "failed" ELSE "events"
  /\ UNCHANGED <<file, scenario, engineVars, vehicle, evIdx, lastState, fired, reported>>

Due == evIdx < Len(scenario.events) /\ scenario.events[evIdx + 1].tick = tick

\* Broken variant: one event for each tick.
FireEvent_One ==
  /\ cliAt = "events" /\ Due
  /\ evIdx' = evIdx + 1 /\ fired' = Append(fired, tick) /\ cliAt' = "look"
  /\ UNCHANGED <<file, scenario, engineVars, vehicle, tick, lastState, reported>>

\* DispatchEmergency, refused or not; it takes its time.
FireEvent ==
  /\ cliAt = "events" /\ Due
  /\ evIdx' = evIdx + 1 /\ fired' = Append(fired, tick)
  /\ UNCHANGED <<cliAt, file, scenario, engineVars, vehicle, tick, lastState, reported>>

EventsFired ==
  /\ cliAt = "events" /\ ~Due /\ cliAt' = "look"
  /\ UNCHANGED <<file, scenario, engineVars, vehicle, tick, evIdx, lastState, fired, reported>>

\* VehicleStatus's Next: the end of the road it is on, or the node after this one.
NextStop ==
  LET v == vehicle
  IN  IF v.state = "on_road" THEN v.path[v.idx]
      ELSE IF Len(v.path) > v.idx THEN v.path[v.idx + 1] ELSE v.at

\* Looks at the vehicle and, at an intersection, at its signal; prints what has changed.
Look ==
  /\ cliAt = "look"
  /\ \/ interrupted /\ cliAt' = "check" /\ UNCHANGED <<lastState, reported>>
     \/ /\ ~interrupted
        /\ \E signal \in {"Green-NS", "Green-EW preempt"} :
             LET seen == [state |-> vehicle.state, at |-> vehicle.at, next |-> NextStop,
                          signal |-> IF vehicle.state \in {"at_intersection", "waiting_signal"} THEN signal ELSE lastState.signal]
             IN  IF seen = lastState
                 THEN cliAt' = "check" /\ UNCHANGED <<lastState, reported>>
                 ELSE /\ lastState' = seen
                      /\ reported' = (vehicle.state = "arrived")
                      /\ cliAt' = IF vehicle.state = "arrived" THEN "returned" ELSE "check"
  /\ UNCHANGED <<file, scenario, engineVars, vehicle, tick, evIdx, fired>>

CLI == Load \/ RegisterVehicle \/ CheckContext \/ WaitNextTick \/ FireEvent \/ EventsFired \/ Look

-----------------------------------------------------------------------------
(* The engine around it *)

Tick ==
  /\ Running /\ ~closed /\ tickN <= MaxTicks
  /\ tickN' = tickN + 1
  /\ UNCHANGED <<cliAt, file, scenario, closed, interrupted, vehicle, tick, evIdx, lastState, fired, reported>>

Interrupt ==
  /\ Running /\ ~interrupted /\ interrupted' = TRUE
  /\ UNCHANGED <<cliAt, file, scenario, tickN, closed, vehicle, tick, evIdx, lastState, fired, reported>>

CloseTicks ==
  /\ Running /\ interrupted /\ ~closed /\ closed' = TRUE
  /\ UNCHANGED <<cliAt, file, scenario, tickN, interrupted, vehicle, tick, evIdx, lastState, fired, reported>>

\* Where one step may take a vehicle that stands at an intersection.
AtNode(v) ==
  IF v.at = v.path[Len(v.path)] THEN {[v EXCEPT !.state = "arrived"]}
  ELSE {[v EXCEPT !.state = "waiting_signal"]}
       \cup {[v EXCEPT !.state = "on_road", !.remaining = ticks, !.idx = @ + 1] : ticks \in 1..2}

\* vehicle.step
Stepped(v) ==
  CASE v.state = "arrived" -> {v}
    [] v.state = "on_road" /\ v.remaining > 1 -> {[v EXCEPT !.remaining = @ - 1]}
    [] v.state = "on_road" /\ v.remaining = 1 ->
         AtNode([v EXCEPT !.remaining = 0, !.at = v.path[v.idx], !.state = "at_intersection"])
    [] OTHER -> AtNode(v)

VehicleStep ==
  /\ Running /\ vehicle.state # "none" /\ ~closed /\ vehicle.last < tickN
  /\ \E v \in Stepped(vehicle) : vehicle' = [v EXCEPT !.last = @ + 1]
  /\ UNCHANGED <<cliAt, file, scenario, engineVars, tick, evIdx, lastState, fired, reported>>

Next == CLI \/ Tick \/ Interrupt \/ CloseTicks \/ VehicleStep

Spec == Init /\ [][Next]_cliVars

-----------------------------------------------------------------------------

Accepted(f) == LoadFile(f) # {} /\ Contiguous(Parsed(f))

\* ScenarioSound: a file that is accepted one way is accepted both ways, and then has its roads in
\* both directions; the engine can tell all roads of an accepted scenario apart; a grid of two nodes
\* or more is accepted and connected, its roads joining neighbours and nobody else; and so is the
\* server's map.
ScenarioSound ==
  /\ cliAt = "load" =>
       /\ Accepted([file EXCEPT !.bidirectional = FALSE]) => Accepted(file)
       /\ file.format = "grid" /\ file.grid.cols > 0 /\ file.grid.rows > 0 =>
            (Accepted(file) <=> file.grid.cols * file.grid.rows > 1)
       /\ IndexedExactly(GenerateDemoGraph) /\ Connected(GenerateDemoGraph) /\ TwoWay(GenerateDemoGraph)
  /\ cliAt = "register" =>
       /\ IndexedExactly(Graph) /\ UNION {ToSet(Graph[n]) : n \in DOMAIN Graph} = ToSet(scenario.roads)
       /\ file.bidirectional => TwoWay(Graph)
       /\ file.format = "grid" =>
            LET xy(n) == scenario.intersections[n + 1].xy
                near(a, b) == \/ a[1] = b[1] /\ a[2] - b[2] \in {-1, 1}
                              \/ a[2] = b[2] /\ a[1] - b[1] \in {-1, 1}
            IN  /\ Connected(Graph) /\ TwoWay(Graph)
                /\ \A m, n \in DOMAIN Graph : n \in Successors(Graph, m) <=> near(xy(m), xy(n))

\* EventsOnTime: every scheduled event is fired once, at its tick, in order, and none before its time, however far
\* the loop lags behind the engine.
EventsOnTime ==
  cliAt \in {"check", "wait", "look"} =>
    fired = [k \in 1..Cardinality({j \in DOMAIN scenario.events : scenario.events[j].tick <= tick}) |-> scenario.events[k].tick]

\* ScenarioEnds: the loop ends, and an arrival in time is reported, unless the process is interrupted.
ScenarioEnds ==
  /\ <>(cliAt \in {"failed", "returned"})
  /\ (vehicle.state = "arrived" /\ tick < MaxTicks) ~> (reported \/ interrupted)
  /\ [](cliAt = "returned" => reported \/ interrupted)
=============================================================================
