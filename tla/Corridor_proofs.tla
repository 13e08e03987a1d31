--------------------------- MODULE Corridor_proofs ---------------------------
(***************************************************************************)
(* For any dispatches, routes and preemption time: the corridor keeps its  *)
(* types, never expires early, and is all or nothing unless dispatches are *)
(* rushed.                                                                 *)
(***************************************************************************)
EXTENDS Corridor, SequenceTheorems, TLAPS

\* A dispatch walks along its route and never past its end.
HopsOnRoute ==
  \A d \in Dispatches :
    /\ pc[d] \in {"routed", "timed", "marking", "preempting"} => route[d] # <<>>
    /\ pc[d] \in {"marking", "preempting"} => hop[d] \in 1..Len(route[d])

LEMMA RouteFacts ==
  ASSUME NEW r \in Routes \cup {<<>>}
  PROVE  /\ Len(r) \in Nat /\ DOMAIN r = 1..Len(r)
         /\ r # <<>> => Len(r) > 0
         /\ \A i \in 1..Len(r) : r[i].node \in Nodes /\ r[i].road \in Roads
<1>1. r \in Seq(Hop)
  BY CorridorConstants, EmptySeq
<1>2. Len(r) \in Nat /\ DOMAIN r = 1..Len(r) /\ (r # <<>> => Len(r) > 0)
  BY <1>1, EmptySeq, LenProperties
<1>3. \A i \in 1..Len(r) : r[i] \in Hop
  BY <1>1, <1>2
<1> QED BY <1>2, <1>3 DEF Hop

\* Types are right in every reachable state, and no dispatch indexes its route
\* outside it.
THEOREM TypeCorrect == Spec => [](TypeOK /\ HopsOnRoute)
<1>1. Init => TypeOK /\ HopsOnRoute
  <2> SUFFICES ASSUME Init PROVE TypeOK /\ HopsOnRoute
    OBVIOUS
  <2>1. HopsOnRoute
    BY DEF Init, HopsOnRoute
  <2>2. route \in [Dispatches -> Routes \cup {<<>>}]
    BY DEF Init
  <2> QED BY <2>1, <2>2 DEF Init, TypeOK
<1>2. TypeOK /\ HopsOnRoute /\ [Next]_vars => TypeOK' /\ HopsOnRoute'
  <2> SUFFICES ASSUME TypeOK, HopsOnRoute, [Next]_vars PROVE TypeOK' /\ HopsOnRoute'
    OBVIOUS
  <2> USE DEF TypeOK, HopsOnRoute, roadVars, dispVars
  <2>1. CASE Tick
    BY <2>1 DEF Tick
  <2>2. CASE Updater
    <3>1. CASE UpdaterWake
      BY <3>1 DEF UpdaterWake
    <3>2. CASE UpdateCongestion
      <4>1. roadOnCorr' \subseteq Roads /\ until' \in Nat
        BY <3>2 DEF UpdateCongestion
      <4> QED BY <3>2, <4>1 DEF UpdateCongestion
    <3> QED BY <2>2, <3>1, <3>2 DEF Updater
  <2>3. ASSUME NEW d \in Dispatches, ComputeRoute(d) PROVE TypeOK' /\ HopsOnRoute'
    BY <2>3 DEF ComputeRoute, InFlight
  <2>4. ASSUME NEW d \in Dispatches, ReadTick(d) PROVE TypeOK' /\ HopsOnRoute'
    BY <2>4 DEF ReadTick
  <2>5. ASSUME NEW d \in Dispatches, Arm(d) PROVE TypeOK' /\ HopsOnRoute'
    <3>1. Len(route[d]) \in Nat /\ Len(route[d]) > 0
      BY <2>5, RouteFacts DEF Arm
    <3>2. until' \in Nat
      BY <2>5, CorridorConstants DEF Arm
    <3> QED BY <2>5, <3>1, <3>2 DEF Arm
  <2>6. ASSUME NEW d \in Dispatches, MarkRoad(d) PROVE TypeOK' /\ HopsOnRoute'
    <3>1. /\ Len(route[d]) \in Nat /\ hop[d] \in 1..Len(route[d])
          /\ route[d][hop[d]].road \in Roads
      BY <2>6, RouteFacts DEF MarkRoad
    <3>2. roadOnCorr' \subseteq Roads
      BY <2>6, <3>1 DEF MarkRoad
    <3>a. /\ route' = route
          /\ \/ hop[d] < Len(route[d]) /\ hop' = [hop EXCEPT ![d] = @ + 1] /\ UNCHANGED pc
             \/ hop' = [hop EXCEPT ![d] = 1] /\ pc' = [pc EXCEPT ![d] = "preempting"]
      BY <2>6 DEF MarkRoad
    <3>b. pc' \in [Dispatches -> {"idle", "routed", "timed", "marking", "preempting",
                                 "registering", "done", "failed"}]
      BY <3>a
    <3>3. hop' \in [Dispatches -> Nat] /\ route' = route
      BY <3>a
    <3>4. \A e \in Dispatches \ {d} : pc'[e] = pc[e] /\ hop'[e] = hop[e]
      BY <2>6 DEF MarkRoad
    <3>5. pc'[d] \in {"marking", "preempting"} => hop'[d] \in 1..Len(route[d])
      BY <2>6, <3>1 DEF MarkRoad
    <3>6. route[d] # <<>>
      BY <2>6 DEF MarkRoad
    <3>7. HopsOnRoute'
      <4> SUFFICES ASSUME NEW e \in Dispatches
                   PROVE  /\ pc'[e] \in {"routed", "timed", "marking", "preempting"}
                             => route'[e] # <<>>
                          /\ pc'[e] \in {"marking", "preempting"}
                             => hop'[e] \in 1..Len(route'[e])
        OBVIOUS
      <4>1. CASE e = d
        BY <3>b, <3>3, <3>5, <3>6, <4>1
      <4>2. CASE e # d
        BY <3>b, <3>3, <3>4, <4>2
      <4> QED BY <4>1, <4>2
    <3> QED BY <2>6, <3>2, <3>b, <3>3, <3>7 DEF MarkRoad
  <2>7. ASSUME NEW d \in Dispatches, PreemptSignal(d) PROVE TypeOK' /\ HopsOnRoute'
    <3>1. /\ Len(route[d]) \in Nat /\ hop[d] \in 1..Len(route[d])
          /\ route[d][hop[d]].node \in Nodes
      BY <2>7, RouteFacts DEF PreemptSignal
    <3>2. told' \in [Nodes -> Dispatches \cup {NoDispatch}]
      BY <2>7, <3>1 DEF PreemptSignal
    <3>a. /\ route' = route
          /\ \/ hop[d] < Len(route[d]) /\ hop' = [hop EXCEPT ![d] = @ + 1] /\ UNCHANGED pc
             \/ pc' = [pc EXCEPT ![d] = "registering"] /\ UNCHANGED hop
      BY <2>7 DEF PreemptSignal
    <3>3. /\ pc' \in [Dispatches -> {"idle", "routed", "timed", "marking", "preempting",
                                    "registering", "done", "failed"}]
          /\ hop' \in [Dispatches -> Nat] /\ route' = route
      BY <3>a
    <3>4. \A e \in Dispatches \ {d} : pc'[e] = pc[e] /\ hop'[e] = hop[e]
      BY <2>7 DEF PreemptSignal
    <3>5. pc'[d] \in {"marking", "preempting"} => hop'[d] \in 1..Len(route[d])
      BY <2>7, <3>1 DEF PreemptSignal
    <3>6. route[d] # <<>>
      BY <2>7 DEF PreemptSignal
    <3>7. HopsOnRoute'
      <4> SUFFICES ASSUME NEW e \in Dispatches
                   PROVE  /\ pc'[e] \in {"routed", "timed", "marking", "preempting"}
                             => route'[e] # <<>>
                          /\ pc'[e] \in {"marking", "preempting"}
                             => hop'[e] \in 1..Len(route'[e])
        OBVIOUS
      <4>1. CASE e = d
        BY <3>3, <3>5, <3>6, <4>1
      <4>2. CASE e # d
        BY <3>3, <3>4, <4>2
      <4> QED BY <4>1, <4>2
    <3> QED BY <2>7, <3>2, <3>3, <3>7 DEF PreemptSignal
  <2>8. ASSUME NEW d \in Dispatches, Register(d) PROVE TypeOK' /\ HopsOnRoute'
    BY <2>8 DEF Register
  <2>9. CASE UNCHANGED vars
    BY <2>9 DEF vars
  <2> QED
    BY <2>1, <2>2, <2>3, <2>4, <2>5, <2>6, <2>7, <2>8, <2>9 DEF Next, Dispatch
<1> QED BY <1>1, <1>2, PTL DEF Spec

-----------------------------------------------------------------------------
(* The expiry belongs to the dispatch that armed the corridor. *)

\* A dispatch that has armed the corridor does not read the tick or choose a route
\* again.
ArmedIsPast ==
  armed # NoDispatch => armed \in Dispatches /\ pc[armed] \notin {"idle", "routed", "timed"}

ExpiryOwned ==
  until > 0 => armed # NoDispatch /\ until = now[armed] + PreemptionTicks

LEMMA ExpiryInductive == TypeOK /\ ArmedIsPast /\ ExpiryOwned /\ [Next]_vars
                           => ArmedIsPast' /\ ExpiryOwned'
<1> SUFFICES ASSUME TypeOK, ArmedIsPast, ExpiryOwned, [Next]_vars
             PROVE  ArmedIsPast' /\ ExpiryOwned'
  OBVIOUS
<1> USE CorridorConstants DEF TypeOK, ArmedIsPast, ExpiryOwned, roadVars, dispVars
<1>1. CASE Tick
  BY <1>1 DEF Tick
<1>2. CASE Updater
  BY <1>2 DEF Updater, UpdaterWake, UpdateCongestion
<1>3. ASSUME NEW d \in Dispatches, ComputeRoute(d) PROVE ArmedIsPast' /\ ExpiryOwned'
  BY <1>3 DEF ComputeRoute
<1>4. ASSUME NEW d \in Dispatches, ReadTick(d) PROVE ArmedIsPast' /\ ExpiryOwned'
  BY <1>4 DEF ReadTick
<1>5. ASSUME NEW d \in Dispatches, Arm(d) PROVE ArmedIsPast' /\ ExpiryOwned'
  BY <1>5 DEF Arm
<1>6. ASSUME NEW d \in Dispatches, MarkRoad(d) PROVE ArmedIsPast' /\ ExpiryOwned'
  BY <1>6 DEF MarkRoad
<1>7. ASSUME NEW d \in Dispatches, PreemptSignal(d) PROVE ArmedIsPast' /\ ExpiryOwned'
  BY <1>7 DEF PreemptSignal
<1>8. ASSUME NEW d \in Dispatches, Register(d) PROVE ArmedIsPast' /\ ExpiryOwned'
  BY <1>8 DEF Register
<1>9. CASE UNCHANGED vars
  BY <1>9 DEF vars
<1> QED
  BY <1>1, <1>2, <1>3, <1>4, <1>5, <1>6, <1>7, <1>8, <1>9 DEF Next, Dispatch

\* However dispatches interleave, the updater leaves a corridor in force for
\* PreemptionTicks ticks from the tick its dispatch read: updateCongestion compares
\* its own tick with the expiry of the dispatch that armed the corridor last.
THEOREM NeverExpiredEarly == Spec => NotExpiredEarly
<1>1. Init => ArmedIsPast /\ ExpiryOwned
  BY DEF Init, ArmedIsPast, ExpiryOwned
<1>2. TypeOK /\ ArmedIsPast /\ ExpiryOwned /\ [Next]_vars
        => [until > 0 /\ until' = 0
              => armed # NoDispatch /\ updTick > now[armed] + PreemptionTicks]_vars
  <2> SUFFICES ASSUME TypeOK, ExpiryOwned, Next, until > 0, until' = 0
               PROVE  armed # NoDispatch /\ updTick > now[armed] + PreemptionTicks
    BY DEF vars, roadVars
  <2>1. CASE UpdateCongestion
    BY <2>1 DEF UpdateCongestion, ExpiryOwned, roadVars
  <2>2. ASSUME NEW d \in Dispatches, Arm(d) PROVE FALSE
    BY <2>2, CorridorConstants DEF Arm, TypeOK
  <2>3. CASE UNCHANGED until
    BY <2>3 DEF TypeOK
  <2> QED
    BY <2>1, <2>2, <2>3
    DEF Next, Updater, Dispatch, Tick, UpdaterWake, ComputeRoute, ReadTick, MarkRoad,
        PreemptSignal, Register, roadVars
<1>3. TypeOK /\ HopsOnRoute => TypeOK
  OBVIOUS
<1> QED BY <1>1, <1>2, <1>3, ExpiryInductive, TypeCorrect, PTL DEF Spec, NotExpiredEarly

-----------------------------------------------------------------------------
(* The corridor is all or nothing. *)

InForce(d) == armed = d /\ until = now[d] + PreemptionTicks

\* What the run has done so far with d's route: the first k hops.
Marked(d, k) == roadOnCorr = {route[d][i].road : i \in 1..k}
Told(d, k)   == \A i \in 1..k : told[route[d][i].node] = d

\* Between two dispatches: no corridor, or all of one.
Settled ==
  \/ roadOnCorr = {} /\ until = 0
  \/ /\ armed # NoDispatch /\ InForce(armed)
     /\ Marked(armed, Len(route[armed])) /\ Told(armed, Len(route[armed]))

OneAtATime == \A d, e \in Dispatches : InFlight(d) /\ InFlight(e) => d = e

\* The clock has not outrun the expiry of the dispatch in progress.
InTime ==
  \A d \in Dispatches :
    pc[d] \in {"timed", "marking", "preempting"} => tickN <= now[d] + PreemptionTicks

Halfway ==
  \A d \in Dispatches :
    /\ pc[d] = "marking" => InForce(d) /\ Marked(d, hop[d] - 1)
    /\ pc[d] = "preempting" =>
         InForce(d) /\ Marked(d, Len(route[d])) /\ Told(d, hop[d] - 1)

Settles == (\A d \in Dispatches : pc[d] \notin {"marking", "preempting"}) => Settled

\* Where a dispatch stands, as long as none was rushed: the roads and lights it has
\* reached are exactly those before its hop, and nobody has undone them.
Unrushed ==
  /\ updTick <= tickN
  /\ ~rushed => OneAtATime /\ InTime /\ Halfway /\ Settles

\* The part of the strengthening that holds in the quiet moments is what is promised.
LEMMA SettledIsExact ==
  ASSUME TypeOK, Settled
  PROVE  \/ roadOnCorr = {} /\ until = 0
         \/ /\ armed # NoDispatch
            /\ roadOnCorr = RoadsOf(route[armed])
            /\ until = now[armed] + PreemptionTicks
            /\ \A i \in DOMAIN route[armed] : told[route[armed][i].node] = armed
<1>1. CASE roadOnCorr = {} /\ until = 0
  BY <1>1
<1>2. CASE /\ armed # NoDispatch /\ InForce(armed)
           /\ Marked(armed, Len(route[armed])) /\ Told(armed, Len(route[armed]))
  <2>1. DOMAIN route[armed] = 1..Len(route[armed])
    BY <1>2, RouteFacts DEF TypeOK
  <2> QED BY <1>2, <2>1 DEF InForce, Marked, Told, RoadsOf
<1> QED BY <1>1, <1>2 DEF Settled

LEMMA UnrushedInductive ==
  ASSUME TypeOK, HopsOnRoute, ArmedIsPast, Unrushed, [Next]_vars
  PROVE  Unrushed'
<1> USE CorridorConstants DEF roadVars, dispVars
<1>1. updTick' <= tickN'
  <2>1. CASE Tick
    BY <2>1 DEF Tick, TypeOK, Unrushed
  <2>2. CASE UpdaterWake
    BY <2>2 DEF UpdaterWake, TypeOK, Unrushed
  <2>3. CASE UNCHANGED <<tickN, updTick>>
    BY <2>3 DEF Unrushed
  <2> QED
    BY <2>1, <2>2, <2>3
    DEF Next, vars, Updater, UpdateCongestion, Dispatch, ComputeRoute, ReadTick, Arm,
        MarkRoad, PreemptSignal, Register
<1> SUFFICES ASSUME ~rushed' PROVE OneAtATime' /\ InTime' /\ Halfway' /\ Settles'
  BY <1>1 DEF Unrushed
<1>2. ~rushed
  BY DEF Next, vars, Tick, Updater, UpdaterWake, UpdateCongestion, Dispatch, ComputeRoute,
         ReadTick, Arm, MarkRoad, PreemptSignal, Register
<1>3. OneAtATime /\ InTime /\ Halfway /\ Settles /\ updTick <= tickN
  BY <1>2 DEF Unrushed
\* What the dispatches have done survives a step that leaves them alone.
<1>4. ASSUME UNCHANGED <<roadVars, told, dispVars, armed>>
      PROVE  OneAtATime' /\ Halfway' /\ Settles'
  BY <1>3, <1>4 DEF OneAtATime, InFlight, Halfway, InForce, Marked, Told, Settles, Settled
<1>5. CASE Tick
  <2>1. UNCHANGED <<roadVars, told, dispVars, armed>>
    BY <1>5 DEF Tick
  <2>2. ASSUME NEW d \in Dispatches, pc[d] \in {"timed", "marking", "preempting"}
        PROVE  tickN' <= now[d] + PreemptionTicks
    <3>1. tickN \in Nat /\ now[d] \in Nat /\ tickN' = tickN + 1
      BY <1>5 DEF Tick, TypeOK
    <3>2. ~(tickN' > now[d] + PreemptionTicks)
      BY <1>5, <2>2 DEF Tick
    <3> QED BY <3>1, <3>2
  <2>3. InTime'
    BY <2>1, <2>2 DEF InTime
  <2> QED BY <1>4, <2>1, <2>3
<1>6. CASE UpdaterWake
  <2>1. UNCHANGED <<tickN, roadVars, told, dispVars, armed>>
    BY <1>6 DEF UpdaterWake
  <2> QED BY <1>3, <1>4, <2>1 DEF InTime
<1>7. CASE UpdateCongestion
  <2>1. UNCHANGED <<tickN, told, dispVars, armed>>
    BY <1>7 DEF UpdateCongestion
  <2>2. InTime' /\ OneAtATime'
    BY <1>3, <2>1 DEF InTime, OneAtATime, InFlight
  <2>3. CASE UNCHANGED roadVars
    BY <1>4, <2>1, <2>2, <2>3
  <2>4. CASE until > 0 /\ updTick > until /\ roadOnCorr' = {} /\ until' = 0
    <3>1. \A d \in Dispatches : pc[d] \notin {"marking", "preempting"}
      BY <1>3, <2>4 DEF Halfway, InForce, InTime, TypeOK
    <3> QED BY <2>1, <2>2, <2>4, <3>1 DEF Halfway, Settles, Settled
  <2> QED BY <1>7, <2>3, <2>4 DEF UpdateCongestion
<1>8. ASSUME NEW d \in Dispatches, Dispatch(d)
      PROVE  OneAtATime' /\ InTime' /\ Halfway' /\ Settles'
  <2>1. /\ pc \in [Dispatches -> {"idle", "routed", "timed", "marking", "preempting",
                                  "registering", "done", "failed"}]
        /\ now \in [Dispatches -> Nat] /\ hop \in [Dispatches -> Nat] /\ tickN \in Nat
        /\ route \in [Dispatches -> Routes \cup {<<>>}]
        /\ told \in [Nodes -> Dispatches \cup {NoDispatch}]
    BY DEF TypeOK
  <2>2. \A e \in Dispatches \ {d} : ~InFlight(e)
    BY <1>3, <1>8, <2>1
    DEF Dispatch, ComputeRoute, ReadTick, Arm, MarkRoad, PreemptSignal, Register,
        OneAtATime, InFlight
  <2>3. \A e \in Dispatches \ {d} : pc'[e] = pc[e] /\ ~InFlight(e)'
    BY <1>8, <2>1, <2>2
    DEF Dispatch, ComputeRoute, ReadTick, Arm, MarkRoad, PreemptSignal, Register, InFlight
  <2>4. OneAtATime'
    BY <2>3 DEF OneAtATime
  <2>5. \A e \in Dispatches \ {d} :
          pc'[e] \notin {"timed", "marking", "preempting"}
    BY <2>3 DEF InFlight
  <2>6. ASSUME pc'[d] \notin {"timed", "marking", "preempting"} PROVE InTime' /\ Halfway'
    BY <2>5, <2>6 DEF InTime, Halfway
  <2>7. ASSUME armed # d, UNCHANGED <<roadVars, told, armed>>,
               \A e \in Dispatches \ {d} : route'[e] = route[e] /\ now'[e] = now[e]
        PROVE  Settled => Settled'
    BY <2>7 DEF ArmedIsPast, Settled, InForce, Marked, Told
  <2>8. CASE ComputeRoute(d)
    <3>1. /\ pc[d] = "idle" /\ pc'[d] \in {"registering", "routed"}
          /\ UNCHANGED <<roadVars, told, armed, now>>
          /\ \A e \in Dispatches \ {d} : route'[e] = route[e]
      BY <2>1, <2>8 DEF ComputeRoute
    <3>2. Settled /\ armed # d
      BY <1>3, <2>2, <3>1 DEF Settles, InFlight, ArmedIsPast
    <3>3. Settled'
      BY <2>7, <3>1, <3>2
    <3> QED BY <2>4, <2>6, <3>1, <3>3 DEF Settles
  <2>9. CASE ReadTick(d)
    <3>1. /\ pc[d] = "routed" /\ pc'[d] = "timed" /\ now'[d] = tickN
          /\ UNCHANGED <<tickN, roadVars, told, armed, route>>
          /\ \A e \in Dispatches \ {d} : now'[e] = now[e]
      BY <2>1, <2>9 DEF ReadTick
    <3>2. Settled /\ armed # d
      BY <1>3, <2>2, <3>1 DEF Settles, InFlight, ArmedIsPast
    <3>3. Settled'
      BY <2>7, <3>1, <3>2
    <3>4. InTime'
      BY <2>1, <2>5, <3>1 DEF InTime
    <3> QED BY <2>4, <2>5, <3>1, <3>3, <3>4 DEF Settles, Halfway
  <2>10. CASE Arm(d)
    <3>1. /\ pc[d] = "timed" /\ pc'[d] = "marking" /\ hop'[d] = 1
          /\ roadOnCorr' = {} /\ until' = now[d] + PreemptionTicks /\ armed' = d
          /\ UNCHANGED <<tickN, now, route>>
      BY <2>1, <2>10 DEF Arm
    <3>2. InTime'
      BY <1>3, <2>5, <3>1 DEF InTime
    <3>3. InForce(d)' /\ Marked(d, hop[d] - 1)'
      BY <3>1 DEF InForce, Marked
    <3> QED BY <2>4, <2>5, <3>1, <3>2, <3>3 DEF Halfway, Settles
  <2>11. CASE MarkRoad(d)
    <3> DEFINE k == hop[d]
               r == route[d]
    <3>1. /\ pc[d] = "marking" /\ roadOnCorr' = roadOnCorr \cup {r[k].road}
          /\ UNCHANGED <<tickN, until, now, route, armed>>
          /\ \/ k < Len(r) /\ hop'[d] = k + 1 /\ pc'[d] = "marking"
             \/ ~(k < Len(r)) /\ hop'[d] = 1 /\ pc'[d] = "preempting"
      BY <2>1, <2>11 DEF MarkRoad
    <3>2. k \in 1..Len(r) /\ Len(r) \in Nat
      BY <2>1, <3>1, RouteFacts DEF HopsOnRoute
    <3>3. InForce(d) /\ Marked(d, k - 1)
      BY <1>3, <3>1 DEF Halfway
    <3>4. InForce(d)' /\ InTime'
      BY <1>3, <2>5, <3>1, <3>3 DEF InForce, InTime
    <3>5. roadOnCorr' = {r[i].road : i \in 1..k}
      <4>1. 1..k = (1..(k - 1)) \cup {k}
        BY <3>2
      <4>2. {r[i].road : i \in 1..k} = {r[i].road : i \in 1..(k - 1)} \cup {r[k].road}
        BY <4>1
      <4> QED BY <3>1, <3>3, <4>2 DEF Marked
    <3>6. CASE k < Len(r)
      <4>1. Marked(d, hop[d] - 1)'
        BY <3>1, <3>2, <3>5, <3>6 DEF Marked
      <4> QED BY <2>4, <2>5, <3>1, <3>4, <3>6, <4>1 DEF Halfway, Settles
    <3>7. CASE ~(k < Len(r))
      <4>1. Marked(d, Len(route[d]))' /\ Told(d, hop[d] - 1)'
        BY <3>1, <3>2, <3>5, <3>7 DEF Marked, Told
      <4> QED BY <2>4, <2>5, <3>1, <3>4, <3>7, <4>1 DEF Halfway, Settles
    <3> QED BY <3>6, <3>7
  <2>12. CASE PreemptSignal(d)
    <3> DEFINE k == hop[d]
               r == route[d]
    <3>1. /\ pc[d] = "preempting" /\ told' = [told EXCEPT ![r[k].node] = d]
          /\ UNCHANGED <<tickN, roadVars, now, route, armed>>
          /\ \/ k < Len(r) /\ hop'[d] = k + 1 /\ pc'[d] = "preempting"
             \/ ~(k < Len(r)) /\ hop'[d] = k /\ pc'[d] = "registering"
      BY <2>1, <2>12 DEF PreemptSignal
    <3>2. k \in 1..Len(r) /\ Len(r) \in Nat /\ \A i \in 1..Len(r) : r[i].node \in Nodes
      BY <2>1, <3>1, RouteFacts DEF HopsOnRoute
    <3>3. InForce(d) /\ Marked(d, Len(r)) /\ Told(d, k - 1)
      BY <1>3, <3>1 DEF Halfway
    <3>4. InForce(d)' /\ Marked(d, Len(r))' /\ InTime'
      BY <1>3, <2>5, <3>1, <3>3 DEF InForce, Marked, InTime
    <3>5. ASSUME NEW i \in 1..k PROVE told'[r[i].node] = d
      <4>1. r[i].node \in DOMAIN told /\ r[k].node \in DOMAIN told
        BY <2>1, <3>2
      <4>2. CASE i = k
        BY <3>1, <4>1, <4>2
      <4>3. CASE i # k
        <5>1. told[r[i].node] = d
          BY <3>2, <3>3, <4>3 DEF Told
        <5> QED BY <3>1, <4>1, <5>1
      <4> QED BY <4>2, <4>3
    <3>6. CASE k < Len(r)
      <4>1. Told(d, hop[d] - 1)'
        BY <3>1, <3>2, <3>5, <3>6 DEF Told
      <4> QED BY <2>4, <2>5, <3>1, <3>4, <3>6, <4>1 DEF Halfway, Settles
    <3>7. CASE ~(k < Len(r))
      <4>1. Settled'
        BY <3>1, <3>2, <3>3, <3>4, <3>5, <3>7 DEF Settled, InForce, Marked, Told
      <4> QED BY <2>4, <2>6, <3>1, <3>7, <4>1 DEF Settles
    <3> QED BY <3>6, <3>7
  <2>13. CASE Register(d)
    <3>1. /\ pc[d] = "registering" /\ pc'[d] \in {"failed", "done"}
          /\ UNCHANGED <<roadVars, told, armed, route, now>>
      BY <2>1, <2>13 DEF Register
    <3>2. Settled'
      BY <1>3, <2>2, <3>1 DEF Settles, InFlight, Settled, InForce, Marked, Told
    <3> QED BY <2>4, <2>6, <3>1, <3>2 DEF Settles
  <2> QED BY <1>8, <2>8, <2>9, <2>10, <2>11, <2>12, <2>13 DEF Dispatch
<1>9. CASE UNCHANGED vars
  BY <1>3, <1>4, <1>9 DEF vars, InTime
<1> QED BY <1>5, <1>6, <1>7, <1>8, <1>9 DEF Next, Updater

\* As long as dispatches came one at a time and none outlasted its expiry, whenever
\* none is in progress the corridor is off, or exactly the latest dispatch's roads with
\* its expiry, and every light on that route was last told by it: what a dispatch marks
\* road by road and light by light ends up whole.
THEOREM CorridorWhole == Spec => []CorridorExact
<1>1. Init => ArmedIsPast /\ ExpiryOwned /\ Unrushed
  BY DEF Init, ArmedIsPast, ExpiryOwned, Unrushed, OneAtATime, InFlight, InTime, Halfway,
         Settles, Settled
<1>2. TypeOK /\ HopsOnRoute /\ ArmedIsPast /\ ExpiryOwned /\ Unrushed /\ [Next]_vars
        => ArmedIsPast' /\ ExpiryOwned' /\ Unrushed'
  BY ExpiryInductive, UnrushedInductive
<1>3. TypeOK /\ Unrushed => CorridorExact
  <2> SUFFICES ASSUME TypeOK, Unrushed, Quiet, ~rushed PROVE Settled
    BY SettledIsExact DEF CorridorExact
  <2> QED BY DEF Unrushed, Settles, Quiet, InFlight
<1> QED BY <1>1, <1>2, <1>3, TypeCorrect, PTL DEF Spec
=============================================================================
