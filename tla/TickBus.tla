------------------------------- MODULE TickBus -------------------------------
(***************************************************************************)
(* How time reaches the engine's goroutines, and how they are shut down.   *)
(*                                                                         *)
(*   clock goroutine --chan--> tick driver --tickCond--> workers           *)
(*                                                                         *)
(* capstone/internal/sim/clock.go and the tick driver, waitTick, Start and *)
(* Stop of capstone/internal/engine/engine.go.  A worker is the loop of an *)
(* intersection, of a vehicle or of the congestion updater; what it does   *)
(* with its tick is in Intersection, Traffic and Corridor.                 *)
(***************************************************************************)
EXTENDS Naturals, Sequences, FiniteSets, SequenceTheorems, TLAPS

CONSTANTS
  Intersections,  \* goroutines started by Start that recheck ctx (intersection.run)
  Updater,        \* the congestion-updater goroutine, started by Start
  Vehicles,       \* goroutines started by RegisterVehicle, at any time
  MaxTicks,       \* bound on the ticks the clock produces
  ChanCap         \* capacity of the clock's channel (1 in RealClock)

Driver == "driver"
Started == Intersections \cup {Updater}
Workers == Started \cup Vehicles

ASSUME TickBusConstants ==
  /\ MaxTicks \in Nat /\ ChanCap \in Nat \ {0}
  /\ Driver \notin Workers
  /\ Started \cap Vehicles = {}

VARIABLES
  clock,       \* clock goroutine: "select", "send" or "exited"
  clockN,      \* its counter n
  chan,        \* ticks in the channel
  chanClosed,
  rootDone,    \* the context given to NewRealClock and Start is cancelled
  runDone,     \* runCtx, derived from it, is cancelled
  driver,      \* tick driver: "select", "publish", "closing" or "exited"
  got,         \* the tick the driver has received
  tickN, tickClosed,
  worker,      \* worker[g]: "absent", "ready", "asleep", "got", "work" or "done"
  last,        \* last[g]: the last tick waitTick returned to g
  tracked,     \* goroutines counted by wg: its counter is their number
  stop         \* the first caller of Stop: "idle", "cancelled", "waiting", "returned"

clockVars  == <<clock, clockN>>
chanVars   == <<chan, chanClosed>>
ctxVars    == <<rootDone, runDone>>
driverVars == <<driver, got>>
tickVars   == <<tickN, tickClosed>>
workVars   == <<worker, last>>
vars == <<clockVars, chanVars, ctxVars, driverVars, tickVars, workVars, tracked, stop>>

Init ==
  /\ clock = "select" /\ clockN = 0
  /\ chan = <<>> /\ chanClosed = FALSE
  /\ rootDone = FALSE /\ runDone = FALSE
  /\ driver = "select" /\ got = 0
  /\ tickN = 0 /\ tickClosed = FALSE
  /\ worker = [g \in Workers |-> IF g \in Started THEN "ready" ELSE "absent"]
  /\ last = [g \in Workers |-> 0]
  /\ tracked = Started \cup {Driver}
  /\ stop = "idle"

\* tickCond.Broadcast: everyone waiting rechecks the condition.
Woken == [g \in Workers |-> IF worker[g] = "asleep" THEN "ready" ELSE worker[g]]

-----------------------------------------------------------------------------
(* RealClock's goroutine. *)

ClockTick ==
  /\ clock = "select" /\ clockN < MaxTicks
  /\ clockN' = clockN + 1 /\ clock' = "send"
  /\ UNCHANGED <<chanVars, ctxVars, driverVars, tickVars, workVars, tracked, stop>>

\* rc.c <- Tick{N: n} is not in the select: it blocks while the channel is full.
ClockSend ==
  /\ clock = "send" /\ Len(chan) < ChanCap
  /\ chan' = Append(chan, clockN) /\ clock' = "select"
  /\ UNCHANGED <<clockN, chanClosed, ctxVars, driverVars, tickVars, workVars, tracked, stop>>

ClockStop ==
  /\ clock = "select" /\ rootDone
  /\ chanClosed' = TRUE /\ clock' = "exited"
  /\ UNCHANGED <<clockN, chan, ctxVars, driverVars, tickVars, workVars, tracked, stop>>

-----------------------------------------------------------------------------
(* The tick driver: a select over ctx.Done and the clock's channel. *)

DriverDone ==
  /\ driver = "select" /\ runDone
  /\ driver' = "closing"
  /\ UNCHANGED <<clockVars, chanVars, ctxVars, got, tickVars, workVars, tracked, stop>>

DriverReceive ==
  /\ driver = "select" /\ chan # <<>>
  /\ got' = Head(chan) /\ chan' = Tail(chan) /\ driver' = "publish"
  /\ UNCHANGED <<clockVars, chanClosed, ctxVars, tickVars, workVars, tracked, stop>>

DriverChanClosed ==
  /\ driver = "select" /\ chan = <<>> /\ chanClosed
  /\ driver' = "closing"
  /\ UNCHANGED <<clockVars, chanVars, ctxVars, got, tickVars, workVars, tracked, stop>>

\* Broken variants: the tick, or the close, is not broadcast.
DriverPublish_NoBroadcast ==
  /\ driver = "publish"
  /\ tickN' = got /\ driver' = "select"
  /\ UNCHANGED <<clockVars, chanVars, ctxVars, got, tickClosed, workVars, tracked, stop>>

DriverClose_NoBroadcast ==
  /\ driver = "closing"
  /\ tickClosed' = TRUE /\ driver' = "exited"
  /\ tracked' = tracked \ {Driver}
  /\ UNCHANGED <<clockVars, chanVars, ctxVars, got, tickN, workVars, stop>>

DriverPublish ==
  /\ driver = "publish"
  /\ tickN' = got /\ worker' = Woken /\ driver' = "select"
  /\ UNCHANGED <<clockVars, chanVars, ctxVars, got, tickClosed, last, tracked, stop>>

DriverClose ==
  /\ driver = "closing"
  /\ tickClosed' = TRUE /\ worker' = Woken /\ driver' = "exited"
  /\ tracked' = tracked \ {Driver}
  /\ UNCHANGED <<clockVars, chanVars, ctxVars, got, tickN, last, stop>>

-----------------------------------------------------------------------------
(* A worker's loop.  Each pass of waitTick's for loop runs under tickMu. *)

WaitTickClosed(g) ==
  /\ worker[g] = "ready" /\ tickClosed
  /\ worker' = [worker EXCEPT ![g] = "done"]
  /\ tracked' = tracked \ {g}
  /\ UNCHANGED <<clockVars, chanVars, ctxVars, driverVars, tickVars, last, stop>>

WaitTickSleep(g) ==
  /\ worker[g] = "ready" /\ ~tickClosed /\ tickN < last[g] + 1
  /\ worker' = [worker EXCEPT ![g] = "asleep"]
  /\ UNCHANGED <<clockVars, chanVars, ctxVars, driverVars, tickVars, last, tracked, stop>>

WaitTickReturn(g) ==
  /\ worker[g] = "ready" /\ ~tickClosed /\ tickN >= last[g] + 1
  /\ last' = [last EXCEPT ![g] = @ + 1]
  /\ worker' = [worker EXCEPT ![g] = IF g \in Intersections THEN "got" ELSE "work"]
  /\ UNCHANGED <<clockVars, chanVars, ctxVars, driverVars, tickVars, tracked, stop>>

\* intersection.run looks at ctx between waitTick and step.
CheckContext(g) ==
  /\ worker[g] = "got"
  /\ IF runDone
     THEN worker' = [worker EXCEPT ![g] = "done"] /\ tracked' = tracked \ {g}
     ELSE worker' = [worker EXCEPT ![g] = "work"] /\ UNCHANGED tracked
  /\ UNCHANGED <<clockVars, chanVars, ctxVars, driverVars, tickVars, last, stop>>

\* step or updateCongestion returns.
FinishWork(g) ==
  /\ worker[g] = "work"
  /\ worker' = [worker EXCEPT ![g] = "ready"]
  /\ UNCHANGED <<clockVars, chanVars, ctxVars, driverVars, tickVars, last, tracked, stop>>

Worker(g) ==
  \/ WaitTickClosed(g) \/ WaitTickSleep(g) \/ WaitTickReturn(g)
  \/ CheckContext(g) \/ FinishWork(g)

-----------------------------------------------------------------------------
(* Calls from outside: the API, main and the signal handler. *)

\* RegisterVehicle's wg.Add and go: nothing keeps it from running after Stop.
Launch(v) ==
  /\ worker[v] = "absent"
  /\ worker' = [worker EXCEPT ![v] = "ready"]
  /\ tracked' = tracked \cup {v}
  /\ UNCHANGED <<clockVars, chanVars, ctxVars, driverVars, tickVars, last, stop>>

\* The process's context is cancelled (a signal, or main returning).
CancelRoot ==
  /\ ~rootDone
  /\ rootDone' = TRUE /\ runDone' = TRUE
  /\ UNCHANGED <<clockVars, chanVars, driverVars, tickVars, workVars, tracked, stop>>

StopCancel ==
  /\ stop = "idle"
  /\ runDone' = TRUE /\ stop' = "cancelled"
  /\ UNCHANGED <<clockVars, chanVars, rootDone, driverVars, tickVars, workVars, tracked>>

StopClose ==
  /\ stop = "cancelled"
  /\ tickClosed' = TRUE /\ worker' = Woken /\ stop' = "waiting"
  /\ UNCHANGED <<clockVars, chanVars, ctxVars, driverVars, tickN, last, tracked>>

\* Broken variant: Stop does not wait for wg.
StopReturn_NoWait ==
  /\ stop = "waiting"
  /\ stop' = "returned"
  /\ UNCHANGED <<clockVars, chanVars, ctxVars, driverVars, tickVars, workVars, tracked>>

StopReturn ==
  /\ stop = "waiting" /\ tracked = {}
  /\ stop' = "returned"
  /\ UNCHANGED <<clockVars, chanVars, ctxVars, driverVars, tickVars, workVars, tracked>>

Clock == ClockTick \/ ClockSend \/ ClockStop
DriverStep == DriverDone \/ DriverReceive \/ DriverChanClosed \/ DriverPublish \/ DriverClose
Stopper == StopClose \/ StopReturn

Next ==
  \/ Clock \/ DriverStep
  \/ \E g \in Workers : Worker(g)
  \/ \E v \in Vehicles : Launch(v)
  \/ CancelRoot \/ StopCancel \/ Stopper

Spec == Init /\ [][Next]_vars

\* Goroutines that can run do run; a select with several ready cases picks one
\* at random, so a case that is ready again and again is picked (SF).  Nobody
\* has to cancel, stop or register anything.
Fairness ==
  /\ WF_vars(Clock) /\ SF_vars(ClockStop)
  /\ WF_vars(DriverStep) /\ SF_vars(DriverDone)
  /\ \A g \in Workers : WF_vars(Worker(g))
  /\ WF_vars(Stopper)

FairSpec == Spec /\ Fairness

-----------------------------------------------------------------------------
(* Properties *)

TypeOK ==
  /\ clock \in {"select", "send", "exited"} /\ clockN \in Nat
  /\ chan \in Seq(Nat) /\ Len(chan) <= ChanCap /\ chanClosed \in BOOLEAN
  /\ rootDone \in BOOLEAN /\ runDone \in BOOLEAN
  /\ driver \in {"select", "publish", "closing", "exited"} /\ got \in Nat
  /\ tickN \in Nat /\ tickClosed \in BOOLEAN
  /\ worker \in [Workers -> {"absent", "ready", "asleep", "got", "work", "done"}]
  /\ last \in [Workers -> Nat]
  /\ tracked \subseteq Workers \cup {Driver}
  /\ stop \in {"idle", "cancelled", "waiting", "returned"}

\* Once Stop has returned no step is running, and none ever starts: not even
\* that of a vehicle registered while Stop waited or after it returned.
QuietAfterStop ==
  stop = "returned" => \A g \in Workers : worker[g] \notin {"asleep", "got", "work"}

\* Every worker is handed every published tick, unless the engine is shut down.
EveryTickHanded ==
  \A g \in Workers, n \in 1..MaxTicks :
    (tickN >= n /\ worker[g] # "absent") ~> (last[g] >= n \/ tickClosed)

\* A shutdown ends: Stop returns, whatever it interrupts, and cancelling the context alone
\* releases every goroutine that Start and RegisterVehicle launched.
ShutdownEnds ==
  /\ stop = "cancelled" ~> stop = "returned"
  /\ rootDone ~> \A g \in Workers : worker[g] \in {"absent", "done"}

-----------------------------------------------------------------------------
(* What is proved, for any number of intersections and vehicles, any channel capacity *)
(* and any number of ticks. *)

\* Types are right in every reachable state: in particular the clock's channel
\* never holds more than its capacity.
THEOREM TypeCorrect == Spec => []TypeOK
<1>1. Init => TypeOK
  <2> SUFFICES ASSUME Init PROVE TypeOK
    OBVIOUS
  <2>1. chan \in Seq(Nat) /\ Len(chan) <= ChanCap
    BY TickBusConstants, EmptySeq DEF Init
  <2>2. worker \in [Workers -> {"absent", "ready", "asleep", "got", "work", "done"}]
    BY DEF Init
  <2> QED BY <2>1, <2>2 DEF Init, TypeOK, Workers
<1>2. TypeOK /\ [Next]_vars => TypeOK'
  <2> SUFFICES ASSUME TypeOK, [Next]_vars PROVE TypeOK'
    OBVIOUS
  <2> USE DEF TypeOK, clockVars, chanVars, ctxVars, driverVars, tickVars, workVars
  <2>a. Woken \in [Workers -> {"absent", "ready", "asleep", "got", "work", "done"}]
    BY DEF Woken
  <2>1. CASE ClockTick
    BY <2>1 DEF ClockTick
  <2>2. CASE ClockSend
    <3>1. chan' \in Seq(Nat) /\ Len(chan') = Len(chan) + 1
      BY <2>2, AppendProperties DEF ClockSend
    <3>2. Len(chan') <= ChanCap
      BY <2>2, <3>1, LenProperties, TickBusConstants DEF ClockSend
    <3> QED BY <2>2, <3>1, <3>2 DEF ClockSend
  <2>3. CASE ClockStop
    BY <2>3 DEF ClockStop
  <2>4. CASE DriverReceive
    <3>1. /\ Head(chan) \in Nat /\ chan' \in Seq(Nat)
          /\ Len(chan') = Len(chan) - 1
      BY <2>4, HeadTailProperties DEF DriverReceive
    <3>2. Len(chan') <= ChanCap
      BY <3>1, LenProperties, TickBusConstants
    <3> QED BY <2>4, <3>1, <3>2 DEF DriverReceive
  <2>5. CASE DriverDone \/ DriverChanClosed
    BY <2>5 DEF DriverDone, DriverChanClosed
  <2>6. CASE DriverPublish
    BY <2>a, <2>6 DEF DriverPublish
  <2>7. CASE DriverClose
    BY <2>a, <2>7 DEF DriverClose
  <2>8. ASSUME NEW g \in Workers, Worker(g) PROVE TypeOK'
    <3>1. CASE WaitTickClosed(g)
      BY <3>1 DEF WaitTickClosed
    <3>2. CASE WaitTickSleep(g)
      BY <3>2 DEF WaitTickSleep
    <3>3. CASE WaitTickReturn(g)
      BY <3>3 DEF WaitTickReturn
    <3>4. CASE CheckContext(g)
      BY <3>4 DEF CheckContext
    <3>5. CASE FinishWork(g)
      BY <3>5 DEF FinishWork
    <3> QED BY <2>8, <3>1, <3>2, <3>3, <3>4, <3>5 DEF Worker
  <2>9. ASSUME NEW v \in Vehicles, Launch(v) PROVE TypeOK'
    BY <2>9 DEF Launch, Workers
  <2>10. CASE CancelRoot \/ StopCancel
    BY <2>10 DEF CancelRoot, StopCancel
  <2>11. CASE StopClose
    BY <2>a, <2>11 DEF StopClose
  <2>12. CASE StopReturn
    BY <2>12 DEF StopReturn
  <2>13. CASE UNCHANGED vars
    BY <2>13 DEF vars
  <2> QED
    BY <2>1, <2>2, <2>3, <2>4, <2>5, <2>6, <2>7, <2>8, <2>9, <2>10, <2>11, <2>12, <2>13
    DEF Next, Clock, DriverStep, Stopper
<1> QED BY <1>1, <1>2, PTL DEF Spec

-----------------------------------------------------------------------------
(* Shutting down. *)

Running == {"ready", "asleep", "got", "work"}

\* What Stop relies on: the ticks are closed before it waits, a goroutine that is
\* in its loop is one that wg counts, and after the wait no step is under way.
Quiescing ==
  /\ stop \in {"waiting", "returned"} => tickClosed
  /\ \A g \in Workers : worker[g] \in Running => g \in tracked
  /\ QuietAfterStop

\* Once Stop has returned no step is running and none ever starts: Stop waits for
\* every goroutine of wg, and a vehicle registered since finds the ticks closed.
THEOREM StopQuiets == Spec => []QuietAfterStop
<1>1. Init => Quiescing
  BY DEF Init, Quiescing, QuietAfterStop, Running, Workers
<1>2. TypeOK /\ Quiescing /\ [Next]_vars => Quiescing'
  <2> SUFFICES ASSUME TypeOK, Quiescing, [Next]_vars PROVE Quiescing'
    OBVIOUS
  <2> USE DEF Quiescing, QuietAfterStop, Running,
              clockVars, chanVars, ctxVars, driverVars, tickVars, workVars
  <2>a. /\ worker \in [Workers -> {"absent", "ready", "asleep", "got", "work", "done"}]
        /\ tracked \subseteq Workers \cup {Driver}
        /\ Driver \notin Workers
    BY TickBusConstants DEF TypeOK
  <2>b. \A g \in Workers : /\ Woken[g] \in Running <=> worker[g] \in Running
                           /\ Woken[g] \in {"asleep", "got", "work"}
                              => worker[g] \in {"asleep", "got", "work"}
    BY <2>a DEF Woken
  <2>1. CASE Clock
    BY <2>1 DEF Clock, ClockTick, ClockSend, ClockStop
  <2>2. CASE DriverDone \/ DriverReceive \/ DriverChanClosed
    BY <2>2 DEF DriverDone, DriverReceive, DriverChanClosed
  <2>3. CASE DriverPublish
    BY <2>a, <2>b, <2>3 DEF DriverPublish
  <2>4. CASE DriverClose
    BY <2>a, <2>b, <2>4 DEF DriverClose
  <2>5. ASSUME NEW g \in Workers, Worker(g) PROVE Quiescing'
    <3>1. CASE WaitTickClosed(g)
      BY <2>a, <3>1 DEF WaitTickClosed
    <3>2. CASE WaitTickSleep(g) \/ WaitTickReturn(g)
      <4>1. stop \notin {"waiting", "returned"} /\ stop' = stop
        BY <3>2 DEF WaitTickSleep, WaitTickReturn
      <4> QED BY <2>a, <3>2, <4>1 DEF WaitTickSleep, WaitTickReturn
    <3>3. CASE CheckContext(g)
      BY <2>a, <3>3 DEF CheckContext
    <3>4. CASE FinishWork(g)
      BY <2>a, <3>4 DEF FinishWork
    <3> QED BY <2>5, <3>1, <3>2, <3>3, <3>4 DEF Worker
  <2>6. ASSUME NEW v \in Vehicles, Launch(v) PROVE Quiescing'
    BY <2>a, <2>6 DEF Launch, Workers
  <2>7. CASE CancelRoot \/ StopCancel
    BY <2>7 DEF CancelRoot, StopCancel
  <2>8. CASE StopClose
    BY <2>a, <2>b, <2>8 DEF StopClose
  <2>9. CASE StopReturn
    BY <2>9 DEF StopReturn
  <2>10. CASE UNCHANGED vars
    BY <2>10 DEF vars
  <2> QED
    BY <2>1, <2>2, <2>3, <2>4, <2>5, <2>6, <2>7, <2>8, <2>9, <2>10
    DEF Next, DriverStep, Stopper
<1>3. Quiescing => QuietAfterStop
  BY DEF Quiescing
<1> QED BY <1>1, <1>2, <1>3, TypeCorrect, PTL DEF Spec
=============================================================================
