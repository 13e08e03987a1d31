------------------------------ MODULE Pipeline ------------------------------
(***************************************************************************)
(* The IoT sensor pipeline (09-day/iot-pipeline): sensors send readings    *)
(* into a buffered channel, processors take them, record them and send     *)
(* alerts for the anomalous ones into a second channel, and one handler    *)
(* takes the alerts.  A context that expires, two channels closed in turn  *)
(* and three wait groups bring it all to an end.                           *)
(***************************************************************************)
EXTENDS Naturals, Sequences, FiniteSets

CONSTANTS
  Sensors, Processors, NoSensor,
  ReadingsCap, AlertsCap,   \* capacities of the channels
  MaxReadings               \* bound: what one sensor measures in a run

ASSUME PipelineConstants ==
  /\ ReadingsCap \in Nat \ {0} /\ AlertsCap \in Nat \ {0} /\ MaxReadings \in Nat
  /\ NoSensor \notin Sensors
  /\ IsFiniteSet(Sensors) /\ IsFiniteSet(Processors)

VARIABLES
  expired,    \* ctx is done
  main,       \* where main waits: "ctx", "sensors", "processors", "handler"; "done"
  sensor,     \* "timer", "offer", "exit"; "dropped": left with a reading in hand
  made,       \* readings measured so far, by sensor
  readings,   \* the ingestion channel: the sensors they come from
  proc,       \* [at, of]: "select", "alert", "count", "sleep", "exit"; "quit": by ctx
  processed,  \* Stats: readings recorded, by sensor
  alertsBySensor,  \* Stats: alerts recorded, by sensor
  alerts,     \* the alert channel: sensors
  handler,    \* "select" or "exit"
  lastAlert,  \* the sensors whose last alert is less than a cooldown ago
  handled     \* history: alerts the handler took, by sensor

sensorVars == <<sensor, made>>
stats == <<processed, alertsBySensor>>
processorVars == <<proc, stats>>
handlerVars == <<handler, lastAlert, handled>>
vars == <<expired, main, sensorVars, readings, processorVars, alerts, handlerVars>>

Init ==
  /\ expired = FALSE /\ main = "ctx"
  /\ sensor = [s \in Sensors |-> "timer"] /\ made = [s \in Sensors |-> 0]
  /\ proc = [p \in Processors |-> [at |-> "select", of |-> NoSensor]]
  /\ processed = [s \in Sensors |-> 0] /\ alertsBySensor = [s \in Sensors |-> 0]
  /\ readings = <<>> /\ alerts = <<>>
  /\ handler = "select" /\ lastAlert = {} /\ handled = [s \in Sensors |-> 0]

\* What main's position says of the channels: it closes them as it goes.
ReadingsClosed == main \in {"processors", "handler", "done"}
AlertsClosed == main \in {"handler", "done"}

-----------------------------------------------------------------------------
(* RunSensor *)

Measure(s) ==
  /\ sensor[s] = "timer" /\ made[s] < MaxReadings
  /\ sensor' = [sensor EXCEPT ![s] = "offer"]
  /\ made' = [made EXCEPT ![s] = @ + 1]
  /\ UNCHANGED <<expired, main, readings, processorVars, alerts, handlerVars>>

Offer(s) ==
  /\ sensor[s] = "offer" /\ Len(readings) < ReadingsCap
  /\ readings' = Append(readings, s)
  /\ sensor' = [sensor EXCEPT ![s] = "timer"]
  /\ UNCHANGED <<expired, main, made, processorVars, alerts, handlerVars>>

\* Both selects listen to the context; the second leaves a reading unsent.
SensorExit(s) ==
  /\ expired /\ sensor[s] \in {"timer", "offer"}
  /\ sensor' = [sensor EXCEPT ![s] = IF @ = "offer" THEN "dropped" ELSE "exit"]
  /\ UNCHANGED <<expired, main, made, readings, processorVars, alerts, handlerVars>>

-----------------------------------------------------------------------------
(* RunProcessor *)

\* The value decides, and for motion the hour: any reading may be anomalous.
DetectAnomaly == BOOLEAN

\* A reading is received and recorded; nobody looks at the statistics in between.
Process(p) ==
  /\ proc[p].at = "select" /\ readings # <<>>
  /\ processed' = [processed EXCEPT ![Head(readings)] = @ + 1]
  /\ \E detected \in DetectAnomaly :
       proc' = [proc EXCEPT ![p] = [at |-> IF detected THEN "alert" ELSE "sleep",
                                    of |-> Head(readings)]]
  /\ readings' = Tail(readings)
  /\ UNCHANGED <<expired, main, sensorVars, alertsBySensor, alerts, handlerVars>>

SendAlert(p) ==
  /\ proc[p].at = "alert" /\ Len(alerts) < AlertsCap
  /\ alerts' = Append(alerts, proc[p].of)
  /\ proc' = [proc EXCEPT ![p].at = "count"]
  /\ UNCHANGED <<expired, main, sensorVars, readings, stats, handlerVars>>

\* A full alert channel does not hold up the end, at the price of an alert and of
\* the readings this processor would have taken.
Quit(p) ==
  /\ proc[p].at = "alert" /\ expired
  /\ proc' = [proc EXCEPT ![p].at = "quit"]
  /\ UNCHANGED <<expired, main, sensorVars, readings, stats, alerts, handlerVars>>

\* The alert is counted after it was sent: the handler may have it by then.
RecordAlert(p) ==
  /\ proc[p].at = "count"
  /\ alertsBySensor' = [alertsBySensor EXCEPT ![proc[p].of] = @ + 1]
  /\ proc' = [proc EXCEPT ![p].at = "sleep"]
  /\ UNCHANGED <<expired, main, sensorVars, readings, processed, alerts, handlerVars>>

Sleep(p) ==
  /\ proc[p].at = "sleep"
  /\ proc' = [proc EXCEPT ![p] = [at |-> "select", of |-> NoSensor]]
  /\ UNCHANGED <<expired, main, sensorVars, readings, stats, alerts, handlerVars>>

\* Broken variant: a closed channel ends the processor although readings are left.
ProcessorExit_LeavesReadings(p) ==
  /\ proc[p].at = "select" /\ ReadingsClosed
  /\ proc' = [proc EXCEPT ![p].at = "exit"]
  /\ UNCHANGED <<expired, main, sensorVars, readings, stats, alerts, handlerVars>>

\* Broken variant: the processor does not ask whether the channel is closed, and
\* takes its zero value for a reading.
ProcessorExit_NotOk(p) ==
  /\ proc[p].at = "select" /\ ReadingsClosed /\ readings = <<>>
  /\ proc' = [proc EXCEPT ![p].at = "sleep"]
  /\ UNCHANGED <<expired, main, sensorVars, readings, stats, alerts, handlerVars>>

ProcessorExit(p) ==
  /\ proc[p].at = "select" /\ ReadingsClosed /\ readings = <<>>
  /\ proc' = [proc EXCEPT ![p].at = "exit"]
  /\ UNCHANGED <<expired, main, sensorVars, readings, stats, alerts, handlerVars>>

-----------------------------------------------------------------------------
(* RunAlertHandler *)

\* The first alert of a sensor, and one after its cooldown, is shown and starts
\* another cooldown; the others are suppressed.
Handle ==
  /\ handler = "select" /\ alerts # <<>>
  /\ alerts' = Tail(alerts)
  /\ lastAlert' = lastAlert \cup {Head(alerts)}
  /\ handled' = [handled EXCEPT ![Head(alerts)] = @ + 1]
  /\ UNCHANGED <<expired, main, sensorVars, readings, processorVars, handler>>

CooldownEnds(s) ==
  /\ s \in lastAlert
  /\ lastAlert' = lastAlert \ {s}
  /\ UNCHANGED <<expired, main, sensorVars, readings, processorVars, alerts, handler, handled>>

HandlerExit ==
  /\ handler = "select" /\ AlertsClosed /\ alerts = <<>>
  /\ handler' = "exit"
  /\ UNCHANGED <<expired, main, sensorVars, readings, processorVars, alerts, lastAlert, handled>>

-----------------------------------------------------------------------------
(* main *)

Expire ==
  /\ ~expired /\ expired' = TRUE
  /\ UNCHANGED <<main, sensorVars, readings, processorVars, alerts, handlerVars>>

SensorsGone == \A s \in Sensors : sensor[s] \in {"exit", "dropped"}
ProcessorsGone == \A p \in Processors : proc[p].at \in {"exit", "quit"}

Awaken(from, to, condition) ==
  /\ main = from /\ condition /\ main' = to
  /\ UNCHANGED <<expired, sensorVars, readings, processorVars, alerts, handlerVars>>

SeeExpiry == Awaken("ctx", "sensors", expired)
CloseReadings == Awaken("sensors", "processors", SensorsGone)
\* Broken variant: the alert channel is closed as soon as the readings are.
CloseAlerts_NoWait == Awaken("processors", "handler", TRUE)
CloseAlerts == Awaken("processors", "handler", ProcessorsGone)
Report == Awaken("handler", "done", handler = "exit")

Finished == main = "done" /\ UNCHANGED vars

-----------------------------------------------------------------------------

SensorStep(s) == Measure(s) \/ Offer(s) \/ SensorExit(s)
ProcessorStep(p) == \/ Process(p) \/ SendAlert(p) \/ Quit(p)
                    \/ RecordAlert(p) \/ Sleep(p) \/ ProcessorExit(p)
HandlerStep == Handle \/ HandlerExit
MainStep == SeeExpiry \/ CloseReadings \/ CloseAlerts \/ Report

Next ==
  \/ \E s \in Sensors : SensorStep(s) \/ CooldownEnds(s)
  \/ \E p \in Processors : ProcessorStep(p)
  \/ HandlerStep \/ MainStep \/ Expire \/ Finished

\* Goroutines run, and the context's ten seconds pass.
Fairness ==
  /\ \A s \in Sensors : WF_vars(SensorStep(s))
  /\ \A p \in Processors : WF_vars(ProcessorStep(p))
  /\ WF_vars(HandlerStep) /\ WF_vars(MainStep) /\ WF_vars(Expire)

Spec == Init /\ [][Next]_vars /\ Fairness

-----------------------------------------------------------------------------
(* Properties *)

TypeOK ==
  /\ expired \in BOOLEAN
  /\ main \in {"ctx", "sensors", "processors", "handler", "done"}
  /\ sensor \in [Sensors -> {"timer", "offer", "exit", "dropped"}]
  /\ made \in [Sensors -> Nat]
  /\ readings \in Seq(Sensors) /\ Len(readings) <= ReadingsCap
  /\ proc \in [Processors -> [at : {"select", "alert", "count", "sleep", "exit", "quit"},
                              of : Sensors \cup {NoSensor}]]
  /\ \A p \in Processors : proc[p].at \in {"alert", "count"} => proc[p].of \in Sensors
  /\ processed \in [Sensors -> Nat] /\ alertsBySensor \in [Sensors -> Nat]
  /\ alerts \in Seq(Sensors) /\ Len(alerts) <= AlertsCap
  /\ handler \in {"select", "exit"} /\ lastAlert \subseteq Sensors
  /\ handled \in [Sensors -> Nat]

\* No goroutine can still send into a channel that main has closed, where Go would
\* panic: main closes each only when everyone who sends into it is gone.
NoSendAfterClose ==
  /\ ReadingsClosed => \A s \in Sensors : sensor[s] # "offer"
  /\ AlertsClosed => \A p \in Processors : proc[p].at # "alert"

Count(channel, s) == Cardinality({i \in DOMAIN channel : channel[i] = s})
At(place, s) == Cardinality({p \in Processors : proc[p].at = place /\ proc[p].of = s})

\* Each reading is recorded, or in the channel, or in its sensor's hand; each alert
\* that the handler took was counted, or is about to be.  So the figures main prints
\* are exact, and a reading is left over only if no processor stayed to the end.
NothingLost ==
  /\ \A s \in Sensors :
       /\ made[s] = processed[s] + Count(readings, s)
                    + (IF sensor[s] \in {"offer", "dropped"} THEN 1 ELSE 0)
       /\ alertsBySensor[s] + At("count", s) = handled[s] + Count(alerts, s)
  /\ main = "done" =>
       /\ alerts = <<>> /\ alertsBySensor = handled
       /\ readings # <<>> => \A p \in Processors : proc[p].at = "quit"

\* Once the context expires every goroutine ends and main reports, whatever is full
\* at that moment.
ShutdownCompletes == expired ~> main = "done"
=============================================================================
