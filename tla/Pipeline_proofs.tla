--------------------------- MODULE Pipeline_proofs ---------------------------
(***************************************************************************)
(* For any number of sensors and processors and any capacities: the        *)
(* pipeline keeps its types, no goroutine sends into a closed channel, and *)
(* no reading or alert is lost on the way.                                 *)
(***************************************************************************)
EXTENDS Pipeline, FiniteSetTheorems, SequenceTheorems, TLAPS

\* Types are right in every reachable state: in particular neither channel ever
\* holds more than its capacity.
THEOREM TypeCorrect == Spec => []TypeOK
<1>1. Init => TypeOK
  <2> SUFFICES ASSUME Init PROVE TypeOK
    OBVIOUS
  <2>1. /\ readings \in Seq(Sensors) /\ Len(readings) <= ReadingsCap
        /\ alerts \in Seq(Sensors) /\ Len(alerts) <= AlertsCap
    BY PipelineConstants, EmptySeq DEF Init
  <2>2. proc \in [Processors -> [at : {"select", "alert", "count", "sleep", "exit", "quit"},
                                of : Sensors \cup {NoSensor}]]
    BY DEF Init
  <2> QED BY <2>1, <2>2 DEF Init, TypeOK
<1>2. TypeOK /\ [Next]_vars => TypeOK'
  <2> SUFFICES ASSUME TypeOK, [Next]_vars PROVE TypeOK'
    OBVIOUS
  <2> USE DEF TypeOK, sensorVars, processorVars, stats, handlerVars
  <2>1. ASSUME NEW s \in Sensors, Measure(s) PROVE TypeOK'
    BY <2>1 DEF Measure
  <2>2. ASSUME NEW s \in Sensors, Offer(s) PROVE TypeOK'
    <3>1. readings' \in Seq(Sensors) /\ Len(readings') = Len(readings) + 1
      BY <2>2, AppendProperties DEF Offer
    <3>2. Len(readings') <= ReadingsCap
      BY <2>2, <3>1, LenProperties, PipelineConstants DEF Offer
    <3> QED BY <2>2, <3>1, <3>2 DEF Offer
  <2>3. ASSUME NEW s \in Sensors, SensorExit(s) PROVE TypeOK'
    BY <2>3 DEF SensorExit
  <2>4. ASSUME NEW s \in Sensors, CooldownEnds(s) PROVE TypeOK'
    BY <2>4 DEF CooldownEnds
  <2>5. ASSUME NEW p \in Processors, Process(p) PROVE TypeOK'
    <3> DEFINE s == Head(readings)
    <3>1. PICK detected \in BOOLEAN :
            /\ proc' = [proc EXCEPT ![p] = [at |-> IF detected THEN "alert" ELSE "sleep",
                                            of |-> s]]
            /\ processed' = [processed EXCEPT ![s] = @ + 1]
            /\ readings # <<>> /\ readings' = Tail(readings)
            /\ UNCHANGED <<expired, main, sensorVars, alertsBySensor, alerts, handlerVars>>
      BY <2>5 DEF Process, DetectAnomaly
    <3>2. /\ s \in Sensors
          /\ readings' \in Seq(Sensors)
          /\ Len(readings') = Len(readings) - 1
      BY <3>1, HeadTailProperties
    <3>3. Len(readings') <= ReadingsCap
      BY <3>2, LenProperties, PipelineConstants
    <3> HIDE DEF s
    <3>4. proc' \in [Processors -> [at : {"select", "alert", "count", "sleep", "exit", "quit"},
                                    of : Sensors \cup {NoSensor}]]
      BY <3>1, <3>2
    <3>5. \A q \in Processors : proc'[q].at \in {"alert", "count"} => proc'[q].of \in Sensors
      BY <3>1, <3>2
    <3>6. processed' \in [Sensors -> Nat]
      BY <3>1, <3>2
    <3>7. UNCHANGED <<expired, main, sensor, made, alertsBySensor, alerts,
                      handler, lastAlert, handled>>
      BY <3>1
    <3> QED BY <3>2, <3>3, <3>4, <3>5, <3>6, <3>7
  <2>6. ASSUME NEW p \in Processors, SendAlert(p) PROVE TypeOK'
    <3>1. proc[p].of \in Sensors
      BY <2>6 DEF SendAlert
    <3>2. alerts' \in Seq(Sensors) /\ Len(alerts') = Len(alerts) + 1
      BY <2>6, <3>1, AppendProperties DEF SendAlert
    <3>3. Len(alerts') <= AlertsCap
      BY <2>6, <3>2, LenProperties, PipelineConstants DEF SendAlert
    <3>4. /\ proc' = [proc EXCEPT ![p].at = "count"]
          /\ UNCHANGED <<expired, main, sensorVars, readings, stats, handlerVars>>
      BY <2>6 DEF SendAlert
    <3> QED BY <3>1, <3>2, <3>3, <3>4
  <2>7. ASSUME NEW p \in Processors, Quit(p) PROVE TypeOK'
    BY <2>7 DEF Quit
  <2>8. ASSUME NEW p \in Processors, RecordAlert(p) PROVE TypeOK'
    <3>1. /\ proc[p].of \in Sensors
          /\ proc' = [proc EXCEPT ![p].at = "sleep"]
          /\ alertsBySensor' = [alertsBySensor EXCEPT ![proc[p].of] = @ + 1]
          /\ UNCHANGED <<expired, main, sensorVars, readings, processed, alerts, handlerVars>>
      BY <2>8 DEF RecordAlert
    <3>2. alertsBySensor' \in [Sensors -> Nat]
      BY <3>1
    <3>3. /\ proc' \in [Processors -> [at : {"select", "alert", "count", "sleep", "exit", "quit"},
                                       of : Sensors \cup {NoSensor}]]
          /\ \A q \in Processors : proc'[q].at \in {"alert", "count"} => proc'[q].of \in Sensors
      BY <3>1
    <3> QED BY <3>1, <3>2, <3>3
  <2>9. ASSUME NEW p \in Processors, Sleep(p) PROVE TypeOK'
    BY <2>9 DEF Sleep
  <2>10. ASSUME NEW p \in Processors, ProcessorExit(p) PROVE TypeOK'
    BY <2>10 DEF ProcessorExit
  <2>11. CASE Handle
    <3>1. /\ Head(alerts) \in Sensors /\ alerts' \in Seq(Sensors)
          /\ Len(alerts') = Len(alerts) - 1
      BY <2>11, HeadTailProperties DEF Handle
    <3>2. Len(alerts') <= AlertsCap
      BY <3>1, LenProperties, PipelineConstants
    <3> QED BY <2>11, <3>1, <3>2 DEF Handle
  <2>12. CASE HandlerExit
    BY <2>12 DEF HandlerExit
  <2>13. CASE MainStep
    BY <2>13 DEF MainStep, SeeExpiry, CloseReadings, CloseAlerts, Report, Awaken
  <2>14. CASE Expire
    BY <2>14 DEF Expire
  <2>15. CASE UNCHANGED vars
    BY <2>15 DEF vars, processorVars, sensorVars
  <2> QED
    BY <2>1, <2>2, <2>3, <2>4, <2>5, <2>6, <2>7, <2>8, <2>9, <2>10, <2>11, <2>12, <2>13,
       <2>14, <2>15 DEF Next, SensorStep, ProcessorStep, HandlerStep, Finished
<1> QED BY <1>1, <1>2, PTL DEF Spec

\* Who main has waited for is gone, and stays gone.
Departed ==
  /\ ReadingsClosed => SensorsGone
  /\ AlertsClosed => ProcessorsGone

LEMMA DepartedInvariant == Spec => []Departed
<1>1. Init => Departed
  BY DEF Init, Departed, ReadingsClosed, AlertsClosed
<1>2. TypeOK /\ Departed /\ [Next]_vars => Departed'
  <2> SUFFICES ASSUME TypeOK, Departed, [Next]_vars PROVE Departed'
    OBVIOUS
  <2> USE DEF Departed, ReadingsClosed, AlertsClosed, SensorsGone, ProcessorsGone,
              sensorVars, processorVars, stats
  <2>1. ASSUME NEW s \in Sensors, SensorStep(s) \/ CooldownEnds(s) PROVE Departed'
    BY <2>1 DEF SensorStep, Measure, Offer, SensorExit, CooldownEnds, TypeOK
  <2>2. ASSUME NEW p \in Processors, ProcessorStep(p) PROVE Departed'
    <3>1. main' = main /\ sensor' = sensor /\ proc[p].at \notin {"exit", "quit"}
      BY <2>2 DEF ProcessorStep, Process, SendAlert, Quit, RecordAlert, Sleep, ProcessorExit
    <3> QED BY <3>1
  <2>3. CASE HandlerStep
    BY <2>3 DEF HandlerStep, Handle, HandlerExit
  <2>4. CASE MainStep
    BY <2>4 DEF MainStep, SeeExpiry, CloseReadings, CloseAlerts, Report, Awaken
  <2>5. CASE Expire
    BY <2>5 DEF Expire
  <2>6. CASE UNCHANGED vars
    BY <2>6 DEF vars
  <2> QED BY <2>1, <2>2, <2>3, <2>4, <2>5, <2>6 DEF Next, Finished
<1> QED BY <1>1, <1>2, TypeCorrect, PTL DEF Spec

\* Main closes a channel only after everyone who sends into it has left, and a
\* goroutine that has left never comes back: Go's panic on a closed channel cannot happen.
THEOREM SendsSafe == Spec => []NoSendAfterClose
<1>1. Departed => NoSendAfterClose
  BY DEF Departed, NoSendAfterClose, SensorsGone, ProcessorsGone
<1> QED BY <1>1, DepartedInvariant, PTL

-----------------------------------------------------------------------------
(* What a channel holds, counted. *)

LEMMA CountType ==
  ASSUME NEW channel \in Seq(Sensors), NEW s
  PROVE  /\ IsFiniteSet({i \in DOMAIN channel : channel[i] = s})
         /\ Count(channel, s) \in Nat
<1>1. DOMAIN channel = 1..Len(channel) /\ Len(channel) \in Nat
  BY LenProperties
<1>2. IsFiniteSet({i \in DOMAIN channel : channel[i] = s})
  <2>1. IsFiniteSet(1..Len(channel))
    BY <1>1, FS_Interval
  <2>2. {i \in DOMAIN channel : channel[i] = s} \in SUBSET (1..Len(channel))
    BY <1>1
  <2> QED BY <2>1, <2>2, FS_Subset
<1> QED BY <1>2, FS_CardinalityType DEF Count

LEMMA CountEmpty == \A s : Count(<<>>, s) = 0
<1>1. \A s : {i \in DOMAIN <<>> : <<>>[i] = s} = {}
  OBVIOUS
<1> QED BY <1>1, FS_EmptySet DEF Count

\* A send adds one of the sensor sent.
LEMMA CountAppend ==
  ASSUME NEW channel \in Seq(Sensors), NEW x \in Sensors, NEW s
  PROVE  Count(Append(channel, x), s) = Count(channel, s) + (IF x = s THEN 1 ELSE 0)
<1> DEFINE new == Append(channel, x)
           n == Len(channel)
           K == {i \in DOMAIN channel : channel[i] = s}
<1>1. /\ n \in Nat /\ DOMAIN channel = 1..n /\ DOMAIN new = 1..(n + 1)
      /\ new[n + 1] = x /\ \A i \in 1..n : new[i] = channel[i]
  BY AppendProperties, LenProperties
<1>2. IsFiniteSet(K) /\ Cardinality(K) \in Nat /\ Count(channel, s) = Cardinality(K)
  BY CountType DEF Count
<1>3. CASE x = s
  <2>1. {i \in DOMAIN new : new[i] = s} = K \cup {n + 1} /\ n + 1 \notin K
    BY <1>1, <1>3
  <2>2. Count(new, s) = Cardinality(K) + 1
    BY <1>2, <2>1, FS_AddElement DEF Count
  <2> QED BY <1>2, <1>3, <2>2
<1>4. CASE x # s
  <2>1. {i \in DOMAIN new : new[i] = s} = K
    BY <1>1, <1>4
  <2>2. Count(new, s) = Cardinality(K)
    BY <2>1 DEF Count
  <2> QED BY <1>2, <1>4, <2>2
<1> QED BY <1>3, <1>4

\* A receive takes one of the sensor received: what is behind it moves up by one.
LEMMA CountTail ==
  ASSUME NEW channel \in Seq(Sensors), channel # <<>>, NEW s
  PROVE  Count(channel, s) = Count(Tail(channel), s) + (IF Head(channel) = s THEN 1 ELSE 0)
<1> DEFINE rest == Tail(channel)
           n == Len(channel)
           K == {i \in DOMAIN channel : channel[i] = s}
           L == {i \in DOMAIN rest : rest[i] = s}
           shift == [i \in L |-> i + 1]
<1>1. /\ n \in Nat \ {0} /\ DOMAIN channel = 1..n /\ DOMAIN rest = 1..(n - 1)
      /\ rest \in Seq(Sensors) /\ Head(channel) = channel[1]
      /\ \A i \in 1..(n - 1) : rest[i] = channel[i + 1]
  BY HeadTailProperties, LenProperties, EmptySeq
<1>2. /\ IsFiniteSet(K) /\ IsFiniteSet(L) /\ Cardinality(L) \in Nat
      /\ Count(channel, s) = Cardinality(K) /\ Count(rest, s) = Cardinality(L)
  BY <1>1, CountType DEF Count
<1>3. Cardinality(K \ {1}) = Cardinality(L)
  <2>1. shift \in [L -> K \ {1}]
    BY <1>1
  <2>2. \A i, j \in L : shift[i] = shift[j] => i = j
    BY <1>1
  <2>3. ASSUME NEW k \in K \ {1} PROVE \E i \in L : shift[i] = k
    <3>1. k - 1 \in L
      BY <1>1
    <3> QED BY <1>1, <3>1
  <2>4. shift \in Bijection(L, K \ {1})
    BY <2>1, <2>2, <2>3 DEF Bijection, Injection, Surjection, IsInjective
  <2> HIDE DEF K, L, shift
  <2>5. ExistsBijection(L, K \ {1})
    BY <2>4 DEF ExistsBijection
  <2> QED BY <1>2, <2>5, FS_Bijection
<1> HIDE DEF K, L, shift
<1>4. CASE Head(channel) = s
  <2>1. 1 \in K
    BY <1>1, <1>4 DEF K
  <2>2. Cardinality(K \ {1}) = Cardinality(K) - 1 /\ Cardinality(K) \in Nat
    BY <1>2, <2>1, FS_RemoveElement, FS_CardinalityType
  <2> QED BY <1>2, <1>3, <1>4, <2>2
<1>5. CASE Head(channel) # s
  <2>1. K \ {1} = K
    BY <1>1, <1>5 DEF K
  <2>2. Cardinality(K) = Cardinality(L)
    BY <1>3, <2>1
  <2> QED BY <1>2, <1>5, <2>2
<1> QED BY <1>4, <1>5

\* How many processors stand at a place with a reading of s in hand: one more or one less
\* when one of them comes or goes, the same when none does.
LEMMA AtType ==
  ASSUME NEW place, NEW s
  PROVE  /\ IsFiniteSet({p \in Processors : proc[p].at = place /\ proc[p].of = s})
         /\ At(place, s) \in Nat
<1>1. IsFiniteSet({p \in Processors : proc[p].at = place /\ proc[p].of = s})
  <2>1. {p \in Processors : proc[p].at = place /\ proc[p].of = s} \in SUBSET Processors
    OBVIOUS
  <2> QED BY <2>1, PipelineConstants, FS_Subset
<1> QED BY <1>1, FS_CardinalityType DEF At

Stands(p, place, s) == proc[p].at = place /\ proc[p].of = s

LEMMA AtSame ==
  ASSUME NEW place, NEW s,
         \A p \in Processors : Stands(p, place, s)' <=> Stands(p, place, s)
  PROVE  At(place, s)' = At(place, s)
<1>1. {p \in Processors : Stands(p, place, s)'} = {p \in Processors : Stands(p, place, s)}
  OBVIOUS
<1> QED BY <1>1 DEF At, Stands

LEMMA AtGains ==
  ASSUME NEW place, NEW s, NEW p \in Processors,
         ~Stands(p, place, s), Stands(p, place, s)',
         \A q \in Processors \ {p} : Stands(q, place, s)' <=> Stands(q, place, s)
  PROVE  At(place, s)' = At(place, s) + 1
<1> DEFINE K == {q \in Processors : Stands(q, place, s)}
<1>1. {q \in Processors : Stands(q, place, s)'} = K \cup {p} /\ p \notin K
  OBVIOUS
<1>2. IsFiniteSet(K) /\ At(place, s) = Cardinality(K)
  <2>1. K = {q \in Processors : proc[q].at = place /\ proc[q].of = s}
    BY DEF Stands
  <2> QED BY <2>1, AtType DEF At
<1>3. At(place, s)' = Cardinality(K \cup {p})
  BY <1>1 DEF At, Stands
<1> HIDE DEF K
<1> QED BY <1>1, <1>2, <1>3, FS_AddElement

LEMMA AtLoses ==
  ASSUME NEW place, NEW s, NEW p \in Processors,
         Stands(p, place, s), ~Stands(p, place, s)',
         \A q \in Processors \ {p} : Stands(q, place, s)' <=> Stands(q, place, s)
  PROVE  At(place, s)' = At(place, s) - 1
<1> DEFINE K == {q \in Processors : Stands(q, place, s)}
<1>1. {q \in Processors : Stands(q, place, s)'} = K \ {p} /\ p \in K
  OBVIOUS
<1>2. IsFiniteSet(K) /\ At(place, s) = Cardinality(K)
  <2>1. K = {q \in Processors : proc[q].at = place /\ proc[q].of = s}
    BY DEF Stands
  <2> QED BY <2>1, AtType DEF At
<1>3. At(place, s)' = Cardinality(K \ {p})
  BY <1>1 DEF At, Stands
<1> HIDE DEF K
<1> QED BY <1>1, <1>2, <1>3, FS_RemoveElement

-----------------------------------------------------------------------------
(* Nothing is lost. *)

InHand(s) == IF sensor[s] \in {"offer", "dropped"} THEN 1 ELSE 0

\* Where every reading and every alert is.
Balanced ==
  \A s \in Sensors :
    /\ made[s] = processed[s] + Count(readings, s) + InHand(s)
    /\ alertsBySensor[s] + At("count", s) = handled[s] + Count(alerts, s)

\* Who leaves because a channel is closed leaves it empty; main is done after the handler.
Drained ==
  /\ handler = "exit" => AlertsClosed /\ alerts = <<>>
  /\ main = "done" => handler = "exit"
  /\ \A p \in Processors : proc[p].at = "exit" => ReadingsClosed /\ readings = <<>>

LEMMA BalancedInductive == TypeOK /\ Balanced /\ [Next]_vars => Balanced'
<1> SUFFICES ASSUME TypeOK, Balanced, [Next]_vars PROVE Balanced'
  OBVIOUS
<1> USE DEF sensorVars, processorVars, stats, handlerVars
<1>t. /\ readings \in Seq(Sensors) /\ alerts \in Seq(Sensors)
      /\ \A x \in Sensors : /\ made[x] \in Nat /\ processed[x] \in Nat
                            /\ alertsBySensor[x] \in Nat /\ handled[x] \in Nat
                            /\ Count(readings, x) \in Nat /\ Count(alerts, x) \in Nat
                            /\ At("count", x) \in Nat
  BY CountType, AtType DEF TypeOK
<1>f. /\ sensor \in [Sensors -> {"timer", "offer", "exit", "dropped"}]
      /\ made \in [Sensors -> Nat] /\ processed \in [Sensors -> Nat]
      /\ alertsBySensor \in [Sensors -> Nat] /\ handled \in [Sensors -> Nat]
      /\ proc \in [Processors -> [at : {"select", "alert", "count", "sleep", "exit", "quit"},
                                  of : Sensors \cup {NoSensor}]]
  BY DEF TypeOK
<1>b. \A x \in Sensors :
        /\ made[x] = processed[x] + Count(readings, x) + InHand(x)
        /\ alertsBySensor[x] + At("count", x) = handled[x] + Count(alerts, x)
  BY DEF Balanced
<1>h. \A x \in Sensors : InHand(x) \in Nat
  BY DEF InHand
\* A step that moves no alert, and a step that moves no reading.
<1>a. ASSUME UNCHANGED <<alertsBySensor, handled, alerts>>,
             \A x \in Sensors, p \in Processors : Stands(p, "count", x)' <=> Stands(p, "count", x)
      PROVE  \A x \in Sensors :
               alertsBySensor'[x] + At("count", x)' = handled'[x] + Count(alerts', x)
  BY <1>b, <1>a, AtSame
<1>r. ASSUME UNCHANGED <<made, processed, readings, sensor>>
      PROVE  \A x \in Sensors : made'[x] = processed'[x] + Count(readings', x) + InHand(x)'
  BY <1>b, <1>r DEF InHand
<1>1. ASSUME NEW s \in Sensors, Measure(s) \/ SensorExit(s) \/ Offer(s) PROVE Balanced'
  <2>1. UNCHANGED <<alertsBySensor, handled, alerts, proc, processed>>
    BY <1>1 DEF Measure, SensorExit, Offer
  <2>2. \A x \in Sensors :
          alertsBySensor'[x] + At("count", x)' = handled'[x] + Count(alerts', x)
    BY <1>a, <2>1 DEF Stands
  <2>3. ASSUME NEW x \in Sensors
        PROVE  made'[x] = processed'[x] + Count(readings', x) + InHand(x)'
    <3>1. CASE x # s
      <4>1. made'[x] = made[x] /\ InHand(x)' = InHand(x)
        BY <1>1, <1>f, <3>1 DEF Measure, SensorExit, Offer, InHand
      <4>2. Count(readings', x) = Count(readings, x)
        <5>1. CASE Offer(s)
          <6>1. readings' = Append(readings, s)
            BY <5>1 DEF Offer
          <6> QED BY <1>t, <3>1, <6>1, CountAppend
        <5>2. CASE UNCHANGED readings
          BY <5>2
        <5> QED BY <1>1, <5>1, <5>2 DEF Measure, SensorExit
      <4> QED BY <1>b, <2>1, <4>1, <4>2
    <3>2. CASE x = s /\ Measure(s)
      <4>1. made'[x] = made[x] + 1 /\ InHand(x) = 0 /\ InHand(x)' = 1 /\ readings' = readings
        BY <1>f, <3>2 DEF Measure, InHand
      <4> QED BY <1>b, <1>t, <2>1, <4>1
    <3>3. CASE x = s /\ SensorExit(s)
      <4>1. made'[x] = made[x] /\ InHand(x)' = InHand(x) /\ readings' = readings
        BY <1>f, <3>3 DEF SensorExit, InHand
      <4> QED BY <1>b, <2>1, <4>1
    <3>4. CASE x = s /\ Offer(s)
      <4>1. /\ made'[x] = made[x] /\ InHand(x) = 1 /\ InHand(x)' = 0
            /\ readings' = Append(readings, s)
        BY <1>f, <3>4 DEF Offer, InHand
      <4>2. Count(readings', x) = Count(readings, x) + 1
        BY <1>t, <3>4, <4>1, CountAppend
      <4> QED BY <1>b, <1>t, <2>1, <4>1, <4>2
    <3> QED BY <1>1, <3>1, <3>2, <3>3, <3>4
  <2> QED BY <2>2, <2>3 DEF Balanced
<1>2. ASSUME NEW p \in Processors, Process(p) PROVE Balanced'
  <2>1. PICK h \in Sensors : h = Head(readings) /\ readings # <<>>
    BY <1>2, <1>t, HeadTailProperties DEF Process
  <2>2. /\ processed' = [processed EXCEPT ![h] = @ + 1] /\ readings' = Tail(readings)
        /\ UNCHANGED <<made, sensor, alertsBySensor, handled, alerts>>
        /\ proc[p].at = "select"
        /\ \E a \in {"alert", "sleep"} : proc' = [proc EXCEPT ![p] = [at |-> a, of |-> h]]
    BY <1>2, <2>1 DEF Process
  <2>3. \A x \in Sensors, q \in Processors : Stands(q, "count", x)' <=> Stands(q, "count", x)
    BY <1>f, <2>2 DEF Stands
  <2>4. ASSUME NEW x \in Sensors
        PROVE  made'[x] = processed'[x] + Count(readings', x) + InHand(x)'
    <3>1. Count(readings, x) = Count(readings', x) + (IF h = x THEN 1 ELSE 0)
      BY <1>t, <2>1, <2>2, CountTail
    <3>2. processed'[x] = processed[x] + (IF h = x THEN 1 ELSE 0)
      BY <1>f, <1>t, <2>2
    <3>3. Count(readings', x) \in Nat
      <4>1. readings' \in Seq(Sensors)
        BY <1>t, <2>1, <2>2, HeadTailProperties
      <4> QED BY <4>1, CountType
    <3>4. InHand(x)' = InHand(x) /\ made'[x] = made[x]
      BY <2>2 DEF InHand
    <3>5. /\ made[x] = processed[x] + Count(readings, x) + InHand(x)
          /\ processed[x] \in Nat /\ InHand(x) \in Nat
      BY <1>b, <1>t, <1>h
    <3>6. CASE h = x
      <4>1. /\ Count(readings, x) = Count(readings', x) + 1
            /\ processed'[x] = processed[x] + 1
        BY <3>1, <3>2, <3>6
      <4> QED BY <3>3, <3>4, <3>5, <4>1
    <3>7. CASE h # x
      <4>1. Count(readings, x) = Count(readings', x) /\ processed'[x] = processed[x]
        BY <1>t, <3>1, <3>2, <3>3, <3>5, <3>7
      <4> QED BY <3>4, <3>5, <4>1
    <3> QED BY <3>6, <3>7
  <2> QED BY <1>a, <2>2, <2>3, <2>4 DEF Balanced
<1>3. ASSUME NEW p \in Processors, SendAlert(p) PROVE Balanced'
  <2>1. PICK y \in Sensors : y = proc[p].of
    BY <1>3 DEF SendAlert, TypeOK
  <2>2. /\ proc[p].at = "alert" /\ alerts' = Append(alerts, y)
        /\ proc' = [proc EXCEPT ![p].at = "count"]
        /\ UNCHANGED <<made, sensor, readings, processed, alertsBySensor, handled>>
    BY <1>3, <2>1 DEF SendAlert
  <2>3. /\ Stands(p, "count", y)' /\ ~Stands(p, "count", y)
        /\ \A x \in Sensors \ {y} : ~Stands(p, "count", x) /\ ~Stands(p, "count", x)'
        /\ \A x \in Sensors : \A q \in Processors \ {p} :
             Stands(q, "count", x)' <=> Stands(q, "count", x)
    BY <1>f, <2>1, <2>2 DEF Stands
  <2>4. ASSUME NEW x \in Sensors
        PROVE  alertsBySensor'[x] + At("count", x)' = handled'[x] + Count(alerts', x)
    <3>1. Count(alerts', x) = Count(alerts, x) + (IF y = x THEN 1 ELSE 0)
      BY <1>t, <2>2, CountAppend
    <3>2. At("count", x)' = At("count", x) + (IF y = x THEN 1 ELSE 0)
      <4>1. CASE x = y
        BY <2>3, <4>1, AtGains
      <4>2. CASE x # y
        <5>1. At("count", x)' = At("count", x)
          BY <2>3, <4>2, AtSame
        <5> QED BY <1>t, <4>2, <5>1
      <4> QED BY <4>1, <4>2
    <3>3. /\ alertsBySensor[x] + At("count", x) = handled[x] + Count(alerts, x)
          /\ alertsBySensor[x] \in Nat /\ At("count", x) \in Nat
          /\ handled[x] \in Nat /\ Count(alerts, x) \in Nat
          /\ alertsBySensor'[x] = alertsBySensor[x] /\ handled'[x] = handled[x]
      BY <1>b, <1>t, <2>2
    <3> HIDE DEF Count, At
    <3> QED BY <3>1, <3>2, <3>3
  <2> QED BY <1>r, <2>2, <2>4 DEF Balanced
<1>4. ASSUME NEW p \in Processors, RecordAlert(p) PROVE Balanced'
  <2>1. PICK y \in Sensors : y = proc[p].of
    BY <1>4 DEF RecordAlert, TypeOK
  <2>2. /\ proc[p].at = "count" /\ alertsBySensor' = [alertsBySensor EXCEPT ![y] = @ + 1]
        /\ proc' = [proc EXCEPT ![p].at = "sleep"]
        /\ UNCHANGED <<made, sensor, readings, processed, alerts, handled>>
    BY <1>4, <2>1 DEF RecordAlert
  <2>3. /\ Stands(p, "count", y) /\ ~Stands(p, "count", y)'
        /\ \A x \in Sensors \ {y} : ~Stands(p, "count", x) /\ ~Stands(p, "count", x)'
        /\ \A x \in Sensors : \A q \in Processors \ {p} :
             Stands(q, "count", x)' <=> Stands(q, "count", x)
    BY <1>f, <2>1, <2>2 DEF Stands
  <2>4. ASSUME NEW x \in Sensors
        PROVE  alertsBySensor'[x] + At("count", x)' = handled'[x] + Count(alerts', x)
    <3>1. alertsBySensor'[x] = alertsBySensor[x] + (IF y = x THEN 1 ELSE 0)
      BY <1>f, <1>t, <2>2
    <3>2. At("count", x)' = At("count", x) - (IF y = x THEN 1 ELSE 0)
      <4>1. CASE x = y
        BY <2>3, <4>1, AtLoses
      <4>2. CASE x # y
        <5>1. At("count", x)' = At("count", x)
          BY <2>3, <4>2, AtSame
        <5> QED BY <1>t, <4>2, <5>1
      <4> QED BY <4>1, <4>2
    <3> QED BY <1>b, <1>t, <2>2, <3>1, <3>2
  <2> QED BY <1>r, <2>2, <2>4 DEF Balanced
<1>5. ASSUME NEW p \in Processors, Quit(p) \/ Sleep(p) \/ ProcessorExit(p) PROVE Balanced'
  <2>1. UNCHANGED <<made, sensor, readings, processed, alertsBySensor, handled, alerts>>
    BY <1>5 DEF Quit, Sleep, ProcessorExit
  <2>2. \A x \in Sensors, q \in Processors : Stands(q, "count", x)' <=> Stands(q, "count", x)
    <3>1. /\ proc[p].at # "count" /\ proc'[p].at # "count"
          /\ \A q \in Processors \ {p} : proc'[q] = proc[q]
      <4>1. CASE Quit(p)
        BY <1>f, <4>1 DEF Quit
      <4>2. CASE Sleep(p)
        BY <1>f, <4>2 DEF Sleep
      <4>3. CASE ProcessorExit(p)
        BY <1>f, <4>3 DEF ProcessorExit
      <4> QED BY <1>5, <4>1, <4>2, <4>3
    <3> QED BY <3>1 DEF Stands
  <2> QED BY <1>a, <1>r, <2>1, <2>2 DEF Balanced
<1>6. CASE Handle
  <2>1. PICK h \in Sensors : h = Head(alerts) /\ alerts # <<>>
    BY <1>6, <1>t, HeadTailProperties DEF Handle
  <2>2. /\ handled' = [handled EXCEPT ![h] = @ + 1] /\ alerts' = Tail(alerts)
        /\ UNCHANGED <<made, sensor, readings, processed, alertsBySensor, proc>>
    BY <1>6, <2>1 DEF Handle
  <2>3. ASSUME NEW x \in Sensors
        PROVE  alertsBySensor'[x] + At("count", x)' = handled'[x] + Count(alerts', x)
    <3>1. Count(alerts, x) = Count(alerts', x) + (IF h = x THEN 1 ELSE 0)
      BY <1>t, <2>1, <2>2, CountTail
    <3>2. handled'[x] = handled[x] + (IF h = x THEN 1 ELSE 0)
      BY <1>f, <1>t, <2>2
    <3>3. Count(alerts', x) \in Nat
      <4>1. alerts' \in Seq(Sensors)
        BY <1>t, <2>1, <2>2, HeadTailProperties
      <4> QED BY <4>1, CountType
    <3>4. At("count", x)' = At("count", x)
      BY <2>2, AtSame DEF Stands
    <3>5. /\ alertsBySensor[x] + At("count", x) = handled[x] + Count(alerts, x)
          /\ handled[x] \in Nat /\ Count(alerts, x) \in Nat
          /\ alertsBySensor'[x] = alertsBySensor[x]
      BY <1>b, <1>t, <2>2
    <3>6. CASE h = x
      <4>1. /\ Count(alerts, x) = Count(alerts', x) + 1 /\ handled'[x] = handled[x] + 1
        BY <3>1, <3>2, <3>6
      <4> QED BY <3>3, <3>4, <3>5, <4>1
    <3>7. CASE h # x
      <4>1. Count(alerts, x) = Count(alerts', x) /\ handled'[x] = handled[x]
        BY <3>1, <3>2, <3>3, <3>5, <3>7
      <4> QED BY <3>4, <3>5, <4>1
    <3> QED BY <3>6, <3>7
  <2> QED BY <1>r, <2>2, <2>3 DEF Balanced
<1>7. CASE UNCHANGED <<sensorVars, readings, processorVars, alerts, handled>>
  BY <1>a, <1>r, <1>7 DEF Balanced, Stands
<1> QED
  BY <1>1, <1>2, <1>3, <1>4, <1>5, <1>6, <1>7
  DEF Next, SensorStep, ProcessorStep, HandlerStep, MainStep, Finished, vars, CooldownEnds,
      HandlerExit, SeeExpiry, CloseReadings, CloseAlerts, Report, Awaken, Expire

LEMMA DrainedInductive == TypeOK /\ Departed /\ Drained /\ [Next]_vars => Drained'
<1> SUFFICES ASSUME TypeOK, Departed, Drained, [Next]_vars PROVE Drained'
  OBVIOUS
<1> USE DEF Drained, ReadingsClosed, AlertsClosed, sensorVars, processorVars, stats, handlerVars
<1>t. /\ proc \in [Processors -> [at : {"select", "alert", "count", "sleep", "exit", "quit"},
                                  of : Sensors \cup {NoSensor}]]
      /\ main \in {"ctx", "sensors", "processors", "handler", "done"}
  BY DEF TypeOK
<1>1. ASSUME NEW s \in Sensors, SensorStep(s) \/ CooldownEnds(s) PROVE Drained'
  <2>1. CASE Offer(s)
    <3>1. ~ReadingsClosed
      BY <2>1 DEF Offer, Departed, SensorsGone
    <3> QED BY <2>1, <3>1 DEF Offer
  <2> QED BY <1>1, <2>1 DEF SensorStep, Measure, SensorExit, CooldownEnds
<1>2. ASSUME NEW p \in Processors, ProcessorStep(p) PROVE Drained'
  <2>1. CASE Process(p)
    BY <1>t, <2>1 DEF Process
  <2>2. CASE SendAlert(p)
    <3>1. ~AlertsClosed
      BY <2>2 DEF SendAlert, Departed, ProcessorsGone
    <3> QED BY <1>t, <2>2, <3>1 DEF SendAlert
  <2>3. CASE Quit(p) \/ RecordAlert(p) \/ Sleep(p)
    BY <1>t, <2>3 DEF Quit, RecordAlert, Sleep
  <2>4. CASE ProcessorExit(p)
    BY <1>t, <2>4 DEF ProcessorExit
  <2> QED BY <1>2, <2>1, <2>2, <2>3, <2>4 DEF ProcessorStep
<1>3. CASE HandlerStep
  BY <1>3 DEF HandlerStep, Handle, HandlerExit
<1>4. CASE MainStep
  BY <1>4 DEF MainStep, SeeExpiry, CloseReadings, CloseAlerts, Report, Awaken
<1>5. CASE Expire
  BY <1>5 DEF Expire
<1>6. CASE UNCHANGED vars
  BY <1>6 DEF vars
<1> QED BY <1>1, <1>2, <1>3, <1>4, <1>5, <1>6 DEF Next, Finished

\* Every reading is recorded, in the channel or in its sensor's hand, and every alert the
\* handler took is counted or about to be, in whatever order the goroutines leave; so
\* the figures main prints in the end are exact.
THEOREM NothingIsLost == Spec => []NothingLost
<1>1. Init => Balanced /\ Drained
  <2> SUFFICES ASSUME Init PROVE Balanced /\ Drained
    OBVIOUS
  <2>1. ASSUME NEW s \in Sensors PROVE At("count", s) = 0
    <3>1. {p \in Processors : proc[p].at = "count" /\ proc[p].of = s} = {}
      BY DEF Init
    <3> QED BY <3>1, FS_EmptySet DEF At
  <2>2. Balanced
    BY <2>1, CountEmpty DEF Init, Balanced, InHand
  <2>3. Drained
    BY DEF Init, Drained
  <2> QED BY <2>2, <2>3
<1>2. TypeOK /\ Departed /\ Balanced /\ Drained /\ [Next]_vars => Balanced' /\ Drained'
  BY BalancedInductive, DrainedInductive
<1>3. TypeOK /\ Departed /\ Balanced /\ Drained => NothingLost
  <2> SUFFICES ASSUME TypeOK, Departed, Balanced, Drained PROVE NothingLost
    OBVIOUS
  <2>1. ASSUME main = "done"
        PROVE  /\ alerts = <<>> /\ alertsBySensor = handled
               /\ readings # <<>> => \A p \in Processors : proc[p].at = "quit"
    <3>1. ProcessorsGone /\ alerts = <<>>
      BY <2>1 DEF Departed, AlertsClosed, Drained
    <3>2. ASSUME NEW s \in Sensors PROVE alertsBySensor[s] = handled[s]
      <4>1. {p \in Processors : proc[p].at = "count" /\ proc[p].of = s} = {}
        BY <3>1 DEF ProcessorsGone
      <4>2. At("count", s) = 0 /\ Count(alerts, s) = 0
        BY <3>1, <4>1, FS_EmptySet, CountEmpty DEF At
      <4>3. alertsBySensor[s] \in Nat /\ handled[s] \in Nat
        BY DEF TypeOK
      <4> QED BY <4>2, <4>3 DEF Balanced
    <3>3. alertsBySensor = handled
      BY <3>2 DEF TypeOK
    <3>4. readings # <<>> => \A p \in Processors : proc[p].at = "quit"
      BY <3>1 DEF Drained, ProcessorsGone
    <3> QED BY <3>1, <3>3, <3>4
  <2> QED BY <2>1 DEF NothingLost, Balanced, InHand
<1> QED BY <1>1, <1>2, <1>3, TypeCorrect, DepartedInvariant, PTL DEF Spec
=============================================================================
