------------------------ MODULE SmallMachines_proofs ------------------------
(***************************************************************************)
(* Proofs about the components that stand alone: the ring buffer of a      *)
(* road's history, the round-robin scheduler, the route computation, the   *)
(* bid limiter, the stock tracker, the parking garage, the packet router,  *)
(* the DNS cache, the text editor and the priority scheduler.              *)
(***************************************************************************)
EXTENDS RingBuffer, RoundRobin, Dijkstra, RateLimiter, StockTracker, Garage,
        PacketRouter, DNSResolver, TextEditor, PriorityScheduler, SequenceTheorems, FiniteSetTheorems, WellFoundedInduction, TLAPS

-----------------------------------------------------------------------------
(* The ring buffer implements the sliding window, for every capacity. *)

\* The remainder of the code's index arithmetic: it wraps at most once.
LEMMA Wrap ==
  ASSUME NEW a \in Slots, NEW i \in 0..Cap
  PROVE  Slot(a, i) = IF a + i < Cap THEN a + i ELSE a + i - Cap
PROOF
  <1>1. CASE a + i < Cap
    BY <1>1, RingConstants DEF Slot, Slots
  <1>2. CASE a + i >= Cap
    <2>1. a + i = Cap * 1 + (a + i - Cap) /\ a + i - Cap \in 0..(Cap - 1)
      BY <1>2, RingConstants DEF Slots
    <2> QED BY <2>1, <1>2, RingConstants, SMTT(30) DEF Slot, Slots
  <1> QED BY <1>1, <1>2, RingConstants DEF Slots

\* A slot within the capacity of another lies in the buffer.
LEMMA SlotTyped ==
  ASSUME NEW a \in Slots, NEW i \in 0..Cap
  PROVE  Slot(a, i) \in Slots
PROOF
  <1>1. Slot(a, i) = IF a + i < Cap THEN a + i ELSE a + i - Cap
    BY Wrap
  <1> QED BY <1>1, RingConstants DEF Slots

-----------------------------------------------------------------------------

\* The indices stay inside the buffer, for every capacity.
THEOREM TypeCorrect == RingSpec => []RingTypeOK
PROOF
  <1>1. RingInit => RingTypeOK
    BY RingConstants DEF RingInit, RingTypeOK, Slots
  <1>2. RingTypeOK /\ [RingNext]_ringVars => RingTypeOK'
    <2> SUFFICES ASSUME RingTypeOK, [RingNext]_ringVars PROVE RingTypeOK'
      OBVIOUS
    <2>1. ASSUME NEW v \in Samples, Fill(v) PROVE RingTypeOK'
      <3>1. Slot(start, size) \in Slots
        BY RingConstants, SlotTyped DEF RingTypeOK
      <3>2. size + 1 \in 0..Cap
        BY <2>1, RingConstants DEF Fill, RingTypeOK
      <3> QED BY <2>1, <3>1, <3>2 DEF Fill, RingTypeOK
    <2>2. ASSUME NEW v \in Samples, Overwrite(v) PROVE RingTypeOK'
      <3>1. Slot(start, 1) \in Slots
        BY SlotTyped, RingConstants DEF RingTypeOK
      <3> QED BY <2>2, <3>1 DEF Overwrite, RingTypeOK
    <2>3. CASE UNCHANGED ringVars
      BY <2>3 DEF ringVars, RingTypeOK
    <2> QED BY <2>1, <2>2, <2>3 DEF RingNext
  <1> QED BY <1>1, <1>2, PTL DEF RingSpec

\* The stored samples form a sequence of the buffer's size.
LEMMA ItemsTyped ==
  ASSUME RingTypeOK
  PROVE  /\ Items \in Seq(Samples) /\ Len(Items) = size
         /\ \A i \in 1..size : Slot(start, i - 1) \in Slots
PROOF
  <1>1. \A i \in 1..size : Slot(start, i - 1) \in Slots
    <2> SUFFICES ASSUME NEW i \in 1..size PROVE Slot(start, i - 1) \in Slots
      OBVIOUS
    <2>1. i - 1 \in 0..Cap
      BY RingConstants DEF RingTypeOK
    <2> QED BY <2>1, SlotTyped DEF RingTypeOK
  <1>2. Items \in [1..size -> Samples] /\ size \in Nat
    BY <1>1, RingConstants DEF RingTypeOK, Items
  <1> QED BY <1>1, <1>2

\* An append to a buffer with room appends to the window.
LEMMA FillRecords ==
  ASSUME RingTypeOK, NEW v \in Samples, Fill(v)
  PROVE  Window!Record(v)
PROOF
  <1>1. Items \in Seq(Samples) /\ Len(Items) = size /\ size \in Nat
    BY ItemsTyped, RingConstants DEF RingTypeOK
  <1>2. Items' = [i \in 1..(size + 1) |-> IF i = size + 1 THEN v ELSE Items[i]]
    <2> SUFFICES ASSUME NEW i \in 1..(size + 1)
                 PROVE  buf'[Slot(start, i - 1)] = IF i = size + 1 THEN v ELSE Items[i]
      BY <1>1 DEF Fill, Items, Slot
    <2>0. /\ size \in 0..Cap /\ i - 1 \in 0..Cap /\ size < Cap
          /\ start \in Slots /\ buf \in [Slots -> Samples]
      BY RingConstants DEF RingTypeOK, Fill
    <2>1. Slot(start, size) \in Slots /\ Slot(start, i - 1) \in Slots
      BY <2>0, SlotTyped
    <2>2. CASE i = size + 1
      BY <2>1, <2>2, <1>1 DEF Fill, RingTypeOK
    <2>3. CASE i # size + 1
      <3>1. i \in 1..size
        BY <2>3, <1>1
      <3>2. Slot(start, i - 1) # Slot(start, size)
        <4>1. Slot(start, i - 1) =
                IF start + (i - 1) < Cap THEN start + (i - 1) ELSE start + (i - 1) - Cap
          BY <2>0, Wrap
        <4>2. Slot(start, size) =
                IF start + size < Cap THEN start + size ELSE start + size - Cap
          BY <2>0, Wrap
        <4> QED BY <2>0, <3>1, <4>1, <4>2, RingConstants DEF Slots
      <3> QED BY <2>1, <2>3, <3>1, <3>2 DEF Fill, RingTypeOK, Items
    <2> QED BY <2>2, <2>3
  <1>3. Append(Items, v) = [i \in 1..(size + 1) |-> IF i = size + 1 THEN v ELSE Items[i]]
    <2> DEFINE longer == [i \in 1..(size + 1) |-> IF i = size + 1 THEN v ELSE Items[i]]
    <2>1. longer \in Seq(Samples) /\ Len(longer) = size + 1
      <3>1. longer \in [1..(size + 1) -> Samples]
        BY <1>1, ElementOfSeq
      <3> QED BY <3>1, <1>1, IsASeq
    <2>2. /\ Append(Items, v) \in Seq(Samples) /\ Len(Append(Items, v)) = size + 1
          /\ \A i \in 1..size : Append(Items, v)[i] = Items[i]
          /\ Append(Items, v)[size + 1] = v
      BY <1>1, AppendProperties
    <2>3. \A i \in 1..(size + 1) : Append(Items, v)[i] = longer[i]
      BY <2>2, <1>1
    <2> HIDE DEF longer
    <2>4. Append(Items, v) = longer
      BY <2>1, <2>2, <2>3, SeqEqual
    <2> QED BY <2>4 DEF longer
  <1> QED BY <1>1, <1>2, <1>3 DEF Fill, Window!Record

\* An append to a full buffer drops the window's oldest sample.
LEMMA OverwriteRecords ==
  ASSUME RingTypeOK, NEW v \in Samples, Overwrite(v)
  PROVE  Window!Record(v)
PROOF
  <1>1. Items \in Seq(Samples) /\ Len(Items) = Cap /\ size = Cap /\ size' = Cap /\ Cap \in Nat \ {0}
    BY ItemsTyped, RingConstants DEF RingTypeOK, Overwrite
  <1>2. Items' = [i \in 1..Cap |-> IF i = Cap THEN v ELSE Items[i + 1]]
    <2> SUFFICES ASSUME NEW i \in 1..Cap
                 PROVE  buf'[Slot(start', i - 1)] = IF i = Cap THEN v ELSE Items[i + 1]
      BY <1>1 DEF Items, Slot
    <2>1. /\ start \in Slots /\ start' = Slot(start, 1) /\ start' \in Slots
          /\ start' = IF start + 1 < Cap THEN start + 1 ELSE start + 1 - Cap
      BY Wrap, SlotTyped, <1>1 DEF RingTypeOK, Overwrite
    <2>2. CASE i = Cap
      <3>1. Slot(start', i - 1) =
              IF start' + (i - 1) < Cap THEN start' + (i - 1) ELSE start' + (i - 1) - Cap
        BY <2>1, <1>1, Wrap
      <3>2. Slot(start', i - 1) = start
        BY <2>1, <2>2, <3>1, <1>1 DEF Slots
      <3> QED BY <3>2, <2>1, <2>2 DEF Overwrite, RingTypeOK
    <2>3. CASE i # Cap
      <3>1. i \in 1..(Cap - 1) /\ i \in 0..Cap /\ i - 1 \in 0..Cap /\ 1 \in 0..Cap
        BY <2>3, <1>1
      <3>2. Slot(start', i - 1) = Slot(start, i) /\ Slot(start, i) # start /\ Slot(start, i) \in Slots
        <4>1. Slot(start', i - 1) =
                IF start' + (i - 1) < Cap THEN start' + (i - 1) ELSE start' + (i - 1) - Cap
          BY <2>1, <3>1, Wrap
        <4>2. Slot(start, i) = IF start + i < Cap THEN start + i ELSE start + i - Cap
          BY <2>1, <3>1, Wrap
        <4>3. Slot(start, i) \in Slots
          BY <2>1, <3>1, SlotTyped
        <4> QED BY <2>1, <3>1, <4>1, <4>2, <4>3, <1>1 DEF Slots
      <3>3. Items[i + 1] = buf[Slot(start, i)]
        BY <3>1, <1>1 DEF Items
      <3> QED BY <2>1, <2>3, <3>2, <3>3 DEF Overwrite, RingTypeOK
    <2> QED BY <2>2, <2>3
  <1>3. Append(Tail(Items), v) = [i \in 1..Cap |-> IF i = Cap THEN v ELSE Items[i + 1]]
    <2> DEFINE moved == [i \in 1..Cap |-> IF i = Cap THEN v ELSE Items[i + 1]]
    <2>1. moved \in Seq(Samples) /\ Len(moved) = Cap
      <3>1. \A i \in 1..Cap : i # Cap => Items[i + 1] \in Samples
        BY <1>1, ElementOfSeq
      <3>2. moved \in [1..Cap -> Samples]
        BY <3>1
      <3> QED BY <3>2, <1>1, IsASeq
    <2>2. /\ Tail(Items) \in Seq(Samples) /\ Len(Tail(Items)) = Cap - 1
          /\ \A i \in 1..(Cap - 1) : Tail(Items)[i] = Items[i + 1]
      <3>1. Items # << >>
        BY <1>1, EmptySeq
      <3> QED BY <3>1, <1>1, HeadTailProperties
    <2>3. /\ Append(Tail(Items), v) \in Seq(Samples) /\ Len(Append(Tail(Items), v)) = Cap
          /\ \A i \in 1..(Cap - 1) : Append(Tail(Items), v)[i] = Tail(Items)[i]
          /\ Append(Tail(Items), v)[Cap] = v
      <3>1. (Cap - 1) + 1 = Cap
        BY <1>1
      <3> QED BY <2>2, <3>1, AppendProperties
    <2>4. \A i \in 1..Cap : Append(Tail(Items), v)[i] = moved[i]
      BY <2>2, <2>3, <1>1
    <2> HIDE DEF moved
    <2>5. Append(Tail(Items), v) = moved
      BY <2>1, <2>3, <2>4, SeqEqual
    <2> QED BY <2>5 DEF moved
  <1> QED BY <1>1, <1>2, <1>3 DEF Window!Record

\* Readers of the ring see the last Cap samples, oldest first, for every capacity.
THEOREM Refinement == RingSpec => ImplementsWindow
PROOF
  <1>1. RingInit => Window!Init
    BY DEF RingInit, Window!Init, Items
  <1>2. RingTypeOK /\ [RingNext]_ringVars => [\E v \in Samples : Window!Record(v)]_Items
    BY FillRecords, OverwriteRecords DEF RingNext, ringVars, Items, Slot
  <1> QED BY <1>1, <1>2, TypeCorrect, PTL DEF RingSpec, ImplementsWindow, Window!WindowSpec

-----------------------------------------------------------------------------
(* The CPU scheduler preempts promptly. *)

\* Queues hold tasks of their own class, and only a turn has a task.
Task == [pid : Nat, class : Classes, burst : Int]

Queued ==
  /\ pushed \in Nat
  /\ ready \in [Classes -> Seq(Task)]
  /\ \A c \in Classes : \A i \in DOMAIN ready[c] : ready[c][i].class = c
  /\ turn = "run" => \E t \in Task : current = <<t>>

\* A turn of a lower class begins when no high-priority task is queued, and the first chunk
\* that ends after one has come is its last.
PromptlyPreempted ==
  /\ overtaken \in {0, 1}
  /\ turn = "run" /\ current[1].class # "high" => overtaken = 0

\* A task at the back of its class's queue.
LEMMA QueuePushFacts ==
  ASSUME ready \in [Classes -> Seq(Task)], NEW t \in Task, QueuePush(t),
         \A c \in Classes : \A i \in DOMAIN ready[c] : ready[c][i].class = c
  PROVE  /\ ready' \in [Classes -> Seq(Task)]
         /\ \A c \in Classes : \A i \in DOMAIN ready'[c] : ready'[c][i].class = c
<1>1. t.class \in Classes
  BY DEF Task
<1>2. Append(ready[t.class], t) \in Seq(Task)
  BY <1>1
<1>3. ready' \in [Classes -> Seq(Task)]
  BY <1>1, <1>2 DEF QueuePush
<1>4. ASSUME NEW c \in Classes, NEW i \in DOMAIN ready'[c] PROVE ready'[c][i].class = c
  <2>1. CASE c # t.class
    BY <2>1, <1>4 DEF QueuePush
  <2>2. CASE c = t.class
    <3>1. ready'[c] = Append(ready[c], t) /\ ready[c] \in Seq(Task)
      BY <2>2, <1>1 DEF QueuePush
    <3> QED BY <3>1, <2>2, <1>4
  <2> QED BY <2>1, <2>2
<1> QED BY <1>3, <1>4

\* Pushes, pops and requeues keep the queues apart.
LEMMA QueuedInductive == Queued /\ [RRNext]_rrVars => Queued'
<1> SUFFICES ASSUME Queued, [RRNext]_rrVars PROVE Queued'
  OBVIOUS
<1>1. CASE RRPushTask
  <2>1. PICK c \in Classes, b \in 1..MaxBurst :
          QueuePush([pid |-> pushed + 1, class |-> c, burst |-> b])
    BY <1>1 DEF RRPushTask
  <2>2. [pid |-> pushed + 1, class |-> c, burst |-> b] \in Task
    BY DEF Task, Queued
  <2>3. pushed' = pushed + 1 /\ turn' = turn /\ current' = current
    BY <1>1 DEF RRPushTask
  <2> QED BY <2>1, <2>2, <2>3, QueuePushFacts DEF Queued
<1>2. CASE RRPopTask
  <2> DEFINE c == FirstClass
  <2>1. c \in Classes /\ ready[c] # <<>>
    BY <1>2 DEF RRPopTask, FirstClass, Classes, HasHighPriorityTask, SchedulerMoves
  <2>2. Head(ready[c]) \in Task /\ Tail(ready[c]) \in Seq(Task)
        /\ \A i \in DOMAIN Tail(ready[c]) : Tail(ready[c])[i] = ready[c][i + 1] /\ i + 1 \in DOMAIN ready[c]
    BY <2>1 DEF Queued
  <2>3. ready' = [ready EXCEPT ![c] = Tail(@)] /\ current' = <<Head(ready[c])>> /\ pushed' = pushed
    BY <1>2 DEF RRPopTask
  <2> QED BY <2>1, <2>2, <2>3 DEF Queued
<1>3. CASE Requeue \/ WorkOn
  <2>1. PICK t \in Task : current = <<t>>
    BY <1>3 DEF Queued, Requeue, WorkOn, Chunk, SchedulerMoves
  <2>2. Worked \in Task
    BY <2>1 DEF Worked, Task
  <2>3. pushed' = pushed
    BY <1>3 DEF Requeue, WorkOn, Chunk
  <2>4. CASE Requeue
    BY <2>2, <2>3, <2>4, QueuePushFacts DEF Requeue, Chunk, SchedulerMoves, Queued
  <2>5. CASE WorkOn
    BY <2>2, <2>3, <2>5 DEF WorkOn, Chunk, SchedulerMoves, Queued
  <2> QED BY <1>3, <2>4, <2>5
<1>4. CASE SeeContext \/ PopNothing \/ Complete
  BY <1>4 DEF SeeContext, PopNothing, Complete, Chunk, SchedulerMoves, Queued
<1>5. CASE StartScheduler \/ StartPolling \/ SeeComplete \/ SeeSchedulerGone \/ GiveUp
           \/ UNCHANGED rrVars
  BY <1>5 DEF StartScheduler, StartPolling, SeeComplete, SeeSchedulerGone, GiveUp,
              DriverMoves, rrVars, Queued
<1> QED BY <1>1, <1>2, <1>3, <1>4, <1>5 DEF RRNext, DriverStep, RRSchedulerStep

\* Only Pop begins a turn, and only a turn that is not of the high class is overtaken.
LEMMA PromptlyInductive == Queued /\ PromptlyPreempted /\ [RRNext]_rrVars => PromptlyPreempted'
<1> SUFFICES ASSUME Queued, PromptlyPreempted, [RRNext]_rrVars PROVE PromptlyPreempted'
  OBVIOUS
<1>1. CASE RRPopTask
  <2> DEFINE c == FirstClass
  <2>1. c \in Classes /\ ready[c] # <<>> /\ (c # "high" => ready["high"] = <<>>)
    BY <1>1 DEF RRPopTask, FirstClass, Classes, HasHighPriorityTask, SchedulerMoves
  <2>2. current'[1].class = c
    <3>1. current' = <<Head(ready[c])>> /\ ready[c] \in Seq(Task)
      BY <1>1, <2>1 DEF RRPopTask, Queued
    <3>2. Head(ready[c]) = ready[c][1] /\ 1 \in DOMAIN ready[c]
      BY <3>1, <2>1
    <3> QED BY <2>1, <3>1, <3>2 DEF Queued
  <2>3. overtaken' = IF (IF c = "high" THEN Tail(ready[c]) ELSE ready["high"]) = <<>> THEN 0 ELSE overtaken
    BY <1>1 DEF RRPopTask
  <2> QED BY <2>1, <2>2, <2>3 DEF PromptlyPreempted
<1>2. CASE Complete \/ Requeue \/ WorkOn
  <2>1. PICK t \in Task : current = <<t>> /\ turn = "run"
    BY <1>2 DEF Queued, Complete, Requeue, WorkOn, Chunk, SchedulerMoves
  <2>2. Worked.class = t.class
    BY <2>1 DEF Worked, Task
  <2>3. overtaken' \in {0, 1}
    BY <1>2, <2>1, <2>2 DEF Complete, Requeue, WorkOn, Chunk, PromptlyPreempted
  <2>4. CASE Complete \/ Requeue
    BY <2>3, <2>4 DEF Complete, Requeue, Chunk, SchedulerMoves, PromptlyPreempted
  <2>5. CASE WorkOn
    BY <2>1, <2>2, <2>3, <2>5 DEF WorkOn, Chunk, Preempted, PromptlyPreempted
  <2> QED BY <1>2, <2>4, <2>5
<1>3. CASE RRPushTask \/ SeeContext \/ PopNothing
  BY <1>3 DEF RRPushTask, SeeContext, PopNothing, SchedulerMoves, PromptlyPreempted
<1>4. CASE StartScheduler \/ StartPolling \/ SeeComplete \/ SeeSchedulerGone \/ GiveUp
           \/ UNCHANGED rrVars
  BY <1>4 DEF StartScheduler, StartPolling, SeeComplete, SeeSchedulerGone, GiveUp,
              DriverMoves, rrVars, PromptlyPreempted
<1> QED BY <1>1, <1>2, <1>3, <1>4 DEF RRNext, DriverStep, RRSchedulerStep

\* For any tasks, bursts and quanta, a queued high-priority task waits for one chunk of a lower
\* class at most: runTask asks the queue after every chunk, and Pop takes the class anew.
THEOREM PreemptionIsPrompt == RRSpec => []PreemptionBound
<1>1. RRInit => Queued /\ PromptlyPreempted
  <2> SUFFICES ASSUME RRInit PROVE Queued /\ PromptlyPreempted
    OBVIOUS
  <2>1. <<>> \in Seq(Task)
    BY EmptySeq
  <2> QED BY <2>1 DEF RRInit, Queued, PromptlyPreempted
<1>2. Queued /\ PromptlyPreempted => PreemptionBound
  BY DEF PromptlyPreempted, PreemptionBound
<1> QED BY <1>1, <1>2, QueuedInductive, PromptlyInductive, PTL DEF RRSpec

-----------------------------------------------------------------------------
(* Least numbers, and sums: what holds for all numbers is proved by the    *)
(* least one for which it fails.                                           *)

\* A set of natural numbers has a least one.
LEMMA LeastNatural == ASSUME NEW S \in SUBSET Nat, S # {} PROVE \E n \in S : \A m \in S : n <= m
<1> DEFINE R == {p \in Nat \X Nat : p[1] < p[2]}
<1>1. IsWellFoundedOn(R, Nat)
  BY NatLessThanWellFounded DEF OpToRel
<1> HIDE DEF R
<1>2. PICK n \in S : \A m \in S : <<m, n>> \notin R
  BY <1>1, WFMin
<1>3. ASSUME NEW m \in S PROVE n <= m
  <2>1. <<m, n>> \notin R /\ m \in Nat /\ n \in Nat
    BY <1>2
  <2> QED BY <2>1 DEF R
<1> QED BY <1>3

\* What holds of the first number and passes on from each to the next holds of all.
LEMMA UpTo ==
  ASSUME NEW a \in Nat, NEW n \in Nat, NEW T,
         a \in T, \A k \in a..n : k \in T /\ k < n => k + 1 \in T
  PROVE  \A k \in a..n : k \in T
<1> DEFINE Bad == {k \in a..n : k \notin T}
<1> SUFFICES ASSUME Bad # {} PROVE FALSE
  OBVIOUS
<1>1. Bad \in SUBSET Nat
  OBVIOUS
<1>2. PICK k \in Bad : \A m \in Bad : k <= m
  BY <1>1, LeastNatural
<1>3. k \in a..n /\ k \notin T /\ k # a
  OBVIOUS
<1>4. k - 1 \in a..n /\ k - 1 < k /\ k - 1 < n
  BY <1>3
<1>5. k - 1 \notin Bad
  <2> HIDE DEF Bad
  <2> QED BY <1>1, <1>2, <1>4
<1>6. (k - 1) + 1 \in T
  BY <1>4, <1>5
<1> QED BY <1>3, <1>6

\* s holds the sums of the first terms of f, up to the k-th.
Sums(s, f, k) == s \in [0..k -> Nat] /\ s[0] = 0 /\ \A i \in 1..k : s[i] = s[i - 1] + f[i]

\* The recursion that adds them up has a solution.
LEMMA SumsExist ==
  ASSUME NEW n \in Nat, NEW f, \A i \in 1..n : f[i] \in Nat
  PROVE  \E s : Sums(s, f, n)
<1> DEFINE Bad == {k \in 0..n : ~\E s : Sums(s, f, k)}
<1>1. Bad = {}
  <2> SUFFICES ASSUME Bad # {} PROVE FALSE
    OBVIOUS
  <2>1. Bad \in SUBSET Nat
    OBVIOUS
  <2>2. PICK k \in Bad : \A m \in Bad : k <= m
    BY <2>1, LeastNatural
  <2>3. k \in 0..n /\ ~\E s : Sums(s, f, k)
    OBVIOUS
  <2>4. k # 0
    <3>1. Sums([i \in 0..0 |-> 0], f, 0)
      BY DEF Sums
    <3> QED BY <3>1, <2>3
  <2>5. k - 1 \in 0..n /\ k - 1 \notin Bad
    <3> HIDE DEF Bad
    <3>1. k - 1 \in 0..n /\ k - 1 < k
      BY <2>3, <2>4
    <3> QED BY <3>1, <2>2, <2>1
  <2>6. PICK s : Sums(s, f, k - 1)
    BY <2>5
  <2>7. Sums([i \in 0..k |-> IF i = k THEN s[k - 1] + f[k] ELSE s[i]], f, k)
    BY <2>3, <2>4, <2>6 DEF Sums
  <2> QED BY <2>3, <2>7
<1> QED BY <1>1

\* Whatever solves the recursion adds natural numbers up.
LEMMA SumsTyped ==
  ASSUME NEW n \in Nat, NEW f, \A i \in 1..n : f[i] \in Nat,
         NEW s, s = [i \in 0..n |-> IF i = 0 THEN 0 ELSE s[i - 1] + f[i]]
  PROVE  Sums(s, f, n)
<1> DEFINE Bad == {k \in 0..n : s[k] \notin Nat}
<1>1. s[0] = 0 /\ \A i \in 1..n : s[i] = s[i - 1] + f[i]
  <2>1. \A i \in 0..n : s[i] = IF i = 0 THEN 0 ELSE s[i - 1] + f[i]
    BY Zenon
  <2> QED BY <2>1
<1>2. Bad = {}
  <2> SUFFICES ASSUME Bad # {} PROVE FALSE
    OBVIOUS
  <2>1. Bad \in SUBSET Nat
    OBVIOUS
  <2>2. PICK k \in Bad : \A m \in Bad : k <= m
    BY <2>1, LeastNatural
  <2>3. k \in 1..n
    BY <1>1
  <2>4. k - 1 \in 0..n /\ k - 1 \notin Bad
    <3> HIDE DEF Bad
    <3> QED BY <2>1, <2>2, <2>3
  <2> QED BY <1>1, <2>3, <2>4
<1>3. s = [i \in 0..n |-> s[i]]
  BY Zenon
<1> QED BY <1>1, <1>2, <1>3 DEF Sums

\* There is one solution.
LEMMA SumsUnique ==
  ASSUME NEW n \in Nat, NEW f, NEW s, NEW t, Sums(s, f, n), Sums(t, f, n)
  PROVE  s[n] = t[n]
<1> DEFINE Bad == {k \in 0..n : s[k] # t[k]}
<1>1. Bad = {}
  <2> SUFFICES ASSUME Bad # {} PROVE FALSE
    OBVIOUS
  <2>1. Bad \in SUBSET Nat
    OBVIOUS
  <2>2. PICK k \in Bad : \A m \in Bad : k <= m
    BY <2>1, LeastNatural
  <2>3. k \in 1..n /\ s[k] # t[k]
    BY DEF Sums
  <2>4. k - 1 \in 0..n /\ k - 1 < k
    BY <2>3
  <2>5. k - 1 \notin Bad
    <3> HIDE DEF Bad
    <3> QED BY <2>1, <2>2, <2>4
  <2>6. s[k - 1] = t[k - 1] /\ s[k] = s[k - 1] + f[k] /\ t[k] = t[k - 1] + f[k]
    BY <2>3, <2>4, <2>5 DEF Sums
  <2> QED BY <2>3, <2>6
<1> QED BY <1>1

\* Sums of natural numbers grow.
LEMMA SumsGrow ==
  ASSUME NEW n \in Nat, NEW f, \A i \in 1..n : f[i] \in Nat, NEW s, Sums(s, f, n)
  PROVE  \A k \in 1..n : f[1] <= s[k]
<1> DEFINE Bad == {k \in 1..n : ~(f[1] <= s[k])}
<1>1. Bad = {}
  <2> SUFFICES ASSUME Bad # {} PROVE FALSE
    OBVIOUS
  <2>1. Bad \in SUBSET Nat
    OBVIOUS
  <2>2. PICK k \in Bad : \A m \in Bad : k <= m
    BY <2>1, LeastNatural
  <2>3. k \in 1..n /\ ~(f[1] <= s[k])
    OBVIOUS
  <2>4. \A i \in 1..n : s[i] = s[i - 1] + f[i] /\ s[i] \in Nat /\ s[i - 1] \in Nat /\ f[i] \in Nat
    BY DEF Sums
  <2>5. k # 1
    <3>1. s[0] = 0
      BY DEF Sums
    <3>2. 1 \in 1..n => s[1] = f[1] /\ f[1] \in Nat
      BY <2>4, <3>1
    <3> HIDE DEF Bad
    <3> QED BY <2>3, <3>2
  <2>6. k - 1 \in 1..n /\ k - 1 < k
    BY <2>3, <2>5
  <2>7. k - 1 \notin Bad
    <3> HIDE DEF Bad
    <3> QED BY <2>1, <2>2, <2>6
  <2>8. f[1] <= s[k - 1] /\ f[1] \in Nat
    BY <2>4, <2>6, <2>7
  <2>9. s[k] = s[k - 1] + f[k] /\ s[k] \in Nat /\ s[k - 1] \in Nat /\ f[k] \in Nat
    BY <2>3, <2>4
  <2> QED BY <2>3, <2>8, <2>9
<1> QED BY <1>1

\* One number more.
LEMMA SumAppend ==
  ASSUME NEW f \in Seq(Nat), NEW x \in Nat, NEW s, Sums(s, f, Len(f))
  PROVE  \E t : Sums(t, Append(f, x), Len(f) + 1) /\ t[Len(f) + 1] = s[Len(f)] + x
<1> DEFINE n == Len(f)
           g == Append(f, x)
           t == [i \in 0..(n + 1) |-> IF i = n + 1 THEN s[n] + x ELSE s[i]]
<1>1. n \in Nat /\ g[n + 1] = x /\ \A i \in 1..n : g[i] = f[i]
  OBVIOUS
<1> HIDE DEF n, g
<1>2. s \in [0..n -> Nat] /\ s[0] = 0 /\ \A i \in 1..n : s[i] = s[i - 1] + f[i]
  BY DEF Sums, n
<1>3. t \in [0..(n + 1) -> Nat] /\ t[0] = 0 /\ t[n + 1] = s[n] + x
  BY <1>1, <1>2
<1>4. ASSUME NEW i \in 1..(n + 1) PROVE t[i] = t[i - 1] + g[i]
  <2>1. CASE i = n + 1
    BY <1>1, <1>2, <2>1
  <2>2. CASE i # n + 1
    <3>1. i \in 1..n /\ i - 1 \in 0..n /\ i - 1 # n + 1
      BY <1>1, <2>2
    <3> QED BY <1>1, <1>2, <3>1
  <2> QED BY <2>1, <2>2
<1> HIDE DEF t
<1>5. Sums(t, g, n + 1)
  BY <1>3, <1>4 DEF Sums
<1> QED BY <1>3, <1>5 DEF n, g

\* Without the first number.
LEMMA SumTail ==
  ASSUME NEW f \in Seq(Nat), Len(f) > 0, NEW s, Sums(s, f, Len(f))
  PROVE  \E t : Sums(t, Tail(f), Len(f) - 1) /\ t[Len(f) - 1] = s[Len(f)] - Head(f)
<1> DEFINE n == Len(f)
           g == Tail(f)
           t == [i \in 0..(n - 1) |-> s[i + 1] - f[1]]
<1>1. n \in Nat /\ n > 0 /\ Head(f) = f[1] /\ \A i \in 1..(n - 1) : g[i] = f[i + 1]
  OBVIOUS
<1>2. \A i \in 1..n : f[i] \in Nat
  OBVIOUS
<1>3. \A i \in 1..n : f[1] <= s[i]
  BY <1>1, <1>2, SumsGrow
<1> HIDE DEF n, g
<1>4. s \in [0..n -> Nat] /\ s[0] = 0 /\ \A i \in 1..n : s[i] = s[i - 1] + f[i]
  BY DEF Sums, n
<1>5. f[1] \in Nat /\ s[1] = f[1]
  BY <1>1, <1>2, <1>4
<1>6. ASSUME NEW i \in 0..(n - 1) PROVE t[i] = s[i + 1] - f[1] /\ t[i] \in Nat
  <2>1. i + 1 \in 1..n
    BY <1>1
  <2> QED BY <1>3, <1>4, <1>5, <2>1
<1>7. t \in [0..(n - 1) -> Nat] /\ t[0] = 0 /\ t[n - 1] = s[n] - f[1]
  BY <1>1, <1>5, <1>6
<1> HIDE DEF t
<1>8. ASSUME NEW i \in 1..(n - 1) PROVE t[i] = t[i - 1] + g[i]
  <2>1. i \in 0..(n - 1) /\ i - 1 \in 0..(n - 1) /\ i + 1 \in 1..n /\ i \in 1..n /\ (i - 1) + 1 = i /\ (i + 1) - 1 = i
    BY <1>1
  <2>2. t[i] = s[i + 1] - f[1] /\ t[i - 1] = s[i] - f[1]
    BY <1>6, <2>1
  <2>3. s[i + 1] = s[i] + f[i + 1] /\ g[i] = f[i + 1] /\ s[i] \in Nat /\ f[i + 1] \in Nat
    BY <1>1, <1>2, <1>4, <2>1
  <2>4. PICK a \in Nat, d \in Nat, e \in Nat : a = s[i] /\ d = f[i + 1] /\ e = f[1]
    BY <1>5, <2>3
  <2>5. t[i] = (a + d) - e /\ t[i - 1] = a - e /\ g[i] = d
    BY <2>2, <2>3, <2>4
  <2>6. (a + d) - e = (a - e) + d
    BY <2>4
  <2> QED BY <2>5, <2>6
<1>9. Sums(t, g, n - 1)
  BY <1>7, <1>8 DEF Sums
<1> QED BY <1>1, <1>7, <1>9 DEF n, g

-----------------------------------------------------------------------------
(* The route computation finds least routes. *)

\* A road always costs something.
LEMMA CostType ==
  ASSUME congestion \in [Roads -> 1..10], NEW e \in Roads
  PROVE  Cost(e) \in Nat /\ Cost(e) > 0
<1>1. Length[e] \in Nat /\ Length[e] > 0 /\ 9 + congestion[e] \in Nat /\ 9 + congestion[e] > 0
  BY DijkstraConstants
<1>2. ASSUME NEW a \in Nat, a > 0, NEW b \in Nat, b > 0 PROVE a * b \in Nat /\ a * b > 0
  BY <1>2
<1>3. Length[e] * (9 + congestion[e]) \in Nat /\ Length[e] * (9 + congestion[e]) > 0
  BY <1>1, <1>2
<1> QED BY <1>1, <1>3 DEF Cost

\* WalkCost adds up the costs of the roads.
LEMMA WalkCostFacts ==
  ASSUME congestion \in [Roads -> 1..10], NEW p \in Seq(Roads)
  PROVE  \E s \in [0..Len(p) -> Nat] :
           /\ s[0] = 0 /\ \A i \in 1..Len(p) : s[i] = s[i - 1] + Cost(p[i])
           /\ WalkCost(p) = s[Len(p)]
<1> DEFINE f == [i \in 1..Len(p) |-> Cost(p[i])]
           Sum == CHOOSE s : s = [i \in 0..Len(p) |-> IF i = 0 THEN 0 ELSE s[i - 1] + Cost(p[i])]
<1>1. \A i \in 1..Len(p) : Cost(p[i]) \in Nat
  <2> SUFFICES ASSUME NEW i \in 1..Len(p) PROVE Cost(p[i]) \in Nat
    OBVIOUS
  <2>1. p[i] \in Roads
    OBVIOUS
  <2> QED BY <2>1, CostType
<1>2. PICK s : Sums(s, f, Len(p))
  <2>1. Len(p) \in Nat /\ \A i \in 1..Len(p) : f[i] \in Nat
    BY <1>1
  <2> HIDE DEF f
  <2> QED BY <2>1, SumsExist
<1>3. s = [i \in 0..Len(p) |-> IF i = 0 THEN 0 ELSE s[i - 1] + Cost(p[i])]
  <2>1. \A i \in 1..Len(p) : f[i] = Cost(p[i])
    OBVIOUS
  <2> QED BY <1>2, <2>1 DEF Sums
<1>4. Sum = [i \in 0..Len(p) |-> IF i = 0 THEN 0 ELSE Sum[i - 1] + Cost(p[i])]
  BY <1>3, Zenon
<1>5. WalkCost(p) = Sum[Len(p)]
  BY DEF WalkCost
<1>6. Sums(Sum, f, Len(p))
  <2>1. Len(p) \in Nat /\ \A i \in 1..Len(p) : f[i] \in Nat
    BY <1>1
  <2>2. Sum = [i \in 0..Len(p) |-> IF i = 0 THEN 0 ELSE Sum[i - 1] + f[i]]
    <3>1. [i \in 0..Len(p) |-> IF i = 0 THEN 0 ELSE Sum[i - 1] + Cost(p[i])]
          = [i \in 0..Len(p) |-> IF i = 0 THEN 0 ELSE Sum[i - 1] + f[i]]
      <4> HIDE DEF Sum
      <4> QED OBVIOUS
    <3> HIDE DEF Sum, f
    <3> QED BY <1>4, <3>1, Zenon
  <2> HIDE DEF Sum, f
  <2> QED BY <2>1, <2>2, SumsTyped
<1>7. \A i \in 1..Len(p) : f[i] = Cost(p[i])
  OBVIOUS
<1> HIDE DEF Sum, f
<1> QED BY <1>5, <1>6, <1>7 DEF Sums

-----------------------------------------------------------------------------

\* The nodes whose best item has been popped: their distances are final.
Settled == {n \in DOMAIN dist : <<n, dist[n]>> \notin queue}

RouteTypes ==
  /\ dst \in Nodes /\ disturbed \in BOOLEAN /\ congestion \in [Roads -> 1..10]
  /\ DOMAIN dist \subseteq Nodes /\ dist \in [DOMAIN dist -> Nat]
  /\ Src \in DOMAIN dist /\ dist[Src] = 0
  /\ DOMAIN dist = DOMAIN prev \cup {Src} /\ Src \notin DOMAIN prev
  /\ \A q \in queue : \E n \in DOMAIN dist, d \in Nat : q = <<n, d>>
  /\ cur \in DOMAIN dist /\ todo \subseteq Out(cur)
  /\ pc \in {"pop", "relax", "done"}

\* Nodes are settled in the order of their distances, whatever happens to the costs.
Ordered ==
  /\ \A q \in queue : dist[q[1]] <= q[2] /\ \A n \in Settled : dist[n] <= q[2]
  /\ pc = "relax" => cur \in Settled /\ cur # dst /\ \A n \in Settled : dist[n] <= dist[cur]
  /\ pc # "done" => dst \notin Settled
  /\ pc = "done" /\ dst \notin Settled => queue = {}

\* Every node reached hangs on a settled node, which is closer, by a road.
Hung ==
  \A n \in DOMAIN prev :
    /\ prev[n] \in Settled \ {dst} /\ dist[prev[n]] < dist[n]
    /\ \E e \in Roads : From(e) = prev[n] /\ To(e) = n

\* What costs at rest add: the roads out of a settled node have been relaxed, and the
\* road a node hangs by is what its distance adds.
AtRest ==
  ~disturbed =>
    /\ \A n \in Settled \ {dst} : \A e \in Out(n) :
         \/ pc = "relax" /\ n = cur /\ e \in todo
         \/ To(e) \in DOMAIN dist /\ dist[To(e)] <= dist[n] + Cost(e)
    /\ \A n \in DOMAIN prev : \E e \in Roads :
         From(e) = prev[n] /\ To(e) = n /\ dist[n] = dist[prev[n]] + Cost(e)

RouteInv == RouteTypes /\ Ordered /\ Hung /\ AtRest

\* An item is a node reached and a distance.
LEMMA ItemFacts ==
  ASSUME RouteTypes, NEW q \in queue
  PROVE  q = <<q[1], q[2]>> /\ q[1] \in DOMAIN dist /\ q[2] \in Nat /\ dist[q[1]] \in Nat
<1>1. PICK n \in DOMAIN dist, d \in Nat : q = <<n, d>>
  BY DEF RouteTypes
<1>2. q[1] = n /\ q[2] = d
  BY <1>1
<1> QED BY <1>1, <1>2 DEF RouteTypes

\* A popped item of the least priority settles its node, or is stale.
LEMMA PopKeeps == RouteInv /\ Pop => RouteInv'
<1> SUFFICES ASSUME RouteInv, Pop PROVE RouteInv'
  OBVIOUS
<1> USE DEF RouteInv
<1>1. PICK q \in queue :
        /\ \A r \in queue : q[2] <= r[2]
        /\ queue' = queue \ {q}
        /\ \/ q[2] > dist[q[1]] /\ UNCHANGED <<cur, todo, pc>>
           \/ q[2] <= dist[q[1]] /\ q[1] = dst /\ pc' = "done" /\ UNCHANGED <<cur, todo>>
           \/ /\ q[2] <= dist[q[1]] /\ q[1] # dst
              /\ cur' = q[1] /\ todo' = Out(q[1])
              /\ pc' = IF Out(q[1]) = {} THEN "pop" ELSE "relax"
  BY DEF Pop
<1>2. pc = "pop" /\ UNCHANGED <<dst, congestion, onCorr, disturbed, dist, prev>>
  BY DEF Pop, inputVars
<1>3. q = <<q[1], q[2]>> /\ q[1] \in DOMAIN dist /\ q[2] \in Nat
      /\ dist[q[1]] \in Nat /\ dist[q[1]] <= q[2]
  BY ItemFacts DEF Ordered
<1>4. \A n : Out(n)' = Out(n)
  BY DEF Out
<1>5. \A e : Cost(e)' = Cost(e)
  BY <1>2 DEF Cost
<1>6. RouteTypes'
  BY <1>1, <1>2, <1>3, <1>4 DEF RouteTypes
<1>7. CASE q[2] > dist[q[1]] /\ UNCHANGED <<cur, todo, pc>>
  <2>1. Settled' = Settled
    BY <1>1, <1>2, <1>3, <1>7 DEF Settled, RouteTypes
  <2>2. Ordered'
    BY <1>1, <1>2, <1>7, <2>1 DEF Ordered
  <2>3. Hung' /\ AtRest'
    BY <1>2, <1>4, <1>5, <1>7, <2>1 DEF Hung, AtRest
  <2> QED BY <1>6, <2>2, <2>3
<1>8. CASE q[2] <= dist[q[1]]
  <2>1. q = <<q[1], dist[q[1]]>>
    BY <1>3, <1>8
  <2>2. Settled' = Settled \cup {q[1]}
    BY <1>1, <1>2, <1>3, <2>1 DEF Settled
  <2>3. \A n \in Settled' : dist'[n] <= dist[q[1]] /\ dist'[n] \in Nat
    BY <1>2, <1>3, <2>1, <2>2 DEF Ordered, RouteTypes, Settled
  <2>4. \A r \in queue' : dist[q[1]] <= r[2] /\ r[2] \in Nat /\ dist[r[1]] <= r[2]
    <3> TAKE r \in queue'
    <3>1. r \in queue /\ q[2] <= r[2] /\ q[2] = dist[q[1]]
      BY <1>1, <1>3, <1>8
    <3> QED BY <3>1, ItemFacts DEF Ordered
  <2>5. \A r \in queue', n \in Settled' : dist'[n] <= r[2]
    BY <2>3, <2>4, <1>3
  <2>6. dst \notin Settled
    BY <1>2 DEF Ordered
  <2>7. CASE q[1] = dst
    <3>1. pc' = "done" /\ UNCHANGED <<cur, todo>>
      BY <1>1, <1>3, <1>8, <2>7
    <3>2. Settled' \ {dst} = Settled \ {dst} /\ dst \in Settled'
      BY <2>2, <2>7
    <3>3. Ordered'
      BY <1>2, <2>4, <2>5, <3>1, <3>2 DEF Ordered
    <3>4. Hung' /\ AtRest'
      BY <1>2, <1>4, <1>5, <3>1, <3>2 DEF Hung, AtRest
    <3> QED BY <1>6, <3>3, <3>4
  <2>8. CASE q[1] # dst
    <3>1. /\ cur' = q[1] /\ todo' = Out(q[1])
          /\ pc' = IF Out(q[1]) = {} THEN "pop" ELSE "relax"
      BY <1>1, <1>3, <1>8, <2>8
    <3>2. Ordered'
      BY <1>2, <2>2, <2>3, <2>4, <2>5, <2>6, <2>8, <3>1 DEF Ordered
    <3>3. Hung'
      BY <1>2, <2>2 DEF Hung
    <3>4. AtRest'
      <4> SUFFICES ASSUME ~disturbed'
                   PROVE  \A n \in Settled' \ {dst} : \A e \in Out(n) :
                            \/ pc' = "relax" /\ n = cur' /\ e \in todo'
                            \/ To(e) \in DOMAIN dist /\ dist[To(e)] <= dist[n] + Cost(e)
        BY <1>2, <1>4, <1>5 DEF AtRest
      <4> TAKE n \in Settled' \ {dst}
      <4> TAKE e \in Out(n)
      <4>1. CASE n = q[1]
        BY <3>1, <4>1
      <4>2. CASE n # q[1]
        BY <1>2, <2>2, <4>2 DEF AtRest
      <4> QED BY <4>1, <4>2
    <3> QED BY <1>6, <3>2, <3>3, <3>4
  <2> QED BY <2>7, <2>8
<1> QED BY <1>1, <1>3, <1>7, <1>8

\* Relaxing a road of the node settled last reaches no settled node.
LEMMA RelaxKeeps ==
  RouteInv /\ (\E e \in Roads : Relax(e)) => RouteInv'
<1> SUFFICES ASSUME RouteInv, NEW e \in Roads, Relax(e) PROVE RouteInv'
  OBVIOUS
<1> USE DEF RouteInv
<1> DEFINE v == To(e)
           alt == dist[cur] + Cost(e)
<1>1. pc = "relax" /\ e \in todo /\ UNCHANGED <<dst, congestion, onCorr, disturbed, cur>>
      /\ todo' = todo \ {e} /\ pc' = IF todo' = {} THEN "pop" ELSE "relax"
  BY DEF Relax, inputVars
<1>2. From(e) = cur /\ v \in Nodes /\ cur \in DOMAIN dist /\ cur \in Settled /\ dst \notin Settled
  BY <1>1, DijkstraConstants DEF RouteTypes, Ordered, Out
<1>3. Cost(e) \in Nat /\ Cost(e) > 0 /\ dist[cur] \in Nat
      /\ alt \in Nat /\ alt > dist[cur]
  BY <1>2, CostType DEF RouteTypes
<1>4. \A n : Out(n)' = Out(n)
  BY DEF Out
<1>5. \A r : Cost(r)' = Cost(r)
  BY <1>1 DEF Cost
<1>6. \A n \in Settled : dist[n] <= dist[cur] /\ n \in DOMAIN dist /\ dist[n] \in Nat
  BY <1>1 DEF Ordered, Settled, RouteTypes
<1>7. CASE ~Shorter(alt, v)
  <2>1. UNCHANGED <<dist, prev, queue>>
    BY <1>7 DEF Relax
  <2>2. v \in DOMAIN dist /\ dist[v] <= alt
    BY <1>3, <1>7 DEF Shorter, RouteTypes
  <2>3. Settled' = Settled
    BY <2>1 DEF Settled
  <2>4. RouteTypes' /\ Ordered' /\ Hung'
    BY <1>1, <1>4, <2>1, <2>3 DEF RouteTypes, Ordered, Hung
  <2>5. AtRest'
    BY <1>1, <1>2, <1>4, <1>5, <2>1, <2>2, <2>3 DEF AtRest
  <2> QED BY <2>4, <2>5
<1>8. CASE Shorter(alt, v)
  <2>1. /\ dist' = [n \in DOMAIN dist \cup {v} |-> IF n = v THEN alt ELSE dist[n]]
        /\ prev' = [n \in DOMAIN prev \cup {v} |-> IF n = v THEN cur ELSE prev[n]]
        /\ queue' = queue \cup {<<v, alt>>}
    BY <1>8 DEF Relax, With
  <2>2. v \notin Settled /\ v # cur /\ v # Src /\ (v \in DOMAIN dist => alt < dist[v] /\ dist[v] \in Nat)
    <3>1. v \in DOMAIN dist => alt < dist[v] /\ dist[v] \in Nat
      BY <1>8 DEF Shorter, RouteTypes
    <3> QED BY <1>2, <1>3, <1>6, <3>1 DEF RouteTypes
  <2>3. \A n \in DOMAIN dist : n # v => dist'[n] = dist[n]
    BY <2>1
  <2>4. Settled' = Settled
    BY <2>1, <2>2, <2>3 DEF Settled
  <2>5. \A n \in Settled : dist'[n] = dist[n] /\ n # v
    BY <1>6, <2>2, <2>3
  <2>6. ASSUME NEW q \in queue'
        PROVE  /\ \E n \in DOMAIN dist', d \in Nat : q = <<n, d>>
               /\ dist'[q[1]] <= q[2] /\ \A n \in Settled' : dist'[n] <= q[2]
    <3>1. CASE q = <<v, alt>>
      <4>1. q[1] = v /\ q[2] = alt /\ v \in DOMAIN dist' /\ dist'[v] = alt
        BY <2>1, <3>1
      <4>2. \A n \in Settled' : dist'[n] <= alt
        BY <1>3, <1>6, <2>4, <2>5
      <4> QED BY <1>3, <3>1, <4>1, <4>2
    <3>2. CASE q \in queue
      <4>1. q = <<q[1], q[2]>> /\ q[1] \in DOMAIN dist /\ q[2] \in Nat /\ dist[q[1]] \in Nat
            /\ dist[q[1]] <= q[2] /\ \A n \in Settled : dist[n] <= q[2]
        BY <3>2, ItemFacts DEF Ordered
      <4>2. dist'[q[1]] <= q[2]
        BY <1>3, <2>1, <2>2, <4>1
      <4>3. q = <<q[1], q[2]>> /\ q[1] \in DOMAIN dist' /\ q[2] \in Nat
        BY <2>1, <4>1
      <4> QED BY <2>4, <2>5, <4>1, <4>2, <4>3
    <3> QED BY <2>1, <3>1, <3>2
  <2>7. RouteTypes'
    <3>1. dist' \in [DOMAIN dist' -> Nat] /\ DOMAIN dist' = DOMAIN dist \cup {v}
          /\ DOMAIN prev' = DOMAIN prev \cup {v} /\ dist'[Src] = 0
      BY <1>3, <2>1, <2>2 DEF RouteTypes
    <3> QED BY <1>1, <1>2, <1>4, <2>2, <2>6, <3>1 DEF RouteTypes
  <2>8. Ordered'
    BY <1>1, <1>2, <1>6, <2>4, <2>5, <2>6 DEF Ordered
  <2>9. ASSUME NEW n \in DOMAIN prev'
        PROVE  /\ prev'[n] \in Settled' \ {dst'} /\ dist'[prev'[n]] < dist'[n]
               /\ n # v => n \in DOMAIN prev /\ prev'[n] = prev[n] /\ dist'[n] = dist[n]
                          /\ dist'[prev[n]] = dist[prev[n]]
               /\ n = v => prev'[n] = cur /\ dist'[n] = alt /\ dist'[cur] = dist[cur]
    <3>1. CASE n = v
      BY <1>1, <1>2, <1>3, <2>1, <2>2, <2>4, <2>5, <3>1
    <3>2. CASE n # v
      <4>1. n \in DOMAIN prev /\ prev'[n] = prev[n] /\ n \in DOMAIN dist
        BY <2>1, <2>9, <3>2 DEF RouteTypes
      <4>2. prev[n] \in Settled \ {dst} /\ dist[prev[n]] < dist[n]
        BY <4>1 DEF Hung
      <4> QED BY <1>1, <2>3, <2>4, <2>5, <3>2, <4>1, <4>2
    <3> QED BY <3>1, <3>2
  <2>10. Hung'
    BY <1>2, <2>9 DEF Hung
  <2>11. AtRest'
    <3> SUFFICES ASSUME ~disturbed
                 PROVE  /\ \A n \in Settled \ {dst} : \A r \in Out(n) :
                             \/ pc' = "relax" /\ n = cur /\ r \in todo'
                             \/ To(r) \in DOMAIN dist' /\ dist'[To(r)] <= dist[n] + Cost(r)
                        /\ \A n \in DOMAIN prev' : \E r \in Roads :
                             From(r) = prev'[n] /\ To(r) = n /\ dist'[n] = dist'[prev'[n]] + Cost(r)
      BY <1>1, <1>4, <1>5, <2>4, <2>5 DEF AtRest
    <3>1. ASSUME NEW n \in Settled \ {dst}, NEW r \in Out(n)
          PROVE  \/ pc' = "relax" /\ n = cur /\ r \in todo'
                 \/ To(r) \in DOMAIN dist' /\ dist'[To(r)] <= dist[n] + Cost(r)
      <4>1. CASE r = e
        BY <1>2, <1>3, <2>1, <4>1, <3>1 DEF Out
      <4>2. CASE r # e /\ n = cur /\ r \in todo
        BY <1>1, <4>2
      <4>3. CASE To(r) \in DOMAIN dist /\ dist[To(r)] <= dist[n] + Cost(r)
        <5>1. dist'[To(r)] <= dist[To(r)] /\ dist'[To(r)] \in Nat /\ dist[To(r)] \in Nat
          BY <1>3, <2>1, <2>2, <4>3 DEF RouteTypes
        <5>2. dist[n] \in Nat /\ Cost(r) \in Nat
          BY <1>6, <3>1, CostType DEF Out, RouteTypes
        <5> QED BY <2>1, <4>3, <5>1, <5>2
      <4> QED BY <1>1, <4>1, <4>2, <4>3 DEF AtRest
    <3>2. ASSUME NEW n \in DOMAIN prev'
          PROVE  \E r \in Roads :
                   From(r) = prev'[n] /\ To(r) = n /\ dist'[n] = dist'[prev'[n]] + Cost(r)
      <4>1. CASE n = v
        BY <1>2, <2>9, <4>1
      <4>2. CASE n # v
        BY <2>9, <4>2 DEF AtRest
      <4> QED BY <4>1, <4>2
    <3> QED BY <3>1, <3>2
  <2> QED BY <2>7, <2>8, <2>10, <2>11
<1> QED BY <1>7, <1>8

\* Disturbed costs leave the order of the distances alone.
LEMMA RouteInductive == RouteInv /\ [Next]_vars => RouteInv'
<1> SUFFICES ASSUME RouteInv, [Next]_vars PROVE RouteInv'
  OBVIOUS
<1>1. CASE Pop
  BY <1>1, PopKeeps
<1>2. CASE \E e \in Roads : Relax(e)
  BY <1>2, RelaxKeeps
<1>3. CASE Exhausted \/ Disturb \/ UNCHANGED vars
  <2>1. UNCHANGED <<dst, dist, prev, queue, cur, todo>>
    BY <1>3 DEF Exhausted, Disturb, vars, inputVars
  <2>2. Settled' = Settled
    BY <2>1 DEF Settled
  <2>3. \A n : Out(n)' = Out(n)
    BY DEF Out
  <2>4. disturbed' \in BOOLEAN /\ congestion' \in [Roads -> 1..10] /\ pc' \in {"pop", "relax", "done"}
        /\ (pc' = "relax" => pc = "relax") /\ (pc' # "done" => pc # "done")
        /\ (pc' = "done" => pc = "done" \/ queue = {})
    <3>1. CASE Exhausted
      BY <3>1 DEF Exhausted, inputVars, RouteInv, RouteTypes
    <3>2. CASE Disturb
      <4>1. Levels \subseteq 1..10
        BY DijkstraConstants
      <4> QED BY <3>2, <4>1 DEF Disturb, RouteInv, RouteTypes
    <3>3. CASE UNCHANGED vars
      BY <3>3 DEF vars, inputVars, RouteInv, RouteTypes
    <3> QED BY <1>3, <3>1, <3>2, <3>3
  <2>5. RouteTypes'
    BY <2>1, <2>3, <2>4 DEF RouteInv, RouteTypes
  <2>6. Ordered' /\ Hung'
    BY <2>1, <2>2, <2>4 DEF RouteInv, Ordered, Hung
  <2>7. AtRest'
    <3>1. CASE Disturb
      BY <3>1 DEF Disturb, AtRest
    <3>2. CASE Exhausted \/ UNCHANGED vars
      <4>1. UNCHANGED <<congestion, onCorr, disturbed>> /\ (pc = "relax" => pc' = "relax")
        BY <3>2 DEF Exhausted, vars, inputVars
      <4>2. \A r : Cost(r)' = Cost(r)
        BY <4>1 DEF Cost
      <4> QED BY <2>1, <2>2, <2>3, <4>1, <4>2 DEF RouteInv, AtRest
    <3> QED BY <1>3, <3>1, <3>2
  <2> QED BY <2>5, <2>6, <2>7 DEF RouteInv
<1> QED BY <1>1, <1>2, <1>3 DEF Next, SearchStep

\* Together.
LEMMA RouteInvariant == Spec => []RouteInv
<1>1. Init => RouteInv
  <2> SUFFICES ASSUME Init PROVE RouteInv
    OBVIOUS
  <2>1. dist = [n \in {Src} |-> 0] /\ DOMAIN dist = {Src} /\ dist[Src] = 0 /\ DOMAIN prev = {}
        /\ queue = {<<Src, 0>>} /\ Settled = {}
    BY DEF Init, Settled
  <2>2. congestion \in [Roads -> 1..10] /\ dst \in Nodes /\ disturbed \in BOOLEAN
    BY DijkstraConstants DEF Init
  <2>3. cur = Src /\ todo = {} /\ pc = "pop"
    BY DEF Init
  <2>4. RouteTypes
    BY <2>1, <2>2, <2>3, DijkstraConstants DEF RouteTypes
  <2>5. Ordered /\ Hung /\ AtRest
    BY <2>1, <2>3 DEF Ordered, Hung, AtRest
  <2> QED BY <2>4, <2>5 DEF RouteInv
<1> QED BY <1>1, RouteInductive, PTL DEF Spec

-----------------------------------------------------------------------------

\* A path of roads that prev gives: it leads from Src to n and the distances along it are
\* those found.
Chain(p, n) ==
  /\ p \in Seq(Roads) /\ Leads(p, n)
  /\ \A i \in 1..Len(p) :
       /\ To(p[i]) \in DOMAIN prev /\ prev[To(p[i])] = From(p[i])
       /\ ~disturbed => dist[To(p[i])] = dist[From(p[i])] + Cost(p[i])

\* prev does give it.
LEMMA ChainFollows == ASSUME NEW n, NEW p, Chain(p, n) PROVE Follows(p)
<1>1. p \in Seq(Roads)
  BY DEF Chain
<1>2. DOMAIN p = 1..Len(p)
  BY <1>1
<1> QED BY <1>2 DEF Chain, Follows

\* The nodes of a path that leads to n, in order.
LEMMA LeadsFacts ==
  ASSUME NEW n, NEW p \in Seq(Roads), Leads(p, n)
  PROVE  /\ (IF Len(p) = 0 THEN Src ELSE To(p[Len(p)])) = n
         /\ \A i \in 1..Len(p) : From(p[i]) = IF i - 1 = 0 THEN Src ELSE To(p[i - 1])
<1>1. CASE p = <<>>
  <2>1. Len(p) = 0 /\ n = Src
    BY <1>1 DEF Leads
  <2> QED BY <2>1
<1>2. CASE p # <<>>
  <2>1. Len(p) > 0 /\ Len(p) \in Nat
    BY <1>2
  <2>2. From(p[1]) = Src /\ To(p[Len(p)]) = n /\ \A i \in 1..(Len(p) - 1) : To(p[i]) = From(p[i + 1])
    BY <1>2 DEF Leads
  <2>3. ASSUME NEW i \in 1..Len(p) PROVE From(p[i]) = IF i - 1 = 0 THEN Src ELSE To(p[i - 1])
    <3>1. CASE i = 1
      BY <2>2, <3>1
    <3>2. CASE i # 1
      <4>1. i - 1 \in 1..(Len(p) - 1) /\ (i - 1) + 1 = i /\ i - 1 # 0
        BY <2>1, <3>2
      <4>2. To(p[i - 1]) = From(p[(i - 1) + 1])
        BY <2>2, <4>1
      <4> QED BY <4>1, <4>2
    <3> QED BY <3>1, <3>2
  <2> QED BY <2>1, <2>2, <2>3
<1> QED BY <1>1, <1>2

\* Following prev back from a node reached gives such a path.
LEMMA ChainExists ==
  ASSUME RouteInv, NEW m \in DOMAIN dist
  PROVE  \E p : Chain(p, m)
<1> DEFINE Bad == {d \in Nat : \E n \in DOMAIN dist : dist[n] = d /\ ~\E p : Chain(p, n)}
<1>1. Bad = {}
  <2> SUFFICES ASSUME Bad # {} PROVE FALSE
    OBVIOUS
  <2>1. PICK d \in Bad : \A k \in Bad : d <= k
    BY LeastNatural
  <2>2. PICK n \in DOMAIN dist : dist[n] = d /\ ~\E p : Chain(p, n)
    BY <2>1
  <2>3. n # Src
    <3>1. <<>> \in Seq(Roads) /\ Len(<<>>) = 0
      OBVIOUS
    <3>2. Chain(<<>>, Src)
      BY <3>1 DEF Chain, Leads
    <3> QED BY <2>2, <3>2
  <2>4. n \in DOMAIN prev
    BY <2>3 DEF RouteInv, RouteTypes
  <2>5. prev[n] \in DOMAIN dist /\ dist[prev[n]] < dist[n] /\ dist[prev[n]] \in Nat
    BY <2>4 DEF RouteInv, Hung, Settled, RouteTypes
  <2>6. dist[prev[n]] \notin Bad
    <3>1. d \in Nat
      OBVIOUS
    <3> HIDE DEF Bad
    <3> QED BY <2>1, <2>2, <2>5, <3>1
  <2>7. PICK p : Chain(p, prev[n])
    BY <2>5, <2>6
  <2>8. PICK e \in Roads : /\ From(e) = prev[n] /\ To(e) = n
                           /\ ~disturbed => dist[n] = dist[prev[n]] + Cost(e)
    BY <2>4 DEF RouteInv, Hung, AtRest
  <2> DEFINE q == Append(p, e)
  <2>9. p \in Seq(Roads) /\ Len(p) \in Nat
    BY <2>7 DEF Chain
  <2>10. /\ q \in Seq(Roads) /\ Len(q) = Len(p) + 1 /\ q # <<>>
         /\ q[Len(p) + 1] = e /\ \A i \in 1..Len(p) : q[i] = p[i]
    BY <2>9
  <2> HIDE DEF q
  <2>11. Leads(p, prev[n])
    BY <2>7 DEF Chain
  <2>12. Leads(q, n)
    <3>1. CASE p = <<>>
      <4>1. Len(p) = 0 /\ Len(q) = 1 /\ q[1] = e /\ prev[n] = Src
        BY <2>10, <2>11, <3>1 DEF Leads
      <4> QED BY <2>8, <2>10, <4>1 DEF Leads
    <3>2. CASE p # <<>>
      <4>1. Len(p) > 0 /\ Len(p) \in Nat
        BY <2>9, <3>2
      <4>2. From(p[1]) = Src /\ To(p[Len(p)]) = prev[n]
            /\ \A i \in 1..(Len(p) - 1) : To(p[i]) = From(p[i + 1])
        BY <2>11, <3>2 DEF Leads
      <4>3. From(q[1]) = Src /\ To(q[Len(q)]) = n
        BY <2>8, <2>10, <4>1, <4>2
      <4>4. ASSUME NEW i \in 1..(Len(q) - 1) PROVE To(q[i]) = From(q[i + 1])
        <5>1. CASE i = Len(p)
          BY <2>8, <2>10, <4>1, <4>2, <5>1
        <5>2. CASE i # Len(p)
          <6>1. i \in 1..(Len(p) - 1) /\ i + 1 \in 1..Len(p) /\ i \in 1..Len(p)
            BY <2>10, <4>1, <5>2
          <6> QED BY <2>10, <4>2, <6>1
        <5> QED BY <5>1, <5>2
      <4> QED BY <2>10, <4>3, <4>4 DEF Leads
    <3> QED BY <3>1, <3>2
  <2>13. ASSUME NEW i \in 1..Len(q)
         PROVE  /\ To(q[i]) \in DOMAIN prev /\ prev[To(q[i])] = From(q[i])
                /\ ~disturbed => dist[To(q[i])] = dist[From(q[i])] + Cost(q[i])
    <3>1. CASE i = Len(p) + 1
      BY <2>4, <2>8, <2>10, <3>1
    <3>2. CASE i # Len(p) + 1
      <4>1. i \in 1..Len(p) /\ q[i] = p[i]
        BY <2>9, <2>10, <3>2
      <4> QED BY <2>7, <4>1 DEF Chain
    <3> QED BY <3>1, <3>2
  <2>14. Chain(q, n)
    BY <2>10, <2>12, <2>13 DEF Chain
  <2> QED BY <2>2, <2>14
<1>2. dist[m] \in Nat
  BY DEF RouteInv, RouteTypes
<1> QED BY <1>1, <1>2

\* The module counts as this one does.
\* The distances grow along it, so it visits no node twice and is shorter than there are nodes.
LEMMA ChainShort ==
  ASSUME RouteInv, NEW n, NEW p, Chain(p, n)
  PROVE  p \in Walks(n)
<1>1. p \in Seq(Roads) /\ Len(p) \in Nat /\ Leads(p, n)
  BY DEF Chain
<1>2. \A i \in 1..Len(p) :
        /\ p[i] \in Roads /\ To(p[i]) \in DOMAIN prev /\ To(p[i]) \in Nodes \ {Src}
        /\ dist[From(p[i])] < dist[To(p[i])]
        /\ dist[From(p[i])] \in Nat /\ dist[To(p[i])] \in Nat
  <2> SUFFICES ASSUME NEW i \in 1..Len(p)
               PROVE  /\ p[i] \in Roads /\ To(p[i]) \in DOMAIN prev /\ To(p[i]) \in Nodes \ {Src}
                      /\ dist[From(p[i])] < dist[To(p[i])]
                      /\ dist[From(p[i])] \in Nat /\ dist[To(p[i])] \in Nat
    OBVIOUS
  <2>1. p[i] \in Roads /\ To(p[i]) \in DOMAIN prev /\ prev[To(p[i])] = From(p[i])
    BY <1>1 DEF Chain
  <2>2. To(p[i]) \in Nodes \ {Src} /\ To(p[i]) \in DOMAIN dist
    BY <2>1 DEF RouteInv, RouteTypes
  <2>3. From(p[i]) \in DOMAIN dist /\ dist[From(p[i])] < dist[To(p[i])]
    BY <2>1 DEF RouteInv, Hung, Settled
  <2> QED BY <2>1, <2>2, <2>3 DEF RouteInv, RouteTypes
<1>3. \A i \in 1..(Len(p) - 1) : To(p[i]) = From(p[i + 1])
  <2>1. CASE p = <<>>
    <3>1. Len(p) = 0
      BY <2>1
    <3> QED BY <3>1
  <2>2. CASE p # <<>>
    BY <1>1, <2>2 DEF Leads
  <2> QED BY <2>1, <2>2
<1>4. ASSUME NEW i \in 1..Len(p), NEW k \in 1..Len(p), i < k
      PROVE  To(p[i]) # To(p[k])
  <2> DEFINE Bad == {j \in 1..Len(p) : i < j /\ ~(dist[To(p[i])] < dist[To(p[j])])}
  <2>1. Bad = {}
    <3> SUFFICES ASSUME Bad # {} PROVE FALSE
      OBVIOUS
    <3>1. Bad \in SUBSET Nat
      OBVIOUS
    <3>2. PICK j \in Bad : \A l \in Bad : j <= l
      BY <3>1, LeastNatural
    <3>3. j \in 1..Len(p) /\ i < j /\ ~(dist[To(p[i])] < dist[To(p[j])])
      OBVIOUS
    <3>4. j - 1 \in 1..(Len(p) - 1) /\ j - 1 \in 1..Len(p) /\ (j - 1) + 1 = j /\ j - 1 < j
      BY <1>1, <3>3
    <3>5. j - 1 \notin Bad
      <4> HIDE DEF Bad
      <4> QED BY <3>1, <3>2, <3>4
    <3>6. To(p[j - 1]) = From(p[j])
      <4>1. To(p[j - 1]) = From(p[(j - 1) + 1])
        BY <1>3, <3>4
      <4> QED BY <3>4, <4>1
    <3>7. dist[To(p[j - 1])] < dist[To(p[j])] /\ dist[To(p[j - 1])] \in Nat /\ dist[To(p[j])] \in Nat
      BY <1>2, <3>3, <3>6
    <3>8. dist[To(p[i])] \in Nat /\ (j - 1 = i \/ dist[To(p[i])] < dist[To(p[j - 1])])
      BY <1>2, <3>3, <3>4, <3>5
    <3> QED BY <3>3, <3>7, <3>8
  <2>2. dist[To(p[i])] < dist[To(p[k])] /\ dist[To(p[i])] \in Nat
    BY <1>2, <1>4, <2>1
  <2> QED BY <2>2
<1>5. IsFiniteSet(Nodes \ {Src}) /\ Cardinality(Nodes \ {Src}) = Size - 1 /\ Size \in Nat
  <2>1. IsFiniteSet(Nodes) /\ Src \in Nodes /\ Size = Cardinality(Nodes)
    BY DijkstraConstants DEF Size
  <2> QED BY <2>1, FS_RemoveElement, FS_CardinalityType
<1>6. IsFiniteSet(1..Len(p)) /\ Cardinality(1..Len(p)) = Len(p)
  BY <1>1, FS_Interval
<1>7. Len(p) <= Size - 1
  <2> DEFINE g == [i \in 1..Len(p) |-> To(p[i])]
  <2>1. g \in [1..Len(p) -> Nodes \ {Src}]
    BY <1>2
  <2>2. \A i, k \in 1..Len(p) : i # k => g[i] # g[k]
    <3> SUFFICES ASSUME NEW i \in 1..Len(p), NEW k \in 1..Len(p), i # k PROVE g[i] # g[k]
      OBVIOUS
    <3>1. i < k \/ k < i
      BY <1>1
    <3> QED BY <1>4, <3>1
  <2> HIDE DEF g
  <2>3. ~(Cardinality(Nodes \ {Src}) < Cardinality(1..Len(p)))
    BY <1>5, <1>6, <2>1, <2>2, FS_PigeonHole
  <2> QED BY <1>1, <1>5, <1>6, <2>3
<1>8. p \in [1..Len(p) -> Roads] /\ Len(p) \in 0..(Size - 1)
  BY <1>1, <1>5, <1>7
<1> QED BY <1>1, <1>8 DEF Walks

\* With costs at rest, what such a path costs is the distance found.
LEMMA ChainCost ==
  ASSUME RouteInv, ~disturbed, NEW n, NEW p, Chain(p, n)
  PROVE  WalkCost(p) = dist[n]
<1> DEFINE Node(i) == IF i = 0 THEN Src ELSE To(p[i])
<1>1. p \in Seq(Roads) /\ Len(p) \in Nat /\ Leads(p, n)
  BY DEF Chain
<1>2. PICK s \in [0..Len(p) -> Nat] :
        /\ s[0] = 0 /\ \A i \in 1..Len(p) : s[i] = s[i - 1] + Cost(p[i])
        /\ WalkCost(p) = s[Len(p)]
  BY <1>1, WalkCostFacts DEF RouteInv, RouteTypes
<1>3. Node(Len(p)) = n /\ \A i \in 1..Len(p) : From(p[i]) = Node(i - 1)
  BY <1>1, LeadsFacts
<1> DEFINE Bad == {i \in 0..Len(p) : s[i] # dist[Node(i)]}
<1>4. Bad = {}
  <2> SUFFICES ASSUME Bad # {} PROVE FALSE
    OBVIOUS
  <2>1. Bad \in SUBSET Nat
    OBVIOUS
  <2>2. PICK k \in Bad : \A l \in Bad : k <= l
    BY <2>1, LeastNatural
  <2>3. k \in 1..Len(p) /\ s[k] # dist[Node(k)]
    BY <1>1, <1>2 DEF RouteInv, RouteTypes
  <2>4. k - 1 \in 0..Len(p) /\ k - 1 \notin Bad
    <3>1. k - 1 \in 0..Len(p) /\ k - 1 < k
      BY <1>1, <2>3
    <3> HIDE DEF Bad
    <3> QED BY <2>1, <2>2, <3>1
  <2>5. s[k - 1] = dist[Node(k - 1)]
    BY <2>4
  <2>6. dist[To(p[k])] = dist[From(p[k])] + Cost(p[k])
    BY <2>3 DEF Chain
  <2> HIDE DEF Node
  <2>7. From(p[k]) = Node(k - 1) /\ s[k] = s[k - 1] + Cost(p[k])
    BY <1>2, <1>3, <2>3
  <2>8. Node(k) = To(p[k])
    BY <2>3 DEF Node
  <2> QED BY <2>3, <2>5, <2>6, <2>7, <2>8
<1>5. s[Len(p)] = dist[Node(Len(p))]
  BY <1>1, <1>4
<1> HIDE DEF Node
<1> QED BY <1>2, <1>3, <1>5

\* When the search is over and costs were at rest, no path to dst costs less.
LEMMA NoShorter ==
  ASSUME RouteInv, ~disturbed, pc = "done",
         NEW p \in Seq(Roads), Leads(p, dst)
  PROVE  dst \in DOMAIN dist /\ dist[dst] <= WalkCost(p)
<1> DEFINE Node(i) == IF i = 0 THEN Src ELSE To(p[i])
<1>1. PICK s \in [0..Len(p) -> Nat] :
        /\ s[0] = 0 /\ \A i \in 1..Len(p) : s[i] = s[i - 1] + Cost(p[i])
        /\ WalkCost(p) = s[Len(p)]
  BY WalkCostFacts DEF RouteInv, RouteTypes
<1>2. Node(Len(p)) = dst /\ \A i \in 1..Len(p) : From(p[i]) = Node(i - 1)
  BY LeadsFacts
<1> DEFINE Reached(i) == \/ Node(i) \in DOMAIN dist /\ dist[Node(i)] <= s[i]
                         \/ dst \in DOMAIN dist /\ dist[dst] <= s[i]
           Bad == {i \in 0..Len(p) : ~Reached(i)}
<1>3. Bad = {}
  <2> SUFFICES ASSUME Bad # {} PROVE FALSE
    OBVIOUS
  <2>1. Bad \in SUBSET Nat
    OBVIOUS
  <2>2. PICK k \in Bad : \A l \in Bad : k <= l
    BY <2>1, LeastNatural
  <2>3. Reached(0)
    BY <1>1 DEF RouteInv, RouteTypes
  <2>4. k \in 1..Len(p) /\ ~Reached(k)
    <3> HIDE DEF Reached
    <3> QED BY <2>2, <2>3
  <2>5. Reached(k - 1)
    <3>1. k - 1 \in 0..Len(p) /\ k - 1 < k
      BY <2>4
    <3>2. k - 1 \notin Bad
      <4> HIDE DEF Bad
      <4> QED BY <2>1, <2>2, <3>1
    <3> HIDE DEF Reached
    <3> QED BY <3>1, <3>2
  <2>6. p[k] \in Roads /\ Cost(p[k]) \in Nat /\ s[k] = s[k - 1] + Cost(p[k])
        /\ s[k] \in Nat /\ s[k - 1] \in Nat
    <3>1. p[k] \in Roads
      BY <2>4
    <3>2. Cost(p[k]) \in Nat
      BY <3>1, CostType DEF RouteInv, RouteTypes
    <3>3. k \in 0..Len(p) /\ k - 1 \in 0..Len(p)
      BY <2>4
    <3> QED BY <1>1, <2>4, <3>1, <3>2, <3>3
  <2>7. From(p[k]) = Node(k - 1) /\ Node(k) = To(p[k])
    BY <1>2, <2>4
  <2> HIDE DEF Node
  <2>8. \A n \in DOMAIN dist : dist[n] \in Nat
    BY DEF RouteInv, RouteTypes
  <2>9. ~(dst \in DOMAIN dist /\ dist[dst] <= s[k - 1])
    BY <2>4, <2>6, <2>8
  <2>10. Node(k - 1) \in DOMAIN dist /\ dist[Node(k - 1)] <= s[k - 1] /\ Node(k - 1) # dst
    BY <2>5, <2>9
  <2>11. Node(k - 1) \in Settled
    <3> SUFFICES ASSUME Node(k - 1) \notin Settled PROVE FALSE
      OBVIOUS
    <3> DEFINE q == <<Node(k - 1), dist[Node(k - 1)]>>
    <3>1. q \in queue /\ q[2] = dist[Node(k - 1)]
      BY <2>10 DEF Settled
    <3>2. dst \in Settled
      BY <3>1 DEF RouteInv, Ordered
    <3>3. dist[dst] <= q[2] /\ dst \in DOMAIN dist
      BY <3>1, <3>2 DEF RouteInv, Ordered, Settled
    <3> QED BY <2>6, <2>8, <2>9, <2>10, <3>1, <3>3
  <2>12. p[k] \in Out(Node(k - 1))
    BY <2>6, <2>7 DEF Out
  <2>13. To(p[k]) \in DOMAIN dist /\ dist[To(p[k])] <= dist[Node(k - 1)] + Cost(p[k])
    BY <2>10, <2>11, <2>12 DEF RouteInv, AtRest
  <2>14. dist[To(p[k])] <= s[k]
    BY <2>6, <2>8, <2>10, <2>13
  <2> QED BY <2>4, <2>7, <2>13, <2>14
<1>4. Len(p) \in 0..Len(p)
  OBVIOUS
<1>5. Reached(Len(p))
  <2> HIDE DEF Reached
  <2> QED BY <1>3, <1>4
<1> HIDE DEF Node
<1> QED BY <1>1, <1>2, <1>5

\* On every graph with positive lengths, every corridor and every choice among equal priorities:
\* if no road changed meanwhile, the distance ShortestPath ends with is the least cost of all
\* paths to dst, prev gives a path of that cost, and dst is found whenever a path leads to it.
THEOREM RoutesAreLeast == Spec => []ShortestFound
<1>1. RouteInv => ShortestFound
  <2> SUFFICES ASSUME RouteInv, pc = "done", ~disturbed
               PROVE  IF dst \in DOMAIN dist
                      THEN /\ \A p \in Walks(dst) : dist[dst] <= WalkCost(p)
                           /\ \E p \in Walks(dst) : Follows(p) /\ WalkCost(p) = dist[dst]
                      ELSE Walks(dst) = {}
    BY DEF ShortestFound
  <2>1. \A p \in Walks(dst) : dst \in DOMAIN dist /\ dist[dst] <= WalkCost(p)
    <3> TAKE p \in Walks(dst)
    <3>1. Size \in Nat
      <4>1. IsFiniteSet(Nodes) /\ Size = Cardinality(Nodes)
        BY DijkstraConstants DEF Size
      <4> QED BY <4>1, FS_CardinalityType
    <3>2. Leads(p, dst) /\ \E k \in 0..(Size - 1) : p \in [1..k -> Roads]
      BY DEF Walks
    <3>3. p \in Seq(Roads)
      BY <3>1, <3>2
    <3> QED BY <3>2, <3>3, NoShorter
  <2>2. ASSUME dst \in DOMAIN dist
        PROVE  \E p \in Walks(dst) : Follows(p) /\ WalkCost(p) = dist[dst]
    <3>1. PICK p : Chain(p, dst)
      BY <2>2, ChainExists
    <3>2. p \in Walks(dst) /\ WalkCost(p) = dist[dst]
      BY <3>1, ChainShort, ChainCost
    <3> QED BY <3>1, <3>2, ChainFollows
  <2> QED BY <2>1, <2>2
<1> QED BY <1>1, RouteInvariant, PTL

\* At every moment, and whatever the updater and dispatches do to the costs under the search,
\* prev gives a path without a circle from Src to every node reached: the loop of ShortestPath
\* that rebuilds the path ends, at Src.
THEOREM PathsLead == Spec => [](\A n \in DOMAIN dist : \E p \in Walks(n) : Follows(p))
<1> DEFINE Led == \A n \in DOMAIN dist : \E p \in Walks(n) : Follows(p)
<1>1. RouteInv => Led
  <2> SUFFICES ASSUME RouteInv, NEW n \in DOMAIN dist
               PROVE  \E p \in Walks(n) : Follows(p)
    OBVIOUS
  <2>1. PICK p : Chain(p, n)
    BY ChainExists
  <2> QED BY <2>1, ChainShort, ChainFollows
<1> SUFFICES Spec => []Led
  OBVIOUS
<1> HIDE DEF Led
<1> QED BY <1>1, RouteInvariant, PTL

-----------------------------------------------------------------------------
(* The corridor's penalty. *)

\* WalkLength adds up the lengths of the roads.
LEMMA WalkLengthFacts ==
  ASSUME NEW p \in Seq(Roads)
  PROVE  \E s \in [0..Len(p) -> Nat] :
           /\ s[0] = 0 /\ \A i \in 1..Len(p) : s[i] = s[i - 1] + Length[p[i]]
           /\ WalkLength(p) = s[Len(p)]
<1> DEFINE f == [i \in 1..Len(p) |-> Length[p[i]]]
           Sum == CHOOSE s : s = [i \in 0..Len(p) |-> IF i = 0 THEN 0 ELSE s[i - 1] + Length[p[i]]]
<1>1. Len(p) \in Nat /\ \A i \in 1..Len(p) : f[i] \in Nat /\ f[i] = Length[p[i]]
  BY DijkstraConstants
<1>2. PICK s : Sums(s, f, Len(p))
  <2> HIDE DEF f
  <2> QED BY <1>1, SumsExist
<1>3. s = [i \in 0..Len(p) |-> IF i = 0 THEN 0 ELSE s[i - 1] + Length[p[i]]]
  BY <1>1, <1>2 DEF Sums
<1>4. Sum = [i \in 0..Len(p) |-> IF i = 0 THEN 0 ELSE Sum[i - 1] + Length[p[i]]]
  BY <1>3, Zenon
<1>5. WalkLength(p) = Sum[Len(p)]
  BY DEF WalkLength
<1>6. Sums(Sum, f, Len(p))
  <2>1. [i \in 0..Len(p) |-> IF i = 0 THEN 0 ELSE Sum[i - 1] + Length[p[i]]]
        = [i \in 0..Len(p) |-> IF i = 0 THEN 0 ELSE Sum[i - 1] + f[i]]
    <3> HIDE DEF Sum
    <3> QED OBVIOUS
  <2> HIDE DEF Sum, f
  <2>2. Sum = [i \in 0..Len(p) |-> IF i = 0 THEN 0 ELSE Sum[i - 1] + f[i]]
    BY <1>4, <2>1, Zenon
  <2> QED BY <1>1, <2>2, SumsTyped
<1> HIDE DEF Sum, f
<1> QED BY <1>1, <1>5, <1>6 DEF Sums

\* A road of the corridor costs at least fifty times nineteen its length, any other at most
\* nineteen times.
LEMMA CostBounds ==
  ASSUME congestion \in [Roads -> 1..10], NEW e \in Roads, Avoid
  PROVE  IF e \in onCorr THEN Cost(e) = 950 * Length[e] ELSE Cost(e) <= 19 * Length[e]
<1>1. PICK a \in Nat : a = Length[e]
  BY DijkstraConstants
<1>2. PICK c \in 1..10 : c = congestion[e]
  OBVIOUS
<1>3. CASE e \in onCorr
  BY <1>1, <1>3 DEF Cost
<1>4. CASE e \notin onCorr
  <2>1. Cost(e) = a * (9 + c)
    BY <1>1, <1>2, <1>4 DEF Cost
  <2>2. a * (9 + c) <= 19 * a
    <3>1. \/ c = 1 \/ c = 2 \/ c = 3 \/ c = 4 \/ c = 5 \/ c = 6 \/ c = 7 \/ c = 8 \/ c = 9 \/ c = 10
      OBVIOUS
    <3> QED BY <3>1
  <2> QED BY <2>1, <2>2, <1>1, <1>4
<1> QED BY <1>3, <1>4

\* A walk off the corridor costs at most nineteen times its length.
LEMMA OffCorridorCost ==
  ASSUME congestion \in [Roads -> 1..10], Avoid, NEW p \in Seq(Roads), OffCorridor(p)
  PROVE  WalkLength(p) \in Nat /\ WalkCost(p) \in Nat /\ WalkCost(p) <= 19 * WalkLength(p)
<1>1. PICK n \in Nat : n = Len(p)
  BY LenProperties
<1>2. PICK s \in [0..n -> Nat] :
        s[0] = 0 /\ (\A i \in 1..n : s[i] = s[i - 1] + Cost(p[i])) /\ WalkCost(p) = s[n]
  BY <1>1, WalkCostFacts
<1>3. PICK t \in [0..n -> Nat] :
        t[0] = 0 /\ (\A i \in 1..n : t[i] = t[i - 1] + Length[p[i]]) /\ WalkLength(p) = t[n]
  BY <1>1, WalkLengthFacts
<1>4. \A i \in 1..n : Cost(p[i]) \in Nat /\ Length[p[i]] \in Nat /\ Cost(p[i]) <= 19 * Length[p[i]]
  <2> TAKE i \in 1..n
  <2>1. p[i] \in Roads /\ p[i] \notin onCorr
    BY <1>1, ElementOfSeq, LenProperties DEF OffCorridor
  <2> QED BY <2>1, CostType, CostBounds, DijkstraConstants
<1> DEFINE T == {i \in 0..n : s[i] <= 19 * t[i]}
<1>5. \A i \in 0..n : i \in T
  <2>1. 0 \in T
    BY <1>2, <1>3
  <2>2. ASSUME NEW i \in 0..n, i \in T, i < n PROVE i + 1 \in T
    <3>1. i + 1 \in 1..n /\ (i + 1) - 1 = i /\ i + 1 \in 0..n
      BY <2>2
    <3>2. s[i + 1] = s[i] + Cost(p[i + 1]) /\ t[i + 1] = t[i] + Length[p[i + 1]]
      BY <3>1, <1>2, <1>3
    <3>3. PICK a, b, x, y \in Nat : a = s[i] /\ b = t[i] /\ x = Cost(p[i + 1]) /\ y = Length[p[i + 1]]
      BY <3>1, <1>4
    <3>4. a <= 19 * b /\ x <= 19 * y
      BY <2>2, <3>1, <3>3, <1>4
    <3>5. a + x <= 19 * (b + y)
      BY <3>4
    <3> QED BY <3>1, <3>2, <3>3, <3>5
  <2> HIDE DEF T
  <2> QED BY <2>1, <2>2, UpTo
<1>6. n \in 0..n
  OBVIOUS
<1> QED BY <1>2, <1>3, <1>5, <1>6

\* A walk costs no less than any of its roads.
LEMMA RoadInWalk ==
  ASSUME congestion \in [Roads -> 1..10], NEW p \in Seq(Roads), NEW k \in 1..Len(p)
  PROVE  Cost(p[k]) <= WalkCost(p)
<1>1. PICK n \in Nat : n = Len(p)
  BY LenProperties
<1>2. PICK s \in [0..n -> Nat] :
        s[0] = 0 /\ (\A i \in 1..n : s[i] = s[i - 1] + Cost(p[i])) /\ WalkCost(p) = s[n]
  BY <1>1, WalkCostFacts
<1>3. \A i \in 1..n : Cost(p[i]) \in Nat
  <2> TAKE i \in 1..n
  <2>1. p[i] \in Roads
    BY <1>1, ElementOfSeq
  <2> QED BY <2>1, CostType
<1>4. k \in 1..n /\ k \in Nat
  BY <1>1
<1>5. PICK x \in Nat : x = Cost(p[k])
  BY <1>3, <1>4
<1> DEFINE T == {i \in k..n : x <= s[i]}
<1>6. \A i \in k..n : i \in T
  <2>1. k \in T
    <3>1. s[k] = s[k - 1] + x /\ s[k - 1] \in Nat
      BY <1>2, <1>4, <1>5
    <3> QED BY <3>1, <1>4
  <2>2. ASSUME NEW i \in k..n, i \in T, i < n PROVE i + 1 \in T
    <3>1. i + 1 \in 1..n /\ (i + 1) - 1 = i /\ i + 1 \in k..n /\ i \in 0..n
      BY <2>2, <1>4
    <3>2. s[i + 1] = s[i] + Cost(p[i + 1]) /\ Cost(p[i + 1]) \in Nat /\ s[i] \in Nat /\ x <= s[i]
      BY <2>2, <3>1, <1>2, <1>3
    <3> QED BY <3>1, <3>2
  <2> HIDE DEF T
  <2> QED BY <2>1, <2>2, <1>4, UpTo
<1>7. n \in k..n
  BY <1>4
<1> QED BY <1>2, <1>5, <1>6, <1>7

\* On every graph: while nothing changes under the search, a normal vehicle's route uses no road
\* of the emergency corridor when there is another way not fifty times as long as one (Neighbors
\* multiplies the distance by 50 and takes the worst congestion).
THEOREM CorridorsAreAvoided == Spec => []KeepsOffCorridor
<1>1. RouteInv => KeepsOffCorridor
  <2> SUFFICES ASSUME RouteInv, pc = "done", ~disturbed, Avoid,
                      NEW q \in Walks(dst), OffCorridor(q), \A e \in onCorr : WalkLength(q) < 50 * Length[e]
               PROVE  \E p \in Walks(dst) : Follows(p) /\ OffCorridor(p)
    BY DEF KeepsOffCorridor
  <2>1. congestion \in [Roads -> 1..10]
    BY DEF RouteInv, RouteTypes
  <2>2. q \in Seq(Roads) /\ Leads(q, dst)
    <3>1. Size \in Nat
      <4>1. IsFiniteSet(Nodes) /\ Size = Cardinality(Nodes)
        BY DijkstraConstants DEF Size
      <4> QED BY <4>1, FS_CardinalityType
    <3>2. Leads(q, dst) /\ \E k \in 0..(Size - 1) : q \in [1..k -> Roads]
      BY DEF Walks
    <3> QED BY <3>1, <3>2
  <2>3. dst \in DOMAIN dist /\ dist[dst] <= WalkCost(q)
    BY <2>2, NoShorter
  <2>4. PICK p : Chain(p, dst)
    BY <2>3, ChainExists
  <2>5. p \in Walks(dst) /\ Follows(p) /\ WalkCost(p) = dist[dst] /\ p \in Seq(Roads)
    BY <2>4, ChainShort, ChainCost, ChainFollows DEF Chain
  <2>6. OffCorridor(p)
    <3> SUFFICES ASSUME NEW k \in DOMAIN p, p[k] \in onCorr PROVE FALSE
      BY DEF OffCorridor
    <3>1. k \in 1..Len(p) /\ p[k] \in Roads
      BY <2>5, LenProperties, ElementOfSeq
    <3>2. PICK a \in Nat : a = Length[p[k]]
      BY <3>1, DijkstraConstants
    <3>3. PICK l, w \in Nat : l = WalkLength(q) /\ w = WalkCost(q)
      BY <2>1, <2>2, OffCorridorCost
    <3>4. w <= 19 * l /\ l < 50 * a
      BY <2>1, <2>2, <3>2, <3>3, OffCorridorCost
    <3>5. Cost(p[k]) = 950 * a
      BY <2>1, <3>1, <3>2, CostBounds
    <3>6. Cost(p[k]) <= WalkCost(p)
      BY <2>1, <2>5, <3>1, RoadInWalk
    <3>7. PICK d \in Nat : d = dist[dst]
      BY <2>3 DEF RouteInv, RouteTypes
    <3>8. 950 * a <= d /\ d <= w
      BY <2>3, <2>5, <3>3, <3>5, <3>6, <3>7
    <3> QED BY <3>4, <3>8
  <2> QED BY <2>5, <2>6
<1> QED BY <1>1, RouteInvariant, PTL

-----------------------------------------------------------------------------
(* The bid limiter lets through what it promises. *)

\* Times a never goes down, and twice the limit of them take a window.
Spread(a) ==
  /\ a \in Seq(Nat)
  /\ \A i, k \in 1..Len(a) :
       /\ i <= k => a[i] <= a[k]
       /\ i + 2 * Limit - 1 <= k => a[i] + Period <= a[k]

\* The first of the times a that took a token of the bucket b since it was filled.
First(a, b) == Len(a) - Limit + b.tokens + 1

\* It was then that the bucket was filled, and the time before, a window earlier, is not
\* more than the limit of bids back.
Since(a, b) ==
  /\ b.tokens \in 0..(Limit - 1)
  /\ First(a, b) \in 1..Len(a) /\ a[First(a, b)] = b.lastRefill
  /\ First(a, b) > 1 =>
       \E r \in 1..(First(a, b) - 1) : First(a, b) - Limit <= r /\ a[r] + Period <= b.lastRefill

\* All of them lie before t.
Until(a, t) == \A i \in 1..Len(a) : a[i] <= t

Metered ==
  /\ now \in 0..MaxTime
  /\ buckets \in [Users -> [tokens : Nat, lastRefill : Nat]] /\ admitted \in [Users -> Seq(Nat)]
  /\ \A u \in Users :
       /\ Spread(admitted[u]) /\ Until(admitted[u], now)
       /\ buckets[u] = NoBucket => admitted[u] = <<>>
       /\ buckets[u] # NoBucket => Since(admitted[u], buckets[u]) /\ buckets[u].lastRefill <= now
  /\ refused # Nobody =>
       /\ refused.user \in Users /\ refused.at = now
       /\ buckets[refused.user] # NoBucket /\ buckets[refused.user].tokens = 0
       /\ now - buckets[refused.user].lastRefill < Period

\* One more time, late enough.
LEMMA SpreadAppend ==
  ASSUME NEW a, Spread(a), NEW t \in Nat,
         Until(a, t), \A i \in 1..Len(a) : i + 2 * Limit - 1 <= Len(a) + 1 => a[i] + Period <= t
  PROVE  Spread(Append(a, t))
<1> DEFINE b == Append(a, t)
<1>1. a \in Seq(Nat) /\ Len(a) \in Nat
  BY DEF Spread
<1>2. b \in Seq(Nat) /\ Len(b) = Len(a) + 1 /\ b[Len(a) + 1] = t /\ \A i \in 1..Len(a) : b[i] = a[i] /\ a[i] \in Nat
  BY <1>1
<1> HIDE DEF b
<1>3. ASSUME NEW i \in 1..Len(b), NEW k \in 1..Len(b)
      PROVE  (i <= k => b[i] <= b[k]) /\ (i + 2 * Limit - 1 <= k => b[i] + Period <= b[k])
  <2>1. CASE k = Len(a) + 1 /\ i = Len(a) + 1
    BY <1>1, <1>2, <2>1, LimiterConstants
  <2>2. CASE k = Len(a) + 1 /\ i # Len(a) + 1
    <3>1. i \in 1..Len(a)
      BY <1>1, <1>2, <2>2
    <3> QED BY <1>2, <2>2, <3>1 DEF Until
  <2>3. CASE k # Len(a) + 1 /\ i # Len(a) + 1
    <3>1. i \in 1..Len(a) /\ k \in 1..Len(a)
      BY <1>1, <1>2, <2>3
    <3> QED BY <1>2, <3>1 DEF Spread
  <2>4. CASE k # Len(a) + 1 /\ i = Len(a) + 1
    BY <1>1, <1>2, <2>4, LimiterConstants
  <2> QED BY <2>1, <2>2, <2>3, <2>4
<1>4. Spread(b)
  BY <1>2, <1>3 DEF Spread
<1> QED BY <1>4 DEF b

\* A bid that takes a token of a bucket that was filled before.
LEMMA TakeKeeps ==
  ASSUME NEW a, NEW b \in [tokens : Nat, lastRefill : Nat], NEW t \in Nat,
         Spread(a), Until(a, t), Since(a, b), b.tokens # 0
  PROVE  Spread(Append(a, t)) /\ Since(Append(a, t), [b EXCEPT !.tokens = @ - 1])
<1> DEFINE s == First(a, b)
           c == [b EXCEPT !.tokens = @ - 1]
<1>0. a \in Seq(Nat)
  BY DEF Spread
<1>1. Len(a) \in Nat /\ Limit \in Nat /\ Limit > 0 /\ Period \in Nat
      /\ b.tokens \in Int /\ 1 <= b.tokens /\ b.tokens <= Limit - 1 /\ b.lastRefill \in Nat
  BY <1>0, LimiterConstants DEF Since
<1>2. s = Len(a) - Limit + b.tokens + 1 /\ s \in 1..Len(a) /\ a[s] = b.lastRefill
  BY DEF Since, First
<1>3. ASSUME NEW i \in 1..Len(a), i + 2 * Limit - 1 <= Len(a) + 1 PROVE a[i] + Period <= t
  <2> HIDE DEF s, c
  <2>1. s > 1 /\ i <= s - Limit
    <3>1. s \in Int /\ i \in Int /\ b.tokens \in Int /\ b.tokens >= 1
      BY <1>1, <1>2
    <3> QED BY <1>1, <1>2, <1>3, <3>1
  <2>2. PICK r \in 1..(s - 1) : s - Limit <= r /\ a[r] + Period <= b.lastRefill
    BY <2>1 DEF Since, s
  <2>3. r \in 1..Len(a) /\ i <= r
    BY <1>1, <1>2, <2>1, <2>2
  <2>4. a[i] <= a[r] /\ a[i] \in Nat /\ a[r] \in Nat
    BY <1>1, <2>3 DEF Spread
  <2>5. b.lastRefill <= t
    BY <1>1, <1>2 DEF Until
  <2> QED BY <1>1, <2>2, <2>4, <2>5
<1>4. Spread(Append(a, t))
  BY <1>3, SpreadAppend
<1>5. Len(Append(a, t)) = Len(a) + 1 /\ \A i \in 1..Len(a) : Append(a, t)[i] = a[i]
  BY <1>0
<1>6. c.tokens = b.tokens - 1 /\ c.lastRefill = b.lastRefill
  OBVIOUS
<1>7. First(Append(a, t), c) = s
  BY <1>1, <1>2, <1>5, <1>6 DEF First
<1>8. s > 1 => \E r \in 1..(s - 1) : s - Limit <= r /\ Append(a, t)[r] + Period <= c.lastRefill
  <2> SUFFICES ASSUME s > 1
               PROVE  \E r \in 1..(s - 1) : s - Limit <= r /\ Append(a, t)[r] + Period <= c.lastRefill
    OBVIOUS
  <2>1. PICK r \in 1..(s - 1) : s - Limit <= r /\ a[r] + Period <= b.lastRefill
    BY DEF Since
  <2>2. Append(a, t)[r] = a[r]
    BY <1>1, <1>2, <1>5, <2>1
  <2> QED BY <1>6, <2>1, <2>2
<1>9. Since(Append(a, t), c)
  <2> HIDE DEF c, s
  <2>1. c.tokens \in 0..(Limit - 1) /\ s \in 1..Len(Append(a, t)) /\ Append(a, t)[s] = c.lastRefill
    BY <1>1, <1>2, <1>5, <1>6
  <2> QED BY <1>7, <1>8, <2>1 DEF Since
<1> QED BY <1>4, <1>9

\* The definition, for a number that is First.
LEMMA SinceBy ==
  ASSUME NEW a, NEW b, NEW n, First(a, b) = n,
         b.tokens \in 0..(Limit - 1), n \in 1..Len(a), a[n] = b.lastRefill,
         NEW r \in 1..(n - 1), n - Limit <= r, a[r] + Period <= b.lastRefill
  PROVE  Since(a, b)
BY DEF Since

\* A bid that finds its bucket due to be filled again.
LEMMA RefillKeeps ==
  ASSUME NEW a, NEW b \in [tokens : Nat, lastRefill : Nat], NEW t \in Nat,
         Spread(a), Until(a, t), Since(a, b), b.lastRefill + Period <= t
  PROVE  Spread(Append(a, t)) /\ Since(Append(a, t), [tokens |-> Limit - 1, lastRefill |-> t])
<1> DEFINE s == First(a, b)
           c == [tokens |-> Limit - 1, lastRefill |-> t]
<1>0. a \in Seq(Nat)
  BY DEF Spread
<1>1. Len(a) \in Nat /\ Limit \in Nat /\ Limit > 0 /\ Period \in Nat
      /\ b.tokens \in Int /\ 0 <= b.tokens /\ b.tokens <= Limit - 1 /\ b.lastRefill \in Nat
  BY <1>0, LimiterConstants DEF Since
<1>2. s = Len(a) - Limit + b.tokens + 1 /\ s \in 1..Len(a) /\ a[s] = b.lastRefill
  BY DEF Since, First
<1>3. ASSUME NEW i \in 1..Len(a), i + 2 * Limit - 1 <= Len(a) + 1 PROVE a[i] + Period <= t
  <2>1. i <= s
    BY <1>1, <1>2, <1>3
  <2> HIDE DEF s
  <2>2. \A k, l \in 1..Len(a) : k <= l => a[k] <= a[l]
    BY DEF Spread
  <2>3. a[i] <= a[s]
    BY <1>2, <2>1, <2>2
  <2>4. a[i] \in Nat
    BY <1>0, ElementOfSeq
  <2> QED BY <1>1, <1>2, <2>3, <2>4
<1>4. Spread(Append(a, t))
  BY <1>3, SpreadAppend
<1>5. /\ Len(Append(a, t)) = Len(a) + 1 /\ Append(a, t)[Len(a) + 1] = t
      /\ \A i \in 1..Len(a) : Append(a, t)[i] = a[i]
  BY <1>0
<1>6. c.tokens = Limit - 1 /\ c.lastRefill = t
  OBVIOUS
<1>7. First(Append(a, t), c) = Len(a) + 1
  BY <1>1, <1>5, <1>6 DEF First
<1>8. s \in 1..((Len(a) + 1) - 1) /\ Len(a) + 1 - Limit <= s /\ Append(a, t)[s] + Period <= c.lastRefill
  BY <1>1, <1>2, <1>5, <1>6
<1>9. Since(Append(a, t), c)
  <2> HIDE DEF c, s
  <2>1. c.tokens \in 0..(Limit - 1)
        /\ Len(a) + 1 \in 1..Len(Append(a, t)) /\ Append(a, t)[Len(a) + 1] = c.lastRefill
    BY <1>1, <1>5, <1>6
  <2>2. PICK n : n = Len(a) + 1
    OBVIOUS
  <2>3. First(Append(a, t), c) = n /\ n \in 1..Len(Append(a, t)) /\ Append(a, t)[n] = c.lastRefill
    BY <1>7, <2>1, <2>2
  <2>4. s \in 1..(n - 1) /\ n - Limit <= s /\ Append(a, t)[s] + Period <= c.lastRefill
    BY <1>1, <1>8, <2>2
  <2> QED BY <2>1, <2>3, <2>4, SinceBy
<1> QED BY <1>4, <1>9

\* The first bid of a user.
LEMMA FirstBid ==
  ASSUME NEW t \in Nat
  PROVE  Spread(<<t>>) /\ Since(<<t>>, [tokens |-> Limit - 1, lastRefill |-> t])
<1> DEFINE c == [tokens |-> Limit - 1, lastRefill |-> t]
<1>1. <<t>> \in Seq(Nat) /\ Len(<<t>>) = 1 /\ <<t>>[1] = t
  OBVIOUS
<1>2. c.tokens = Limit - 1 /\ c.lastRefill = t
  OBVIOUS
<1>3. Limit \in Nat /\ Limit > 0
  BY LimiterConstants
<1>4. Spread(<<t>>)
  BY <1>1, <1>3 DEF Spread
<1>5. First(<<t>>, c) = 1
  BY <1>1, <1>2, <1>3 DEF First
<1>6. Since(<<t>>, c)
  <2> HIDE DEF c
  <2>1. c.tokens \in 0..(Limit - 1)
    BY <1>2, <1>3
  <2> QED BY <1>1, <1>2, <1>5, <2>1 DEF Since
<1> QED BY <1>4, <1>6

\* A request leaves every bucket and the times of its user as they should be.
LEMMA BidKeeps ==
  ASSUME Metered, NEW u \in Users, Bid(u), now' = now
  PROVE  Metered'
<1> DEFINE a == admitted[u]
           b == buckets[u]
           due == now - b.lastRefill >= Period
<1>1. /\ now \in Nat /\ now \in 0..MaxTime /\ a \in Seq(Nat) /\ b \in [tokens : Nat, lastRefill : Nat]
      /\ Limit \in Nat /\ Limit > 0 /\ MaxTime \in Nat /\ Period \in Nat
  BY LimiterConstants DEF Metered
<1>2. /\ Spread(a) /\ Until(a, now) /\ (b = NoBucket => a = <<>>)
      /\ (b # NoBucket => Since(a, b) /\ b.lastRefill <= now)
  BY DEF Metered
<1>3. ASSUME NEW c \in [tokens : Nat, lastRefill : Nat], c.lastRefill <= now,
             buckets' = [buckets EXCEPT ![u] = c], admitted' = [admitted EXCEPT ![u] = Append(@, now)],
             refused' = Nobody, Spread(Append(a, now)), Since(Append(a, now), c)
      PROVE  Metered'
  <2>1. Append(a, now) \in Seq(Nat) /\ Until(Append(a, now), now)
    <3>1. Append(a, now) \in Seq(Nat) /\ Len(Append(a, now)) = Len(a) + 1 /\ Append(a, now)[Len(a) + 1] = now
          /\ \A i \in 1..Len(a) : Append(a, now)[i] = a[i]
      BY <1>1
    <3>2. ASSUME NEW i \in 1..Len(Append(a, now)) PROVE Append(a, now)[i] <= now
      <4>1. Len(a) \in Nat
        BY <1>1
      <4>2. CASE i = Len(a) + 1
        BY <1>1, <3>1, <4>2
      <4>3. CASE i # Len(a) + 1
        <5>1. i \in 1..Len(a)
          BY <3>1, <4>1, <4>3
        <5> QED BY <1>2, <3>1, <5>1 DEF Until
      <4> QED BY <4>2, <4>3
    <3> QED BY <3>1, <3>2 DEF Until
  <2>2. c # NoBucket
    BY <1>1, <1>3 DEF NoBucket
  <2>3. buckets' \in [Users -> [tokens : Nat, lastRefill : Nat]] /\ admitted' \in [Users -> Seq(Nat)]
    BY <1>3, <2>1 DEF Metered
  <2>4. ASSUME NEW w \in Users
        PROVE  /\ Spread(admitted'[w]) /\ Until(admitted'[w], now)
               /\ buckets'[w] = NoBucket => admitted'[w] = <<>>
               /\ buckets'[w] # NoBucket =>
                    Since(admitted'[w], buckets'[w]) /\ buckets'[w].lastRefill <= now
    <3>1. CASE w = u
      <4>1. admitted'[w] = Append(a, now) /\ buckets'[w] = c
        BY <1>3, <3>1 DEF Metered
      <4> HIDE DEF a
      <4> QED BY <1>3, <2>1, <2>2, <4>1
    <3>2. CASE w # u
      <4>1. admitted'[w] = admitted[w] /\ buckets'[w] = buckets[w]
        BY <1>3, <3>2 DEF Metered
      <4> QED BY <4>1 DEF Metered
    <3> QED BY <3>1, <3>2
  <2> QED BY <1>1, <1>3, <2>3, <2>4 DEF Metered, NoBucket, Nobody
<1>4. CASE b = NoBucket
  <2> DEFINE c == [tokens |-> Limit - 1, lastRefill |-> now]
  <2>1. /\ buckets' = [buckets EXCEPT ![u] = c] /\ admitted' = [admitted EXCEPT ![u] = Append(@, now)]
        /\ refused' = Nobody
    BY <1>4 DEF Bid, Allow
  <2>2. c \in [tokens : Nat, lastRefill : Nat] /\ c.lastRefill <= now
    BY <1>1
  <2>3. Append(a, now) = <<now>>
    <3>1. a = <<>> /\ Append(<<>>, now) = <<now>>
      BY <1>2, <1>4
    <3> HIDE DEF a
    <3> QED BY <3>1
  <2>4. Spread(Append(a, now)) /\ Since(Append(a, now), c)
    BY <1>1, <2>3, FirstBid
  <2> HIDE DEF a, b, c
  <2> QED BY <1>3, <2>1, <2>2, <2>4
<1>5. CASE b # NoBucket /\ due
  <2> DEFINE c == [tokens |-> Limit - 1, lastRefill |-> now]
  <2>1. Refilled(b) = [tokens |-> Limit, lastRefill |-> now]
    BY <1>5 DEF Refilled
  <2>2. Allow(b) = [bucket |-> c, pass |-> TRUE]
    <3>1. Limit # 0 /\ [[tokens |-> Limit, lastRefill |-> now] EXCEPT !.tokens = @ - 1] = c
      BY <1>1
    <3>2. [tokens |-> Limit, lastRefill |-> now].tokens # 0
      BY <3>1
    <3> HIDE DEF b, c
    <3> QED BY <1>5, <2>1, <3>1, <3>2, Zenon DEF Allow
  <2>3. /\ buckets' = [buckets EXCEPT ![u] = c] /\ admitted' = [admitted EXCEPT ![u] = Append(@, now)]
        /\ refused' = Nobody
    BY <2>2 DEF Bid
  <2>4. c \in [tokens : Nat, lastRefill : Nat] /\ c.lastRefill <= now
    BY <1>1
  <2>5. b.lastRefill + Period <= now
    BY <1>1, <1>5
  <2>6. Spread(Append(a, now)) /\ Since(Append(a, now), c)
    <3> HIDE DEF a, b
    <3> QED BY <1>1, <1>2, <1>5, <2>5, RefillKeeps
  <2> HIDE DEF a, b, c
  <2> QED BY <1>3, <2>3, <2>4, <2>6
<1>6. CASE b # NoBucket /\ ~due /\ b.tokens # 0
  <2> DEFINE c == [b EXCEPT !.tokens = @ - 1]
  <2>1. Allow(b) = [bucket |-> c, pass |-> TRUE]
    BY <1>6 DEF Allow, Refilled
  <2>2. /\ buckets' = [buckets EXCEPT ![u] = c] /\ admitted' = [admitted EXCEPT ![u] = Append(@, now)]
        /\ refused' = Nobody
    BY <2>1 DEF Bid
  <2>3. c \in [tokens : Nat, lastRefill : Nat] /\ c.lastRefill <= now
    <3> HIDE DEF b
    <3> QED BY <1>1, <1>2, <1>6
  <2>4. Spread(Append(a, now)) /\ Since(Append(a, now), c)
    <3> HIDE DEF a, b
    <3> QED BY <1>1, <1>2, <1>6, TakeKeeps
  <2> HIDE DEF a, b, c
  <2> QED BY <1>3, <2>2, <2>3, <2>4
<1>7. CASE b # NoBucket /\ ~due /\ b.tokens = 0
  <2>1. Allow(b) = [bucket |-> b, pass |-> FALSE]
    BY <1>7 DEF Allow, Refilled
  <2>2. buckets' = buckets /\ admitted' = admitted /\ refused' = [user |-> u, at |-> now]
    BY <2>1 DEF Bid, Metered
  <2> QED BY <1>1, <1>7, <2>2 DEF Metered, NoBucket, Nobody
<1> QED BY <1>4, <1>5, <1>6, <1>7

\* The clock and unlimited requests change no bucket.
LEMMA MeteredInductive == Metered /\ [LimiterNext]_limiterVars => Metered'
<1> SUFFICES ASSUME Metered, [LimiterNext]_limiterVars PROVE Metered'
  OBVIOUS
<1>1. ASSUME NEW u \in Users, Bid(u), now' = now PROVE Metered'
  BY <1>1, BidKeeps
<1>2. ASSUME UNCHANGED <<buckets, admitted>>, refused' = Nobody,
             now' = now \/ (now < MaxTime /\ now' = now + 1)
      PROVE  Metered'
  <2>1. now \in Nat /\ now' \in 0..MaxTime /\ now <= now'
    BY <1>2, LimiterConstants DEF Metered
  <2>2. ASSUME NEW u \in Users
        PROVE  Until(admitted[u], now') /\ (buckets[u].lastRefill <= now => buckets[u].lastRefill <= now')
    <3>1. Until(admitted[u], now) /\ admitted[u] \in Seq(Nat) /\ buckets[u].lastRefill \in Nat
      BY DEF Metered
    <3>2. \A i \in 1..Len(admitted[u]) : admitted[u][i] \in Nat /\ admitted[u][i] <= now
      BY <3>1 DEF Until
    <3> QED BY <2>1, <3>1, <3>2 DEF Until
  <2> QED BY <1>2, <2>1, <2>2 DEF Metered, Nobody, NoBucket
<1>3. CASE Request
  BY <1>1, <1>2, <1>3 DEF Request
<1>4. CASE LimiterTick
  BY <1>2, <1>4 DEF LimiterTick
<1>5. CASE UNCHANGED limiterVars
  BY <1>5 DEF limiterVars, Metered, NoBucket, Nobody
<1> QED BY <1>3, <1>4, <1>5 DEF LimiterNext

\* Those that passed within a window lie close together.
LEMMA FewPassed ==
  ASSUME Metered, NEW u \in Users, NEW t \in Nat
  PROVE  /\ IsFiniteSet(Passed(u, t)) /\ Cardinality(Passed(u, t)) \in Nat
         /\ Cardinality(Passed(u, t)) < 2 * Limit
<1> DEFINE a == admitted[u]
           S == Passed(u, t)
<1>1. Spread(a) /\ a \in Seq(Nat) /\ Limit \in Nat /\ Limit > 0 /\ Period \in Nat
  BY LimiterConstants DEF Metered
<1>2. Len(a) \in Nat /\ DOMAIN a = 1..Len(a) /\ \A k \in 1..Len(a) : a[k] \in Nat
  BY <1>1
<1>3. \A k \in S : k \in 1..Len(a) /\ k \in Nat /\ t <= a[k] /\ a[k] < t + Period
  BY <1>1, <1>2 DEF Passed
<1>4. CASE S = {}
  BY <1>1, <1>4, FS_EmptySet
<1>5. CASE S # {}
  <2>1. S \in SUBSET Nat
    BY <1>3
  <2>2. PICK k \in S : \A m \in S : k <= m
    BY <1>5, <2>1, LeastNatural
  <2> DEFINE T == k..(k + 2 * Limit - 2)
  <2>3. ASSUME NEW m \in S PROVE m \in T
    <3>1. k \in 1..Len(a) /\ m \in 1..Len(a) /\ k <= m /\ t <= a[k] /\ a[m] < t + Period
          /\ a[k] \in Nat /\ a[m] \in Nat
      BY <1>2, <1>3, <2>2
    <3>2. ~(k + 2 * Limit - 1 <= m)
      <4>1. k + 2 * Limit - 1 <= m => a[k] + Period <= a[m]
        BY <1>1, <3>1 DEF Spread
      <4> HIDE DEF a, S
      <4> QED BY <1>1, <3>1, <4>1
    <3> HIDE DEF a, S
    <3> QED BY <1>1, <1>2, <3>1, <3>2
  <2>4. k \in Nat
    BY <2>1
  <2>5. IsFiniteSet(T) /\ Cardinality(T) = 2 * Limit - 1
    <3>1. k + 2 * Limit - 2 \in Int /\ ~(k > k + 2 * Limit - 2)
          /\ (k + 2 * Limit - 2) - k + 1 = 2 * Limit - 1
      BY <1>1, <2>4
    <3> QED BY <2>4, <3>1, FS_Interval
  <2> HIDE DEF a, S, T
  <2>6. IsFiniteSet(S) /\ Cardinality(S) <= Cardinality(T)
    BY <2>3, <2>5, FS_Subset
  <2> QED BY <1>1, <2>5, <2>6, FS_CardinalityType DEF S
<1> QED BY <1>4, <1>5

\* For any users, limit, window and times of requests: less than twice the limit of a user's bids
\* pass in any window, and who is refused has had the limit within one.
THEOREM BidsAreMetered == LimiterSpec => []RateBounded
<1>1. LimiterInit => Metered
  <2> SUFFICES ASSUME LimiterInit PROVE Metered
    OBVIOUS
  <2>1. \A u \in Users : buckets[u] = NoBucket /\ admitted[u] = <<>>
    BY DEF LimiterInit
  <2>2. Spread(<<>>) /\ Until(<<>>, 0) /\ <<>> \in Seq(Nat)
    <3>1. <<>> \in Seq(Nat) /\ Len(<<>>) = 0
      OBVIOUS
    <3> QED BY <3>1 DEF Spread, Until
  <2>3. NoBucket \in [tokens : Nat, lastRefill : Nat]
    BY LimiterConstants DEF NoBucket
  <2>4. buckets \in [Users -> [tokens : Nat, lastRefill : Nat]] /\ admitted \in [Users -> Seq(Nat)]
    BY <2>2, <2>3 DEF LimiterInit
  <2> QED BY <2>1, <2>2, <2>4, LimiterConstants DEF LimiterInit, Metered
<1>2. Metered => RateBounded
  <2> SUFFICES ASSUME Metered PROVE RateBounded
    OBVIOUS
  <2>1. ASSUME NEW u \in Users, NEW t \in 0..MaxTime
        PROVE  Cardinality(Passed(u, t)) < 2 * Limit
    <3>1. t \in Nat
      BY LimiterConstants
    <3> QED BY <3>1, FewPassed
  <2>2. ASSUME refused # Nobody
        PROVE  \E t \in 0..now : t + Period > refused.at
                               /\ Cardinality(Passed(refused.user, t)) >= Limit
    <3> DEFINE u == refused.user
               a == admitted[u]
               b == buckets[u]
               t == b.lastRefill
               S == Passed(u, t)
               T == (Len(a) - Limit + 1)..Len(a)
    <3>1. u \in Users /\ refused.at = now /\ b # NoBucket /\ b.tokens = 0 /\ now - t < Period
      BY <2>2 DEF Metered
    <3>2. Since(a, b) /\ t <= now /\ Spread(a) /\ Until(a, now) /\ a \in Seq(Nat) /\ t \in Nat
          /\ now \in Nat /\ Limit \in Nat /\ Limit > 0 /\ Period \in Nat
      BY <3>1, LimiterConstants DEF Metered
    <3>3. Len(a) \in Nat /\ DOMAIN a = 1..Len(a) /\ \A k \in 1..Len(a) : a[k] \in Nat /\ a[k] <= now
      BY <3>2 DEF Until
    <3> HIDE DEF a, b, u, t, S
    <3>4. Len(a) - Limit + 1 \in 1..Len(a) /\ a[Len(a) - Limit + 1] = t
      <4>1. First(a, b) = Len(a) - Limit + 1
        BY <3>1, <3>2, <3>3 DEF First
      <4> QED BY <3>2, <4>1 DEF Since, t
    <3>5. ASSUME NEW k \in T PROVE k \in S
      <4>1. k \in 1..Len(a) /\ Len(a) - Limit + 1 <= k
        BY <3>2, <3>3, <3>4
      <4>2. t <= a[k]
        BY <3>2, <3>4, <4>1 DEF Spread
      <4>3. a[k] \in t..(t + Period - 1)
        BY <3>1, <3>2, <3>3, <4>1, <4>2
      <4> QED BY <3>3, <4>1, <4>3 DEF S, Passed, a
    <3>6. Cardinality(T) = Limit
      <4>1. Len(a) - Limit + 1 \in Int /\ Len(a) \in Int /\ ~(Len(a) - Limit + 1 > Len(a))
            /\ Len(a) - (Len(a) - Limit + 1) + 1 = Limit
        BY <3>2, <3>3
      <4> QED BY <4>1, FS_Interval
    <3> HIDE DEF T
    <3>7. IsFiniteSet(S) /\ Cardinality(S) \in Nat
      BY <3>1, <3>2, FewPassed DEF S
    <3>8. Cardinality(T) <= Cardinality(S)
      BY <3>5, <3>7, FS_Subset
    <3>9. t \in 0..now /\ t + Period > refused.at
      BY <3>1, <3>2
    <3>10. Cardinality(Passed(refused.user, t)) >= Limit
      BY <3>2, <3>6, <3>7, <3>8 DEF S, u
    <3> QED BY <3>9, <3>10
  <2> QED BY <2>1, <2>2 DEF RateBounded
<1> QED BY <1>1, <1>2, MeteredInductive, PTL DEF LimiterSpec

-----------------------------------------------------------------------------
(* The stock tracker averages a sliding window. *)

Prices == 1..MaxPrice
Largest == 2 * (IF WindowSize > InitialCapacity THEN WindowSize ELSE InitialCapacity) + SizeClass

Tracked ==
  /\ points \in Seq(Prices) /\ Len(points) <= WindowSize /\ lastPrice \in Prices
  /\ \E s : Sums(s, points, Len(points)) /\ windowSum = s[Len(points)]
  /\ capacity \in Nat \ {0} /\ Len(points) <= capacity /\ capacity <= Largest

\* A window over its size.
LEMMA SlidOver ==
  ASSUME NEW w, NEW x, Len(w) > WindowSize
  PROVE  Slid(w, x) = [points |-> Tail(w), sum |-> x - Head(w)]
BY DEF Slid

\* A price comes in, and the first goes when there are too many.
LEMMA AddPriceKeeps ==
  ASSUME Tracked, NEW price \in Prices, AddPrice(price), lastPrice' \in Prices
  PROVE  Tracked' /\ points' = Append(IF Len(points) < WindowSize THEN points ELSE Tail(points), price)
<1> DEFINE n == Len(points)
           w == Append(points, price)
<1>1. n \in Nat /\ n <= WindowSize /\ points \in Seq(Nat) /\ points \in Seq(Prices) /\ price \in Nat
      /\ WindowSize \in Nat /\ WindowSize > 0
  BY StockConstants DEF Tracked, Prices
<1>2. w \in Seq(Nat) /\ w \in Seq(Prices) /\ Len(w) = n + 1
  BY <1>1
<1>3. PICK s : Sums(s, points, n) /\ windowSum = s[n]
  BY DEF Tracked
<1>4. PICK t : Sums(t, w, n + 1) /\ t[n + 1] = s[n] + price
  BY <1>1, <1>3, SumAppend
<1>5. CASE n < WindowSize
  <2>1. points' = w /\ windowSum' = windowSum + price
    <3>1. Slid(w, windowSum + price) = [points |-> w, sum |-> windowSum + price]
      BY <1>1, <1>2, <1>5 DEF Slid
    <3> HIDE DEF w
    <3> QED BY <3>1 DEF AddPrice, w
  <2>2. PICK cap \in AppendCapacity(capacity) : capacity' = cap
    BY <1>1, <1>5 DEF AddPrice
  <2>3. capacity' \in Nat \ {0} /\ n + 1 <= capacity' /\ capacity' <= Largest
    <3> HIDE DEF n
    <3>1. /\ n \in Nat /\ n <= capacity /\ n < WindowSize /\ WindowSize \in Nat
          /\ SizeClass \in Nat /\ InitialCapacity \in Nat /\ InitialCapacity > 0
      BY <1>1, <1>5, StockConstants DEF Tracked, n
    <3>2. capacity \in Nat /\ capacity > 0 /\ capacity <= Largest
      BY DEF Tracked
    <3>3. cap \in Nat /\ (n < capacity => cap = capacity)
          /\ (n = capacity => 2 * capacity <= cap /\ cap <= 2 * capacity + SizeClass)
      BY <2>2, <3>1, <3>2 DEF AppendCapacity, n
    <3> QED BY <2>2, <3>1, <3>2, <3>3 DEF Largest
  <2>4. points' = Append(IF n < WindowSize THEN points ELSE Tail(points), price)
    BY <1>5, <2>1
  <2> HIDE DEF w, n
  <2>5. Tracked'
    BY <1>1, <1>2, <1>3, <1>4, <1>5, <2>1, <2>3 DEF Tracked
  <2> QED BY <2>4, <2>5 DEF n
<1>6. CASE ~(n < WindowSize)
  <2>1. points' = Tail(w) /\ windowSum' = (windowSum + price) - Head(w)
    <3>1. Slid(w, windowSum + price) = [points |-> Tail(w), sum |-> (windowSum + price) - Head(w)]
      <4>1. Len(w) > WindowSize
        <5> HIDE DEF w, n
        <5> QED BY <1>1, <1>2, <1>6
      <4> HIDE DEF w
      <4> QED BY <4>1, SlidOver
    <3> HIDE DEF w
    <3> QED BY <3>1 DEF AddPrice, w
  <2>2. PICK cap \in AppendCapacity(capacity) : capacity' = SlidCapacity(cap)
    BY <1>1, <1>6 DEF AddPrice
  <2>3. capacity' \in Nat \ {0} /\ n <= capacity' /\ capacity' <= Largest
    <3> HIDE DEF n
    <3>1. /\ n \in Nat /\ n <= capacity /\ n = WindowSize /\ WindowSize > 0
          /\ SizeClass \in Nat /\ InitialCapacity \in Nat /\ InitialCapacity > 0
      BY <1>1, <1>6, StockConstants DEF Tracked, n
    <3>2. capacity \in Nat /\ capacity > 0 /\ capacity <= Largest
      BY DEF Tracked
    <3>3. cap \in Nat /\ (n < capacity => cap = capacity)
          /\ (n = capacity => 2 * capacity <= cap /\ cap <= 2 * capacity + SizeClass)
      BY <2>2, <3>1, <3>2 DEF AppendCapacity, n
    <3> QED BY <2>2, <3>1, <3>2, <3>3 DEF Largest, SlidCapacity
  <2>4. Tail(w) \in Seq(Prices) /\ Len(Tail(w)) = n
    BY <1>1, <1>2
  <2>5. Tail(w) = Append(Tail(points), price)
    BY <1>1, <1>6
  <2>6. points' = Append(IF n < WindowSize THEN points ELSE Tail(points), price)
    BY <1>6, <2>1, <2>5
  <2>7. PICK r : Sums(r, Tail(w), n) /\ r[n] = t[n + 1] - Head(w)
    <3>1. (n + 1) - 1 = n /\ Len(w) > 0
      BY <1>1, <1>2
    <3> HIDE DEF w, n
    <3> QED BY <1>2, <1>4, <3>1, SumTail
  <2> HIDE DEF w, n
  <2>8. Tracked'
    <3>1. points' \in Seq(Prices) /\ Len(points') = n
      BY <2>1, <2>4
    <3>2. windowSum' = t[n + 1] - Head(w)
      BY <1>3, <1>4, <2>1
    <3>3. Sums(r, points', Len(points')) /\ windowSum' = r[Len(points')]
      BY <2>1, <2>7, <3>1, <3>2
    <3>4. n <= WindowSize
      BY <1>1
    <3> QED BY <2>3, <3>1, <3>3, <3>4 DEF Tracked
  <2> QED BY <2>6, <2>8 DEF n
<1> QED BY <1>5, <1>6

\* Every price keeps what the tracker carries, and is a step of the window.
LEMMA TrackedInductive ==
  Tracked /\ [StockNext]_stockVars =>
    Tracked' /\ [\E v \in Prices : PriceWindow!Record(v)]_points
<1> SUFFICES ASSUME Tracked, [StockNext]_stockVars
             PROVE  Tracked' /\ [\E v \in Prices : PriceWindow!Record(v)]_points
  OBVIOUS
<1>1. ASSUME NEW price \in Prices, AddPrice(price), lastPrice' \in Prices
      PROVE  Tracked' /\ \E v \in Prices : PriceWindow!Record(v)
  BY <1>1, AddPriceKeeps DEF PriceWindow!Record
<1>2. CASE SeedInitialPoint
  BY <1>1, <1>2 DEF SeedInitialPoint, Tracked
<1>3. CASE NextPricePoint
  <2>1. PICK change \in -1..1 :
          lastPrice' = (IF lastPrice + change < 1 THEN 1 ELSE lastPrice + change) /\ lastPrice' <= MaxPrice
    BY <1>3 DEF NextPricePoint
  <2>2. lastPrice' \in Prices
    BY <2>1, StockConstants DEF Tracked, Prices
  <2> QED BY <1>1, <1>3, <2>2 DEF NextPricePoint
<1>4. CASE UNCHANGED stockVars
  BY <1>4 DEF stockVars, Tracked
<1> QED BY <1>2, <1>3, <1>4 DEF StockNext

LEMMA TotalIsSum ==
  ASSUME points \in Seq(Nat), NEW s, Sums(s, points, Len(points))
  PROVE  Total[Len(points)] = s[Len(points)]
<1> DEFINE n == Len(points)
<1>1. n \in Nat /\ \A i \in 1..n : points[i] \in Nat
  OBVIOUS
<1> HIDE DEF n
<1>2. s = [i \in 0..n |-> IF i = 0 THEN 0 ELSE s[i - 1] + points[i]]
  BY <1>1 DEF Sums, n
<1>3. Total = [i \in 0..n |-> IF i = 0 THEN 0 ELSE Total[i - 1] + points[i]]
  BY <1>2, Zenon DEF Total, n
<1>4. Sums(Total, points, n)
  BY <1>1, <1>3, SumsTyped
<1> QED BY <1>1, <1>4, SumsUnique DEF n

\* For any window, capacity to start with, prices and rounding of append.
THEOREM PricesSlide == StockSpec => StockWindow
<1>1. StockInit => Tracked /\ PriceWindow!Init
  <2> SUFFICES ASSUME StockInit PROVE Tracked /\ PriceWindow!Init
    OBVIOUS
  <2>1. points = <<>> /\ Len(points) = 0 /\ points \in Seq(Prices)
    BY DEF StockInit
  <2>2. Sums([i \in 0..0 |-> 0], points, 0)
    BY DEF Sums
  <2> QED BY <2>1, <2>2, StockConstants DEF StockInit, PriceWindow!Init, Tracked, Prices, Largest
<1>2. Tracked => SumAndMemory
  <2> SUFFICES ASSUME Tracked PROVE SumAndMemory
    OBVIOUS
  <2>1. points \in Seq(Nat)
    BY StockConstants DEF Tracked, Prices
  <2> QED BY <2>1, TotalIsSum DEF Tracked, Largest, SumAndMemory
<1> QED BY <1>1, <1>2, TrackedInductive, PTL DEF StockSpec, StockWindow, PriceWindow!WindowSpec, Prices

-----------------------------------------------------------------------------
(* The hours and the floors of the garage: products and quotients. *)

\* The product of numbers grows with each of them.
LEMMA TimesGrows ==
  ASSUME NEW a \in Int, NEW b \in Int, NEW r \in Nat, a <= b
  PROVE  a * r <= b * r
<1>1. b - a \in Nat
  OBVIOUS
<1>2. (b - a) * r \in Nat
  BY <1>1
<1>3. (b - a) * r = b * r - a * r
  OBVIOUS
<1> QED BY <1>2, <1>3

\* A smaller product comes from a smaller factor.
LEMMA TimesCancels ==
  ASSUME NEW a \in Int, NEW b \in Int, NEW r \in Nat, a * r < b * r
  PROVE  a < b
<1> SUFFICES ASSUME b <= a PROVE FALSE
  OBVIOUS
<1>1. b * r <= a * r
  BY TimesGrows
<1> QED BY <1>1

\* What division by a positive number gives.
LEMMA Divided ==
  ASSUME NEW i \in Nat, NEW d \in Nat \ {0}
  PROVE  /\ i \div d \in Nat /\ i % d = i - d * (i \div d)
         /\ d * (i \div d) <= i /\ i < d * (i \div d) + d
<1>1. i \div d \in Nat /\ d * (i \div d) <= i /\ i < d * (i \div d) + d
  OBVIOUS
<1>2. PICK q \in Nat : q = i \div d
  BY <1>1
<1>3. PICK r \in 0..(d - 1) : r = i - d * q
  BY <1>1, <1>2
<1>4. i = d * q + r
  BY <1>3
<1>5. i % d = r
  BY <1>4
<1> QED BY <1>1, <1>2, <1>3, <1>5

\* The hours started in a time.
LEMMA StartedHours ==
  ASSUME NEW d \in Nat, NEW t \in Nat \ {0}, NEW h,
         h = LET hours == d \div t + (IF d % t # 0 THEN 1 ELSE 0) IN IF hours = 0 THEN 1 ELSE hours
  PROVE  /\ h \in 1..(d + 1) /\ d <= h * t /\ (h = 1 \/ (h - 1) * t < d)
<1>1. PICK q \in Nat : q = d \div t
  BY Divided
<1>2. d % t = d - t * q /\ t * q <= d /\ d < t * q + t
  BY <1>1, Divided
<1>3. q <= t * q
  BY 1 * q <= t * q, TimesGrows
<1>4. CASE d % t # 0
  <2>1. h = q + 1
    BY <1>1, <1>4
  <2>2. h * t = t * q + t /\ (h - 1) * t = t * q
    <3>1. (q + 1) * t = t * q + t /\ q * t = t * q /\ h - 1 = q
      BY <2>1
    <3> QED BY <2>1, <3>1, Zenon
  <2> QED BY <1>2, <1>3, <1>4, <2>1, <2>2
<1>5. CASE d % t = 0
  <2>1. h = IF q = 0 THEN 1 ELSE q
    BY <1>1, <1>5
  <2>0. d = t * q
    <3>1. PICK m \in Nat : m = t * q
      OBVIOUS
    <3>2. d - m = 0
      BY <1>2, <1>5, <3>1
    <3> QED BY <3>1, <3>2
  <2>2. CASE q = 0
    <3>1. t * q = 0 /\ h = 1 /\ 1 * t = t
      BY <2>1, <2>2
    <3>2. h * t = t
      BY <3>1
    <3>3. h * t = t /\ d = 0
      BY <2>0, <3>1, <3>2
    <3> QED BY <3>1, <3>3
  <2>3. CASE q # 0
    <3>1. q * t = t * q /\ (q - 1) * t = t * q - t /\ h = q
      BY <2>1, <2>3
    <3>2. h * t = t * q /\ (h - 1) * t = t * q - t
      BY <3>1
    <3>3. PICK m \in Nat : m = t * q
      OBVIOUS
    <3>4. h * t = m /\ (h - 1) * t = m - t /\ d = m /\ q <= m
      BY <1>3, <2>0, <3>2, <3>3
    <3> QED BY <2>3, <3>1, <3>4
  <2> QED BY <2>2, <2>3
<1> QED BY <1>4, <1>5

\* No other number of hours covers the time so tightly.
LEMMA OneFee ==
  ASSUME NEW d \in Nat, NEW t \in Nat \ {0}, NEW r \in Nat,
         NEW h \in Nat \ {0}, d <= h * t, h = 1 \/ (h - 1) * t < d,
         NEW k \in Nat \ {0}, (k * r) * t >= d * r, k * r = r \/ (k * r - r) * t < d * r
  PROVE  k * r = h * r
<1>1. CASE r = 0
  BY <1>1
<1>2. CASE r # 0
  <2>1. d <= k * t
    <3>1. (k * r) * t = (k * t) * r
      OBVIOUS
    <3>2. ASSUME k * t < d PROVE FALSE
      <4>1. k * t + 1 <= d /\ k * t + 1 \in Int
        BY <3>2
      <4>2. (k * t + 1) * r <= d * r
        BY <4>1, TimesGrows
      <4>3. (k * t + 1) * r = (k * t) * r + r
        OBVIOUS
      <4> QED BY <1>2, <3>1, <4>2, <4>3
    <3> QED BY <3>2
  <2>2. k = 1 \/ (k - 1) * t < d
    <3>1. CASE k * r = r
      <4>1. ASSUME 2 <= k PROVE FALSE
        <5>1. 2 * r <= k * r
          BY <4>1, TimesGrows
        <5> QED BY <1>2, <3>1, <5>1
      <4> QED BY <4>1
    <3>2. CASE (k * r - r) * t < d * r
      <4>1. (k * r - r) * t = ((k - 1) * t) * r
        OBVIOUS
      <4>2. (k - 1) * t \in Int
        OBVIOUS
      <4> QED BY <3>2, <4>1, <4>2, TimesCancels
    <3> QED BY <3>1, <3>2
  <2>3. ASSUME NEW a \in Nat \ {0}, NEW b \in Nat \ {0}, a < b, d <= a * t, b = 1 \/ (b - 1) * t < d PROVE FALSE
    <3>1. a <= b - 1 /\ b # 1
      BY <2>3
    <3>2. a * t <= (b - 1) * t
      BY <3>1, TimesGrows
    <3> QED BY <2>3, <3>1, <3>2
  <2>4. ~(k < h) /\ ~(h < k)
    BY <2>1, <2>2, <2>3
  <2> QED BY <2>4
<1> QED BY <1>1, <1>2

\* The receipt is the promised fee.
LEMMA FeeExact ==
  ASSUME clock \in Nat, NEW since \in Nat, since <= clock
  PROVE  Ledger!Fee(since) = calculateStartedHourFee(clock - since)
<1> DEFINE d == clock - since
           h == LET hours == d \div HourTicks + (IF d % HourTicks # 0 THEN 1 ELSE 0) IN IF hours = 0 THEN 1 ELSE hours
           Right(fee0) == /\ fee0 * HourTicks >= d * HourlyRate
                          /\ fee0 = HourlyRate \/ (fee0 - HourlyRate) * HourTicks < d * HourlyRate
<1>1. d \in Nat /\ d <= clock /\ HourTicks \in Nat \ {0} /\ HourlyRate \in Nat
  BY GarageConstants
<1>2. h \in 1..(d + 1) /\ d <= h * HourTicks /\ (h = 1 \/ (h - 1) * HourTicks < d)
  <2> HIDE DEF d
  <2> QED BY <1>1, StartedHours
<1>3. calculateStartedHourFee(d) = HourlyRate * h
  BY DEF calculateStartedHourFee
<1> HIDE DEF h, d
<1>4. h \in 1..(clock + 1) /\ h \in Nat \ {0} /\ HourlyRate * h = h * HourlyRate
  BY <1>1, <1>2
<1>5. Right(h * HourlyRate)
  <2>1. (h * HourlyRate) * HourTicks = (h * HourTicks) * HourlyRate
        /\ (h * HourlyRate - HourlyRate) * HourTicks = ((h - 1) * HourTicks) * HourlyRate
    BY <1>1, <1>4
  <2>2. h * HourTicks \in Int /\ (h - 1) * HourTicks \in Int /\ (h - 1) * HourTicks + 1 \in Int
    BY <1>1, <1>4
  <2>3. d * HourlyRate <= (h * HourTicks) * HourlyRate
    BY <1>1, <1>2, <2>2, TimesGrows
  <2>4. CASE h = 1
    BY <1>1, <2>1, <2>3, <2>4
  <2>5. CASE HourlyRate = 0
    BY <1>1, <1>4, <2>1, <2>3, <2>5
  <2>6. CASE h # 1 /\ HourlyRate # 0
    <3>1. (h - 1) * HourTicks + 1 <= d
      BY <1>1, <1>2, <2>2, <2>6
    <3>2. ((h - 1) * HourTicks + 1) * HourlyRate <= d * HourlyRate
      BY <1>1, <2>2, <3>1, TimesGrows
    <3>3. ((h - 1) * HourTicks + 1) * HourlyRate = ((h - 1) * HourTicks) * HourlyRate + HourlyRate
      BY <1>1, <2>2
    <3>4. ((h - 1) * HourTicks) * HourlyRate \in Int
      BY <1>1, <2>2
    <3> QED BY <1>1, <2>1, <2>3, <2>6, <3>2, <3>3, <3>4
  <2> QED BY <2>4, <2>5, <2>6
<1>6. ASSUME NEW k \in 1..(clock + 1), Right(k * HourlyRate) PROVE k * HourlyRate = h * HourlyRate
  <2>1. k \in Nat \ {0}
    OBVIOUS
  <2> QED BY <1>1, <1>2, <1>4, <1>6, <2>1, OneFee
<1> HIDE DEF Right
<1>7. h * HourlyRate = CHOOSE fee0 \in {k * HourlyRate : k \in 1..(clock + 1)} : Right(fee0)
  BY <1>4, <1>5, <1>6
<1> QED BY <1>3, <1>4, <1>7 DEF Ledger!Fee, Right, d

-----------------------------------------------------------------------------
(* The garage keeps its ledger. *)

\* The indices of a floor's spots, and of all.
Block(floor) == ((floor - 1) * PerFloor)..((floor - 1) * PerFloor + PerFloor - 1)
Indices == 0..(Floors * PerFloor - 1)

\* NewManager numbers the floors as Park finds their spots.
LEMMA BlockOf ==
  ASSUME PerFloor # 0, NEW i \in Nat, NEW floor \in Nat \ {0}
  PROVE  i \div PerFloor + 1 = floor <=> i \in Block(floor)
<1>1. PerFloor \in Nat \ {0}
  BY GarageConstants
<1>2. PICK q \in Nat : q = i \div PerFloor /\ PerFloor * q <= i /\ i < PerFloor * q + PerFloor
  BY <1>1, Divided
<1>3. PICK a \in Int : a = (floor - 1) * PerFloor
  BY <1>1
<1>4. CASE q = floor - 1
  <2>1. PerFloor * q = a
    BY <1>1, <1>3, <1>4
  <2> QED BY <1>1, <1>2, <1>3, <1>4, <2>1 DEF Block
<1>5. CASE q + 1 <= floor - 1
  <2>1. (q + 1) * PerFloor <= (floor - 1) * PerFloor
    BY <1>1, <1>5, TimesGrows
  <2>2. (q + 1) * PerFloor = PerFloor * q + PerFloor
    BY <1>1
  <2>3. i < a
    BY <1>1, <1>2, <1>3, <2>1, <2>2
  <2> QED BY <1>1, <1>2, <1>3, <1>5, <2>3 DEF Block
<1>6. CASE floor <= q
  <2>1. floor * PerFloor <= q * PerFloor
    BY <1>1, <1>6, TimesGrows
  <2>2. floor * PerFloor = (floor - 1) * PerFloor + PerFloor /\ q * PerFloor = PerFloor * q
    BY <1>1
  <2>3. a + PerFloor <= i
    BY <1>1, <1>2, <1>3, <2>1, <2>2
  <2> QED BY <1>1, <1>2, <1>3, <1>6, <2>3 DEF Block
<1> QED BY <1>4, <1>5, <1>6

\* The spots of a floor exist.
LEMMA BlockInside ==
  ASSUME NEW floor \in 1..Floors, NEW i \in Block(floor)
  PROVE  i \in Indices /\ i \in Nat /\ PerFloor # 0
<1>1. PerFloor \in Nat /\ Floors \in Nat
  BY GarageConstants
<1>2. PICK a \in Int : a = (floor - 1) * PerFloor
  BY <1>1
<1>3. 0 <= a
  BY <1>1, <1>2, 0 * PerFloor <= (floor - 1) * PerFloor, TimesGrows
<1>4. floor * PerFloor = a + PerFloor
  BY <1>1, <1>2
<1>5. floor * PerFloor <= Floors * PerFloor
  BY <1>1, TimesGrows
<1>6. PICK b \in Int : b = Floors * PerFloor
  BY <1>1
<1>7. a <= i /\ i <= a + PerFloor - 1 /\ i \in Int
  BY <1>1, <1>2 DEF Block
<1> QED BY <1>1, <1>3, <1>4, <1>5, <1>6, <1>7 DEF Indices

\* An index names a spot only when there are spots on a floor.
LEMMA IndexFacts ==
  ASSUME NEW i \in Indices
  PROVE  i \in Nat /\ PerFloor # 0 /\ i # Absent
<1>1. PerFloor \in Nat /\ Floors \in Nat
  BY GarageConstants
<1>2. PerFloor = 0 => Floors * PerFloor = 0
  BY <1>1
<1> QED BY <1>1, <1>2 DEF Indices, Absent

\* Ledger's numbers of the spots of a floor.
LEMMA NumbersOf ==
  ASSUME NEW floor \in 1..Floors, NEW s
  PROVE  s \in Ledger!SpotsOf(floor) <=> s \in Int /\ s - 1 \in Block(floor)
<1>1. PerFloor \in Nat /\ Floors \in Nat
  BY GarageConstants
<1>2. PICK a \in Int : a = (floor - 1) * PerFloor /\ floor * PerFloor = a + PerFloor
  BY <1>1
<1> QED BY <1>1, <1>2 DEF Block, Ledger!SpotsOf

Spot == [floor : Int, occupied : BOOLEAN, plate : IndianPlates \cup {<<>>}, entry : Nat]

\* The array and the map are two views of the vehicles inside.
Parked ==
  /\ clock \in Nat
  /\ spots \in [Indices -> Spot] /\ registry \in [IndianPlates -> Indices \cup {Absent}]
  /\ \A i \in Indices :
       /\ spots[i].floor = i \div PerFloor + 1 /\ spots[i].entry <= clock
       /\ spots[i].occupied => spots[i].plate \in IndianPlates /\ registry[spots[i].plate] = i
  /\ \A p \in IndianPlates :
       registry[p] # Absent => spots[registry[p]].occupied /\ spots[registry[p]].plate = p

\* The vehicles inside, and what the ledger says of them.
Inside == {q \in IndianPlates : registry[q] # Absent}
Entry(p) == [plate |-> p, spot |-> SpotOf(p), since |-> spots[registry[p]].entry]
Book == {Entry(p) : p \in Inside}

\* What a vehicle inside stands on.
LEMMA InsideFacts ==
  ASSUME Parked, NEW p \in Inside
  PROVE  /\ p \in IndianPlates /\ registry[p] \in Indices
         /\ spots[registry[p]].occupied /\ spots[registry[p]].plate = p
         /\ spots[registry[p]].entry \in Nat /\ spots[registry[p]].entry <= clock
         /\ Entry(p).plate = p /\ Entry(p).spot = registry[p] + 1
         /\ Entry(p).since = spots[registry[p]].entry
<1>1. p \in IndianPlates /\ registry[p] # Absent
  BY DEF Inside
<1>2. registry[p] \in Indices
  BY <1>1 DEF Parked
<1>3. spots[registry[p]] \in Spot
  BY <1>2 DEF Parked
<1> QED BY <1>1, <1>2, <1>3 DEF Parked, Spot, Entry, SpotOf

\* The search for a spot looks at those of the floor.
LEMMA FreeFacts ==
  ASSUME Parked, NEW floor \in 1..Floors
  PROVE  /\ FreeOn(floor) = {i \in Block(floor) : ~spots[i].occupied}
         /\ FreeOn(floor) \subseteq Indices /\ FreeOn(floor) \subseteq Nat
         /\ Available(floor) = FreeOn(floor)
<1>1. FreeOn(floor) = {i \in Block(floor) : ~spots[i].occupied}
  BY DEF FreeOn, Block
<1>2. FreeOn(floor) \subseteq Indices /\ FreeOn(floor) \subseteq Nat
  BY <1>1, BlockInside
<1>3. DOMAIN spots = Indices
  BY DEF Parked
<1>4. ASSUME NEW i \in Indices PROVE spots[i].floor = floor <=> i \in Block(floor)
  <2>1. i \in Nat /\ PerFloor # 0 /\ floor \in Nat \ {0}
    BY IndexFacts
  <2> QED BY <2>1, BlockOf DEF Parked
<1>5. Available(floor) = {i \in Indices : ~spots[i].occupied /\ spots[i].floor = floor}
  BY <1>3 DEF Available
<1> QED BY <1>1, <1>2, <1>4, <1>5

\* Parking enters a vehicle that is not inside on the first free spot of the floor.
LEMMA ParkKeeps ==
  ASSUME Parked, NEW plate \in IndianPlates, NEW floor \in 1..Floors, Park(plate, floor), clock' = clock
  PROVE  Parked' /\ Ledger!Park
<1>1. FreeOn(floor) \in SUBSET Nat /\ FreeOn(floor) # {} /\ FreeOn(floor) \subseteq Indices
      /\ FreeOn(floor) = {i \in Block(floor) : ~spots[i].occupied} /\ registry[plate] = Absent
  BY FreeFacts DEF Park
<1>2. \E i \in FreeOn(floor) : \A j \in FreeOn(floor) : i <= j
  BY <1>1, LeastNatural
<1>3. PICK i \in FreeOn(floor) :
        /\ \A j \in FreeOn(floor) : i <= j
        /\ spots' = [spots EXCEPT ![i] = [@ EXCEPT !.occupied = TRUE, !.plate = plate, !.entry = clock]]
        /\ registry' = [registry EXCEPT ![plate] = i]
        /\ fee' = 0
  BY <1>2 DEF Park
<1>4. i \in Indices /\ i \in Nat /\ i \in Block(floor) /\ ~spots[i].occupied /\ i # Absent
  BY <1>1, <1>3, IndexFacts
<1>5. \A j \in Indices : j # i => spots'[j] = spots[j]
  BY <1>3 DEF Parked
<1>6. /\ spots'[i].occupied /\ spots'[i].plate = plate /\ spots'[i].entry = clock
      /\ spots'[i].floor = spots[i].floor /\ spots'[i] \in Spot
  <2>1. PICK r \in Spot : r = spots[i]
    BY <1>4 DEF Parked
  <2>2. spots'[i] = [r EXCEPT !.occupied = TRUE, !.plate = plate, !.entry = clock]
    BY <1>3, <1>4, <2>1 DEF Parked
  <2>3. clock \in Nat
    BY DEF Parked
  <2> QED BY <2>1, <2>2, <2>3 DEF Spot
<1>7. registry'[plate] = i /\ \A p \in IndianPlates : p # plate => registry'[p] = registry[p] /\ registry[p] # i
  BY <1>3, <1>4 DEF Parked
<1>8. Parked'
  <2>1. clock' \in Nat
    BY DEF Parked
  <2>2. spots' \in [Indices -> Spot]
    BY <1>3, <1>4, <1>6 DEF Parked
  <2>3. registry' \in [IndianPlates -> Indices \cup {Absent}]
    BY <1>3, <1>4 DEF Parked
  <2>4. ASSUME NEW j \in Indices
        PROVE  /\ spots'[j].floor = j \div PerFloor + 1 /\ spots'[j].entry <= clock'
               /\ spots'[j].occupied => spots'[j].plate \in IndianPlates /\ registry'[spots'[j].plate] = j
    <3>1. CASE j = i
      BY <1>4, <1>6, <1>7, <2>1, <3>1 DEF Parked
    <3>2. CASE j # i
      BY <1>1, <1>4, <1>5, <1>7, <3>2, IndexFacts DEF Parked
    <3> QED BY <3>1, <3>2
  <2>5. ASSUME NEW p \in IndianPlates, registry'[p] # Absent
        PROVE  spots'[registry'[p]].occupied /\ spots'[registry'[p]].plate = p
    <3>1. CASE p = plate
      BY <1>6, <1>7, <3>1
    <3>2. CASE p # plate
      <4>1. registry'[p] = registry[p] /\ registry[p] # i /\ registry[p] \in Indices
        BY <1>7, <2>5, <3>2 DEF Parked
      <4> QED BY <1>5, <2>5, <4>1 DEF Parked
    <3> QED BY <3>1, <3>2
  <2> QED BY <2>1, <2>2, <2>3, <2>4, <2>5 DEF Parked
<1> DEFINE e == [plate |-> plate, spot |-> i + 1, since |-> clock]
<1>9. Book' = Book \cup {e}
  <2>1. Inside' = Inside \cup {plate}
    BY <1>4, <1>7 DEF Inside
  <2>2. ASSUME NEW p \in Inside PROVE Entry(p)' = Entry(p)
    <3>1. p # plate /\ registry'[p] = registry[p] /\ registry[p] \in Indices /\ registry[p] # i
      BY <1>1, <1>7, InsideFacts DEF Inside
    <3> QED BY <1>5, <3>1 DEF Entry, SpotOf
  <2>3. Entry(plate)' = e
    BY <1>6, <1>7 DEF Entry, SpotOf
  <2> HIDE DEF e
  <2> QED BY <2>1, <2>2, <2>3 DEF Book
<1>10. \A x \in Book : x.plate # plate
  <2> SUFFICES ASSUME NEW p \in Inside PROVE Entry(p).plate # plate
    BY DEF Book
  <2> QED BY <1>1, InsideFacts DEF Inside
<1>11. ASSUME NEW j \in Indices PROVE spots[j].occupied <=> \E x \in Book : x.spot = j + 1
  <2>1. ASSUME spots[j].occupied PROVE \E x \in Book : x.spot = j + 1
    <3>1. spots[j].plate \in Inside /\ registry[spots[j].plate] = j
      BY <2>1, IndexFacts DEF Parked, Inside
    <3> QED BY <3>1, InsideFacts DEF Book
  <2>2. ASSUME NEW x \in Book, x.spot = j + 1 PROVE spots[j].occupied
    <3>1. PICK p \in Inside : x = Entry(p)
      BY DEF Book
    <3>2. registry[p] + 1 = j + 1 /\ registry[p] \in Nat /\ j \in Nat
      BY <2>2, <3>1, InsideFacts, IndexFacts
    <3> QED BY <3>1, <3>2, InsideFacts
  <2> QED BY <2>1, <2>2
<1>12. e \notin Book /\ e.plate = plate /\ e.since = clock /\ e.spot = i + 1
  BY <1>10
<1> HIDE DEF e
<1>13. e.spot \in Ledger!SpotsOf(floor) /\ ~\E x \in Book : x.spot = e.spot
  BY <1>4, <1>11, <1>12, NumbersOf
<1>14. ASSUME NEW s \in Ledger!SpotsOf(floor), s < e.spot PROVE \E x \in Book : x.spot = s
  <2>1. s \in Int /\ s - 1 \in Block(floor) /\ s - 1 \in Indices /\ s - 1 < i
    BY <1>4, <1>12, <1>14, NumbersOf, BlockInside
  <2>2. spots[s - 1].occupied
    BY <1>1, <1>3, <1>4, <2>1
  <2>3. (s - 1) + 1 = s
    BY <2>1
  <2> QED BY <1>11, <2>1, <2>2, <2>3
<1>15. Ledger!Park
  <2>1. e \in Book' \ Book
    BY <1>9, <1>12
  <2>2. e.plate \notin {p.plate : p \in Book} /\ e.spot \notin {p.spot : p \in Book}
        /\ \A s \in Ledger!SpotsOf(floor) : s < e.spot => s \in {p.spot : p \in Book}
    BY <1>10, <1>12, <1>13, <1>14
  <2> QED BY <1>3, <1>9, <1>12, <1>13, <2>1, <2>2 DEF Ledger!Park, Ledger!Taken, Book, Entry, Inside
<1> QED BY <1>8, <1>15

\* Leaving takes the vehicle's entry out and charges it.
LEMMA ExitKeeps ==
  ASSUME Parked, NEW plate \in IndianPlates, Exit(plate), clock' = clock
  PROVE  Parked' /\ Ledger!Leave
<1> DEFINE i == registry[plate]
<1>1. plate \in Inside
  BY DEF Exit, Inside
<1>2. /\ i \in Indices /\ spots[i].occupied /\ spots[i].plate = plate
      /\ spots[i].entry \in Nat /\ spots[i].entry <= clock /\ Entry(plate).since = spots[i].entry
  BY <1>1, InsideFacts
<1>3. /\ spots' = [spots EXCEPT ![i] = [@ EXCEPT !.occupied = FALSE, !.plate = <<>>, !.entry = NoTime]]
      /\ registry' = [registry EXCEPT ![plate] = Absent]
      /\ fee' = calculateStartedHourFee(clock - spots[i].entry)
  BY DEF Exit, Released
<1> HIDE DEF i
<1>4. \A j \in Indices : j # i => spots'[j] = spots[j]
  BY <1>3 DEF Parked
<1>5. /\ ~spots'[i].occupied /\ spots'[i].entry = 0
      /\ spots'[i].floor = spots[i].floor /\ spots'[i] \in Spot
  <2>1. PICK r \in Spot : r = spots[i]
    BY <1>2 DEF Parked
  <2>2. spots'[i] = [r EXCEPT !.occupied = FALSE, !.plate = <<>>, !.entry = 0]
    BY <1>2, <1>3, <2>1 DEF Parked, NoTime
  <2>3. spots'[i] = [floor |-> r.floor, occupied |-> FALSE, plate |-> <<>>, entry |-> 0]
    BY <2>1, <2>2 DEF Spot
  <2>4. ~spots'[i].occupied /\ spots'[i].entry = 0 /\ spots'[i].floor = r.floor
    BY <2>3
  <2>5. spots'[i] \in Spot
    BY <2>1, <2>3 DEF Spot
  <2> QED BY <2>1, <2>4, <2>5
<1>6. registry'[plate] = Absent
      /\ \A p \in IndianPlates : p # plate => registry'[p] = registry[p] /\ (registry[p] # Absent => registry[p] # i)
  BY <1>2, <1>3 DEF Parked
<1>7. Parked'
  <2>1. clock' \in Nat
    BY DEF Parked
  <2>2. spots' \in [Indices -> Spot]
    BY <1>2, <1>3, <1>5 DEF Parked
  <2>3. registry' \in [IndianPlates -> Indices \cup {Absent}]
    BY <1>3 DEF Parked
  <2>4. ASSUME NEW j \in Indices
        PROVE  /\ spots'[j].floor = j \div PerFloor + 1 /\ spots'[j].entry <= clock'
               /\ spots'[j].occupied => spots'[j].plate \in IndianPlates /\ registry'[spots'[j].plate] = j
    <3>1. CASE j = i
      BY <1>2, <1>5, <2>1, <3>1 DEF Parked
    <3>2. CASE j # i
      <4>1. spots[j].occupied => spots[j].plate # plate
        BY <3>2 DEF Parked, i
      <4> QED BY <1>4, <1>6, <3>2, <4>1 DEF Parked
    <3> QED BY <3>1, <3>2
  <2>5. ASSUME NEW p \in IndianPlates, registry'[p] # Absent
        PROVE  spots'[registry'[p]].occupied /\ spots'[registry'[p]].plate = p
    <3>1. p # plate /\ registry'[p] = registry[p] /\ registry[p] # i /\ registry[p] \in Indices
      BY <1>6, <2>5 DEF Parked
    <3> QED BY <1>4, <2>5, <3>1 DEF Parked
  <2> QED BY <2>1, <2>2, <2>3, <2>4, <2>5 DEF Parked
<1>8. Book' = Book \ {Entry(plate)}
  <2>1. Inside' = Inside \ {plate}
    BY <1>6 DEF Inside
  <2>2. ASSUME NEW p \in Inside, p # plate PROVE Entry(p)' = Entry(p) /\ Entry(p) # Entry(plate)
    <3>1. registry'[p] = registry[p] /\ registry[p] \in Indices /\ registry[p] # i
      BY <1>6, <2>2, InsideFacts DEF Inside
    <3>2. Entry(p).plate = p /\ Entry(plate).plate = plate
      BY <1>1, InsideFacts
    <3>3. Entry(p)' = Entry(p)
      BY <1>4, <3>1 DEF Entry, SpotOf
    <3> QED BY <2>2, <3>2, <3>3
  <2> QED BY <2>1, <2>2 DEF Book
<1>9. fee' = Ledger!Fee(Entry(plate).since)
  <2>1. clock \in Nat
    BY DEF Parked
  <2> QED BY <1>2, <1>3, <2>1, FeeExact
<1>10. Entry(plate) \in Book
  BY <1>1 DEF Book
<1>11. Ledger!Leave
  BY <1>8, <1>9, <1>10 DEF Ledger!Leave, Book, Entry, Inside
<1> QED BY <1>7, <1>11

\* Every step of the garage is one of the ledger's.
LEMMA ParkedInductive ==
  Parked /\ [GarageNext]_garageVars => Parked' /\ [Ledger!Next]_(Ledger!ledgerVars)
<1> SUFFICES ASSUME Parked, [GarageNext]_garageVars
             PROVE  Parked' /\ [Ledger!Next]_(Ledger!ledgerVars)
  OBVIOUS
<1>1. CASE handlePark
  BY <1>1, ParkKeeps DEF handlePark, ValidPlate, ValidFloor, Ledger!Next
<1>2. CASE handleExit
  BY <1>2, ExitKeeps DEF handleExit, ValidPlate, Ledger!Next
<1>3. ASSUME UNCHANGED <<spots, registry>>, clock' = clock \/ clock' = clock + 1
      PROVE  Parked' /\ Book' = Book /\ clock' >= clock
  <2>1. clock \in Nat /\ clock' \in Nat /\ clock <= clock'
    BY <1>3 DEF Parked
  <2>2. \A j \in Indices : spots[j].entry <= clock'
    BY <2>1 DEF Parked, Spot
  <2> QED BY <1>3, <2>1, <2>2 DEF Parked, Book, Entry, Inside, SpotOf
<1>4. CASE Refused \/ GarageTick
  BY <1>3, <1>4 DEF Refused, GarageTick, Ledger!Next, Ledger!Idle, Book, Entry, Inside
<1>5. CASE UNCHANGED garageVars
  BY <1>3, <1>5 DEF garageVars, Ledger!ledgerVars, Book, Entry, Inside
<1> QED BY <1>1, <1>2, <1>4, <1>5 DEF GarageNext

\* Park takes the first free spot of the floor typed for a plate not inside, and
\* Exit frees that spot and charges its hours at the garage's rate: for any
\* numbers of floors and spots, plates and ways to type them, hours and rates.
THEOREM LedgerKept == GarageSpec => ImplementsLedger
<1>1. GarageInit => Parked /\ Ledger!Init
  <2> SUFFICES ASSUME GarageInit PROVE Parked /\ Ledger!Init
    OBVIOUS
  <2>1. \A i \in Indices : i \div PerFloor + 1 \in Int
    <3> TAKE i \in Indices
    <3>1. PerFloor \in Nat \ {0} /\ i \in Nat
      BY IndexFacts, GarageConstants
    <3> QED BY <3>1, Divided
  <2>2. Inside = {}
    BY DEF GarageInit, Inside
  <2>3. Parked
    BY <2>1 DEF GarageInit, Parked, Indices, Spot, NoTime
  <2> QED BY <2>2, <2>3 DEF GarageInit, Ledger!Init, Inside
<1>2. Parked => RegistryExact
  <2> SUFFICES ASSUME Parked PROVE RegistryExact
    OBVIOUS
  <2>1. DOMAIN spots = Indices
    BY DEF Parked
  <2> QED BY <2>1, FreeFacts DEF Parked, RegistryExact
<1> QED BY <1>1, <1>2, ParkedInductive, PTL DEF GarageSpec, ImplementsLedger, Ledger!LedgerSpec

-----------------------------------------------------------------------------
(* The packet router serves strictly by priority, for every kind of queue. *)

-----------------------------------------------------------------------------
(* The packet router serves by level, whatever its queues are. *)

Packet == [id : 1..MaxPackets, ttl : Int, priority : Int]
PacketPlaces == Packet \cup {NoPacket}

\* w is what the ring, the list or the slice holds, first to last.
RingOf(n) ==
  [kind : {"ring"}, items : [0..(n - 1) -> PacketPlaces], head : 0..(n - 1), tail : 0..(n - 1), size : 0..n]

InSlots(q, n, w) ==
  /\ q \in RingOf(n)
  /\ Len(w) = q.size /\ q.tail = (q.head + q.size) % n
  /\ \A i \in 1..q.size : q.items[(q.head + i - 1) % n] = w[i]

InRing(q, w) == \E n \in Nat \ {0} : InSlots(q, n, w)

InList(q, w) ==
  /\ q \in [kind : {"linked"}, head : 0..MaxPackets, tail : 0..MaxPackets, size : Nat,
            next : [1..MaxPackets -> 0..MaxPackets], value : [1..MaxPackets -> PacketPlaces]]
  /\ Len(w) = q.size /\ (q.size # 0 => q.head = w[1].id /\ q.tail = w[q.size].id)
  /\ \A i \in 1..q.size : q.value[w[i].id] = w[i] /\ (i < q.size => q.next[w[i].id] = w[i + 1].id)

\* The queue holds these packets, which came in this order.
Holds(q, w) ==
  /\ w \in Seq(Packet) /\ \A i, j \in 1..Len(w) : i < j => w[i].id < w[j].id
  /\ InRing(q, w) \/ InList(q, w) \/ q = [kind |-> "slice", items |-> w]

\* The slots of a ring.
LEMMA SlotsFacts ==
  ASSUME NEW n \in Nat \ {0}, NEW q, DOMAIN q.items = 0..(n - 1)
  PROVE  RingSlots(q) = n
<1>1. \E last \in DOMAIN q.items : \A i \in DOMAIN q.items : i <= last
  BY n - 1 \in 0..(n - 1)
<1> DEFINE last == CHOOSE last \in DOMAIN q.items : \A i \in DOMAIN q.items : i <= last
<1>2. last \in 0..(n - 1) /\ \A i \in 0..(n - 1) : i <= last
  BY <1>1
<1> HIDE DEF last
<1>3. last = n - 1
  BY <1>2, n - 1 \in 0..(n - 1)
<1>4. RingSlots(q) = 1 + last
  BY DEF RingSlots, last
<1> QED BY <1>3, <1>4

\* A slot is a step further, or back at the first.
LEMMA SlotsWrap ==
  ASSUME NEW n \in Nat \ {0}, NEW a \in 0..(n - 1), NEW i \in 0..n
  PROVE  (a + i) % n = IF a + i < n THEN a + i ELSE a + i - n
<1>1. CASE a + i < n
  BY <1>1
<1>2. CASE a + i >= n
  <2>1. a + i = n * 1 + (a + i - n) /\ a + i - n \in 0..(n - 1)
    BY <1>2
  <2> QED BY <1>2, <2>1, SMTT(30)
<1> QED BY <1>1, <1>2

\* Following the links from the head gives the packets.
LEMMA LinkedIs ==
  ASSUME NEW q, NEW w \in Seq(Packet), InList(q, w)
  PROVE  Linked(q) = w
<1> DEFINE n == q.size
           node == CHOOSE f : f = [i \in 1..q.size |-> IF i = 1 THEN q.head ELSE q.next[f[i - 1]]]
           g == [i \in 1..n |-> w[i].id]
<1>1. n \in Nat /\ Len(w) = n
  BY DEF InList
<1>2. \A i \in 1..n : g[i] = IF i = 1 THEN q.head ELSE q.next[g[i - 1]]
  <2> SUFFICES ASSUME NEW i \in 1..n PROVE g[i] = IF i = 1 THEN q.head ELSE q.next[g[i - 1]]
    OBVIOUS
  <2>1. CASE i = 1
    BY <1>1, <2>1 DEF InList
  <2>2. CASE i # 1
    <3>1. i - 1 \in 1..n /\ i - 1 < n /\ (i - 1) + 1 = i
      BY <1>1, <2>2
    <3> QED BY <2>2, <3>1 DEF InList
  <2> QED BY <2>1, <2>2
<1>3. g = [i \in 1..n |-> IF i = 1 THEN q.head ELSE q.next[g[i - 1]]]
  <2>1. g = [i \in 1..n |-> g[i]]
    OBVIOUS
  <2> HIDE DEF g
  <2> QED BY <1>2, <2>1
<1>4. node = [i \in 1..n |-> IF i = 1 THEN q.head ELSE q.next[node[i - 1]]]
  <2> HIDE DEF g
  <2> QED BY <1>3, Zenon
<1>5. Linked(q) = [i \in 1..n |-> q.value[node[i]]]
  BY DEF Linked
<1>6. \A i \in 1..n : node[i] = w[i].id
  <2> DEFINE T == {k \in 1..n : node[k] = w[k].id}
  <2>0. \A i \in 1..n : node[i] = IF i = 1 THEN q.head ELSE q.next[node[i - 1]]
    <3> HIDE DEF node, n
    <3> QED BY <1>4, Zenon
  <2> HIDE DEF node
  <2>1. CASE n = 0
    BY <2>1
  <2>2. CASE n # 0
    <3>1. 1 \in T
      BY <1>1, <2>0, <2>2 DEF InList
    <3>2. ASSUME NEW k \in 1..n, k \in T, k < n PROVE k + 1 \in T
      <4>1. k + 1 \in 1..n /\ k + 1 # 1 /\ (k + 1) - 1 = k
        BY <1>1, <3>2
      <4>2. node[k + 1] = q.next[node[k]]
        BY <2>0, <4>1
      <4> QED BY <3>2, <4>1, <4>2 DEF InList
    <3> HIDE DEF T, n
    <3>3. \A k \in 1..n : k \in T
      BY <1>1, <3>1, <3>2, UpTo
    <3> QED BY <3>3 DEF T
  <2> QED BY <2>1, <2>2
<1> HIDE DEF node
<1>7. \A i \in 1..n : q.value[node[i]] = w[i]
  BY <1>6 DEF InList
<1>8. w = [i \in 1..n |-> w[i]]
  BY <1>1
<1> QED BY <1>5, <1>7, <1>8

\* What a queue holds is one sequence, and an empty queue holds none.
LEMMA PacketsAre ==
  ASSUME NEW q, NEW w, Holds(q, w)
  PROVE  Packets(q) = w /\ (IsEmpty(q) <=> w = <<>>)
<1>0. w \in Seq(Packet)
  BY DEF Holds
<1>1. CASE InRing(q, w)
  <2>0. PICK n \in Nat \ {0} : InSlots(q, n, w)
    BY <1>1 DEF InRing
  <2>1. /\ q \in [kind : {"ring"}, items : [0..(n - 1) -> PacketPlaces], head : 0..(n - 1), tail : 0..(n - 1), size : 0..n]
        /\ Len(w) = q.size /\ \A i \in 1..q.size : q.items[(q.head + i - 1) % n] = w[i]
    BY <2>0 DEF InSlots, RingOf
  <2>2. RingSlots(q) = n
    BY <2>1, SlotsFacts
  <2>3. Packets(q) = [i \in 1..q.size |-> q.items[(q.head + i - 1) % n]] /\ (IsEmpty(q) <=> q.size = 0)
    BY <2>1, <2>2 DEF Packets, IsEmpty
  <2>4. w = [i \in 1..q.size |-> w[i]] /\ (w = <<>> <=> q.size = 0)
    BY <1>0, <2>1
  <2> QED BY <2>1, <2>3, <2>4
<1>2. CASE InList(q, w)
  <2>1. Packets(q) = w
    BY <1>0, <1>2, LinkedIs DEF Packets, InList
  <2>2. IsEmpty(q) <=> q.size = 0
    BY <1>2 DEF IsEmpty, InList
  <2> QED BY <1>0, <1>2, <2>1, <2>2 DEF InList
<1>3. CASE q = [kind |-> "slice", items |-> w]
  BY <1>3 DEF Packets, IsEmpty
<1> QED BY <1>1, <1>2, <1>3 DEF Holds

\* A ring that is full makes room for its packets where they are read the same way.
LEMMA RoomKeeps ==
  ASSUME NEW q, NEW w \in Seq(Packet), InRing(q, w)
  PROVE  \E n \in Nat \ {0} : InSlots(RingRoom(q), n, w) /\ Len(w) < n
<1>0. PICK n \in Nat \ {0} : InSlots(q, n, w)
  BY DEF InRing
<1>1. /\ q \in [kind : {"ring"}, items : [0..(n - 1) -> PacketPlaces], head : 0..(n - 1), tail : 0..(n - 1), size : 0..n]
      /\ Len(w) = q.size /\ q.tail = (q.head + q.size) % n
      /\ \A i \in 1..q.size : q.items[(q.head + i - 1) % n] = w[i]
  BY <1>0 DEF InSlots, RingOf
<1>2. RingSlots(q) = n
  BY <1>1, SlotsFacts
<1>3. CASE q.size < n
  BY <1>0, <1>1, <1>2, <1>3 DEF RingRoom
<1>4. CASE ~(q.size < n)
  <2> DEFINE new == [i \in 0..(2 * n - 1) |-> IF i < n THEN q.items[(q.head + i) % n] ELSE NoPacket]
             r == [kind |-> "ring", items |-> new, head |-> 0, tail |-> n, size |-> n]
  <2>1. q.size = n /\ Len(w) = n /\ 2 * n \in Nat \ {0} /\ n \in 0..(2 * n - 1) /\ 0 \in 0..(2 * n - 1) /\ n \in 0..(2 * n)
    BY <1>1, <1>4
  <2>2. RingRoom(q) = r
    BY <1>1, <1>2, <1>4, <2>1 DEF RingRoom, Grown
  <2>3. \A i \in 0..(n - 1) : (q.head + i) % n \in 0..(n - 1)
    BY <1>1
  <2>4. new \in [0..(2 * n - 1) -> PacketPlaces]
    <3>1. \A i \in 0..(n - 1) : q.items[(q.head + i) % n] \in PacketPlaces
      BY <1>1, <2>3
    <3>2. \A i \in 0..(2 * n - 1) : i < n => i \in 0..(n - 1)
      OBVIOUS
    <3>3. \A i \in 0..(2 * n - 1) : new[i] \in PacketPlaces
      BY <3>1, <3>2 DEF PacketPlaces
    <3> QED BY <3>3
  <2>5. \A i \in 1..n : (0 + i - 1) % (2 * n) = i - 1 /\ i - 1 \in 0..(2 * n - 1) /\ i - 1 < n
    <3> SUFFICES ASSUME NEW i \in 1..n PROVE (0 + i - 1) % (2 * n) = i - 1 /\ i - 1 \in 0..(2 * n - 1) /\ i - 1 < n
      OBVIOUS
    <3>1. PICK m \in Nat \ {0} : m = 2 * n
      OBVIOUS
    <3>2. i - 1 \in 0..(m - 1) /\ 0 \in 0..m /\ (i - 1) + 0 = i - 1 /\ 0 + i - 1 = i - 1 /\ i - 1 < m
      BY <3>1
    <3>3. (i - 1) % m = i - 1
      BY <3>2, SlotsWrap
    <3> QED BY <3>1, <3>2, <3>3
  <2>6. \A i \in 1..n : new[(0 + i - 1) % (2 * n)] = w[i]
    <3> SUFFICES ASSUME NEW i \in 1..n PROVE new[(0 + i - 1) % (2 * n)] = w[i]
      OBVIOUS
    <3>1. new[(0 + i - 1) % (2 * n)] = q.items[(q.head + (i - 1)) % n]
      BY <2>5
    <3>2. q.head + (i - 1) = q.head + i - 1
      BY <1>1
    <3> QED BY <1>1, <2>1, <3>1, <3>2
  <2>7. (0 + n) % (2 * n) = n
    <3>1. PICK m \in Nat \ {0} : m = 2 * n
      OBVIOUS
    <3>2. n \in 0..(m - 1) /\ 0 \in 0..m /\ n + 0 = n /\ n < m
      BY <3>1
    <3>3. n % m = n
      BY <3>2, SlotsWrap
    <3> QED BY <3>1, <3>3
  <2> HIDE DEF new
  <2>8. r \in RingOf(2 * n)
    BY <2>1, <2>4 DEF RingOf
  <2>9. r.size = n /\ r.tail = n /\ r.head = 0 /\ r.items = new /\ n < 2 * n
    OBVIOUS
  <2> HIDE DEF r
  <2>10. InSlots(r, 2 * n, w)
    BY <2>1, <2>6, <2>7, <2>8, <2>9 DEF InSlots
  <2> QED BY <2>1, <2>2, <2>9, <2>10
<1> QED BY <1>3, <1>4

\* The slot after the one at offset l is the one at offset l + 1.
LEMMA SlotAfter ==
  ASSUME NEW n \in Nat \ {0}, NEW h \in 0..(n - 1), NEW l \in 0..(n - 1)
  PROVE  (((h + l) % n) + 1) % n = (h + (l + 1)) % n /\ (((h + l) % n) + 1) % n \in 0..(n - 1)
<1>1. PICK t \in 0..(n - 1) : t = (h + l) % n /\ t = IF h + l < n THEN h + l ELSE h + l - n
  <2>1. (h + l) % n = IF h + l < n THEN h + l ELSE h + l - n
    <3>1. l \in 0..n
      OBVIOUS
    <3> QED BY <3>1, SlotsWrap
  <2>2. PICK t : t = IF h + l < n THEN h + l ELSE h + l - n
    OBVIOUS
  <2>3. t \in 0..(n - 1)
    BY <2>2
  <2> QED BY <2>1, <2>2, <2>3, Zenon
<1>2. (h + (l + 1)) % n = IF h + (l + 1) < n THEN h + (l + 1) ELSE h + (l + 1) - n
  <2>1. l + 1 \in 0..n
    OBVIOUS
  <2> QED BY <2>1, SlotsWrap
<1>3. (t + 1) % n = IF t + 1 < n THEN t + 1 ELSE t + 1 - n
  <2>1. 1 \in 0..n
    OBVIOUS
  <2> QED BY <2>1, SlotsWrap
<1>4. PICK x : x = (t + 1) % n
  OBVIOUS
<1>5. PICK y : y = (h + (l + 1)) % n
  OBVIOUS
<1>6. x = y /\ x \in 0..(n - 1)
  <2>1. CASE h + l < n
    BY <1>1, <1>2, <1>3, <1>4, <1>5, <2>1
  <2>2. CASE h + l >= n
    BY <1>1, <1>2, <1>3, <1>4, <1>5, <2>2
  <2> QED BY <2>1, <2>2
<1> QED BY <1>1, <1>4, <1>5, <1>6

\* A packet that comes in is the last.
LEMMA EnqueuedHolds ==
  ASSUME NEW q, NEW w, Holds(q, w), NEW p \in Packet, \A i \in 1..Len(w) : w[i].id < p.id
  PROVE  Holds(Enqueued(q, p), Append(w, p))
<1>0. w \in Seq(Packet) /\ Len(w) \in Nat
  BY DEF Holds
<1> DEFINE v == Append(w, p)
<1>1. /\ v \in Seq(Packet) /\ Len(v) = Len(w) + 1
      /\ v[Len(w) + 1] = p /\ \A i \in 1..Len(w) : v[i] = w[i]
  BY <1>0
<1> HIDE DEF v
<1>2. \A i, j \in 1..Len(v) : i < j => v[i].id < v[j].id
  BY <1>0, <1>1 DEF Holds
<1>3. CASE InRing(q, w)
  <2>0. PICK n \in Nat \ {0} : InSlots(RingRoom(q), n, w) /\ Len(w) < n
    BY <1>0, <1>3, RoomKeeps
  <2>1. /\ RingRoom(q) \in [kind : {"ring"}, items : [0..(n - 1) -> PacketPlaces], head : 0..(n - 1), tail : 0..(n - 1), size : 0..n]
        /\ RingRoom(q).size = Len(w) /\ Len(w) < n
        /\ RingRoom(q).tail = (RingRoom(q).head + Len(w)) % n
        /\ \A i \in 1..Len(w) : RingRoom(q).items[(RingRoom(q).head + i - 1) % n] = w[i]
    BY <2>0 DEF InSlots, RingOf
  <2>2. PICK r : r = RingRoom(q)
    OBVIOUS
  <2>3. RingSlots(r) = n
    BY <2>1, <2>2, SlotsFacts
  <2> DEFINE s == [kind |-> "ring", items |-> [r.items EXCEPT ![r.tail] = p], head |-> r.head,
                   tail |-> (r.tail + 1) % n, size |-> r.size + 1]
  <2>4. Enqueued(q, p) = s
    <3>1. q.kind = "ring"
      BY <1>3 DEF InRing, InSlots, RingOf
    <3>2. Enqueued(q, p) = [r EXCEPT !.items[r.tail] = p, !.tail = (r.tail + 1) % n, !.size = r.size + 1]
      BY <2>2, <2>3, <3>1 DEF Enqueued, RingEnqueue
    <3> QED BY <2>1, <2>2, <3>2
  <2>5. /\ r.head \in 0..(n - 1) /\ r.tail \in 0..(n - 1) /\ Len(w) \in 0..n /\ Len(w) < n /\ r.size = Len(w)
        /\ r.tail = IF r.head + Len(w) < n THEN r.head + Len(w) ELSE r.head + Len(w) - n
    BY <1>0, <2>1, <2>2, SlotsWrap
  <2>6. (r.tail + 1) % n = IF r.tail + 1 < n THEN r.tail + 1 ELSE 0
    <3>1. 1 \in 0..n /\ r.tail \in 0..(n - 1)
      BY <2>5
    <3>2. (r.tail + 1) % n = IF r.tail + 1 < n THEN r.tail + 1 ELSE r.tail + 1 - n
      BY <3>1, SlotsWrap
    <3> QED BY <3>1, <3>2
  <2>7. Len(v) \in 0..n /\ (r.head + Len(v)) % n = IF r.head + Len(v) < n THEN r.head + Len(v) ELSE r.head + Len(v) - n
    <3>1. Len(v) \in 0..n /\ r.head \in 0..(n - 1)
      BY <1>0, <1>1, <2>5
    <3> QED BY <3>1, SlotsWrap
  <2>8. (r.tail + 1) % n = (r.head + Len(v)) % n /\ (r.tail + 1) % n \in 0..(n - 1)
    <3>1. PICK l \in 0..(n - 1) : l = Len(w) /\ l + 1 = Len(v)
      BY <1>0, <1>1, <2>5
    <3>2. PICK h \in 0..(n - 1) : h = r.head
      BY <2>5
    <3>3. r.tail = (h + l) % n
      BY <2>1, <2>2, <3>1, <3>2, Zenon
    <3>4. (((h + l) % n) + 1) % n = (h + (l + 1)) % n /\ (((h + l) % n) + 1) % n \in 0..(n - 1)
      BY SlotAfter
    <3> QED BY <3>1, <3>2, <3>3, <3>4, Zenon
  <2>9. \A i \in 1..Len(v) : [r.items EXCEPT ![r.tail] = p][(r.head + i - 1) % n] = v[i]
    <3> SUFFICES ASSUME NEW i \in 1..Len(v) PROVE [r.items EXCEPT ![r.tail] = p][(r.head + i - 1) % n] = v[i]
      OBVIOUS
    <3>1. i - 1 \in 0..n /\ r.head + (i - 1) = r.head + i - 1 /\ i - 1 <= Len(w)
      BY <1>0, <1>1, <2>5
    <3>2. (r.head + i - 1) % n = IF r.head + i - 1 < n THEN r.head + i - 1 ELSE r.head + i - 1 - n
      BY <2>5, <3>1, SlotsWrap
    <3>3. CASE i = Len(w) + 1
      <4>1. (r.head + i - 1) % n = r.tail
        BY <1>0, <2>5, <3>1, <3>2, <3>3
      <4> QED BY <1>1, <2>1, <2>2, <2>5, <3>3, <4>1
    <3>4. CASE i \in 1..Len(w)
      <4>1. (r.head + i - 1) % n # r.tail /\ (r.head + i - 1) % n \in 0..(n - 1)
        <5>1. PICK l \in 0..(n - 1) : l = Len(w)
          BY <1>0, <2>5
        <5>2. PICK h \in 0..(n - 1) : h = r.head
          BY <2>5
        <5>3. i \in 1..l /\ r.tail = (IF h + l < n THEN h + l ELSE h + l - n)
              /\ (r.head + i - 1) % n = IF h + i - 1 < n THEN h + i - 1 ELSE h + i - 1 - n
          BY <2>5, <3>2, <3>4, <5>1, <5>2
        <5> QED BY <5>3
      <4>2. r.items[(r.head + i - 1) % n] = w[i]
        BY <2>1, <2>2, <3>4
      <4> QED BY <1>1, <2>1, <2>2, <3>4, <4>1, <4>2
    <3> QED BY <1>0, <1>1, <3>3, <3>4
  <2>10. s \in RingOf(n)
    <3>1. [r.items EXCEPT ![r.tail] = p] \in [0..(n - 1) -> PacketPlaces]
      BY <2>1, <2>2 DEF PacketPlaces
    <3> QED BY <1>0, <1>1, <2>5, <2>7, <2>8, <3>1 DEF RingOf
  <2>11. s.size = Len(v) /\ s.items = [r.items EXCEPT ![r.tail] = p] /\ s.head = r.head /\ s.tail = (r.tail + 1) % n
    BY <1>1, <2>5
  <2> HIDE DEF s
  <2>12. InRing(s, v)
    BY <2>8, <2>9, <2>10, <2>11 DEF InRing, InSlots
  <2> QED BY <1>1, <1>2, <2>4, <2>12 DEF Holds, v
<1>4. CASE InList(q, w)
  <2>1. /\ q.kind = "linked" /\ Len(w) = q.size /\ q.size \in Nat
        /\ q.next \in [1..MaxPackets -> 0..MaxPackets] /\ q.value \in [1..MaxPackets -> PacketPlaces]
        /\ q.head \in 0..MaxPackets /\ q.tail \in 0..MaxPackets
    BY <1>4 DEF InList
  <2> DEFINE next == IF q.size = 0 THEN q.next ELSE [q.next EXCEPT ![q.tail] = p.id]
             value == [q.value EXCEPT ![p.id] = p]
             head == IF q.size = 0 THEN p.id ELSE q.head
             s == [kind |-> "linked", head |-> head, tail |-> p.id, size |-> q.size + 1, next |-> next, value |-> value]
  <2>2. Enqueued(q, p) = s
    BY <1>4, <2>1 DEF Enqueued, ListEnqueue, InList
  <2>3. p.id \in 1..MaxPackets /\ \A i \in 1..Len(w) : w[i].id \in 1..MaxPackets /\ w[i].id # p.id
    <3>1. \A i \in 1..Len(w) : w[i] \in Packet
      BY <1>0
    <3> QED BY <3>1 DEF Packet
  <2>4. s \in [kind : {"linked"}, head : 0..MaxPackets, tail : 0..MaxPackets, size : Nat,
               next : [1..MaxPackets -> 0..MaxPackets], value : [1..MaxPackets -> PacketPlaces]]
    <3>1. next \in [1..MaxPackets -> 0..MaxPackets]
      <4>1. p.id \in 0..MaxPackets
        BY <2>3, RouterConstants
      <4>2. [q.next EXCEPT ![q.tail] = p.id] \in [1..MaxPackets -> 0..MaxPackets]
        BY <2>1, <4>1
      <4> QED BY <2>1, <4>2
    <3>2. value \in [1..MaxPackets -> PacketPlaces]
      BY <2>1, <2>3 DEF PacketPlaces
    <3>3. head \in 0..MaxPackets /\ p.id \in 0..MaxPackets /\ q.size + 1 \in Nat
      BY <2>1, <2>3, RouterConstants
    <3> HIDE DEF next, value, head
    <3> QED BY <3>1, <3>2, <3>3
  <2>5. Len(v) = s.size /\ s.head = v[1].id /\ s.tail = v[s.size].id
    BY <1>0, <1>1, <1>4, <2>1 DEF InList
  <2>6. \A i \in 1..Len(v) : value[v[i].id] = v[i] /\ (i < Len(v) => next[v[i].id] = v[i + 1].id)
    <3> SUFFICES ASSUME NEW i \in 1..Len(v) PROVE value[v[i].id] = v[i] /\ (i < Len(v) => next[v[i].id] = v[i + 1].id)
      OBVIOUS
    <3>1. CASE i = Len(v)
      <4>1. v[i] = p /\ ~(i < Len(v))
        BY <1>0, <1>1, <3>1
      <4>2. value[p.id] = p
        BY <2>1, <2>3
      <4> HIDE DEF value, next
      <4> QED BY <4>1, <4>2
    <3>2. CASE i = Len(w) /\ i \in 1..Len(w)
      <4>1. v[i] = w[i] /\ v[i + 1] = p /\ q.tail = w[i].id /\ q.size # 0
        BY <1>0, <1>1, <1>4, <2>1, <3>2 DEF InList
      <4>2. q.value[w[i].id] = w[i]
        BY <1>4, <2>1, <3>2 DEF InList
      <4> QED BY <2>1, <2>3, <3>2, <4>1, <4>2
    <3>3. CASE i < Len(w)
      <4>1. i \in 1..Len(w) /\ i + 1 \in 1..Len(w) /\ v[i] = w[i] /\ v[i + 1] = w[i + 1]
        BY <1>0, <1>1, <3>3
      <4>2. w[i].id # q.tail
        <5>1. q.tail = w[Len(w)].id /\ Len(w) \in 1..Len(w) /\ w[i].id < w[Len(w)].id
          BY <1>0, <1>4, <2>1, <3>3, <4>1 DEF InList, Holds
        <5> QED BY <2>3, <4>1, <5>1
      <4>3. q.value[w[i].id] = w[i] /\ q.next[w[i].id] = w[i + 1].id
        BY <1>4, <2>1, <3>3, <4>1 DEF InList
      <4> QED BY <2>1, <2>3, <4>1, <4>2, <4>3
    <3> QED BY <1>0, <1>1, <3>1, <3>2, <3>3
  <2>7. s.next = next /\ s.value = value
    OBVIOUS
  <2> HIDE DEF next, value, s
  <2>8. InList(s, v)
    BY <2>4, <2>5, <2>6, <2>7 DEF InList
  <2> QED BY <1>1, <1>2, <2>2, <2>8 DEF Holds, v
<1>5. CASE q = [kind |-> "slice", items |-> w]
  <2>1. Enqueued(q, p) = [kind |-> "slice", items |-> v]
    BY <1>5 DEF Enqueued, v
  <2> QED BY <1>1, <1>2, <2>1 DEF Holds, v
<1> QED BY <1>3, <1>4, <1>5 DEF Holds

\* The first packet leaves, the others stay as they are.
LEMMA DequeuedHolds ==
  ASSUME NEW q, NEW w, Holds(q, w), w # <<>>
  PROVE  Front(q) = Head(w) /\ Holds(Dequeued(q), Tail(w))
<1> DEFINE v == Tail(w)
<1>0. w \in Seq(Packet) /\ Len(w) \in Nat \ {0}
  BY DEF Holds
<1>1. /\ v \in Seq(Packet) /\ Len(v) = Len(w) - 1 /\ Head(w) = w[1]
      /\ \A i \in 1..Len(v) : v[i] = w[i + 1]
  BY <1>0
<1> HIDE DEF v
<1>2. \A i, j \in 1..Len(v) : i < j => v[i].id < v[j].id
  <2> SUFFICES ASSUME NEW i \in 1..Len(v), NEW j \in 1..Len(v), i < j PROVE v[i].id < v[j].id
    OBVIOUS
  <2>1. i + 1 \in 1..Len(w) /\ j + 1 \in 1..Len(w) /\ i + 1 < j + 1 /\ v[i] = w[i + 1] /\ v[j] = w[j + 1]
    BY <1>0, <1>1
  <2> QED BY <2>1 DEF Holds
<1>3. CASE InRing(q, w)
  <2>0. PICK n \in Nat \ {0} : InSlots(q, n, w)
    BY <1>3 DEF InRing
  <2>1. /\ q \in [kind : {"ring"}, items : [0..(n - 1) -> PacketPlaces], head : 0..(n - 1), tail : 0..(n - 1), size : 0..n]
        /\ q.kind = "ring" /\ q.head \in 0..(n - 1) /\ q.tail \in 0..(n - 1) /\ q.size \in 0..n
        /\ q.items \in [0..(n - 1) -> PacketPlaces]
        /\ Len(w) = q.size /\ q.tail = (q.head + q.size) % n
        /\ \A i \in 1..q.size : q.items[(q.head + i - 1) % n] = w[i]
    BY <2>0 DEF InSlots, RingOf
  <2>2. RingSlots(q) = n
    BY <2>1, SlotsFacts
  <2> DEFINE items == [q.items EXCEPT ![q.head] = NoPacket]
             head == (q.head + 1) % n
             s == [kind |-> "ring", items |-> items, head |-> head, tail |-> q.tail, size |-> q.size - 1]
  <2>3. Dequeued(q) = s
    <3>1. Dequeued(q) = [q EXCEPT !.items[q.head] = NoPacket, !.head = (q.head + 1) % n, !.size = q.size - 1]
      BY <2>1, <2>2 DEF Dequeued, RingDequeue
    <3> QED BY <2>1, <3>1
  <2>4. head = (IF q.head + 1 < n THEN q.head + 1 ELSE 0) /\ head \in 0..(n - 1)
    <3>1. 1 \in 0..n /\ q.head \in 0..(n - 1)
      BY <2>1
    <3>2. (q.head + 1) % n = IF q.head + 1 < n THEN q.head + 1 ELSE q.head + 1 - n
      BY <3>1, SlotsWrap
    <3> QED BY <3>1, <3>2
  <2>5. Front(q) = w[1]
    <3>1. 0 \in 0..n /\ q.head + 0 = q.head /\ q.head < n /\ q.head + 1 - 1 = q.head
      BY <2>1
    <3>2. (q.head + 0) % n = IF q.head + 0 < n THEN q.head + 0 ELSE q.head + 0 - n
      BY <2>1, <3>1, SlotsWrap
    <3>3. (q.head + 1 - 1) % n = q.head /\ 1 \in 1..q.size
      BY <1>0, <2>1, <3>1, <3>2
    <3> QED BY <2>1, <3>3 DEF Front
  <2>6. ASSUME NEW i \in 1..Len(v)
        PROVE  /\ (head + i - 1) % n = (q.head + (i + 1) - 1) % n /\ (head + i - 1) % n # q.head
               /\ (head + i - 1) % n \in 0..(n - 1)
    <3>1. PICK h \in 0..(n - 1) : h = q.head
      BY <2>1
    <3>2. PICK g \in 0..(n - 1) : g = head
      BY <2>4
    <3>3. i \in 1..(n - 1) /\ i \in 0..n /\ i - 1 \in 0..n /\ g + (i - 1) = g + i - 1 /\ h + i = h + (i + 1) - 1
      <4>1. PICK l \in 0..n : l = q.size
        BY <2>1
      <4>2. Len(v) = l - 1
        BY <1>1, <2>1, <4>1
      <4>3. i \in 1..(l - 1)
        BY <4>2
      <4> QED BY <3>1, <3>2, <4>1, <4>3
    <3>4. (g + (i - 1)) % n = IF g + (i - 1) < n THEN g + (i - 1) ELSE g + (i - 1) - n
      BY <3>3, SlotsWrap
    <3>5. (h + i) % n = IF h + i < n THEN h + i ELSE h + i - n
      BY <3>3, SlotsWrap
    <3>6. g = IF h + 1 < n THEN h + 1 ELSE 0
      BY <2>4, <3>1, <3>2
    <3>7. (g + (i - 1)) % n = (h + i) % n /\ (h + i) % n # h /\ (h + i) % n \in 0..(n - 1)
      BY <3>3, <3>4, <3>5, <3>6
    <3> QED BY <3>1, <3>2, <3>3, <3>7
  <2>7. \A i \in 1..Len(v) : items[(head + i - 1) % n] = v[i]
    <3> SUFFICES ASSUME NEW i \in 1..Len(v) PROVE items[(head + i - 1) % n] = v[i]
      OBVIOUS
    <3>1. i + 1 \in 1..q.size
      BY <1>0, <1>1, <2>1
    <3>2. q.items[(q.head + (i + 1) - 1) % n] = w[i + 1]
      BY <2>1, <3>1
    <3> HIDE DEF head
    <3> QED BY <1>1, <2>1, <2>6, <3>2
  <2>8. q.tail = (head + Len(v)) % n
    <3>1. PICK h \in 0..(n - 1) : h = q.head
      BY <2>1
    <3>2. PICK g \in 0..(n - 1) : g = head
      BY <2>4
    <3>3. PICK l \in 0..(n - 1) : l = Len(v) /\ q.size = l + 1
      BY <1>0, <1>1, <2>1
    <3>4. l \in 0..n /\ l + 1 \in 0..n
      BY <3>3
    <3>5. (g + l) % n = IF g + l < n THEN g + l ELSE g + l - n
      BY <3>4, SlotsWrap
    <3>6. (h + (l + 1)) % n = IF h + (l + 1) < n THEN h + (l + 1) ELSE h + (l + 1) - n
      BY <3>4, SlotsWrap
    <3>7. g = IF h + 1 < n THEN h + 1 ELSE 0
      BY <2>4, <3>1, <3>2
    <3>8. (g + l) % n = (h + (l + 1)) % n
      BY <3>5, <3>6, <3>7
    <3>9. q.tail = (h + (l + 1)) % n
      BY <2>1, <3>1, <3>3
    <3> QED BY <3>2, <3>3, <3>8, <3>9
  <2>9. s \in RingOf(n)
    <3>1. items \in [0..(n - 1) -> PacketPlaces]
      BY <2>1 DEF PacketPlaces
    <3>2. q.size - 1 \in 0..n
      BY <1>0, <2>1
    <3> HIDE DEF items, head
    <3> QED BY <2>1, <2>4, <3>1, <3>2 DEF RingOf
  <2>10. s.size = Len(v) /\ s.items = items /\ s.head = head /\ s.tail = q.tail
    BY <1>1, <2>1
  <2> HIDE DEF s, items, head
  <2>11. InSlots(s, n, v)
    BY <2>7, <2>8, <2>9, <2>10 DEF InSlots
  <2> QED BY <1>1, <1>2, <2>3, <2>5, <2>11 DEF Holds, v, InRing
<1>4. CASE InList(q, w)
  <2>1. /\ q.kind = "linked" /\ Len(w) = q.size /\ q.size \in Nat \ {0}
        /\ q.next \in [1..MaxPackets -> 0..MaxPackets] /\ q.value \in [1..MaxPackets -> PacketPlaces]
        /\ q.head \in 0..MaxPackets /\ q.tail \in 0..MaxPackets
        /\ q.head = w[1].id /\ q.tail = w[q.size].id
        /\ \A i \in 1..q.size : q.value[w[i].id] = w[i] /\ (i < q.size => q.next[w[i].id] = w[i + 1].id)
    BY <1>0, <1>4 DEF InList
  <2> DEFINE next == [q.next EXCEPT ![q.head] = 0]
             value == [q.value EXCEPT ![q.head] = NoPacket]
             tail == IF q.size = 1 THEN 0 ELSE q.tail
             s == [kind |-> "linked", head |-> q.next[q.head], tail |-> tail, size |-> q.size - 1, next |-> next, value |-> value]
  <2>2. Dequeued(q) = s
    BY <1>4, <2>1 DEF Dequeued, ListDequeue, InList
  <2>3. \A i \in 1..Len(w) : w[i].id \in 1..MaxPackets
    <3>1. \A i \in 1..Len(w) : w[i] \in Packet
      BY <1>0
    <3> QED BY <3>1 DEF Packet
  <2>4. q.head \in 1..MaxPackets /\ 1 \in 1..q.size
    BY <1>0, <2>1, <2>3
  <2>5. s \in [kind : {"linked"}, head : 0..MaxPackets, tail : 0..MaxPackets, size : Nat,
               next : [1..MaxPackets -> 0..MaxPackets], value : [1..MaxPackets -> PacketPlaces]]
    <3>1. next \in [1..MaxPackets -> 0..MaxPackets]
      <4>1. 0 \in 0..MaxPackets
        BY RouterConstants
      <4> QED BY <2>1, <4>1
    <3>2. value \in [1..MaxPackets -> PacketPlaces]
      BY <2>1 DEF PacketPlaces
    <3>3. q.next[q.head] \in 0..MaxPackets /\ tail \in 0..MaxPackets /\ q.size - 1 \in Nat
      BY <2>1, <2>4, RouterConstants
    <3> HIDE DEF next, value, tail
    <3> QED BY <3>1, <3>2, <3>3
  <2>6. s.size = Len(v) /\ s.next = next /\ s.value = value /\ s.head = q.next[q.head] /\ s.tail = tail
    BY <1>1, <2>1
  <2>7. Len(v) # 0 => s.head = v[1].id /\ s.tail = v[Len(v)].id
    <3> SUFFICES ASSUME Len(v) # 0 PROVE s.head = v[1].id /\ s.tail = v[Len(v)].id
      OBVIOUS
    <3>1. 1 \in 1..Len(v) /\ Len(v) \in 1..Len(v) /\ 1 < q.size /\ q.size # 1 /\ Len(v) + 1 = q.size /\ 1 + 1 = 2
      <4>1. PICK l \in Nat : l = Len(v)
        BY <1>1
      <4>2. q.size = l + 1 /\ l # 0
        BY <1>0, <1>1, <2>1, <4>1
      <4> QED BY <4>1, <4>2
    <3>2. v[1] = w[2] /\ v[Len(v)] = w[q.size]
      BY <1>1, <3>1
    <3>3. q.next[q.head] = w[2].id
      BY <2>1, <2>4, <3>1
    <3> QED BY <2>1, <2>6, <3>1, <3>2, <3>3
  <2>8. \A i \in 1..Len(v) : value[v[i].id] = v[i] /\ (i < Len(v) => next[v[i].id] = v[i + 1].id)
    <3> SUFFICES ASSUME NEW i \in 1..Len(v) PROVE value[v[i].id] = v[i] /\ (i < Len(v) => next[v[i].id] = v[i + 1].id)
      OBVIOUS
    <3>1. i + 1 \in 1..Len(w) /\ 1 \in 1..Len(w) /\ 1 < i + 1 /\ v[i] = w[i + 1]
          /\ (i < Len(v) => i + 1 < q.size /\ v[i + 1] = w[(i + 1) + 1])
      <4>1. PICK l \in Nat : l = Len(v)
        BY <1>1
      <4>2. q.size = l + 1 /\ Len(w) = l + 1 /\ i \in 1..l
        BY <1>0, <1>1, <2>1, <4>1
      <4>3. i < l => i + 1 \in 1..Len(v)
        BY <4>1, <4>2
      <4> QED BY <1>1, <4>1, <4>2, <4>3
    <3>2. w[1].id < w[i + 1].id
      BY <3>1 DEF Holds
    <3>3. w[i + 1].id # q.head /\ w[i + 1].id \in 1..MaxPackets
      BY <2>1, <2>3, <3>1, <3>2
    <3> QED BY <2>1, <3>1, <3>3
  <2> HIDE DEF next, value, tail, s
  <2>9. InList(s, v)
    BY <2>5, <2>6, <2>7, <2>8 DEF InList
  <2>10. Front(q) = w[1]
    BY <2>1, <2>4 DEF Front
  <2> QED BY <1>1, <1>2, <2>2, <2>9, <2>10 DEF Holds, v
<1>5. CASE q = [kind |-> "slice", items |-> w]
  <2>1. Dequeued(q) = [kind |-> "slice", items |-> v]
    BY <1>5 DEF Dequeued, v
  <2>2. Front(q) = Head(w)
    BY <1>5 DEF Front
  <2> QED BY <1>1, <1>2, <2>1, <2>2 DEF Holds, v
<1> QED BY <1>3, <1>4, <1>5 DEF Holds

Told(p) == [id |-> p.id, ttl |-> p.ttl]

\* What the service tells changes as the packets do.
LEMMA SeenFacts ==
  ASSUME NEW w \in Seq(Packet)
  PROVE  /\ Len(Seen(w)) = Len(w) /\ (Seen(w) = <<>> <=> w = <<>>)
         /\ \A p \in Packet : Seen(Append(w, p)) = Append(Seen(w), Told(p))
         /\ w # <<>> => Seen(Tail(w)) = Tail(Seen(w)) /\ Head(Seen(w)) = Told(Head(w))
<1> DEFINE n == Len(w)
<1>1. n \in Nat /\ Seen(w) = [i \in 1..n |-> Told(w[i])] /\ (w = <<>> <=> n = 0)
  BY DEF Seen, Told
<1>2. Seen(w) \in Seq({Told(p) : p \in Packet}) /\ Len(Seen(w)) = n
  <2>1. \A i \in 1..n : Told(w[i]) \in {Told(p) : p \in Packet}
    OBVIOUS
  <2> QED BY <1>1, <2>1
<1>3. ASSUME NEW p \in Packet PROVE Seen(Append(w, p)) = Append(Seen(w), Told(p))
  <2>1. Append(w, p) \in Seq(Packet) /\ DOMAIN Append(w, p) = 1..(n + 1)
        /\ \A i \in 1..(n + 1) : Append(w, p)[i] = IF i = n + 1 THEN p ELSE w[i]
    OBVIOUS
  <2>2. Seen(Append(w, p)) = [i \in 1..(n + 1) |-> Told(Append(w, p)[i])]
    BY <2>1 DEF Seen, Told
  <2>3. Append(Seen(w), Told(p)) = [i \in 1..(n + 1) |-> IF i = n + 1 THEN Told(p) ELSE Told(w[i])]
    <3> HIDE DEF Told
    <3> QED BY <1>1, <1>2
  <2> QED BY <2>1, <2>2, <2>3
<1>4. ASSUME w # <<>> PROVE Seen(Tail(w)) = Tail(Seen(w)) /\ Head(Seen(w)) = Told(Head(w))
  <2>0. n \in Nat \ {0} /\ 1 \in 1..n
    BY <1>1, <1>4
  <2>1. DOMAIN Tail(w) = 1..(n - 1) /\ \A i \in 1..(n - 1) : Tail(w)[i] = w[i + 1]
    BY <1>4
  <2>2. Seen(Tail(w)) = [i \in 1..(n - 1) |-> Told(w[i + 1])]
    BY <2>1 DEF Seen, Told
  <2>3. Tail(Seen(w)) = [i \in 1..(n - 1) |-> Seen(w)[i + 1]]
    BY <1>1, <1>2, <2>0
  <2>4. \A i \in 1..(n - 1) : Seen(w)[i + 1] = Told(w[i + 1])
    <3>1. \A i \in 1..(n - 1) : i + 1 \in 1..n
      BY <2>0
    <3> QED BY <1>1, <3>1
  <2>5. Head(Seen(w)) = Told(Head(w))
    BY <1>1, <1>2, <2>0
  <2> QED BY <2>2, <2>3, <2>4, <2>5
<1>5. Len(Seen(w)) = Len(w) /\ (Seen(w) = <<>> <=> w = <<>>)
  <2> HIDE DEF n
  <2>1. Seen(w) = <<>> <=> n = 0
    BY <1>1, <1>2
  <2> QED BY <1>1, <1>2, <2>1 DEF n
<1> QED BY <1>3, <1>4, <1>5

Waiting == [l \in RouterLevels |-> Seen(Packets(queues[l]))]
Dropped == [i \in DOMAIN drops |-> drops[i].id]

\* Every level holds its packets in the order they came.
Carried ==
  /\ nextID \in 1..(MaxPackets + 1)
  /\ drops \in Seq([id : Int, reason : {"nil_packet", "ttl_expired"}])
  /\ queues = [l \in RouterLevels |-> queues[l]]
  /\ \A l \in RouterLevels :
       /\ Holds(queues[l], Packets(queues[l]))
       /\ \A i \in 1..Len(Packets(queues[l])) : Packets(queues[l])[i].id < nextID

\* Appending, as a function.
LEMMA AppendIs ==
  ASSUME NEW S, NEW s \in Seq(S), NEW e \in S
  PROVE  /\ Append(s, e) = [i \in 1..(Len(s) + 1) |-> IF i = Len(s) + 1 THEN e ELSE s[i]]
         /\ Len(Append(s, e)) = Len(s) + 1 /\ SubSeq(Append(s, e), 1, Len(s)) = s
<1>1. PICK n \in Nat : n = Len(s)
  OBVIOUS
<1>2. DOMAIN Append(s, e) = 1..(n + 1) /\ Append(s, e) \in Seq(S) /\ Len(Append(s, e)) = n + 1
  BY <1>1
<1>3. \A i \in 1..(n + 1) : Append(s, e)[i] = IF i = n + 1 THEN e ELSE s[i]
  BY <1>1
<1>4. Append(s, e) = [i \in 1..(n + 1) |-> Append(s, e)[i]]
  <2>1. Append(s, e) \in [1..(n + 1) -> S]
    BY <1>2, LenProperties
  <2> QED BY <2>1, Zenon
<1>5. Append(s, e) = [i \in 1..(n + 1) |-> IF i = n + 1 THEN e ELSE s[i]]
  BY <1>3, <1>4
<1>6. SubSeq(Append(s, e), 1, n) = s
  BY <1>1
<1> QED BY <1>1, <1>2, <1>5, <1>6

\* A drop is entered behind the others.
LEMMA DropEntered ==
  ASSUME Carried, NEW id \in Int, NEW reason \in {"nil_packet", "ttl_expired"}, LogDrop(id, reason)
  PROVE  /\ drops' \in Seq([id : Int, reason : {"nil_packet", "ttl_expired"}])
         /\ Dropped' = Append(Dropped, id)
         /\ Len(Dropped') = Len(Dropped) + 1 /\ SubSeq(Dropped', 1, Len(Dropped)) = Dropped
<1> DEFINE r == [id |-> id, reason |-> reason]
           n == Len(drops)
<1>1. drops' = Append(drops, r) /\ drops \in Seq([id : Int, reason : {"nil_packet", "ttl_expired"}])
      /\ r \in [id : Int, reason : {"nil_packet", "ttl_expired"}] /\ r.id = id
  BY DEF LogDrop, Carried
<1> HIDE DEF r
<1>2. /\ drops' \in Seq([id : Int, reason : {"nil_packet", "ttl_expired"}]) /\ n \in Nat
      /\ DOMAIN drops = 1..n /\ DOMAIN drops' = 1..(n + 1)
      /\ \A i \in 1..(n + 1) : drops'[i] = IF i = n + 1 THEN r ELSE drops[i]
  BY <1>1
<1>3. Dropped \in Seq(Int) /\ Len(Dropped) = n /\ \A i \in 1..n : Dropped[i] = drops[i].id
  <2>1. \A i \in 1..n : drops[i].id \in Int
    <3> SUFFICES ASSUME NEW i \in 1..n PROVE drops[i].id \in Int
      OBVIOUS
    <3>1. drops[i] \in [id : Int, reason : {"nil_packet", "ttl_expired"}]
      BY <1>1, ElementOfSeq
    <3> QED BY <3>1
  <2> QED BY <1>2, <2>1 DEF Dropped
<1>4. Dropped' = [i \in 1..(n + 1) |-> IF i = n + 1 THEN id ELSE Dropped[i]]
  BY <1>1, <1>2, <1>3 DEF Dropped
<1>5. Append(Dropped, id) = [i \in 1..(n + 1) |-> IF i = n + 1 THEN id ELSE Dropped[i]]
  <2> HIDE DEF n
  <2>1. PICK d \in Seq(Int) : d = Dropped
    BY <1>3
  <2>2. Append(d, id) = [i \in 1..(Len(d) + 1) |-> IF i = Len(d) + 1 THEN id ELSE d[i]]
    BY AppendIs
  <2> QED BY <1>3, <2>1, <2>2
<1>6. Dropped' = Append(Dropped, id)
  BY <1>4, <1>5
<1>7. Len(Append(Dropped, id)) = Len(Dropped) + 1 /\ SubSeq(Append(Dropped, id), 1, Len(Dropped)) = Dropped
  <2> HIDE DEF n
  <2> QED BY <1>3, AppendIs
<1> QED BY <1>2, <1>6, <1>7

\* The levels as the service sees them change at one level.
LEMMA LevelChanges ==
  ASSUME Carried, NEW l \in RouterLevels, NEW q, queues' = [queues EXCEPT ![l] = q],
         NEW w, Holds(q, w), \A i \in 1..Len(w) : w[i].id < nextID', nextID' \in 1..(MaxPackets + 1), nextID <= nextID',
         drops' \in Seq([id : Int, reason : {"nil_packet", "ttl_expired"}])
  PROVE  Carried' /\ Waiting' = [Waiting EXCEPT ![l] = Seen(w)]
<1>1. queues' = [k \in RouterLevels |-> IF k = l THEN q ELSE queues[k]]
  BY DEF Carried
<1>2. \A k \in RouterLevels : queues'[k] = IF k = l THEN q ELSE queues[k]
  BY <1>1
<1>3. Packets(q) = w
  BY PacketsAre
<1>4. Waiting' = [Waiting EXCEPT ![l] = Seen(w)]
  <2>1. Waiting' = [k \in RouterLevels |-> Seen(Packets(queues'[k]))]
    BY DEF Waiting
  <2>2. \A k \in RouterLevels : Seen(Packets(queues'[k])) = IF k = l THEN Seen(w) ELSE Waiting[k]
    BY <1>2, <1>3 DEF Waiting
  <2>3. Waiting' = [k \in RouterLevels |-> IF k = l THEN Seen(w) ELSE Waiting[k]]
    BY <2>1, <2>2
  <2>4. Waiting = [k \in RouterLevels |-> Waiting[k]]
    BY DEF Waiting
  <2> HIDE DEF Waiting
  <2> QED BY <2>3, <2>4
<1>5. queues' = [k \in RouterLevels |-> queues'[k]]
  BY <1>1
<1>6. ASSUME NEW k \in RouterLevels
      PROVE  /\ Holds(queues'[k], Packets(queues'[k]))
             /\ \A i \in 1..Len(Packets(queues'[k])) : Packets(queues'[k])[i].id < nextID'
  <2>1. CASE k = l
    BY <1>2, <1>3, <2>1
  <2>2. CASE k # l
    <3>1. queues'[k] = queues[k] /\ nextID \in Int /\ nextID' \in Int
      BY <1>2, <2>2 DEF Carried
    <3>2. \A i \in 1..Len(Packets(queues[k])) : Packets(queues[k])[i].id \in Int
      <4> SUFFICES ASSUME NEW i \in 1..Len(Packets(queues[k])) PROVE Packets(queues[k])[i].id \in Int
        OBVIOUS
      <4>1. Packets(queues[k]) \in Seq(Packet)
        BY DEF Carried, Holds
      <4>2. Packets(queues[k])[i] \in Packet
        BY <4>1, ElementOfSeq
      <4> QED BY <4>2 DEF Packet
    <3>3. \A i \in 1..Len(Packets(queues[k])) : Packets(queues[k])[i].id < nextID
      BY DEF Carried
    <3>4. Holds(queues[k], Packets(queues[k]))
      BY DEF Carried
    <3>5. \A i \in 1..Len(Packets(queues[k])) : Packets(queues[k])[i].id < nextID'
      BY <3>1, <3>2, <3>3
    <3> QED BY <3>1, <3>4, <3>5
  <2> QED BY <2>1, <2>2
<1>7. Carried'
  BY <1>5, <1>6 DEF Carried
<1> QED BY <1>4, <1>7

\* Where no queue changes, the levels stay as they are.
LEMMA RefusalKeeps ==
  ASSUME Carried, queues' = queues, nextID' \in 1..(MaxPackets + 1), nextID <= nextID',
         drops' \in Seq([id : Int, reason : {"nil_packet", "ttl_expired"}])
  PROVE  Carried'
<1> SUFFICES ASSUME NEW l \in RouterLevels, NEW i \in 1..Len(Packets(queues[l]))
             PROVE  Packets(queues[l])[i].id < nextID'
  BY DEF Carried
<1>1. Packets(queues[l]) \in Seq(Packet) /\ Packets(queues[l])[i].id < nextID /\ nextID \in Int
  BY DEF Carried, Holds
<1>2. Packets(queues[l])[i] \in Packet
  BY <1>1, ElementOfSeq
<1> QED BY <1>1, <1>2 DEF Packet

\* A packet that comes in is queued last at its level, or refused.
LEMMA EnqueueKeeps ==
  ASSUME Carried, NEW p \in Inputs, Enqueue(p)
  PROVE  Carried' /\ Forwarding!Next
<1>0. /\ nextID \in 1..MaxPackets /\ nextID' = nextID + 1 /\ nextID' \in 1..(MaxPackets + 1) /\ nextID <= nextID'
      /\ MaxPackets \in Nat /\ p.ttl \in Int /\ p.priority \in Int /\ forwarded' = forwarded
  BY RouterConstants DEF Carried, Enqueue
<1>1. CASE p.ttl <= 0
  <2>1. LogDrop(nextID, "ttl_expired") /\ queues' = queues
    BY <1>1 DEF Enqueue
  <2>2. /\ drops' \in Seq([id : Int, reason : {"nil_packet", "ttl_expired"}])
        /\ Len(Dropped') = Len(Dropped) + 1 /\ SubSeq(Dropped', 1, Len(Dropped)) = Dropped
    BY <1>0, <2>1, DropEntered
  <2>3. Carried' /\ Waiting' = Waiting
    BY <1>0, <2>1, <2>2, RefusalKeeps DEF Waiting
  <2>4. Forwarding!Refuse
    BY <1>0, <2>2, <2>3 DEF Forwarding!Refuse, Waiting, Dropped
  <2> QED BY <2>3, <2>4 DEF Forwarding!Next
<1>2. CASE ~(p.ttl <= 0)
  <2>1. PICK l : l = NormalizePriority(Classify(p))
    OBVIOUS
  <2>2. l \in RouterLevels
    BY <1>0, <2>1, RouterConstants DEF NormalizePriority, Classify, RouterLevels
  <2>3. PICK m : m = [id |-> nextID, ttl |-> p.ttl, priority |-> l]
    OBVIOUS
  <2>4. queues' = [queues EXCEPT ![l] = Enqueued(@, m)] /\ drops' = drops
    BY <1>2, <2>1, <2>3 DEF Enqueue
  <2>5. m \in Packet /\ m.id = nextID /\ m.ttl > 0 /\ Told(m).ttl > 0
    BY <1>0, <1>2, <2>2, <2>3 DEF Packet, Told, RouterLevels
  <2>6. PICK w \in Seq(Packet) : w = Packets(queues[l]) /\ Holds(queues[l], w) /\ \A i \in 1..Len(w) : w[i].id < nextID
    BY <2>2 DEF Carried, Holds
  <2>7. Holds(Enqueued(queues[l], m), Append(w, m))
    BY <2>5, <2>6, EnqueuedHolds
  <2>8. \A i \in 1..Len(Append(w, m)) : Append(w, m)[i].id < nextID'
    <3> SUFFICES ASSUME NEW i \in 1..Len(Append(w, m)) PROVE Append(w, m)[i].id < nextID'
      OBVIOUS
    <3>1. CASE i \in 1..Len(w)
      <4>1. Append(w, m)[i] = w[i] /\ w[i] \in Packet
        BY <2>5, <3>1
      <4>2. w[i].id \in Int /\ w[i].id < nextID
        BY <2>6, <3>1, <4>1 DEF Packet
      <4> QED BY <1>0, <4>1, <4>2
    <3>2. CASE i = Len(w) + 1
      <4>1. Append(w, m)[i] = m
        BY <2>5, <3>2
      <4> QED BY <1>0, <2>5, <4>1
    <3> QED BY <2>5, <3>1, <3>2
  <2>9. queues' = [queues EXCEPT ![l] = Enqueued(queues[l], m)]
    BY <2>4
  <2>10. drops' \in Seq([id : Int, reason : {"nil_packet", "ttl_expired"}])
    BY <2>4 DEF Carried
  <2>11. Carried' /\ Waiting' = [Waiting EXCEPT ![l] = Seen(Append(w, m))]
    BY <1>0, <2>2, <2>7, <2>8, <2>9, <2>10, LevelChanges
  <2>12. Seen(Append(w, m)) = Append(Seen(w), Told(m)) /\ Waiting[l] = Seen(w)
    BY <2>2, <2>5, <2>6, SeenFacts DEF Waiting
  <2>13. Forwarding!Accept
    <3>1. Waiting' = [Waiting EXCEPT ![l] = Append(@, Told(m))]
      BY <2>11, <2>12
    <3>2. Waiting'[l] = Append(Waiting[l], Told(m))
      BY <2>2, <3>1 DEF Waiting
    <3>3. Seen(w) \in Seq({Told(x) : x \in Packet})
      <4>1. Len(w) \in Nat /\ Seen(w) = [i \in 1..Len(w) |-> Told(w[i])]
        BY <2>6 DEF Seen, Told
      <4>2. \A i \in 1..Len(w) : Told(w[i]) \in {Told(x) : x \in Packet}
        BY <2>6
      <4> QED BY <4>1, <4>2
    <3>4. Len(Waiting'[l]) = Len(Waiting[l]) + 1 /\ Waiting'[l][Len(Waiting'[l])] = Told(m)
      <4>1. PICK e \in {Told(x) : x \in Packet} : e = Told(m)
        BY <2>5
      <4>2. PICK t \in Seq({Told(x) : x \in Packet}) : t = Waiting[l]
        BY <2>12, <3>3
      <4>3. Len(Append(t, e)) = Len(t) + 1 /\ Append(t, e)[Len(t) + 1] = e
        BY AppendProperties
      <4> QED BY <3>2, <4>1, <4>2, <4>3
    <3>5. Dropped' = Dropped
      BY <2>4 DEF Dropped
    <3> QED BY <1>0, <2>2, <2>5, <3>1, <3>4, <3>5 DEF Forwarding!Accept, Waiting, Dropped
  <2> QED BY <2>11, <2>13 DEF Forwarding!Next
<1> QED BY <1>1, <1>2

\* The packet served is the first of the first level that has one.
LEMMA ProcessKeeps ==
  ASSUME Carried, ProcessNext
  PROVE  Carried' /\ Forwarding!Next
<1>0. PriorityLevels \in Nat /\ RouterLevels = 1..PriorityLevels /\ nextID' = nextID
      /\ nextID \in 1..(MaxPackets + 1) /\ MaxPackets \in Nat /\ nextID <= nextID'
  BY RouterConstants DEF RouterLevels, ProcessNext, Carried
<1>1. PICK l \in RouterLevels : l = FirstLevel /\ ~IsEmpty(queues[l]) /\ \A k \in RouterLevels : k < l => IsEmpty(queues[k])
  <2> DEFINE S == {l \in RouterLevels : ~IsEmpty(queues[l])}
  <2>1. S # {} /\ S \in SUBSET Nat
    BY <1>0 DEF ProcessNext
  <2>2. PICK l \in S : \A k \in S : l <= k
    BY <2>1, LeastNatural
  <2>3. ~IsEmpty(queues[l]) /\ \A k \in RouterLevels : k < l => IsEmpty(queues[k])
    BY <1>0, <2>2
  <2> QED BY <2>2, <2>3 DEF FirstLevel
<1>2. PICK w \in Seq(Packet) : w = Packets(queues[l]) /\ Holds(queues[l], w) /\ \A i \in 1..Len(w) : w[i].id < nextID
  BY DEF Carried, Holds
<1>3. w # <<>>
  BY <1>1, <1>2, PacketsAre
<1>4. Front(queues[l]) = Head(w) /\ Holds(Dequeued(queues[l]), Tail(w))
  BY <1>2, <1>3, DequeuedHolds
<1>5. PICK p \in Packet : p = Head(w)
  BY <1>3
<1>6. /\ queues' = [queues EXCEPT ![l] = Dequeued(queues[l])]
      /\ IF p.ttl - 1 <= 0 THEN LogDrop(p.id, "ttl_expired") /\ forwarded' = forwarded
                           ELSE forwarded' = Append(forwarded, p.id) /\ drops' = drops
  BY <1>1, <1>4, <1>5 DEF ProcessNext
<1>7. p.id \in Int /\ p.ttl \in Int /\ Told(p).id = p.id /\ Told(p).ttl = p.ttl
  BY DEF Packet, Told
<1>8. \A i \in 1..Len(Tail(w)) : Tail(w)[i].id < nextID'
  <2> SUFFICES ASSUME NEW i \in 1..Len(Tail(w)) PROVE Tail(w)[i].id < nextID'
    OBVIOUS
  <2>1. i + 1 \in 1..Len(w) /\ Tail(w)[i] = w[i + 1]
    BY <1>3
  <2> QED BY <1>0, <1>2, <2>1
<1>9. drops' \in Seq([id : Int, reason : {"nil_packet", "ttl_expired"}])
  <2>1. CASE LogDrop(p.id, "ttl_expired")
    BY <1>7, <2>1, DropEntered
  <2>2. CASE drops' = drops
    BY <2>2 DEF Carried
  <2> QED BY <1>6, <2>1, <2>2
<1>10. Carried' /\ Waiting' = [Waiting EXCEPT ![l] = Seen(Tail(w))]
  BY <1>0, <1>4, <1>6, <1>8, <1>9, LevelChanges
<1>11. /\ Waiting[l] # <<>> /\ Seen(Tail(w)) = Tail(Waiting[l]) /\ Head(Waiting[l]) = Told(p)
       /\ \A k \in RouterLevels : k < l => Waiting[k] = <<>>
  <2>1. Waiting[l] = Seen(w)
    BY <1>2 DEF Waiting
  <2>2. ASSUME NEW k \in RouterLevels, k < l PROVE Waiting[k] = <<>>
    <3>1. IsEmpty(queues[k]) /\ Holds(queues[k], Packets(queues[k]))
      BY <1>1, <2>2 DEF Carried
    <3>2. Packets(queues[k]) = <<>>
      BY <3>1, PacketsAre
    <3> QED BY <3>2 DEF Waiting, Seen
  <2> QED BY <1>3, <1>5, <2>1, <2>2, SeenFacts
<1>12. Forwarding!Serve
  <2>1. CASE p.ttl - 1 <= 0
    <3>1. Dropped' = Append(Dropped, p.id) /\ forwarded' = forwarded /\ ~(Told(p).ttl > 1)
      BY <1>6, <1>7, <2>1, DropEntered
    <3> QED BY <1>7, <1>10, <1>11, <3>1 DEF Forwarding!Serve, Waiting, Dropped
  <2>2. CASE ~(p.ttl - 1 <= 0)
    <3>1. Dropped' = Dropped /\ forwarded' = Append(forwarded, p.id) /\ Told(p).ttl > 1
      BY <1>6, <1>7, <2>2 DEF Dropped
    <3> QED BY <1>7, <1>10, <1>11, <3>1 DEF Forwarding!Serve, Waiting, Dropped
  <2> QED BY <2>1, <2>2
<1> QED BY <1>10, <1>12 DEF Forwarding!Next

\* Every step of the router is one of the service's.
LEMMA CarriedInductive ==
  Carried /\ [RouterNext]_routerVars => Carried' /\ [Forwarding!Next]_(Forwarding!forwardingVars)
<1> SUFFICES ASSUME Carried, [RouterNext]_routerVars
             PROVE  Carried' /\ [Forwarding!Next]_(Forwarding!forwardingVars)
  OBVIOUS
<1>1. CASE EnqueueNil
  <2>1. /\ LogDrop(0, "nil_packet") /\ queues' = queues /\ forwarded' = forwarded
        /\ nextID \in Int /\ nextID' \in 1..(MaxPackets + 1) /\ nextID <= nextID'
    BY <1>1, RouterConstants DEF EnqueueNil, Carried
  <2>2. /\ drops' \in Seq([id : Int, reason : {"nil_packet", "ttl_expired"}])
        /\ Len(Dropped') = Len(Dropped) + 1 /\ SubSeq(Dropped', 1, Len(Dropped)) = Dropped
    BY <2>1, DropEntered
  <2>3. Carried' /\ Waiting' = Waiting
    BY <2>1, <2>2, RefusalKeeps DEF Waiting
  <2>4. Forwarding!Refuse
    BY <2>1, <2>2, <2>3 DEF Forwarding!Refuse, Waiting, Dropped
  <2> QED BY <2>3, <2>4 DEF Forwarding!Next
<1>2. CASE \E p \in Inputs : Enqueue(p)
  BY <1>2, EnqueueKeeps
<1>3. CASE ProcessNext
  BY <1>3, ProcessKeeps
<1>4. CASE UNCHANGED routerVars
  <2>1. Waiting' = Waiting /\ Dropped' = Dropped /\ forwarded' = forwarded
    BY <1>4 DEF routerVars, Waiting, Dropped
  <2>2. Carried'
    BY <1>4 DEF routerVars, Carried
  <2> QED BY <2>1, <2>2 DEF Waiting, Dropped, Forwarding!forwardingVars
<1> QED BY <1>1, <1>2, <1>3, <1>4 DEF RouterNext

\* The router serves strictly by level and in order of arrival, and every packet leaves
\* once, whichever queue NewRouter is given (router.go, its queues): for any packets, levels
\* and slots to start with.
THEOREM RouterServes == RouterSpec => ImplementsForwarding
<1>1. RouterInit => Carried /\ Forwarding!Init
  <2> SUFFICES ASSUME RouterInit PROVE Carried /\ Forwarding!Init
    OBVIOUS
  <2>1. PICK q \in {Ring(InitialSlots), LinkedList, Slice} : queues = [l \in RouterLevels |-> q]
    BY DEF RouterInit
  <2>2. Holds(q, <<>>)
    <3>1. <<>> \in Seq(Packet) /\ Len(<<>>) = 0
      OBVIOUS
    <3>2. CASE q = Ring(InitialSlots)
      <4>1. PICK n \in Nat \ {0} : n = InitialSlots
        BY RouterConstants
      <4>2. q = [kind |-> "ring", items |-> [i \in 0..(n - 1) |-> NoPacket], head |-> 0, tail |-> 0, size |-> 0]
        BY <3>2, <4>1 DEF Ring
      <4>3. [i \in 0..(n - 1) |-> NoPacket] \in [0..(n - 1) -> PacketPlaces] /\ 0 \in 0..(n - 1) /\ 0 \in 0..n
        BY DEF PacketPlaces
      <4>4. q \in RingOf(n)
        BY <4>2, <4>3 DEF RingOf
      <4>5. (0 + 0) % n = 0
        BY SlotsWrap
      <4>6. InSlots(q, n, <<>>)
        BY <3>1, <4>2, <4>4, <4>5 DEF InSlots
      <4> QED BY <3>1, <4>6 DEF Holds, InRing
    <3>3. CASE q = LinkedList
      <4>1. q = [kind |-> "linked", head |-> 0, tail |-> 0, size |-> 0, next |-> [i \in 1..MaxPackets |-> 0],
                 value |-> [i \in 1..MaxPackets |-> NoPacket]]
        BY <3>3 DEF LinkedList
      <4>2. 0 \in 0..MaxPackets /\ NoPacket \in PacketPlaces
        BY RouterConstants DEF PacketPlaces
      <4>3. q \in [kind : {"linked"}, head : 0..MaxPackets, tail : 0..MaxPackets, size : Nat,
                   next : [1..MaxPackets -> 0..MaxPackets], value : [1..MaxPackets -> PacketPlaces]]
        BY <4>1, <4>2
      <4>4. InList(q, <<>>)
        BY <3>1, <4>1, <4>3 DEF InList
      <4> QED BY <3>1, <4>4 DEF Holds
    <3>4. CASE q = Slice
      BY <3>1, <3>4 DEF Holds, Slice
    <3> QED BY <3>2, <3>3, <3>4
  <2>3. Packets(q) = <<>>
    BY <2>2, PacketsAre
  <2>4. Carried
    BY <2>1, <2>2, <2>3, RouterConstants DEF RouterInit, Carried
  <2>5. Forwarding!Init
    <3>1. Seen(<<>>) = <<>>
      BY DEF Seen
    <3>2. \A l \in RouterLevels : Seen(Packets(queues[l])) = <<>>
      BY <2>1, <2>3, <3>1
    <3>3. drops = <<>> /\ forwarded = <<>>
      BY DEF RouterInit
    <3> QED BY <3>2, <3>3 DEF Forwarding!Init
  <2> QED BY <2>4, <2>5
<1> QED BY <1>1, CarriedInductive, PTL DEF RouterSpec, ImplementsForwarding, Forwarding!ForwardingSpec

-----------------------------------------------------------------------------
(* The DNS cache serves what is current, whichever store it uses. *)

\* F takes the i-th of n steps within X; g[i] is what i steps make of x.
StepsIn(F, n, X) == \A i \in 1..n, y \in X : F[<<i, y>>] \in X
Iterate(g, F, n, X, x) ==
  /\ g \in [0..n -> X]
  /\ \A i \in 0..n : g[i] = IF i = 0 THEN x ELSE F[<<i, g[i - 1]>>]

\* Steps can be repeated.
LEMMA Iterates ==
  ASSUME NEW n \in Nat, NEW X, NEW x \in X, NEW F, StepsIn(F, n, X)
  PROVE  \E g : Iterate(g, F, n, X, x)
<1> USE DEF StepsIn
<1> DEFINE Partly(m, f) == \A i \in 0..m : f[i] = IF i = 0 THEN x ELSE F[<<i, f[i - 1]>>]
           T == {m \in 0..n : \E f \in [0..m -> X] : Partly(m, f)}
<1>1. 0 \in T
  <2> DEFINE g == [i \in 0..0 |-> x]
  <2>1. g \in [0..0 -> X] /\ \A i \in 0..0 : i = 0 /\ g[i] = x
    OBVIOUS
  <2>2. Partly(0, g)
    BY <2>1
  <2> HIDE DEF g, Partly
  <2> QED BY <2>1, <2>2
<1>2. ASSUME NEW k \in 0..n, k \in T, k < n PROVE k + 1 \in T
  <2>1. PICK f \in [0..k -> X] : Partly(k, f)
    BY <1>2
  <2> DEFINE g == [i \in 0..(k + 1) |-> IF i <= k THEN f[i] ELSE F[<<i, f[k]>>]]
  <2>2. k \in 0..k /\ f[k] \in X /\ k + 1 \in 1..n
    BY <1>2
  <2>3. F[<<k + 1, f[k]>>] \in X
    BY <2>2
  <2>4. \A i \in 0..(k + 1) : i <= k \/ i = k + 1
    OBVIOUS
  <2>5. g \in [0..(k + 1) -> X]
    BY <2>2, <2>3, <2>4
  <2>6. ASSUME NEW i \in 0..(k + 1) PROVE g[i] = IF i = 0 THEN x ELSE F[<<i, g[i - 1]>>]
    <3>1. CASE i = 0
      <4>1. 0 \in 0..k /\ 0 \in 0..(k + 1) /\ 0 <= k
        OBVIOUS
      <4>2. g[0] = f[0]
        BY <4>1
      <4>3. f[0] = x
        BY <2>1, <4>1
      <4> QED BY <4>2, <4>3, <3>1
    <3>2. CASE i \in 1..k
      <4>1. g[i] = f[i] /\ g[i - 1] = f[i - 1]
        BY <3>2
      <4>2. f[i] = F[<<i, f[i - 1]>>]
        BY <2>1, <3>2
      <4> QED BY <4>1, <4>2, <3>2
    <3>3. CASE i = k + 1
      <4>1. g[i] = F[<<i, f[k]>>] /\ g[i - 1] = f[k]
        BY <3>3
      <4> QED BY <4>1, <3>3
    <3> QED BY <3>1, <3>2, <3>3
  <2>7. Partly(k + 1, g)
    BY <2>6
  <2> HIDE DEF g, Partly
  <2> QED BY <2>2, <2>5, <2>7
<1>3. \A k \in 0..n : k \in T
  BY <1>1, <1>2, UpTo
<1> QED BY <1>3, n \in 0..n DEF Iterate

-----------------------------------------------------------------------------

\* A record of the cache, an entry, and the contents of a store.
CacheRecord == [ip : {"upstream", "added"}, ttl : Nat, created : Nat, hits : Nat]
CacheEntry == [key : Keys, value : CacheRecord]
Contents == [Keys -> CacheRecord \cup {None}]

\* A chain of bucket b out of n that holds some of the contents m.
ChainOf(c, b, n, m) ==
  /\ c \in Seq(CacheEntry)
  /\ \A i \in 1..Len(c) : c[i].value = m[c[i].key] /\ Hash(c[i].key) % n = b
  /\ \A i, j \in 1..Len(c) : c[i].key = c[j].key => i = j

\* The chains that hold the contents m.
Chains(f, n, m) ==
  /\ \A b \in 0..(n - 1) : ChainOf(f[b], b, n, m)
  /\ \A k \in Keys : m[k] # None => \E i \in 1..Len(f[Hash(k) % n]) : f[Hash(k) % n][i].key = k

Stored(m) == {k \in Keys : m[k] # None}

\* A table of n buckets that holds the contents m.
Table(s, n, m) ==
  \E f \in [0..(n - 1) -> Seq(CacheEntry)] :
    /\ s = [kind |-> "custom", buckets |-> f, size |-> Cardinality(Stored(m))]
    /\ IsFiniteSet(Stored(m)) /\ Chains(f, n, m)

\* A store that holds the contents m.
Storing(s, m) == s = [kind |-> "inbuilt", items |-> m] \/ \E n \in Nat \ {0} : Table(s, n, m)

\* A function changed at one place, an entry, and a chain without its p-th entry.
Changed(f, x, y) == [f EXCEPT ![x] = y]
NewEntry(k, r) == [key |-> k, value |-> r]
TakenOut(c, p) == SubSeq(c, 1, p - 1) \o SubSeq(c, p + 1, Len(c))

\* Chain d is chain c behind an entry of key k.
Behind(d, c, k) == Len(d) = Len(c) + 1 /\ d[1].key = k /\ \A i \in 1..Len(c) : d[i + 1] = c[i]

\* Where a table finds key k in chain c of bucket b.
FoundIn(s, k, c, b, m) ==
  /\ bucketIndex(s, k) = b
  /\ Places(s, k) = {i \in 1..Len(c) : c[i].key = k}
  /\ m[k] = None => Places(s, k) = {}
  /\ m[k] # None => /\ Place(s, k) \in 1..Len(c) /\ c[Place(s, k)].key = k
                    /\ c[Place(s, k)].value = m[k]
                    /\ Places(s, k) # {}

\* No record is the absent one.
LEMMA RecordNotNone == ASSUME NEW r \in CacheRecord PROVE r # None
<1>1. r.ip # "none"
  BY DEF CacheRecord
<1>2. None.ip = "none"
  BY DEF None
<1> QED BY <1>1, <1>2

\* A remainder is one of the buckets.
LEMMA Remainder == ASSUME NEW h \in Nat, NEW n \in Nat \ {0} PROVE h % n \in 0..(n - 1)
BY SMT

\* The buckets of a table are counted right.
LEMMA BucketsAre ==
  ASSUME NEW n \in Nat \ {0}, NEW s, DOMAIN s.buckets = 0..(n - 1)
  PROVE  Buckets(s) = n
<1>1. Cardinality(0..(n - 1)) = n
  BY FS_Interval
<1> QED BY <1>1 DEF Buckets

LEMMA KeysHash == ASSUME NEW k \in Keys, NEW n \in Nat \ {0} PROVE Hash(k) % n \in 0..(n - 1)
BY DNSConstants, Remainder

\* Where a chain holds a key, and what Get finds there.
LEMMA PlacesAre ==
  ASSUME NEW n \in Nat \ {0}, NEW m \in Contents, NEW f \in [0..(n - 1) -> Seq(CacheEntry)], Chains(f, n, m),
         NEW s, s.buckets = f, NEW k \in Keys, NEW c, c = f[Hash(k) % n]
  PROVE  FoundIn(s, k, c, Hash(k) % n, m)
<1>1. Buckets(s) = n
  BY BucketsAre
<1>2. bucketIndex(s, k) = Hash(k) % n /\ Hash(k) % n \in 0..(n - 1)
  BY <1>1, KeysHash DEF bucketIndex
<1>3. c \in Seq(CacheEntry) /\ ChainOf(c, Hash(k) % n, n, m)
  BY <1>2 DEF Chains
<1>4. Places(s, k) = {i \in 1..Len(c) : c[i].key = k}
  <2>1. DOMAIN c = 1..Len(c)
    BY <1>3
  <2> QED BY <1>2, <2>1 DEF Places
<1>5. \A i \in Places(s, k) : m[k] # None /\ c[i].value = m[k]
  <2> SUFFICES ASSUME NEW i \in Places(s, k) PROVE m[k] # None /\ c[i].value = m[k]
    OBVIOUS
  <2>1. i \in 1..Len(c) /\ c[i].key = k
    BY <1>4
  <2>2. c[i].value = m[k] /\ c[i] \in CacheEntry
    BY <1>3, <2>1, ElementOfSeq DEF ChainOf
  <2>3. c[i].value \in CacheRecord
    BY <2>2 DEF CacheEntry
  <2> QED BY <2>2, <2>3, RecordNotNone
<1>6. ASSUME m[k] # None
      PROVE  /\ Place(s, k) \in 1..Len(c) /\ c[Place(s, k)].key = k
             /\ c[Place(s, k)].value = m[k]
             /\ Places(s, k) # {}
  <2>1. PICK i \in 1..Len(c) : c[i].key = k
    BY <1>6 DEF Chains
  <2>2. i \in Places(s, k) /\ \A j \in Places(s, k) : j = i
    BY <1>3, <1>4, <2>1 DEF ChainOf
  <2>3. \E p \in Places(s, k) : \A j \in Places(s, k) : p <= j
    BY <2>1, <2>2
  <2>4. Place(s, k) \in Places(s, k)
    BY <2>3 DEF Place
  <2>5. Place(s, k) = i
    BY <2>2, <2>4
  <2> QED BY <1>4, <1>5, <2>1, <2>2, <2>5
<1> QED BY <1>2, <1>4, <1>5, <1>6 DEF FoundIn

\* Get finds the contents.
LEMMA GetIs ==
  ASSUME NEW s, NEW m \in Contents, Storing(s, m), NEW k \in Keys
  PROVE  Get(s, k) = m[k]
<1>1. CASE s = [kind |-> "inbuilt", items |-> m]
  BY <1>1 DEF Get
<1>2. ASSUME NEW n \in Nat \ {0}, Table(s, n, m) PROVE Get(s, k) = m[k]
  <2>1. PICK f \in [0..(n - 1) -> Seq(CacheEntry)] :
          /\ s = [kind |-> "custom", buckets |-> f, size |-> Cardinality(Stored(m))]
          /\ Chains(f, n, m)
    BY <1>2 DEF Table
  <2>2. s.kind = "custom" /\ s.buckets = f
    BY <2>1
  <2>0. PICK c : c = f[Hash(k) % n]
    OBVIOUS
  <2>3. FoundIn(s, k, c, Hash(k) % n, m)
    BY <2>0, <2>1, <2>2, PlacesAre
  <2>4. Get(s, k) = IF Places(s, k) = {} THEN None ELSE f[bucketIndex(s, k)][Place(s, k)].value
    BY <2>2 DEF Get
  <2>5. Get(s, k) = IF Places(s, k) = {} THEN None ELSE c[Place(s, k)].value
    BY <2>0, <2>3, <2>4 DEF FoundIn
  <2> QED BY <2>3, <2>5 DEF FoundIn
<1> QED BY <1>1, <1>2 DEF Storing

\* The keys of a store and its length.
LEMMA LengthIs ==
  ASSUME NEW s, NEW m \in Contents, Storing(s, m)
  PROVE  StoreKeys(s) = Stored(m) /\ StoreLen(s) = Cardinality(Stored(m))
<1>1. StoreKeys(s) = Stored(m)
  BY GetIs DEF StoreKeys, Stored
<1> QED BY <1>1 DEF StoreLen, Storing, Table

\* A chain of another bucket does not see a change of key k.
LEMMA OtherChain ==
  ASSUME NEW n \in Nat, NEW m \in Contents, NEW k \in Keys, NEW v, NEW b, NEW c,
         ChainOf(c, b, n, m), Hash(k) % n # b
  PROVE  ChainOf(c, b, n, Changed(m, k, v))
<1>1. ASSUME NEW i \in 1..Len(c) PROVE c[i].value = Changed(m, k, v)[c[i].key]
  <2>1. c[i] \in CacheEntry /\ c[i].value = m[c[i].key] /\ Hash(c[i].key) % n = b
    BY ElementOfSeq DEF ChainOf
  <2>2. c[i].key \in Keys /\ c[i].key # k
    BY <2>1 DEF CacheEntry
  <2> QED BY <2>1, <2>2 DEF Contents, Changed
<1> QED BY <1>1 DEF ChainOf

\* A table with the chain of one key replaced.
LEMMA ChainReplaced ==
  ASSUME NEW n \in Nat \ {0}, NEW m \in Contents, NEW f \in [0..(n - 1) -> Seq(CacheEntry)], Chains(f, n, m),
         NEW k \in Keys, NEW v \in CacheRecord \cup {None}, NEW d,
         ChainOf(d, Hash(k) % n, n, Changed(m, k, v)),
         \A j \in Keys : Hash(j) % n = Hash(k) % n /\ Changed(m, k, v)[j] # None =>
           \E i \in 1..Len(d) : d[i].key = j
  PROVE  /\ Changed(f, Hash(k) % n, d) \in [0..(n - 1) -> Seq(CacheEntry)]
         /\ Chains(Changed(f, Hash(k) % n, d), n, Changed(m, k, v))
<1> DEFINE h == Hash(k) % n
           g == Changed(f, h, d)
           w == Changed(m, k, v)
<1>1. h \in 0..(n - 1) /\ d \in Seq(CacheEntry)
  BY KeysHash DEF ChainOf
<1>2. g \in [0..(n - 1) -> Seq(CacheEntry)] /\ \A b \in 0..(n - 1) : g[b] = IF b = h THEN d ELSE f[b]
  <2> HIDE DEF h
  <2> QED BY <1>1 DEF Changed
<1>3. ASSUME NEW b \in 0..(n - 1) PROVE ChainOf(g[b], b, n, w)
  <2>1. CASE b = h
    BY <1>2, <2>1
  <2>2. CASE b # h
    <3>1. ChainOf(f[b], b, n, m)
      BY DEF Chains
    <3>2. ChainOf(f[b], b, n, w)
      BY <3>1, <2>2, OtherChain
    <3> QED BY <1>2, <2>2, <3>2
  <2> QED BY <2>1, <2>2
<1>4. ASSUME NEW j \in Keys, w[j] # None
      PROVE  \E i \in 1..Len(g[Hash(j) % n]) : g[Hash(j) % n][i].key = j
  <2>0. Hash(j) % n \in 0..(n - 1)
    BY KeysHash
  <2>1. CASE Hash(j) % n = h
    <3>1. g[Hash(j) % n] = d
      BY <1>2, <2>0, <2>1
    <3> QED BY <3>1, <2>1, <1>4
  <2>2. CASE Hash(j) % n # h
    <3>1. g[Hash(j) % n] = f[Hash(j) % n]
      BY <1>2, <2>0, <2>2
    <3>2. w[j] = m[j]
      BY <2>2 DEF Contents, Changed
    <3> QED BY <3>1, <3>2, <1>4 DEF Chains
  <2> QED BY <2>1, <2>2
<1> QED BY <1>2, <1>3, <1>4 DEF Chains

\* An entry written anew.
LEMMA ChainWritten ==
  ASSUME NEW n \in Nat \ {0}, NEW m \in Contents, NEW k \in Keys, NEW r \in CacheRecord, NEW b, NEW c,
         ChainOf(c, b, n, m), NEW p \in 1..Len(c), c[p].key = k,
         NEW d, d = Changed(c, p, NewEntry(k, r))
  PROVE  ChainOf(d, b, n, Changed(m, k, r)) /\ Len(d) = Len(c) /\ \A i \in 1..Len(c) : d[i].key = c[i].key
<1> DEFINE e == NewEntry(k, r)
           w == Changed(m, k, r)
<1>1. e \in CacheEntry /\ e.key = k /\ e.value = r
  BY DEF CacheEntry, NewEntry
<1>2. PICK l \in Nat : l = Len(c)
  BY LenProperties DEF ChainOf
<1>3. c \in [1..l -> CacheEntry]
  BY <1>2, LenProperties DEF ChainOf
<1>0. d = [c EXCEPT ![p] = e]
  BY DEF Changed
<1> HIDE DEF e
<1>4. d \in [1..l -> CacheEntry] /\ \A i \in 1..l : d[i] = IF i = p THEN e ELSE c[i]
  BY <1>0, <1>1, <1>2, <1>3
<1>5. d \in Seq(CacheEntry) /\ Len(d) = l
  <2>1. d \in Seq(CacheEntry)
    BY <1>4
  <2>2. DOMAIN d = 1..l /\ DOMAIN d = 1..Len(d) /\ Len(d) \in Nat
    BY <1>4, <2>1, LenProperties
  <2> QED BY <2>1, <2>2
<1>6. \A i \in 1..l : d[i].key = c[i].key
  BY <1>1, <1>4
<1>7. ASSUME NEW i \in 1..l PROVE d[i].value = w[d[i].key] /\ Hash(d[i].key) % n = b
  <2>1. c[i] \in CacheEntry /\ c[i].value = m[c[i].key] /\ Hash(c[i].key) % n = b
    BY <1>2, <1>3 DEF ChainOf
  <2>2. CASE i = p
    <3>1. d[i].value = r /\ d[i].key = k
      BY <1>1, <1>4, <2>2
    <3> QED BY <2>1, <2>2, <3>1 DEF Contents, Changed
  <2>3. CASE i # p
    <3>1. c[i].key # k
      BY <1>2, <2>3 DEF ChainOf
    <3>2. c[i].key \in Keys /\ d[i] = c[i]
      BY <2>1, <2>3, <1>4 DEF CacheEntry
    <3> QED BY <2>1, <3>1, <3>2 DEF Contents, Changed
  <2> QED BY <2>2, <2>3
<1>8. \A i, j \in 1..l : d[i].key = d[j].key => i = j
  BY <1>2, <1>6 DEF ChainOf
<1> HIDE DEF w
<1>9. ChainOf(d, b, n, w)
  BY <1>5, <1>7, <1>8 DEF ChainOf
<1> QED BY <1>2, <1>5, <1>6, <1>9 DEF w

\* An entry put in front.
LEMMA ChainLonger ==
  ASSUME NEW n \in Nat \ {0}, NEW m \in Contents, NEW k \in Keys, NEW r \in CacheRecord, NEW c,
         ChainOf(c, Hash(k) % n, n, m), \A i \in 1..Len(c) : c[i].key # k,
         NEW d, d = <<NewEntry(k, r)>> \o c
  PROVE  ChainOf(d, Hash(k) % n, n, Changed(m, k, r)) /\ Behind(d, c, k)
<1> DEFINE e == NewEntry(k, r)
           w == Changed(m, k, r)
<1>1. e \in CacheEntry /\ e.key = k /\ e.value = r
  BY DEF CacheEntry, NewEntry
<1>2. PICK l \in Nat : l = Len(c)
  BY LenProperties DEF ChainOf
<1>3. c \in Seq(CacheEntry)
  BY DEF ChainOf
<1>0. d = <<e>> \o c
  OBVIOUS
<1> HIDE DEF e
<1>4. <<e>> \in Seq(CacheEntry) /\ Len(<<e>>) = 1 /\ <<e>>[1] = e
  BY <1>1
<1>5. d \in Seq(CacheEntry) /\ Len(d) = l + 1
  BY <1>0, <1>2, <1>3, <1>4, ConcatProperties
<1>6. d[1] = e
  BY <1>0, <1>2, <1>3, <1>4, ConcatProperties
<1>7. \A i \in 1..l : d[i + 1] = c[i]
  <2> TAKE i \in 1..l
  <2>1. i + 1 \in 1..(Len(<<e>>) + Len(c)) /\ i + 1 > Len(<<e>>) /\ (i + 1) - Len(<<e>>) = i
    BY <1>2, <1>4
  <2> QED BY <2>1, <1>0, <1>3, <1>4, ConcatProperties
<1>8. ASSUME NEW i \in 1..(l + 1) PROVE i = 1 \/ \E j \in 1..l : i = j + 1 /\ d[i] = c[j]
  <2>1. i = 1 \/ (i - 1 \in 1..l /\ i = (i - 1) + 1)
    OBVIOUS
  <2> QED BY <2>1, <1>7
<1>9. ASSUME NEW j \in 1..l
      PROVE  c[j].key \in Keys /\ c[j].key # k /\ c[j].value = w[c[j].key] /\ Hash(c[j].key) % n = Hash(k) % n
  <2>1. c[j] \in CacheEntry /\ c[j].value = m[c[j].key] /\ Hash(c[j].key) % n = Hash(k) % n /\ c[j].key # k
    BY <1>2, <1>3, ElementOfSeq DEF ChainOf
  <2>2. c[j].key \in Keys
    BY <2>1 DEF CacheEntry
  <2> QED BY <2>1, <2>2 DEF Contents, Changed
<1>10. w[k] = r
  BY DEF Contents, Changed
<1>11. \A i \in 1..(l + 1) : d[i].value = w[d[i].key] /\ Hash(d[i].key) % n = Hash(k) % n
  BY <1>1, <1>6, <1>8, <1>9, <1>10
<1>12. ASSUME NEW i \in 1..(l + 1), NEW j \in 1..(l + 1), d[i].key = d[j].key PROVE i = j
  <2>1. \A x, y \in 1..l : c[x].key = c[y].key => x = y
    BY <1>2 DEF ChainOf
  <2>2. \A x \in 1..l : c[x].key # k
    BY <1>9
  <2>3. (i = 1 /\ d[i].key = k) \/ \E x \in 1..l : i = x + 1 /\ d[i] = c[x]
    BY <1>1, <1>6, <1>8
  <2>4. (j = 1 /\ d[j].key = k) \/ \E y \in 1..l : j = y + 1 /\ d[j] = c[y]
    BY <1>1, <1>6, <1>8
  <2> QED BY <2>1, <2>2, <2>3, <2>4, <1>12
<1> HIDE DEF w
<1>13. ChainOf(d, Hash(k) % n, n, w)
  BY <1>5, <1>11, <1>12 DEF ChainOf
<1> QED BY <1>1, <1>2, <1>5, <1>6, <1>7, <1>13 DEF w, Behind

\* An entry taken out.
LEMMA ChainShorter ==
  ASSUME NEW n \in Nat \ {0}, NEW m \in Contents, NEW k \in Keys, NEW b, NEW c,
         ChainOf(c, b, n, m), NEW p \in 1..Len(c), c[p].key = k,
         NEW d, d = TakenOut(c, p)
  PROVE  /\ ChainOf(d, b, n, Changed(m, k, None))
         /\ \A i \in 1..Len(c) : i # p => \E j \in 1..Len(d) : d[j] = c[i]
<1> DEFINE x == SubSeq(c, 1, p - 1)
           y == SubSeq(c, p + 1, Len(c))
           w == Changed(m, k, None)
<1>1. PICK l \in Nat : l = Len(c)
  BY LenProperties DEF ChainOf
<1>2. c \in Seq(CacheEntry) /\ p \in 1..l
  BY <1>1 DEF ChainOf
<1>3. x \in Seq(CacheEntry) /\ Len(x) = p - 1 /\ \A i \in 1..(p - 1) : x[i] = c[i]
  <2>1. 1 \in 1..(Len(c) + 1) /\ p - 1 \in 0..Len(c)
    BY <1>1, <1>2
  <2> QED BY <2>1, <1>1, <1>2, SubSeqProperties
<1>4. y \in Seq(CacheEntry) /\ Len(y) = l - p /\ \A i \in 1..(l - p) : y[i] = c[p + i]
  <2>1. p + 1 \in 1..(Len(c) + 1) /\ Len(c) \in 0..Len(c)
    BY <1>1, <1>2
  <2>2. y \in Seq(CacheEntry) /\ Len(y) = l - p
    BY <2>1, <1>1, <1>2, SubSeqProperties
  <2>3. ASSUME NEW i \in 1..(l - p) PROVE y[i] = c[p + i]
    <3>1. i \in 1..(Len(c) - (p + 1) + 1) /\ (p + 1) + i - 1 = p + i
      BY <1>1, <1>2
    <3>2. y[i] = c[(p + 1) + i - 1]
      BY <3>1, <2>1, <1>2, SubSeqProperties
    <3> QED BY <3>1, <3>2
  <2> QED BY <2>2, <2>3
<1>0. d = x \o y
  BY DEF TakenOut
<1> HIDE DEF x, y
<1>5. d \in Seq(CacheEntry) /\ Len(d) = l - 1
  <2>1. d \in Seq(CacheEntry) /\ Len(d) = Len(x) + Len(y)
    BY <1>0, <1>3, <1>4, ConcatProperties
  <2>2. Len(x) + Len(y) = l - 1
    BY <1>1, <1>2, <1>3, <1>4
  <2> QED BY <2>1, <2>2
<1>6. \A i \in 1..(l - 1) : d[i] = c[IF i < p THEN i ELSE i + 1]
  <2> TAKE i \in 1..(l - 1)
  <2>1. CASE i < p
    <3>1. i \in 1..(Len(x) + Len(y)) /\ i <= Len(x)
      BY <2>1, <1>1, <1>2, <1>3, <1>4
    <3>2. d[i] = x[i]
      BY <3>1, <1>0, <1>3, <1>4, ConcatProperties
    <3> QED BY <3>1, <3>2, <2>1, <1>3
  <2>2. CASE i >= p
    <3>1. i \in 1..(Len(x) + Len(y)) /\ i > Len(x) /\ i - Len(x) = i - p + 1 /\ i - p + 1 \in 1..(l - p)
          /\ p + (i - p + 1) = i + 1
      BY <2>2, <1>1, <1>2, <1>3, <1>4
    <3>6. \A j \in 1..(Len(x) + Len(y)) : d[j] = IF j <= Len(x) THEN x[j] ELSE y[j - Len(x)]
      BY <1>0, <1>3, <1>4, ConcatProperties
    <3>7. ~(i <= Len(x))
      BY <3>1, <1>2, <1>3
    <3>5. d[i] = y[i - Len(x)]
      BY <3>1, <3>6, <3>7
    <3>2. d[i] = y[i - p + 1]
      BY <3>1, <3>5
    <3>3. y[i - p + 1] = c[p + (i - p + 1)]
      BY <3>1, <1>4
    <3>4. ~(i < p)
      BY <2>2, <1>2
    <3> QED BY <3>1, <3>2, <3>3, <3>4
  <2>3. i < p \/ i >= p
    BY <1>2
  <2> QED BY <2>1, <2>2, <2>3
<1>7. \A i \in 1..(l - 1) : \E q \in 1..l : q # p /\ q = (IF i < p THEN i ELSE i + 1) /\ d[i] = c[q]
  <2> TAKE i \in 1..(l - 1)
  <2> DEFINE q == IF i < p THEN i ELSE i + 1
  <2>1. q \in 1..l /\ q # p /\ d[i] = c[q]
    BY <1>2, <1>6
  <2> QED BY <2>1
<1>8. \A q \in 1..l : q # p => c[q].key # k
  BY <1>1 DEF ChainOf
<1>9. ASSUME NEW q \in 1..l, q # p PROVE c[q].value = w[c[q].key] /\ Hash(c[q].key) % n = b
  <2>1. c[q] \in CacheEntry /\ c[q].value = m[c[q].key] /\ Hash(c[q].key) % n = b
    BY <1>1, <1>2, ElementOfSeq DEF ChainOf
  <2>2. c[q].key \in Keys
    BY <2>1 DEF CacheEntry
  <2> QED BY <2>1, <2>2, <1>8, <1>9 DEF Contents, Changed
<1>10. \A i \in 1..(l - 1) : d[i].value = w[d[i].key] /\ Hash(d[i].key) % n = b
  BY <1>7, <1>9
<1>11. ASSUME NEW i \in 1..(l - 1), NEW j \in 1..(l - 1), d[i].key = d[j].key PROVE i = j
  <2>1. PICK q \in 1..l : q = (IF i < p THEN i ELSE i + 1) /\ d[i] = c[q]
    BY <1>7
  <2>2. PICK o \in 1..l : o = (IF j < p THEN j ELSE j + 1) /\ d[j] = c[o]
    BY <1>7
  <2>3. q = o
    BY <2>1, <2>2, <1>1, <1>11 DEF ChainOf
  <2> QED BY <2>1, <2>2, <2>3, <1>2
<1>12. ASSUME NEW i \in 1..l, i # p PROVE \E j \in 1..Len(d) : d[j] = c[i]
  <2>1. CASE i < p
    <3>1. i \in 1..(l - 1)
      BY <2>1, <1>2
    <3> QED BY <3>1, <2>1, <1>5, <1>6
  <2>2. CASE i > p
    <3>1. i - 1 \in 1..(l - 1) /\ ~(i - 1 < p) /\ (i - 1) + 1 = i
      BY <2>2, <1>2
    <3>2. d[i - 1] = c[i]
      BY <3>1, <1>6
    <3> QED BY <3>1, <3>2, <1>5
  <2> QED BY <2>1, <2>2, <1>2, <1>12
<1> HIDE DEF w
<1>13. ChainOf(d, b, n, w)
  BY <1>5, <1>10, <1>11 DEF ChainOf
<1> QED BY <1>1, <1>12, <1>13 DEF w

-----------------------------------------------------------------------------

\* A table with room takes a record.
LEMMA EnteredIs ==
  ASSUME NEW n \in Nat \ {0}, NEW m \in Contents, NEW s, Table(s, n, m), NEW k \in Keys, NEW r \in CacheRecord
  PROVE  Table(Entered(s, k, r), n, Changed(m, k, r))
<1> DEFINE h == Hash(k) % n
           w == Changed(m, k, r)
<1>1. PICK f \in [0..(n - 1) -> Seq(CacheEntry)] :
        /\ s = [kind |-> "custom", buckets |-> f, size |-> Cardinality(Stored(m))]
        /\ IsFiniteSet(Stored(m)) /\ Chains(f, n, m)
  BY DEF Table
<1>0. PICK c : c = f[h]
  OBVIOUS
<1>2. h \in 0..(n - 1) /\ s.buckets = f
  BY <1>1, KeysHash
<1>3. ChainOf(c, h, n, m)
  BY <1>0, <1>1, <1>2 DEF Chains
<1>4. r # None /\ w[k] = r /\ \A j \in Keys : j # k => w[j] = m[j]
  BY RecordNotNone DEF Contents, Changed
<1>5. FoundIn(s, k, c, h, m)
  BY <1>0, <1>1, <1>2, PlacesAre
<1>6. CASE m[k] # None
  <2> DEFINE p == Place(s, k)
  <2>0. PICK d : d = Changed(c, p, NewEntry(k, r))
    OBVIOUS
  <2>1. p \in 1..Len(c) /\ c[p].key = k /\ Places(s, k) # {}
    BY <1>5, <1>6 DEF FoundIn
  <2>2. Entered(s, k, r) = [s EXCEPT !.buckets = Changed(f, h, d)]
    BY <1>0, <1>2, <1>5, <2>0, <2>1 DEF Entered, Changed, NewEntry, FoundIn
  <2> HIDE DEF p
  <2>3. ChainOf(d, h, n, w) /\ Len(d) = Len(c) /\ \A i \in 1..Len(c) : d[i].key = c[i].key
    BY <1>3, <2>0, <2>1, ChainWritten
  <2>4. \A j \in Keys : Hash(j) % n = h /\ w[j] # None => \E i \in 1..Len(d) : d[i].key = j
    <3> SUFFICES ASSUME NEW j \in Keys, Hash(j) % n = h, w[j] # None PROVE \E i \in 1..Len(d) : d[i].key = j
      OBVIOUS
    <3>1. m[j] # None
      BY <1>4, <1>6
    <3>2. \E i \in 1..Len(c) : c[i].key = j
      BY <3>1, <1>0, <1>1 DEF Chains
    <3> QED BY <2>3, <3>2
  <2>5. Changed(f, h, d) \in [0..(n - 1) -> Seq(CacheEntry)] /\ Chains(Changed(f, h, d), n, w)
    BY <1>1, <2>3, <2>4, ChainReplaced
  <2>6. Stored(w) = Stored(m)
    BY <1>4, <1>6 DEF Stored
  <2>7. Entered(s, k, r) = [kind |-> "custom", buckets |-> Changed(f, h, d), size |-> Cardinality(Stored(w))]
    BY <1>1, <2>2, <2>6
  <2> QED BY <1>1, <2>5, <2>6, <2>7 DEF Table
<1>7. CASE m[k] = None
  <2>0. PICK d : d = <<NewEntry(k, r)>> \o c
    OBVIOUS
  <2>1. Places(s, k) = {} /\ \A i \in 1..Len(c) : c[i].key # k
    BY <1>5, <1>7 DEF FoundIn
  <2>2. Entered(s, k, r) = [s EXCEPT !.buckets = Changed(f, h, d), !.size = @ + 1]
    BY <1>0, <1>2, <1>5, <2>0, <2>1 DEF Entered, Changed, NewEntry, FoundIn
  <2>3. ChainOf(d, h, n, w) /\ Behind(d, c, k)
    BY <1>3, <2>0, <2>1, ChainLonger
  <2>4. \A j \in Keys : Hash(j) % n = h /\ w[j] # None => \E i \in 1..Len(d) : d[i].key = j
    <3> SUFFICES ASSUME NEW j \in Keys, Hash(j) % n = h, w[j] # None PROVE \E i \in 1..Len(d) : d[i].key = j
      OBVIOUS
    <3>0. Len(c) \in Nat
      BY <1>3, LenProperties DEF ChainOf
    <3>1. CASE j = k
      <4>1. 1 \in 1..Len(d)
        BY <2>3, <3>0 DEF Behind
      <4> QED BY <2>3, <3>1, <4>1 DEF Behind
    <3>2. CASE j # k
      <4>1. m[j] # None
        BY <1>4, <3>2
      <4>2. PICK i \in 1..Len(c) : c[i].key = j
        BY <4>1, <1>0, <1>1 DEF Chains
      <4>3. i + 1 \in 1..Len(d) /\ d[i + 1] = c[i]
        BY <2>3, <3>0 DEF Behind
      <4> QED BY <4>2, <4>3
    <3> QED BY <3>1, <3>2
  <2>5. Changed(f, h, d) \in [0..(n - 1) -> Seq(CacheEntry)] /\ Chains(Changed(f, h, d), n, w)
    BY <1>1, <2>3, <2>4, ChainReplaced
  <2>6. Stored(w) = Stored(m) \cup {k} /\ k \notin Stored(m)
    BY <1>4, <1>7 DEF Stored
  <2>7. IsFiniteSet(Stored(w)) /\ Cardinality(Stored(w)) = Cardinality(Stored(m)) + 1
    BY <1>1, <2>6, FS_AddElement
  <2>8. Entered(s, k, r) = [kind |-> "custom", buckets |-> Changed(f, h, d), size |-> Cardinality(Stored(w))]
    BY <1>1, <2>2, <2>7
  <2> QED BY <2>5, <2>7, <2>8 DEF Table
<1> QED BY <1>6, <1>7

\* A store deletes a key's record.
LEMMA DeleteIs ==
  ASSUME NEW s, NEW m \in Contents, Storing(s, m), NEW k \in Keys
  PROVE  Storing(Delete(s, k), Changed(m, k, None))
<1> DEFINE w == Changed(m, k, None)
<1>1. CASE s = [kind |-> "inbuilt", items |-> m]
  BY <1>1 DEF Delete, Storing, Changed
<1>2. ASSUME NEW n \in Nat \ {0}, Table(s, n, m) PROVE Table(Delete(s, k), n, w)
  <2> DEFINE h == Hash(k) % n
  <2>1. PICK f \in [0..(n - 1) -> Seq(CacheEntry)] :
          /\ s = [kind |-> "custom", buckets |-> f, size |-> Cardinality(Stored(m))]
          /\ IsFiniteSet(Stored(m)) /\ Chains(f, n, m)
    BY <1>2 DEF Table
  <2> DEFINE p == Place(s, k)
  <2>0. PICK c : c = f[h]
    OBVIOUS
  <2>2. h \in 0..(n - 1) /\ s.buckets = f /\ s.kind = "custom"
    BY <2>1, KeysHash
  <2>3. ChainOf(c, h, n, m)
    BY <2>0, <2>1, <2>2 DEF Chains
  <2>4. FoundIn(s, k, c, h, m)
    BY <2>0, <2>1, <2>2, PlacesAre
  <2>5. CASE m[k] = None
    <3>1. Delete(s, k) = s
      BY <2>2, <2>4, <2>5 DEF Delete, FoundIn
    <3>2. w = m
      BY <2>5 DEF Contents, Changed
    <3> QED BY <3>1, <3>2, <1>2
  <2>6. CASE m[k] # None
    <3>0. PICK d : d = TakenOut(c, p)
      OBVIOUS
    <3>1. p \in 1..Len(c) /\ c[p].key = k /\ Places(s, k) # {}
      BY <2>4, <2>6 DEF FoundIn
    <3>2. Delete(s, k) = [s EXCEPT !.buckets = Changed(f, h, d), !.size = @ - 1]
      BY <2>0, <2>2, <2>4, <3>0, <3>1 DEF Delete, Changed, TakenOut, FoundIn
    <3> HIDE DEF p
    <3>3. ChainOf(d, h, n, w) /\ \A i \in 1..Len(c) : i # p => \E j \in 1..Len(d) : d[j] = c[i]
      BY <2>3, <3>0, <3>1, ChainShorter
    <3>4. \A j \in Keys : Hash(j) % n = h /\ w[j] # None => \E i \in 1..Len(d) : d[i].key = j
      <4> SUFFICES ASSUME NEW j \in Keys, Hash(j) % n = h, w[j] # None PROVE \E i \in 1..Len(d) : d[i].key = j
        OBVIOUS
      <4>1. j # k /\ m[j] # None
        BY DEF Contents, Changed
      <4>2. PICK i \in 1..Len(c) : c[i].key = j
        BY <4>1, <2>0, <2>1 DEF Chains
      <4> QED BY <4>1, <4>2, <3>1, <3>3
    <3>5. None \in CacheRecord \cup {None}
      OBVIOUS
    <3>6. Changed(f, h, d) \in [0..(n - 1) -> Seq(CacheEntry)] /\ Chains(Changed(f, h, d), n, w)
      BY <2>1, <3>3, <3>4, <3>5, ChainReplaced
    <3>7. Stored(w) = Stored(m) \ {k} /\ k \in Stored(m)
      BY <2>6 DEF Stored, Contents
    <3>8. IsFiniteSet(Stored(w)) /\ Cardinality(Stored(w)) = Cardinality(Stored(m)) - 1
      BY <2>1, <3>7, FS_RemoveElement
    <3>9. Delete(s, k) = [kind |-> "custom", buckets |-> Changed(f, h, d), size |-> Cardinality(Stored(w))]
      BY <2>1, <3>2, <3>8
    <3> QED BY <3>6, <3>8, <3>9 DEF Table
  <2> QED BY <2>5, <2>6
<1> QED BY <1>1, <1>2 DEF Storing

\* A table without entries holds nothing.
LEMMA CustomIs ==
  ASSUME NEW n \in Nat \ {0}
  PROVE  Table(Custom(n), n, [k \in Keys |-> None]) /\ [k \in Keys |-> None] \in Contents
<1> DEFINE m == [k \in Keys |-> None]
           f == [b \in 0..(n - 1) |-> <<>>]
<1>1. f \in [0..(n - 1) -> Seq(CacheEntry)]
  BY EmptySeq
<1>2. Stored(m) = {}
  BY DEF Stored
<1>3. IsFiniteSet(Stored(m)) /\ Cardinality(Stored(m)) = 0
  BY <1>2, FS_EmptySet
<1>4. \A b \in 0..(n - 1) : ChainOf(f[b], b, n, m)
  <2> TAKE b \in 0..(n - 1)
  <2>1. f[b] = <<>> /\ <<>> \in Seq(CacheEntry) /\ Len(<<>>) = 0
    BY EmptySeq
  <2> QED BY <2>1 DEF ChainOf
<1>5. Chains(f, n, m)
  BY <1>4 DEF Chains
<1>6. Custom(n) = [kind |-> "custom", buckets |-> f, size |-> Cardinality(Stored(m))]
  BY <1>3 DEF Custom
<1> HIDE DEF f
<1>7. Table(Custom(n), n, m)
  BY <1>1, <1>3, <1>5, <1>6 DEF Table
<1> QED BY <1>7 DEF Contents

\* The entries e are those of the contents m.
Lists(e, m) ==
  /\ e \in Seq(CacheEntry) /\ \A i \in 1..Len(e) : e[i].value = m[e[i].key]
  /\ \A k \in Keys : m[k] # None => \E i \in 1..Len(e) : e[i].key = k

\* An entry is among those of a chain.
Among(e, c) == \E i \in 1..Len(c) : c[i] = e

LEMMA AmongBoth ==
  ASSUME NEW c \in Seq(CacheEntry), NEW d \in Seq(CacheEntry), NEW e
  PROVE  Among(e, c \o d) <=> Among(e, c) \/ Among(e, d)
<1>1. PICK l \in Nat : l = Len(c)
  BY LenProperties
<1>2. PICK o \in Nat : o = Len(d)
  BY LenProperties
<1>3. Len(c \o d) = l + o
  BY <1>1, <1>2, ConcatProperties
<1>4. \A i \in 1..l : i \in 1..(l + o) /\ (c \o d)[i] = c[i]
  <2> TAKE i \in 1..l
  <2>1. i \in 1..(Len(c) + Len(d)) /\ i <= Len(c)
    BY <1>1, <1>2
  <2> QED BY <2>1, <1>1, <1>2, ConcatProperties
<1>5. \A i \in 1..o : l + i \in 1..(l + o) /\ (c \o d)[l + i] = d[i]
  <2> TAKE i \in 1..o
  <2>1. l + i \in 1..(Len(c) + Len(d)) /\ l + i > Len(c) /\ (l + i) - Len(c) = i
    BY <1>1, <1>2
  <2> QED BY <2>1, <1>1, <1>2, ConcatProperties
<1>6. \A j \in 1..(l + o) : j \in 1..l \/ \E i \in 1..o : j = l + i
  <2> TAKE j \in 1..(l + o)
  <2>1. CASE j > l
    <3>1. j - l \in 1..o /\ j = l + (j - l)
      BY <2>1
    <3> QED BY <3>1
  <2> QED BY <2>1
<1>7. ASSUME Among(e, c) \/ Among(e, d) PROVE Among(e, c \o d)
  BY <1>1, <1>2, <1>3, <1>4, <1>5, <1>7 DEF Among
<1>8. ASSUME Among(e, c \o d) PROVE Among(e, c) \/ Among(e, d)
  <2>1. PICK j \in 1..(l + o) : (c \o d)[j] = e
    BY <1>3, <1>8 DEF Among
  <2> QED BY <2>1, <1>1, <1>2, <1>4, <1>5, <1>6 DEF Among
<1> QED BY <1>7, <1>8

\* All entries of a table, bucket after bucket.
LEMMA ChainedIs ==
  ASSUME NEW n \in Nat \ {0}, NEW m \in Contents, NEW s, Table(s, n, m)
  PROVE  Lists(Chained(s), m)
<1>1. PICK f \in [0..(n - 1) -> Seq(CacheEntry)] : s.buckets = f /\ Chains(f, n, m)
  BY DEF Table
<1>2. Buckets(s) = n
  BY <1>1, BucketsAre
<1> DEFINE upTo == CHOOSE g : g = [b \in 0..n |-> IF b = 0 THEN <<>> ELSE g[b - 1] \o f[b - 1]]
           X == Seq(CacheEntry)
           F == [p \in (1..n) \X X |-> p[2] \o f[p[1] - 1]]
<1>3. Chained(s) = upTo[n]
  BY <1>1, <1>2 DEF Chained
<1>4. \A b \in 1..n : b - 1 \in 0..(n - 1) /\ b - 1 \in 0..n /\ f[b - 1] \in X /\ b # 0
  OBVIOUS
<1>5. \E g : Iterate(g, F, n, X, <<>>)
  <2>1. StepsIn(F, n, X)
    <3> SUFFICES \A i \in 1..n, y \in X : F[<<i, y>>] \in X
      BY DEF StepsIn
    <3> TAKE i \in 1..n, y \in X
    <3>1. F[<<i, y>>] = y \o f[i - 1]
      OBVIOUS
    <3> QED BY <3>1, <1>4, ConcatProperties
  <2>2. <<>> \in X
    BY EmptySeq
  <2>3. n \in Nat
    OBVIOUS
  <2> HIDE DEF F, X
  <2> QED BY <2>1, <2>2, <2>3, Iterates
<1>6. PICK g \in [0..n -> X] : \A i \in 0..n : g[i] = IF i = 0 THEN <<>> ELSE g[i - 1] \o f[i - 1]
  <2>1. PICK g \in [0..n -> X] : \A i \in 0..n : g[i] = IF i = 0 THEN <<>> ELSE F[<<i, g[i - 1]>>]
    <3> HIDE DEF F, X
    <3> QED BY <1>5 DEF Iterate
  <2>2. ASSUME NEW i \in 0..n PROVE g[i] = IF i = 0 THEN <<>> ELSE g[i - 1] \o f[i - 1]
    <3>1. CASE i # 0
      <4>1. i \in 1..n /\ g[i - 1] \in X
        BY <3>1
      <4>2. F[<<i, g[i - 1]>>] = g[i - 1] \o f[i - 1]
        BY <4>1
      <4> QED BY <4>2, <3>1, <2>1
    <3> QED BY <3>1, <2>1
  <2> QED BY <2>2
<1> HIDE DEF F
<1>7. g = [b \in 0..n |-> IF b = 0 THEN <<>> ELSE g[b - 1] \o f[b - 1]]
  <2>1. g = [b \in 0..n |-> g[b]]
    OBVIOUS
  <2> QED BY <1>6, <2>1
<1>8. upTo = [b \in 0..n |-> IF b = 0 THEN <<>> ELSE upTo[b - 1] \o f[b - 1]]
  BY <1>7, Zenon
<1> HIDE DEF upTo
<1>9. \A b \in 0..n : upTo[b] = IF b = 0 THEN <<>> ELSE upTo[b - 1] \o f[b - 1]
  BY <1>8, Zenon
<1> DEFINE Right(b) == /\ upTo[b] \in Seq(CacheEntry) /\ \A e : Among(e, upTo[b]) => e.value = m[e.key]
                       /\ \A a \in 0..(b - 1) : \A e : Among(e, f[a]) => Among(e, upTo[b])
           T == {b \in 0..n : Right(b)}
<1>10. \A b \in 0..n : b \in T
  <2>1. 0 \in T
    <3>1. upTo[0] = <<>> /\ Len(<<>>) = 0 /\ <<>> \in Seq(CacheEntry)
      BY <1>9, EmptySeq
    <3>2. \A e : ~Among(e, upTo[0])
      BY <3>1 DEF Among
    <3>3. \A a \in 0..(0 - 1) : FALSE
      OBVIOUS
    <3>4. 0 \in 0..n
      OBVIOUS
    <3> QED BY <3>1, <3>2, <3>3, <3>4
  <2>2. ASSUME NEW b \in 0..n, b \in T, b < n PROVE b + 1 \in T
    <3>0. b \in Nat /\ n \in Nat /\ b < n
      BY <2>2
    <3>1. b + 1 \in 0..n /\ b + 1 # 0 /\ (b + 1) - 1 = b /\ b \in 0..(n - 1)
      BY <3>0
    <3>2. upTo[b + 1] = upTo[b] \o f[b]
      BY <1>9, <3>1
    <3>3. Right(b) /\ f[b] \in Seq(CacheEntry) /\ ChainOf(f[b], b, n, m)
      BY <2>2, <3>1, <1>1 DEF Chains
    <3>4. \A e : Among(e, upTo[b + 1]) <=> Among(e, upTo[b]) \/ Among(e, f[b])
      BY <3>2, <3>3, AmongBoth
    <3>5. \A e : Among(e, f[b]) => e.value = m[e.key]
      BY <3>3 DEF Among, ChainOf
    <3>6. \A a \in 0..((b + 1) - 1) : a \in 0..(b - 1) \/ a = b
      BY <3>1
    <3>7. upTo[b + 1] \in Seq(CacheEntry)
      BY <3>2, <3>3, ConcatProperties
    <3>8. Right(b + 1)
      BY <3>3, <3>4, <3>5, <3>6, <3>7
    <3> QED BY <3>1, <3>8
  <2> HIDE DEF T
  <2> QED BY <2>1, <2>2, UpTo
<1>11. Right(n)
  BY <1>10, n \in 0..n
<1>12. \A i \in 1..Len(upTo[n]) : upTo[n][i].value = m[upTo[n][i].key]
  BY <1>11 DEF Among
<1>13. ASSUME NEW k \in Keys, m[k] # None PROVE \E i \in 1..Len(upTo[n]) : upTo[n][i].key = k
  <2>0. PICK a \in 0..(n - 1) : a = Hash(k) % n
    BY KeysHash
  <2>1. PICK i \in 1..Len(f[a]) : f[a][i].key = k
    BY <2>0, <1>1, <1>13 DEF Chains
  <2>2. Among(f[a][i], upTo[n])
    BY <1>11 DEF Among
  <2> QED BY <2>1, <2>2 DEF Among
<1> QED BY <1>3, <1>11, <1>12, <1>13 DEF Lists

\* A table that has grown holds what it held.
LEMMA ResizedIs ==
  ASSUME NEW n \in Nat \ {0}, NEW m \in Contents, NEW s, Table(s, n, m)
  PROVE  Table(Resized(s), 2 * n, m)
<1>1. Buckets(s) = n
  BY BucketsAre DEF Table
<1>2. PICK e : e = Chained(s)
  OBVIOUS
<1>3. Lists(e, m)
  BY <1>2, ChainedIs
<1>4. PICK l \in Nat : l = Len(e)
  BY <1>3, LenProperties DEF Lists
<1>5. 2 * n \in Nat \ {0}
  OBVIOUS
<1> DEFINE table == CHOOSE g : g = [i \in 0..l |-> IF i = 0 THEN Custom(2 * n) ELSE Entered(g[i - 1], e[i].key, e[i].value)]
           X == {t \in [kind : {"custom"}, buckets : [0..(2 * n - 1) -> Seq(CacheEntry)], size : Nat] :
                   \E w \in Contents : Table(t, 2 * n, w)}
           F == [p \in (1..l) \X X |-> Entered(p[2], e[p[1]].key, e[p[1]].value)]
           Part(i) == [k \in Keys |-> IF \E j \in 1..i : e[j].key = k THEN m[k] ELSE None]
<1>6. Resized(s) = table[l]
  BY <1>1, <1>2, <1>4 DEF Resized
<1>7. \A t, w : w \in Contents /\ Table(t, 2 * n, w) => t \in X
  <2> SUFFICES ASSUME NEW t, NEW w \in Contents, Table(t, 2 * n, w)
               PROVE  t \in [kind : {"custom"}, buckets : [0..(2 * n - 1) -> Seq(CacheEntry)], size : Nat]
    OBVIOUS
  <2> QED BY FS_CardinalityType DEF Table
<1>8. \A i \in 1..l : e[i].key \in Keys /\ e[i].value \in CacheRecord /\ e[i].value = m[e[i].key]
  <2> TAKE i \in 1..l
  <2>1. e[i] \in CacheEntry /\ e[i].value = m[e[i].key]
    BY <1>3, <1>4, ElementOfSeq DEF Lists
  <2> QED BY <2>1 DEF CacheEntry
<1>9. \A w \in Contents, k \in Keys, r \in CacheRecord : Changed(w, k, r) \in Contents
  BY DEF Changed, Contents
<1>10. \A i \in 1..l : \A t, w : w \in Contents /\ Table(t, 2 * n, w) =>
         Table(Entered(t, e[i].key, e[i].value), 2 * n, Changed(w, e[i].key, e[i].value))
  BY <1>5, <1>8, EnteredIs
<1>11. \E g : Iterate(g, F, l, X, Custom(2 * n))
  <2>1. StepsIn(F, l, X)
    <3> SUFFICES \A i \in 1..l, y \in X : F[<<i, y>>] \in X
      BY DEF StepsIn
    <3> TAKE i \in 1..l, y \in X
    <3>1. F[<<i, y>>] = Entered(y, e[i].key, e[i].value)
      OBVIOUS
    <3>2. PICK w \in Contents : Table(y, 2 * n, w)
      OBVIOUS
    <3>3. Changed(w, e[i].key, e[i].value) \in Contents
      BY <1>8, <1>9
    <3> HIDE DEF X, F
    <3> QED BY <3>1, <3>2, <3>3, <1>7, <1>10
  <2>2. Custom(2 * n) \in X
    <3> HIDE DEF X
    <3> QED BY <1>5, <1>7, CustomIs
  <2> HIDE DEF F, X
  <2> QED BY <2>1, <2>2, Iterates
<1>12. PICK g \in [0..l -> X] : \A i \in 0..l : g[i] = IF i = 0 THEN Custom(2 * n) ELSE Entered(g[i - 1], e[i].key, e[i].value)
  <2>1. PICK g \in [0..l -> X] : \A i \in 0..l : g[i] = IF i = 0 THEN Custom(2 * n) ELSE F[<<i, g[i - 1]>>]
    <3> HIDE DEF F, X
    <3> QED BY <1>11 DEF Iterate
  <2>2. ASSUME NEW i \in 0..l PROVE g[i] = IF i = 0 THEN Custom(2 * n) ELSE Entered(g[i - 1], e[i].key, e[i].value)
    <3> HIDE DEF X
    <3>1. CASE i # 0
      <4>1. i \in 1..l /\ i - 1 \in 0..l
        BY <3>1
      <4>2. <<i, g[i - 1]>> \in (1..l) \X X
        BY <4>1
      <4>3. F[<<i, g[i - 1]>>] = Entered(g[i - 1], e[i].key, e[i].value)
        BY <4>2
      <4> QED BY <4>3, <3>1, <2>1
    <3> QED BY <3>1, <2>1
  <2> QED BY <2>2
<1> HIDE DEF F, X
<1>13. g = [i \in 0..l |-> IF i = 0 THEN Custom(2 * n) ELSE Entered(g[i - 1], e[i].key, e[i].value)]
  <2>1. g = [i \in 0..l |-> g[i]]
    OBVIOUS
  <2> QED BY <1>12, <2>1
<1>14. table = [i \in 0..l |-> IF i = 0 THEN Custom(2 * n) ELSE Entered(table[i - 1], e[i].key, e[i].value)]
  BY <1>13, Zenon
<1> HIDE DEF table
<1>15. \A i \in 0..l : table[i] = IF i = 0 THEN Custom(2 * n) ELSE Entered(table[i - 1], e[i].key, e[i].value)
  BY <1>14, Zenon
<1>16. \A i \in 0..l : Part(i) \in Contents
  BY DEF Contents
<1> DEFINE T == {i \in 0..l : Table(table[i], 2 * n, Part(i))}
<1>17. \A i \in 0..l : i \in T
  <2>1. 0 \in T
    <3>1. table[0] = Custom(2 * n) /\ 0 \in 0..l
      BY <1>15
    <3>2. Part(0) = [k \in Keys |-> None]
      OBVIOUS
    <3> QED BY <3>1, <3>2, <1>5, CustomIs
  <2>2. ASSUME NEW i \in 0..l, i \in T, i < l PROVE i + 1 \in T
    <3>1. i + 1 \in 0..l /\ i + 1 \in 1..l /\ i + 1 # 0 /\ (i + 1) - 1 = i
      BY <2>2
    <3>2. table[i + 1] = Entered(table[i], e[i + 1].key, e[i + 1].value)
      BY <1>15, <3>1
    <3>3. Changed(Part(i), e[i + 1].key, e[i + 1].value) = Part(i + 1)
      <4> DEFINE k1 == e[i + 1].key
      <4>1. k1 \in Keys /\ e[i + 1].value = m[k1]
        BY <1>8, <3>1
      <4>2. \A j \in 1..(i + 1) : j \in 1..i \/ j = i + 1
        OBVIOUS
      <4>3. \A j \in 1..i : j \in 1..(i + 1)
        OBVIOUS
      <4>4. i + 1 \in 1..(i + 1)
        OBVIOUS
      <4>5. ASSUME NEW k \in Keys
            PROVE  (\E j \in 1..(i + 1) : e[j].key = k) <=> k = k1 \/ \E j \in 1..i : e[j].key = k
        BY <4>2, <4>3, <4>4
      <4> HIDE DEF k1
      <4>6. Changed(Part(i), k1, m[k1]) = [k \in Keys |-> IF k = k1 THEN m[k1] ELSE Part(i)[k]]
        BY DEF Changed
      <4>7. \A k \in Keys : (IF k = k1 THEN m[k1] ELSE Part(i)[k]) = Part(i + 1)[k]
        BY <4>5
      <4>8. Changed(Part(i), k1, m[k1]) = Part(i + 1)
        BY <4>6, <4>7
      <4> QED BY <4>1, <4>8 DEF k1
    <3>4. Part(i) \in Contents /\ Table(table[i], 2 * n, Part(i))
      BY <2>2, <1>16
    <3> HIDE DEF Part
    <3>5. Table(table[i + 1], 2 * n, Part(i + 1))
      BY <3>1, <3>2, <3>3, <3>4, <1>10
    <3> QED BY <3>1, <3>5
  <2> HIDE DEF T
  <2> QED BY <2>1, <2>2, UpTo
<1>18. Part(l) = m
  <2>1. \A k \in Keys : Part(l)[k] = m[k]
    BY <1>3, <1>4 DEF Lists
  <2>2. m = [k \in Keys |-> m[k]]
    BY DEF Contents
  <2> QED BY <2>1, <2>2
<1>19. Table(table[l], 2 * n, Part(l))
  BY <1>17, l \in 0..l
<1> QED BY <1>6, <1>18, <1>19

\* A store takes a record.
LEMMA SetIs ==
  ASSUME NEW s, NEW m \in Contents, Storing(s, m), NEW k \in Keys, NEW r \in CacheRecord
  PROVE  Storing(Set(s, k, r), Changed(m, k, r))
<1>1. CASE s = [kind |-> "inbuilt", items |-> m]
  BY <1>1 DEF Set, Storing, Changed
<1>2. ASSUME NEW n \in Nat \ {0}, Table(s, n, m) PROVE Storing(Set(s, k, r), Changed(m, k, r))
  <2>1. s.kind = "custom"
    BY <1>2 DEF Table
  <2>2. Set(s, k, r) = Entered(Resized(s), k, r) \/ Set(s, k, r) = Entered(s, k, r)
    BY <2>1 DEF Set
  <2>3. Table(Entered(s, k, r), n, Changed(m, k, r))
    BY <1>2, EnteredIs
  <2>4. 2 * n \in Nat \ {0} /\ Table(Resized(s), 2 * n, m)
    BY <1>2, ResizedIs
  <2>5. Table(Entered(Resized(s), k, r), 2 * n, Changed(m, k, r))
    BY <2>4, EnteredIs
  <2> QED BY <2>2, <2>3, <2>4, <2>5 DEF Storing
<1> QED BY <1>1, <1>2 DEF Storing

-----------------------------------------------------------------------------
(* The resolver's invariant. *)

\* The names still to look up are those of v after the first p.
Rest(w, v, p) == w \in Seq(Keys) /\ Len(v) = p + Len(w) /\ \A i \in 1..Len(w) : w[i] = v[p + i]

\* None of the first p names of domain d could answer.
PassedBy(d, p) == \A i \in 1..p : ~Answers(Names(d)[i])

QueryOf(d, w, t) == query = [domain |-> d, left |-> w, at |-> t] /\ t <= dnsNow

Looking ==
  \E d \in Domains, w \in Seq(Keys), t \in Nat, p \in Nat :
    QueryOf(d, w, t) /\ Rest(w, Names(d), p) /\ PassedBy(d, p)

Hitting ==
  \E d \in Domains, w \in Seq(Keys), t \in Nat, k \in Keys, p \in Nat :
    /\ p \in 1..Len(Names(d)) /\ QueryOf(d, w, t) /\ Names(d)[p] = k /\ PassedBy(d, p - 1)
    /\ found = <<k, written[k]>> /\ written[k] \in CacheRecord /\ ~IsExpired(written[k], t)

Asking == \E d \in Domains, w \in Seq(Keys), t \in Nat : QueryOf(d, w, t)

\* What the store may hold: the last record written, and only a record thrown away may be
\* missing before it expires.
Kept(m) ==
  \A k \in Keys : m[k] \in {None, written[k]} /\ (Valid(k, dnsNow) => m[k] # None \/ k \in swept)

StoreKept == \E m \in Contents : Storing(store, m) /\ Kept(m)

CleanerSound ==
  /\ cleaner \in [keys : SUBSET Keys, at : Nat] /\ cleaner.at <= dnsNow
  /\ condemned = <<>> \/ \E k \in Keys : condemned = <<k>>

CallerSound ==
  /\ caller \in {"idle", "lookup", "hit", "upstream"}
  /\ caller = "lookup" => Looking
  /\ caller = "hit" => Hitting
  /\ caller = "upstream" => Asking

CacheInv == dnsNow \in Nat /\ written \in Contents /\ StoreKept /\ CleanerSound /\ CallerSound

LEMMA NamesAre ==
  ASSUME NEW d \in Domains
  PROVE  Names(d) \in Seq(Keys) /\ d \in Keys
<1> DEFINE c == wildcardCandidates(d)
<1>1. Len(d) \in Nat
  BY DNSConstants
<1>2. PICK n \in Nat : n = IF Len(d) > 2 THEN Len(d) - 2 ELSE 0
  BY <1>1
<1>3. 1..(Len(d) - 2) = 1..n
  BY <1>1, <1>2
<1> DEFINE S == {d} \cup {c[i] : i \in 1..n}
<1>4. c \in [1..n -> S]
  BY <1>3 DEF wildcardCandidates
<1> HIDE DEF c
<1>5. c \in Seq(S) /\ <<d>> \in Seq(S) /\ Len(<<d>>) = 1 /\ <<d>>[1] = d
  BY <1>4
<1>6. Names(d) = <<d>> \o c
  BY DEF Names, c
<1>7. Names(d) \in Seq(S) /\ Names(d)[1] = d /\ Len(Names(d)) = 1 + Len(c) /\ Len(c) \in Nat
  <2>1. Names(d) \in Seq(S) /\ Len(Names(d)) = 1 + Len(c) /\ Len(c) \in Nat
    BY <1>5, <1>6, ConcatProperties, LenProperties
  <2>2. 1 \in 1..(Len(<<d>>) + Len(c)) /\ 1 <= Len(<<d>>)
    BY <1>5, <2>1
  <2>3. Names(d)[1] = <<d>>[1]
    BY <2>2, <1>5, <1>6, ConcatProperties
  <2> QED BY <2>1, <2>3, <1>5
<1>8. DOMAIN Names(d) = 1..Len(Names(d)) /\ Len(Names(d)) \in Nat
  BY <1>7, LenProperties
<1>9. \A i \in DOMAIN Names(d) : Names(d)[i] \in Keys
  BY DEF Keys
<1>10. d \in Keys
  BY <1>7, <1>8, <1>9
<1>11. Names(d) \in [1..Len(Names(d)) -> Keys]
  <2>1. Names(d) = [i \in DOMAIN Names(d) |-> Names(d)[i]]
    BY <1>7
  <2> QED BY <2>1, <1>8, <1>9
<1>12. Names(d) \in Seq(Keys)
  BY <1>8, <1>11
<1> QED BY <1>10, <1>12

\* What the invariant says of the store.
LEMMA InvStoreSound == CacheInv => StoreSound
<1> SUFFICES ASSUME CacheInv PROVE StoreSound
  OBVIOUS
<1>1. PICK m \in Contents : Storing(store, m) /\ Kept(m)
  BY DEF CacheInv, StoreKept
<1>2. \A k \in Keys : Get(store, k) = m[k]
  BY <1>1, GetIs
<1>3. StoreLen(store) = Cardinality(StoreKeys(store))
  BY <1>1, LengthIs
<1> QED BY <1>1, <1>2, <1>3 DEF StoreSound, Kept

\* A name that cannot answer will not, until it is written again.
LEMMA AnswersFade ==
  ASSUME dnsNow \in Nat, dnsNow' \in Nat, dnsNow <= dnsNow', written' = written, written \in Contents,
         swept \subseteq swept', NEW k \in Keys, ~Answers(k)
  PROVE  ~Answers(k)'
<1>1. CASE k \in swept
  BY <1>1 DEF Answers
<1>2. CASE written[k] = None
  BY <1>2 DEF Answers, Valid
<1>3. CASE written[k] # None /\ k \notin swept
  <2>1. written[k] \in CacheRecord
    BY <1>3 DEF Contents
  <2>2. written[k].created \in Nat /\ written[k].ttl \in Nat
    BY <2>1 DEF CacheRecord
  <2>3. ~(dnsNow < written[k].created + written[k].ttl)
    BY <1>3 DEF Answers, Valid
  <2>4. ~(dnsNow' < written'[k].created + written'[k].ttl)
    BY <2>2, <2>3
  <2> QED BY <2>4 DEF Answers, Valid
<1> QED BY <1>1, <1>2, <1>3

\* The caller's progress outlasts what others do to the store.
LEMMA CallerKeeps ==
  ASSUME CallerSound, UNCHANGED <<caller, query, found, written>>,
         dnsNow \in Nat, dnsNow' \in Nat, dnsNow <= dnsNow', written \in Contents, swept \subseteq swept'
  PROVE  CallerSound'
<1>1. \A d \in Domains, p \in Nat : p <= Len(Names(d)) /\ PassedBy(d, p) => PassedBy(d, p)'
  <2> SUFFICES ASSUME NEW d \in Domains, NEW p \in Nat, p <= Len(Names(d)), PassedBy(d, p),
                      NEW i \in 1..p
               PROVE  ~Answers(Names(d)[i])'
    BY DEF PassedBy
  <2>1. Names(d)[i] \in Keys /\ ~Answers(Names(d)[i])
    <3>1. Names(d) \in Seq(Keys) /\ Len(Names(d)) \in Nat
      BY NamesAre, LenProperties
    <3>2. i \in 1..Len(Names(d))
      BY <3>1
    <3> QED BY <3>1, <3>2, ElementOfSeq DEF PassedBy
  <2> QED BY <2>1, AnswersFade
<1>2. \A d, w : \A t \in Nat : QueryOf(d, w, t) => QueryOf(d, w, t)'
  BY DEF QueryOf
<1>3. ASSUME Looking PROVE Looking'
  <2>1. PICK d \in Domains, w \in Seq(Keys), t \in Nat, p \in Nat :
          QueryOf(d, w, t) /\ Rest(w, Names(d), p) /\ PassedBy(d, p)
    BY <1>3 DEF Looking
  <2>2. p <= Len(Names(d))
    BY <2>1, LenProperties DEF Rest
  <2> QED BY <1>1, <1>2, <2>1, <2>2 DEF Looking
<1>4. ASSUME Hitting PROVE Hitting'
  <2>1. PICK d \in Domains, w \in Seq(Keys), t \in Nat, k \in Keys, p \in Nat :
          /\ p \in 1..Len(Names(d)) /\ QueryOf(d, w, t) /\ Names(d)[p] = k /\ PassedBy(d, p - 1)
          /\ found = <<k, written[k]>> /\ written[k] \in CacheRecord /\ ~IsExpired(written[k], t)
    BY <1>4 DEF Hitting
  <2>2. p - 1 \in Nat /\ p - 1 <= Len(Names(d))
    BY <2>1, NamesAre, LenProperties
  <2>3. QueryOf(d, w, t)' /\ PassedBy(d, p - 1)'
    BY <1>1, <1>2, <2>1, <2>2
  <2>4. /\ p \in 1..Len(Names(d)) /\ QueryOf(d, w, t)' /\ Names(d)[p] = k /\ PassedBy(d, p - 1)'
        /\ found' = <<k, written'[k]>> /\ written'[k] \in CacheRecord /\ ~IsExpired(written'[k], t)
    BY <2>1, <2>3
  <2> HIDE DEF QueryOf, PassedBy
  <2> QED BY <2>4 DEF Hitting
<1>5. ASSUME Asking PROVE Asking'
  BY <1>2, <1>5 DEF Asking
<1> QED BY <1>3, <1>4, <1>5 DEF CallerSound

\* A record written is kept.
LEMMA WriteKeeps ==
  ASSUME written \in Contents, StoreKept, dnsNow \in Nat, dnsNow' = dnsNow,
         NEW k \in Keys, NEW r \in CacheRecord,
         store' = Set(store, k, r), written' = Changed(written, k, r), swept' = swept \ {k}
  PROVE  StoreKept' /\ written' \in Contents
<1>1. PICK m \in Contents : Storing(store, m) /\ Kept(m)
  BY DEF StoreKept
<1>2. PICK w : w = Changed(m, k, r)
  OBVIOUS
<1>3. Storing(store', w)
  BY <1>1, <1>2, SetIs
<1>4. w \in Contents /\ written' \in Contents
  BY <1>2 DEF Contents, Changed
<1>5. w[k] = r /\ written'[k] = r /\ r # None
  BY <1>2, RecordNotNone DEF Contents, Changed
<1>6. \A j \in Keys : j # k => w[j] = m[j] /\ written'[j] = written[j]
  BY <1>2 DEF Contents, Changed
<1>7. ASSUME NEW j \in Keys
      PROVE  w[j] \in {None, written'[j]} /\ (Valid(j, dnsNow)' => w[j] # None \/ j \in swept')
  <2>1. CASE j = k
    BY <2>1, <1>5
  <2>2. CASE j # k
    <3>1. m[j] \in {None, written[j]} /\ (Valid(j, dnsNow) => m[j] # None \/ j \in swept)
      BY <1>1 DEF Kept
    <3>2. Valid(j, dnsNow)' = Valid(j, dnsNow)
      BY <1>6, <2>2 DEF Valid
    <3> QED BY <3>1, <3>2, <1>6, <2>2
  <2> QED BY <2>1, <2>2
<1>8. Kept(w)'
  BY <1>7 DEF Kept
<1> QED BY <1>3, <1>4, <1>8 DEF StoreKept

\* A record that could answer is thrown away for good only by the cleanup, which is remembered.
LEMMA DeleteKeeps ==
  ASSUME StoreKept, NEW k \in Keys, store' = Delete(store, k), written' = written, dnsNow' = dnsNow,
         swept \subseteq swept', Valid(k, dnsNow) /\ Get(store, k) # None => k \in swept'
  PROVE  StoreKept'
<1>1. PICK m \in Contents : Storing(store, m) /\ Kept(m)
  BY DEF StoreKept
<1>2. PICK w : w = Changed(m, k, None)
  OBVIOUS
<1>3. Storing(store', w)
  BY <1>1, <1>2, DeleteIs
<1>4. w \in Contents /\ w[k] = None /\ \A j \in Keys : j # k => w[j] = m[j]
  BY <1>2 DEF Contents, Changed
<1>5. Get(store, k) = m[k]
  BY <1>1, GetIs
<1>6. ASSUME NEW j \in Keys
      PROVE  w[j] \in {None, written'[j]} /\ (Valid(j, dnsNow)' => w[j] # None \/ j \in swept')
  <2>1. m[j] \in {None, written[j]} /\ (Valid(j, dnsNow) => m[j] # None \/ j \in swept)
    BY <1>1 DEF Kept
  <2>2. Valid(j, dnsNow)' = Valid(j, dnsNow)
    BY DEF Valid
  <2> QED BY <2>1, <2>2, <1>4, <1>5
<1>7. Kept(w)'
  BY <1>6 DEF Kept
<1> QED BY <1>3, <1>4, <1>7 DEF StoreKept

\* Nothing changes for the store but the time and what was thrown away.
LEMMA StoreFades ==
  ASSUME StoreKept, written \in Contents, store' = store, written' = written, swept' = swept,
         dnsNow \in Nat, dnsNow' \in Nat, dnsNow <= dnsNow'
  PROVE  StoreKept'
<1>1. PICK m \in Contents : Storing(store, m) /\ Kept(m)
  BY DEF StoreKept
<1>2. ASSUME NEW j \in Keys, Valid(j, dnsNow)' PROVE Valid(j, dnsNow)
  <2>1. written[j] # None /\ dnsNow' < written[j].created + written[j].ttl
    BY <1>2 DEF Valid
  <2>2. written[j] \in CacheRecord
    BY <2>1 DEF Contents
  <2>3. written[j].created \in Nat /\ written[j].ttl \in Nat
    BY <2>2 DEF CacheRecord
  <2> QED BY <2>1, <2>3 DEF Valid
<1>3. Kept(m)'
  BY <1>1, <1>2 DEF Kept
<1> QED BY <1>1, <1>3 DEF StoreKept

LEMMA CacheInitially == DNSInit => CacheInv
<1> SUFFICES ASSUME DNSInit PROVE CacheInv
  OBVIOUS
<1> DEFINE m == [k \in Keys |-> None]
<1>1. m \in Contents /\ written = m
  BY DEF DNSInit, Contents
<1>2. Storing(store, m)
  <2>1. CASE store = Inbuilt
    BY <2>1 DEF Inbuilt, Storing
  <2>2. CASE store = Custom(BucketCount)
    BY <2>2, CustomIs, DNSConstants DEF Storing
  <2> QED BY <2>1, <2>2 DEF DNSInit
<1>3. Kept(m)
  BY <1>1 DEF Kept, Valid
<1> HIDE DEF m
<1>4. StoreKept
  BY <1>1, <1>2, <1>3 DEF StoreKept
<1>5. CleanerSound /\ dnsNow \in Nat
  BY DEF DNSInit, CleanerSound
<1>6. CallerSound
  BY DEF DNSInit, CallerSound
<1> QED BY <1>1, <1>4, <1>5, <1>6 DEF CacheInv

\* One lookup: what it does to the names passed.
LEMMA LookupKeeps == CacheInv /\ Lookup => CacheInv'
<1> SUFFICES ASSUME CacheInv, Lookup PROVE CacheInv'
  OBVIOUS
<1> USE DEF CacheInv
<1>0. UNCHANGED <<dnsNow, cleaner, condemned, written, swept>> /\ caller = "lookup" /\ query.left # <<>>
  BY DEF Lookup
<1>1. PICK d \in Domains, w \in Seq(Keys), t \in Nat, p \in Nat :
        QueryOf(d, w, t) /\ Rest(w, Names(d), p) /\ PassedBy(d, p)
  BY <1>0 DEF CallerSound, Looking
<1>2. query = [domain |-> d, left |-> w, at |-> t] /\ t <= dnsNow /\ query.left = w /\ query.at = t /\ query.domain = d
  BY <1>1 DEF QueryOf
<1>3. PICK l \in Nat : l = Len(w)
  BY LenProperties
<1>4. w # <<>> /\ l # 0
  BY <1>0, <1>2, <1>3, EmptySeq
<1>5. PICK k : k = Head(w)
  OBVIOUS
<1>6. k = w[1] /\ k \in Keys /\ Names(d)[p + 1] = k /\ p + 1 \in 1..Len(Names(d))
  <2>1. 1 \in 1..l
    BY <1>4
  <2>2. k = w[1] /\ w[1] \in Keys
    BY <1>3, <1>5, <2>1, ElementOfSeq
  <2> QED BY <1>1, <1>3, <2>1, <2>2 DEF Rest
<1>7. PICK m \in Contents : Storing(store, m) /\ Kept(m)
  BY DEF StoreKept
<1>8. Get(store, k) = m[k] /\ m[k] \in {None, written[k]} /\ (Valid(k, dnsNow) => m[k] # None \/ k \in swept)
  BY <1>6, <1>7, GetIs DEF Kept
<1>9. CleanerSound'
  BY <1>0 DEF CleanerSound
<1>10. CASE m[k] # None /\ ~IsExpired(m[k], t)
  <2>1. caller' = "hit" /\ found' = <<k, m[k]>> /\ UNCHANGED <<store, query>>
    BY <1>2, <1>5, <1>8, <1>10 DEF Lookup
  <2>2. m[k] = written[k] /\ written[k] \in CacheRecord
    BY <1>6, <1>8, <1>10 DEF Contents
  <2>3. StoreKept'
    BY <2>1, <1>0, StoreFades
  <2>4. /\ p + 1 \in Nat /\ p + 1 \in 1..Len(Names(d)) /\ QueryOf(d, w, t)'
        /\ Names(d)[p + 1] = k /\ PassedBy(d, (p + 1) - 1)'
        /\ found' = <<k, written'[k]>> /\ written'[k] \in CacheRecord /\ ~IsExpired(written'[k], t)
    <3>1. (p + 1) - 1 = p
      OBVIOUS
    <3>2. QueryOf(d, w, t)'
      BY <1>0, <1>1, <2>1 DEF QueryOf
    <3>3. PassedBy(d, p)'
      BY <1>0, <1>1 DEF PassedBy, Answers, Valid
    <3> QED BY <3>1, <3>2, <3>3, <1>0, <1>6, <1>10, <2>1, <2>2
  <2>5. Hitting'
    BY <2>4, <1>6 DEF Hitting
  <2> QED BY <2>1, <2>3, <2>5, <1>0, <1>9 DEF CallerSound
<1>11. CASE ~(m[k] # None /\ ~IsExpired(m[k], t))
  <2>1. /\ query' = [query EXCEPT !.left = Tail(@)] /\ UNCHANGED <<caller, found>>
        /\ store' = IF m[k] # None THEN Delete(store, k) ELSE store
    BY <1>2, <1>5, <1>8, <1>11 DEF Lookup
  <2>2. ~Answers(k) /\ (m[k] # None => ~Valid(k, dnsNow))
    <3>1. CASE m[k] = None
      BY <3>1, <1>8 DEF Answers
    <3>2. CASE m[k] # None
      <4>1. m[k] = written[k] /\ written[k] \in CacheRecord /\ IsExpired(written[k], t)
        BY <1>6, <1>8, <1>11, <3>2 DEF Contents
      <4>2. written[k].created \in Nat /\ written[k].ttl \in Nat /\ t - written[k].created >= written[k].ttl
        BY <4>1 DEF CacheRecord, IsExpired
      <4>3. ~(dnsNow < written[k].created + written[k].ttl)
        BY <4>2, <1>2
      <4> QED BY <4>3 DEF Valid, Answers
    <3> QED BY <3>1, <3>2
  <2>3. StoreKept'
    <3>1. CASE m[k] = None
      BY <3>1, <2>1, <1>0, StoreFades
    <3>2. CASE m[k] # None
      BY <3>2, <2>1, <2>2, <1>0, <1>6, DeleteKeeps
    <3> QED BY <3>1, <3>2
  <2>4. PICK v : v = Tail(w)
    OBVIOUS
  <2>5. v \in Seq(Keys) /\ Len(v) = l - 1 /\ \A i \in 1..(l - 1) : v[i] = w[i + 1]
    BY <1>3, <1>4, <2>4, HeadTailProperties
  <2>6. Rest(v, Names(d), p + 1)
    <3>1. Len(Names(d)) = p + l
      BY <1>1, <1>3 DEF Rest
    <3>2. ASSUME NEW i \in 1..(l - 1) PROVE v[i] = Names(d)[(p + 1) + i]
      <4>1. i + 1 \in 1..l /\ p + (i + 1) = (p + 1) + i
        OBVIOUS
      <4> QED BY <4>1, <1>1, <1>3, <2>5 DEF Rest
    <3>3. Len(Names(d)) = (p + 1) + Len(v)
      BY <3>1, <2>5
    <3> QED BY <3>2, <3>3, <2>5 DEF Rest
  <2>7. PassedBy(d, p + 1)'
    <3>1. \A i \in 1..(p + 1) : i \in 1..p \/ i = p + 1
      OBVIOUS
    <3>2. \A i \in 1..(p + 1) : ~Answers(Names(d)[i])
      BY <3>1, <1>1, <1>6, <2>2 DEF PassedBy
    <3> QED BY <3>2, <1>0 DEF PassedBy, Answers, Valid
  <2>8. QueryOf(d, v, t)'
    BY <1>0, <1>2, <2>1, <2>4 DEF QueryOf
  <2>9. Looking'
    BY <2>5, <2>6, <2>7, <2>8 DEF Looking
  <2> QED BY <2>1, <2>3, <2>9, <1>0, <1>9 DEF CallerSound
<1> QED BY <1>10, <1>11

\* What a hit stores again.
LEMMA HitFacts ==
  ASSUME CacheInv, Hit
  PROVE  \E k \in Keys, r \in CacheRecord :
           /\ found = <<k, written[k]>> /\ written[k] \in CacheRecord
           /\ store' = Set(store, k, r) /\ written' = Changed(written, k, r) /\ swept' = swept \ {k}
<1>1. caller = "hit"
  BY DEF Hit
<1>2. PICK k \in Keys : found = <<k, written[k]>> /\ written[k] \in CacheRecord
  BY <1>1 DEF CacheInv, CallerSound, Hitting
<1> DEFINE r == [written[k] EXCEPT !.hits = @ + 1]
<1>3. r \in CacheRecord
  BY <1>2 DEF CacheRecord
<1>4. found[1] = k /\ found[2] = written[k]
  BY <1>2
<1>5. store' = Set(store, k, r) /\ swept' = swept \ {k}
  BY <1>4 DEF Hit
<1>6. written' = Changed(written, k, r)
  BY <1>4 DEF Hit, Changed
<1> QED BY <1>2, <1>3, <1>5, <1>6

\* The invariant is inductive.
LEMMA CacheInductive == CacheInv /\ [DNSNext]_dnsVars => CacheInv'
<1> SUFFICES ASSUME CacheInv, [DNSNext]_dnsVars PROVE CacheInv'
  OBVIOUS
<1> USE DEF CacheInv
<1>1. CASE Resolve
  <2>1. PICK d \in Domains : query' = [domain |-> d, left |-> Names(d), at |-> dnsNow]
    BY <1>1 DEF Resolve
  <2>2. caller' = "lookup" /\ UNCHANGED <<store, dnsNow, cleaner, condemned, written, swept>>
    BY <1>1 DEF Resolve
  <2>3. QueryOf(d, Names(d), dnsNow)' /\ Names(d) \in Seq(Keys)
    BY <2>1, <2>2, NamesAre DEF QueryOf
  <2>4. Rest(Names(d), Names(d), 0) /\ PassedBy(d, 0)'
    <3>1. Len(Names(d)) \in Nat
      BY <2>3, LenProperties
    <3> QED BY <3>1, <2>3 DEF Rest, PassedBy
  <2>5. \A t : t = dnsNow => QueryOf(d, Names(d), t)'
    BY <2>1, <2>2 DEF QueryOf
  <2>6. Looking'
    BY <2>3, <2>4, <2>5 DEF Looking
  <2>7. StoreKept' /\ CleanerSound'
    BY <2>2, StoreFades DEF CleanerSound
  <2> QED BY <2>2, <2>6, <2>7 DEF CallerSound
<1>2. CASE Lookup
  BY <1>2, LookupKeeps
<1>3. CASE Hit
  <2>1. PICK k \in Keys, r \in CacheRecord :
          store' = Set(store, k, r) /\ written' = Changed(written, k, r) /\ swept' = swept \ {k}
    BY <1>3, HitFacts
  <2>2. caller' = "idle" /\ UNCHANGED <<dnsNow, cleaner, condemned>>
    BY <1>3 DEF Hit
  <2>3. StoreKept' /\ written' \in Contents
    BY <2>1, <2>2, WriteKeeps
  <2> QED BY <2>2, <2>3 DEF CallerSound, CleanerSound
<1>4. CASE Miss
  <2>1. caller = "lookup" /\ caller' = "upstream" /\ UNCHANGED <<store, dnsNow, query, cleaner, condemned, written, swept>>
    BY <1>4 DEF Miss
  <2>2. StoreKept' /\ CleanerSound'
    BY <2>1, StoreFades DEF CleanerSound
  <2>3. Asking'
    BY <2>1 DEF CallerSound, Looking, Asking, QueryOf
  <2> QED BY <2>1, <2>2, <2>3 DEF CallerSound
<1>5. CASE UpstreamAnswers
  <2>1. caller = "upstream" /\ caller' = "idle" /\ UNCHANGED <<dnsNow, cleaner, condemned>>
    BY <1>5 DEF UpstreamAnswers
  <2>2. PICK d \in Domains, w \in Seq(Keys), t \in Nat : QueryOf(d, w, t)
    BY <2>1 DEF CallerSound, Asking
  <2> DEFINE r == [ip |-> "upstream", ttl |-> DefaultTTL, created |-> t, hits |-> 0]
  <2>3. query.domain = d /\ query.at = t
    BY <2>2 DEF QueryOf
  <2>4. r \in CacheRecord /\ d \in Keys
    BY DNSConstants, NamesAre DEF CacheRecord
  <2>5. store' = Set(store, d, r) /\ written' = Changed(written, d, r) /\ swept' = swept \ {d}
    BY <1>5, <2>3 DEF UpstreamAnswers, Write, Changed
  <2> HIDE DEF r
  <2>6. StoreKept' /\ written' \in Contents
    BY <2>1, <2>4, <2>5, WriteKeeps
  <2> QED BY <2>1, <2>6 DEF CallerSound, CleanerSound
<1>6. CASE UpstreamFails
  <2>1. caller' = "idle" /\ UNCHANGED <<store, dnsNow, cleaner, condemned, written, swept>>
    BY <1>6 DEF UpstreamFails
  <2>2. StoreKept' /\ CleanerSound'
    BY <2>1, StoreFades DEF CleanerSound
  <2> QED BY <2>1, <2>2 DEF CallerSound
<1>7. CASE AddRecord
  <2>1. caller = "idle" /\ UNCHANGED <<caller, dnsNow, cleaner, condemned>>
    BY <1>7 DEF AddRecord
  <2>2. PICK k \in Added, ttl \in TTLs : Write(k, [ip |-> "added", ttl |-> ttl, created |-> dnsNow, hits |-> 0])
    BY <1>7 DEF AddRecord
  <2> DEFINE r == [ip |-> "added", ttl |-> ttl, created |-> dnsNow, hits |-> 0]
  <2>3. r \in CacheRecord /\ k \in Keys
    BY DNSConstants DEF CacheRecord, Keys
  <2>4. store' = Set(store, k, r) /\ written' = Changed(written, k, r) /\ swept' = swept \ {k}
    BY <2>2 DEF Write, Changed
  <2> HIDE DEF r
  <2>5. StoreKept' /\ written' \in Contents
    BY <2>1, <2>3, <2>4, WriteKeeps
  <2> QED BY <2>1, <2>5 DEF CallerSound, CleanerSound
<1>8. CASE StartSweep
  <2>1. UNCHANGED <<store, dnsNow, caller, query, found, condemned, written, swept>>
        /\ cleaner' = [keys |-> StoreKeys(store), at |-> dnsNow]
    BY <1>8 DEF StartSweep
  <2>2. StoreKept' /\ CallerSound'
    BY <2>1, StoreFades, CallerKeeps
  <2>3. CleanerSound'
    BY <2>1 DEF CleanerSound, StoreKeys
  <2> QED BY <2>1, <2>2, <2>3
<1>9. CASE SweepGet
  <2>1. UNCHANGED <<store, dnsNow, caller, query, found, written, swept>>
    BY <1>9 DEF SweepGet
  <2>2. StoreKept' /\ CallerSound'
    BY <2>1, StoreFades, CallerKeeps
  <2>3. PICK k \in cleaner.keys : condemned' \in {<<k>>, <<>>} /\ cleaner' = [cleaner EXCEPT !.keys = @ \ {k}]
    BY <1>9 DEF SweepGet
  <2>4. cleaner' \in [keys : SUBSET Keys, at : Nat] /\ cleaner'.at = cleaner.at
    BY <2>3 DEF CleanerSound
  <2>5. k \in Keys
    BY DEF CleanerSound
  <2>6. CleanerSound'
    BY <2>1, <2>3, <2>4, <2>5 DEF CleanerSound
  <2> QED BY <2>1, <2>2, <2>6
<1>10. CASE SweepDelete
  <2>1. condemned # <<>> /\ condemned' = <<>> /\ UNCHANGED <<dnsNow, caller, query, found, cleaner, written>>
    BY <1>10 DEF SweepDelete
  <2>2. PICK k \in Keys : condemned = <<k>>
    BY <2>1 DEF CleanerSound
  <2>3. condemned[1] = k
    BY <2>2
  <2>4. /\ store' = Delete(store, k)
        /\ swept' = IF Get(store, k) # None /\ ~IsExpired(Get(store, k), cleaner.at) THEN swept \cup {k} ELSE swept
    BY <1>10, <2>3 DEF SweepDelete
  <2>5. Valid(k, dnsNow) /\ Get(store, k) # None => k \in swept'
    <3> SUFFICES ASSUME Valid(k, dnsNow), Get(store, k) # None PROVE ~IsExpired(Get(store, k), cleaner.at)
      BY <2>4
    <3>1. PICK m \in Contents : Storing(store, m) /\ Kept(m)
      BY DEF StoreKept
    <3>2. Get(store, k) = written[k] /\ written[k] \in CacheRecord
      BY <3>1, GetIs DEF Kept, Contents
    <3>3. written[k].created \in Nat /\ written[k].ttl \in Nat /\ dnsNow < written[k].created + written[k].ttl
      BY <3>2 DEF CacheRecord, Valid
    <3>4. cleaner.at \in Nat /\ cleaner.at <= dnsNow
      BY DEF CleanerSound
    <3>5. ~(cleaner.at - written[k].created >= written[k].ttl)
      BY <3>3, <3>4
    <3> QED BY <3>2, <3>5 DEF IsExpired
  <2>6. StoreKept' /\ CallerSound'
    BY <2>1, <2>4, <2>5, DeleteKeeps, CallerKeeps
  <2> QED BY <2>1, <2>6 DEF CleanerSound
<1>11. CASE Second
  <2>1. UNCHANGED <<store, caller, query, found, cleaner, condemned, written, swept>> /\ dnsNow' = dnsNow + 1
    BY <1>11 DEF Second
  <2>2. dnsNow' \in Nat /\ dnsNow <= dnsNow'
    BY <2>1
  <2>3. StoreKept' /\ CallerSound'
    BY <2>1, <2>2, StoreFades, CallerKeeps
  <2>4. CleanerSound'
    BY <2>1 DEF CleanerSound
  <2> QED BY <2>1, <2>2, <2>3, <2>4
<1>12. CASE UNCHANGED dnsVars
  <2>1. UNCHANGED <<store, dnsNow, caller, query, found, cleaner, condemned, written, swept>>
    BY <1>12 DEF dnsVars
  <2>2. StoreKept' /\ CallerSound' /\ CleanerSound'
    BY <2>1, StoreFades, CallerKeeps DEF CleanerSound
  <2> QED BY <2>1, <2>2
<1> QED BY <1>1, <1>2, <1>3, <1>4, <1>5, <1>6, <1>7, <1>8, <1>9, <1>10, <1>11, <1>12 DEF DNSNext

\* What AnswersCurrent says of a step.
CurrentStep ==
  /\ caller = "hit" /\ caller' = "idle" =>
       /\ found[2] = written[found[1]] /\ Valid(found[1], query.at)
       /\ \A i \in DOMAIN Names(query.domain) :
            (\A j \in 1..i : Names(query.domain)[j] # found[1]) => ~Answers(Names(query.domain)[i])
  /\ caller = "lookup" /\ caller' = "upstream" =>
       \A i \in DOMAIN Names(query.domain) : ~Answers(Names(query.domain)[i])

LEMMA CurrentKept == CacheInv /\ [DNSNext]_dnsVars => CurrentStep
<1> SUFFICES ASSUME CacheInv, [DNSNext]_dnsVars PROVE CurrentStep
  OBVIOUS
<1>1. ASSUME caller = "hit"
      PROVE  /\ found[2] = written[found[1]] /\ Valid(found[1], query.at)
             /\ \A i \in DOMAIN Names(query.domain) :
                  (\A j \in 1..i : Names(query.domain)[j] # found[1]) => ~Answers(Names(query.domain)[i])
  <2>1. PICK d \in Domains, w \in Seq(Keys), t \in Nat, k \in Keys, p \in Nat :
          /\ p \in 1..Len(Names(d)) /\ QueryOf(d, w, t) /\ Names(d)[p] = k /\ PassedBy(d, p - 1)
          /\ found = <<k, written[k]>> /\ written[k] \in CacheRecord /\ ~IsExpired(written[k], t)
    BY <1>1 DEF CacheInv, CallerSound, Hitting
  <2>2. query.domain = d /\ query.at = t /\ found[1] = k /\ found[2] = written[k]
    BY <2>1 DEF QueryOf
  <2>3. Valid(k, t)
    <3>1. written[k].created \in Nat /\ written[k].ttl \in Nat /\ ~(t - written[k].created >= written[k].ttl)
      BY <2>1 DEF CacheRecord, IsExpired
    <3>2. t < written[k].created + written[k].ttl
      BY <3>1
    <3> QED BY <3>2, <2>1, RecordNotNone DEF Valid
  <2>4. ASSUME NEW i \in DOMAIN Names(d), \A j \in 1..i : Names(d)[j] # k PROVE ~Answers(Names(d)[i])
    <3>1. i \in 1..Len(Names(d)) /\ Len(Names(d)) \in Nat
      BY NamesAre, LenProperties
    <3>2. ~(p <= i)
      BY <2>1, <2>4, <3>1
    <3>3. i \in 1..(p - 1)
      BY <3>1, <3>2
    <3> QED BY <3>3, <2>1 DEF PassedBy
  <2> QED BY <2>2, <2>3, <2>4
<1>2. ASSUME caller = "lookup", caller' = "upstream"
      PROVE  \A i \in DOMAIN Names(query.domain) : ~Answers(Names(query.domain)[i])
  <2>1. query.left = <<>>
    BY <1>2 DEF DNSNext, dnsVars, Resolve, Lookup, Hit, Miss, UpstreamAnswers, UpstreamFails, AddRecord,
                StartSweep, SweepGet, SweepDelete, Second
  <2>2. PICK d \in Domains, w \in Seq(Keys), t \in Nat, p \in Nat :
          QueryOf(d, w, t) /\ Rest(w, Names(d), p) /\ PassedBy(d, p)
    BY <1>2 DEF CacheInv, CallerSound, Looking
  <2>3. w = <<>> /\ query.domain = d
    BY <2>1, <2>2 DEF QueryOf
  <2>4. Len(Names(d)) = p
    BY <2>2, <2>3, EmptySeq DEF Rest
  <2>5. DOMAIN Names(d) = 1..p
    BY <2>4, NamesAre, LenProperties
  <2> QED BY <2>2, <2>3, <2>5 DEF PassedBy
<1> QED BY <1>1, <1>2 DEF CurrentStep

\* The cache serves what was written last and nothing expired (resolver.go), whichever store it
\* uses: for all domains and records, every hash function, and a table of any size.
THEOREM CacheServesCurrent == DNSSpec => CacheExact
<1>1. DNSSpec => []CacheInv
  BY CacheInitially, CacheInductive, PTL DEF DNSSpec
<1>2. DNSSpec => []StoreSound
  BY <1>1, InvStoreSound, PTL
<1>3. DNSSpec => [][CurrentStep]_dnsVars
  BY <1>1, CurrentKept, PTL DEF DNSSpec
<1>4. [CurrentStep]_dnsVars <=>
        [/\ caller = "hit" /\ caller' = "idle" =>
              /\ found[2] = written[found[1]] /\ Valid(found[1], query.at)
              /\ \A i \in DOMAIN Names(query.domain) :
                   (\A j \in 1..i : Names(query.domain)[j] # found[1]) => ~Answers(Names(query.domain)[i])
         /\ caller = "lookup" /\ caller' = "upstream" =>
              \A i \in DOMAIN Names(query.domain) : ~Answers(Names(query.domain)[i])]_dnsVars
  BY DEF CurrentStep
<1>5. DNSSpec => AnswersCurrent
  BY <1>3, <1>4, PTL DEF AnswersCurrent
<1> QED BY <1>2, <1>5 DEF CacheExact

-----------------------------------------------------------------------------
(* The text editor keeps the history of the document it promises: its texts first. *)

\* Sequences of the same length with the same elements are the same.
LEMMA SameSequence ==
  ASSUME NEW S, NEW s \in Seq(S), NEW t \in Seq(S), NEW l \in Nat, Len(s) = l, Len(t) = l,
         \A i \in 1..l : s[i] = t[i]
  PROVE  s = t
<1>1. s \in [1..l -> S] /\ t \in [1..l -> S]
  BY LenProperties
<1>2. s = [i \in 1..l |-> s[i]] /\ t = [i \in 1..l |-> t[i]]
  BY <1>1
<1>3. [i \in 1..l |-> s[i]] = [i \in 1..l |-> t[i]]
  OBVIOUS
<1> QED BY <1>2, <1>3

\* The letters of a text with a part replaced.
Spliced(r, text, pos, len, new) ==
  /\ Len(r) = Len(text) - len + Len(new)
  /\ \A i \in 1..pos : r[i] = text[i]
  /\ \A i \in 1..Len(new) : r[pos + i] = new[i]
  /\ \A i \in 1..(Len(text) - pos - len) : r[pos + Len(new) + i] = text[pos + len + i]

LEMMA SpliceIs ==
  ASSUME NEW S, NEW text \in Seq(S), NEW new \in Seq(S), NEW pos \in Nat, NEW len \in Nat, pos + len <= Len(text)
  PROVE  Splice(text, pos, len, new) \in Seq(S) /\ Spliced(Splice(text, pos, len, new), text, pos, len, new)
<1> DEFINE x == SubSeq(text, 1, pos)
           y == SubSeq(text, pos + len + 1, Len(text))
           r == Splice(text, pos, len, new)
<1>1. PICK l \in Nat : l = Len(text)
  BY LenProperties
<1>2. PICK o \in Nat : o = Len(new)
  BY LenProperties
<1>3. PICK q \in Nat : q = l - (pos + len)
  <2>1. pos + len <= l
    BY <1>1
  <2>2. l - (pos + len) \in Nat
    BY <2>1
  <2> QED BY <2>2
<1>4. x \in Seq(S) /\ Len(x) = pos /\ \A i \in 1..pos : x[i] = text[i]
  <2>1. \A i \in 1..pos : text[i] \in S
    BY <1>1, ElementOfSeq
  <2>2. x \in Seq(S) /\ Len(x) = IF 1 <= pos THEN (pos - 1) + 1 ELSE 0
    BY <2>1, SubSeqProperties
  <2>3. \A i \in 1..((pos - 1) + 1) : x[i] = text[(1 + i) - 1]
    BY <2>1, SubSeqProperties
  <2> QED BY <2>2, <2>3
<1>5. y \in Seq(S) /\ Len(y) = q /\ \A i \in 1..q : y[i] = text[pos + len + i]
  <2>0. PICK a \in Nat : a = pos + len + 1
    OBVIOUS
  <2>1. \A i \in a..l : text[i] \in S
    <3> TAKE i \in a..l
    <3>1. i \in 1..Len(text)
      BY <1>1, <2>0
    <3> QED BY <3>1, ElementOfSeq
  <2>2. y = SubSeq(text, a, l)
    BY <1>1, <2>0
  <2>3. y \in Seq(S) /\ Len(y) = IF a <= l THEN (l - a) + 1 ELSE 0
    BY <2>1, <2>2, SubSeqProperties
  <2>4. \A i \in 1..((l - a) + 1) : y[i] = text[(a + i) - 1]
    BY <2>1, <2>2, SubSeqProperties
  <2>5. Len(y) = q /\ (l - a) + 1 = q
    BY <1>1, <1>3, <2>0, <2>3
  <2>6. ASSUME NEW i \in 1..q PROVE y[i] = text[pos + len + i]
    <3>1. (a + i) - 1 = pos + len + i /\ i \in 1..((l - a) + 1)
      BY <2>0, <2>5
    <3> QED BY <3>1, <2>4
  <2> QED BY <2>3, <2>5, <2>6
<1>6. r = (x \o new) \o y
  BY DEF Splice
<1> HIDE DEF x, y
<1> DEFINE z == x \o new
<1>7. z \in Seq(S) /\ Len(z) = pos + o /\ (\A i \in 1..pos : z[i] = text[i]) /\ \A i \in 1..o : z[pos + i] = new[i]
  <2>1. z \in Seq(S) /\ Len(z) = pos + o
    BY <1>2, <1>4, ConcatProperties
  <2>2. \A i \in 1..(pos + o) : z[i] = IF i <= pos THEN x[i] ELSE new[i - pos]
    BY <1>2, <1>4, ConcatProperties
  <2>3. ASSUME NEW i \in 1..pos PROVE z[i] = text[i]
    <3>1. i \in 1..(pos + o) /\ i <= pos
      BY <1>2
    <3> QED BY <3>1, <2>2, <1>4
  <2>4. ASSUME NEW i \in 1..o PROVE z[pos + i] = new[i]
    <3>1. pos + i \in 1..(pos + o) /\ ~(pos + i <= pos) /\ (pos + i) - pos = i
      BY <1>2
    <3> QED BY <3>1, <2>2
  <2> QED BY <2>1, <2>3, <2>4
<1>14. r = z \o y
  BY <1>6
<1> HIDE DEF z, r
<1>8. r \in Seq(S) /\ Len(r) = (pos + o) + q
  <2>1. z \o y \in Seq(S) /\ Len(z \o y) = Len(z) + Len(y)
    BY <1>5, <1>7, ConcatProperties
  <2> QED BY <2>1, <1>5, <1>7, <1>14
<1>9. \A i \in 1..((pos + o) + q) : r[i] = IF i <= pos + o THEN z[i] ELSE y[i - (pos + o)]
  <2>1. \A i \in 1..(Len(z) + Len(y)) : (z \o y)[i] = IF i <= Len(z) THEN z[i] ELSE y[i - Len(z)]
    BY <1>5, <1>7, ConcatProperties
  <2> QED BY <2>1, <1>5, <1>7, <1>14
<1>10. ASSUME NEW i \in 1..pos PROVE r[i] = text[i]
  <2>1. i \in 1..((pos + o) + q) /\ i <= pos + o
    OBVIOUS
  <2> QED BY <2>1, <1>7, <1>9
<1>11. ASSUME NEW i \in 1..o PROVE r[pos + i] = new[i]
  <2>1. pos + i \in 1..((pos + o) + q) /\ pos + i <= pos + o
    OBVIOUS
  <2> QED BY <2>1, <1>7, <1>9
<1>12. ASSUME NEW i \in 1..q PROVE r[pos + o + i] = text[pos + len + i]
  <2>1. pos + o + i \in 1..((pos + o) + q) /\ ~(pos + o + i <= pos + o) /\ (pos + o + i) - (pos + o) = i
    OBVIOUS
  <2> QED BY <2>1, <1>5, <1>9
<1>13. Len(r) = l - len + o /\ l - pos - len = q
  BY <1>1, <1>3, <1>8
<1> QED BY <1>1, <1>2, <1>8, <1>10, <1>11, <1>12, <1>13 DEF Spliced, r

LEMMA SubstringIs ==
  ASSUME NEW S, NEW text \in Seq(S), NEW pos \in Nat, NEW len \in Nat, pos + len <= Len(text)
  PROVE  /\ Substring(text, pos, len) \in Seq(S) /\ Len(Substring(text, pos, len)) = len
         /\ \A i \in 1..len : Substring(text, pos, len)[i] = text[pos + i]
<1>1. PICK l \in Nat : l = Len(text)
  BY LenProperties
<1>2. PICK a \in Nat : a = pos + 1
  OBVIOUS
<1>3. PICK b \in Nat : b = pos + len
  OBVIOUS
<1>4. Substring(text, pos, len) = SubSeq(text, a, b)
  BY <1>2, <1>3 DEF Substring
<1>5. \A i \in a..b : text[i] \in S
  <2> TAKE i \in a..b
  <2>1. i \in 1..Len(text)
    BY <1>1, <1>2, <1>3
  <2> QED BY <2>1, ElementOfSeq
<1>6. SubSeq(text, a, b) \in Seq(S) /\ Len(SubSeq(text, a, b)) = IF a <= b THEN (b - a) + 1 ELSE 0
  BY <1>5, SubSeqProperties
<1>7. \A i \in 1..((b - a) + 1) : SubSeq(text, a, b)[i] = text[(a + i) - 1]
  BY <1>5, SubSeqProperties
<1>8. (b - a) + 1 = len /\ (a <= b <=> len > 0)
  BY <1>2, <1>3
<1>9. \A i \in 1..len : (a + i) - 1 = pos + i
  BY <1>2
<1>10. PICK r : r = SubSeq(text, a, b)
  OBVIOUS
<1>11. r \in Seq(S) /\ Len(r) = len
  BY <1>6, <1>8, <1>10
<1>12. ASSUME NEW i \in 1..len PROVE r[i] = text[pos + i]
  <2>1. i \in 1..((b - a) + 1)
    BY <1>8
  <2>2. r[i] = text[(a + i) - 1]
    BY <2>1, <1>7, <1>10
  <2> QED BY <2>2, <1>9
<1> QED BY <1>4, <1>10, <1>11, <1>12

\* Putting the old part back gives the old text, and the new part is where it was put.
LEMMA SpliceBack ==
  ASSUME NEW S, NEW text \in Seq(S), NEW new \in Seq(S), NEW pos \in Nat, NEW len \in Nat, pos + len <= Len(text),
         NEW r, r = Splice(text, pos, len, new), NEW old, old = Substring(text, pos, len)
  PROVE  /\ Splice(r, pos, Len(new), old) = text
         /\ Substring(r, pos, Len(new)) = new
         /\ pos + Len(new) <= Len(r)
<1>1. PICK l \in Nat : l = Len(text)
  BY LenProperties
<1>2. PICK o \in Nat : o = Len(new)
  BY LenProperties
<1>3. PICK q \in Nat : q = l - (pos + len)
  <2>1. pos + len <= l
    BY <1>1
  <2>2. l - (pos + len) \in Nat
    BY <2>1
  <2> QED BY <2>2
<1>4. r \in Seq(S) /\ Spliced(r, text, pos, len, new)
  BY SpliceIs
<1>5. l - pos - len = q /\ Len(r) = l - len + o
  BY <1>1, <1>2, <1>3, <1>4 DEF Spliced
<1>6. Len(r) = pos + o + q /\ l = pos + len + q
  BY <1>1, <1>3, <1>5
<1>7. /\ \A i \in 1..pos : r[i] = text[i]
      /\ \A i \in 1..o : r[pos + i] = new[i]
      /\ \A i \in 1..q : r[pos + o + i] = text[pos + len + i]
  BY <1>1, <1>2, <1>4, <1>5 DEF Spliced
<1>8. pos + o <= Len(r)
  BY <1>6
<1>9. old \in Seq(S) /\ Len(old) = len /\ \A i \in 1..len : old[i] = text[pos + i]
  BY SubstringIs
<1>10. Substring(r, pos, o) = new
  <2>1. /\ Substring(r, pos, o) \in Seq(S) /\ Len(Substring(r, pos, o)) = o
        /\ \A i \in 1..o : Substring(r, pos, o)[i] = r[pos + i]
    BY <1>4, <1>8, SubstringIs
  <2>2. \A i \in 1..o : Substring(r, pos, o)[i] = new[i]
    BY <2>1, <1>7
  <2> QED BY <2>1, <2>2, <1>2, SameSequence
<1>11. PICK b : b = Splice(r, pos, o, old)
  OBVIOUS
<1>12. b \in Seq(S) /\ Spliced(b, r, pos, o, old)
  BY <1>4, <1>8, <1>9, <1>11, SpliceIs
<1>13. /\ Len(b) = Len(r) - o + len
       /\ \A i \in 1..pos : b[i] = r[i]
       /\ \A i \in 1..len : b[pos + i] = old[i]
       /\ \A i \in 1..(Len(r) - pos - o) : b[pos + len + i] = r[pos + o + i]
  BY <1>9, <1>12 DEF Spliced
<1>14. Len(b) = l /\ Len(r) - pos - o = q
  BY <1>6, <1>13
<1>15. ASSUME NEW i \in 1..l PROVE b[i] = text[i]
  <2>1. CASE i \in 1..pos
    BY <2>1, <1>7, <1>13
  <2>2. CASE i > pos /\ i <= pos + len
    <3>1. PICK j \in 1..len : i = pos + j
      <4>1. i - pos \in 1..len /\ i = pos + (i - pos)
        BY <2>2
      <4> QED BY <4>1
    <3> QED BY <3>1, <1>9, <1>13
  <2>3. CASE i > pos + len
    <3>1. PICK j \in 1..q : i = pos + len + j
      <4>1. i - (pos + len) \in 1..q /\ i = pos + len + (i - (pos + len))
        BY <2>3, <1>6
      <4> QED BY <4>1
    <3>2. b[pos + len + j] = r[pos + o + j]
      BY <3>1, <1>13, <1>14
    <3>3. r[pos + o + j] = text[pos + len + j]
      BY <3>1, <1>7
    <3> QED BY <3>1, <3>2, <3>3
  <2> QED BY <2>1, <2>2, <2>3
<1>16. b = text
  BY <1>1, <1>12, <1>14, <1>15, SameSequence
<1> QED BY <1>2, <1>8, <1>10, <1>11, <1>16

\* The last format added is the one taken away.
LEMMA WithoutLastIs ==
  ASSUME NEW S, NEW s \in Seq(S), NEW e \in S
  PROVE  WithoutLast(Append(s, e), e) = s
<1> DEFINE t == Append(s, e)
           same == {i \in DOMAIN t : t[i] = e}
           last == CHOOSE i \in same : \A j \in same : j <= i
<1>1. PICK l \in Nat : l = Len(s)
  BY LenProperties
<1>2. t \in Seq(S) /\ Len(t) = l + 1 /\ DOMAIN t = 1..(l + 1) /\ t[l + 1] = e /\ \A i \in 1..l : t[i] = s[i]
  <2>1. t \in Seq(S) /\ Len(t) = Len(s) + 1 /\ t[Len(s) + 1] = e /\ \A i \in 1..Len(s) : t[i] = s[i]
    BY AppendProperties
  <2> QED BY <2>1, <1>1, LenProperties
<1>3. l + 1 \in same /\ \A j \in same : j <= l + 1
  BY <1>2
<1>4. last \in same /\ \A j \in same : j <= last
  BY <1>3
<1>5. last = l + 1
  <2>1. last \in 1..(l + 1)
    BY <1>2, <1>4
  <2> HIDE DEF last, same
  <2> QED BY <2>1, <1>3, <1>4
<1>6. WithoutLast(t, e) = SubSeq(t, 1, last - 1) \o SubSeq(t, last + 1, Len(t))
  BY <1>3 DEF WithoutLast
<1> HIDE DEF last, same
<1>7. SubSeq(t, last + 1, Len(t)) = <<>>
  <2>1. last + 1 \in Int /\ Len(t) \in Int /\ Len(t) < last + 1
    BY <1>2, <1>5
  <2> QED BY <2>1, SubSeqEmpty
<1>8. SubSeq(t, 1, last - 1) = s
  <2>1. last - 1 = l
    BY <1>5
  <2>2. \A i \in 1..l : t[i] \in S
    BY <1>1, <1>2, ElementOfSeq
  <2> HIDE DEF t
  <2>3. SubSeq(t, 1, l) \in Seq(S) /\ Len(SubSeq(t, 1, l)) = IF 1 <= l THEN (l - 1) + 1 ELSE 0
    BY <2>2, SubSeqProperties
  <2>4. \A i \in 1..((l - 1) + 1) : SubSeq(t, 1, l)[i] = t[(1 + i) - 1]
    BY <2>2, SubSeqProperties
  <2> DEFINE u == SubSeq(t, 1, l)
  <2>5. u \in Seq(S) /\ Len(u) = l /\ \A i \in 1..l : u[i] = s[i]
    BY <2>3, <2>4, <1>2
  <2> HIDE DEF u
  <2>6. u = s
    BY <2>5, <1>1, SameSequence
  <2> QED BY <2>1, <2>6 DEF u
<1> QED BY <1>6, <1>7, <1>8, ConcatEmptySeq

-----------------------------------------------------------------------------
(* What an operation does to a document it can be applied to, and that reversing it undoes it. *)

Format == [pos : Int, len : Int, style : Styles]
Document == [text : Seq(Alphabet), formats : Seq(Format)]

Insertion == [kind : {"insert"}, pos : Int, text : Seq(Alphabet)]
Deletion == [kind : {"delete"}, pos : Int, len : Int, deleted : Seq(Alphabet)]
Replacement == [kind : {"replace"}, pos : Int, old : Seq(Alphabet), new : Seq(Alphabet)]
Formatting == [kind : {"format"}, pos : Int, len : Int, style : Styles]

Operation == Insertion \cup Deletion \cup Replacement \cup Formatting

\* Operation op brings document d to e and, remembering what it needs for it, back.
Brings(op, d, e) ==
  /\ op \in Operation /\ d \in Document /\ e \in Document
  /\ CanApply(op, d) /\ Applied(op, d) = e /\ Remembering(op, d) = op
  /\ CanReverse(op, e) /\ Reversed(op, e) = d

\* Document d with another text.
Retold(d, t) == [d EXCEPT !.text = t]

LEMMA TextTwice ==
  ASSUME NEW d \in Document, NEW t \in Seq(Alphabet), NEW e, e = Retold(d, t)
  PROVE  e \in Document /\ e.text = t /\ Retold(e, d.text) = d
<1>1. PICK u \in Seq(Alphabet), f \in Seq(Format) : d = [text |-> u, formats |-> f]
  BY DEF Document
<1>2. e = [text |-> t, formats |-> f] /\ d.text = u
  BY <1>1 DEF Retold
<1>3. Retold(e, u) = [text |-> u, formats |-> f]
  <2>1. ASSUME NEW g, g = [text |-> t, formats |-> f] PROVE [g EXCEPT !.text = u] = [text |-> u, formats |-> f]
    BY <2>1
  <2> QED BY <2>1, <1>2 DEF Retold
<1> QED BY <1>1, <1>2, <1>3 DEF Document

LEMMA NothingTyped == <<>> \in Seq(Alphabet) /\ Len(<<>>) = 0
BY EmptySeq

LEMMA InsertionBrings ==
  ASSUME NEW op \in Insertion, NEW d \in Document, CanApply(op, d)
  PROVE  Brings(op, d, Applied(op, d)) /\ Remembering(op, d) = op
<1> DEFINE t == d.text
           e == Applied(op, d)
           r == Splice(t, op.pos, 0, op.text)
<1>1. op.kind = "insert" /\ op.text \in Seq(Alphabet) /\ t \in Seq(Alphabet) /\ op \in Operation
  BY DEF Insertion, Document, Operation
<1>2. PICK l \in Nat : l = Len(t)
  BY <1>1, LenProperties
<1>3. PICK o \in Nat : o = Len(op.text)
  BY <1>1, LenProperties
<1>4. PICK pos \in Nat : pos = op.pos /\ pos <= l
  BY <1>1, <1>2 DEF CanApply
<1>5. pos + 0 <= Len(t) /\ 0 \in Nat
  BY <1>2, <1>4
<1>6. r \in Seq(Alphabet)
  BY <1>1, <1>4, <1>5, SpliceIs
<1>7. Substring(t, pos, 0) = <<>>
  <2>1. Substring(t, pos, 0) \in Seq(Alphabet) /\ Len(Substring(t, pos, 0)) = 0
    BY <1>1, <1>5, SubstringIs
  <2> QED BY <2>1, EmptySeq
<1>8. Splice(r, pos, o, <<>>) = t /\ pos + o <= Len(r)
  BY <1>1, <1>3, <1>4, <1>5, <1>7, SpliceBack
<1>9. e = Retold(d, r)
  BY <1>1 DEF Applied, Retold
<1> HIDE DEF r
<1>10. e \in Document /\ e.text = r /\ Retold(e, t) = d
  BY <1>6, <1>9, TextTwice
<1> HIDE DEF e
<1>11. Reversed(op, e) = d
  <2>1. Reversed(op, e) = Retold(e, Splice(e.text, op.pos, Len(op.text), <<>>))
    BY <1>1 DEF Reversed, Retold
  <2> QED BY <2>1, <1>3, <1>4, <1>8, <1>10
<1>12. CanReverse(op, e)
  BY <1>1, <1>3, <1>4, <1>8, <1>10 DEF CanReverse
<1>13. Remembering(op, d) = op
  BY <1>1 DEF Remembering
<1> QED BY <1>1, <1>10, <1>11, <1>12, <1>13 DEF Brings, e

LEMMA DeletionBrings ==
  ASSUME NEW op \in Deletion, NEW d \in Document, CanApply(op, d)
  PROVE  Brings(Remembering(op, d), d, Applied(op, d))
<1> DEFINE t == d.text
           e == Applied(op, d)
           m == Remembering(op, d)
           r == Splice(t, op.pos, op.len, <<>>)
           s == Substring(t, op.pos, op.len)
<1>1. op.kind = "delete" /\ op.pos \in Int /\ op.len \in Int /\ t \in Seq(Alphabet)
  BY DEF Deletion, Document
<1>2. PICK l \in Nat : l = Len(t)
  BY <1>1, LenProperties
<1>3. PICK pos \in Nat : pos = op.pos /\ op.len > 0 /\ pos + op.len <= l
  BY <1>1, <1>2 DEF CanApply, InText
<1>4. PICK len \in Nat : len = op.len /\ len > 0 /\ pos + len <= Len(t)
  BY <1>1, <1>2, <1>3
<1>5. r \in Seq(Alphabet) /\ s \in Seq(Alphabet)
  BY <1>1, <1>3, <1>4, NothingTyped, SpliceIs, SubstringIs
<1>6. Splice(r, pos, 0, s) = t /\ pos + 0 <= Len(r)
  <2>1. PICK z \in Seq(Alphabet) : z = <<>> /\ Len(z) = 0
    BY NothingTyped
  <2>2. r = Splice(t, pos, len, z) /\ s = Substring(t, pos, len)
    BY <2>1, <1>3, <1>4
  <2> HIDE DEF r, s
  <2>3. Splice(r, pos, Len(z), s) = t /\ pos + Len(z) <= Len(r)
    BY <2>2, <1>1, <1>4, SpliceBack
  <2> QED BY <2>1, <2>3
<1>7. e = Retold(d, r)
  BY <1>1 DEF Applied, Retold
<1>8. m = [kind |-> "delete", pos |-> pos, len |-> len, deleted |-> s]
  <2>1. m = [op EXCEPT !.deleted = s]
    BY <1>1 DEF Remembering
  <2>2. op = [kind |-> "delete", pos |-> pos, len |-> len, deleted |-> op.deleted]
    BY <1>3, <1>4 DEF Deletion
  <2> HIDE DEF s, m
  <2> QED BY <2>1, <2>2
<1>0. CanApply(m, d) /\ Applied(m, d) = e /\ Remembering(m, d) = m
  <2>1. m.kind = "delete" /\ m.pos = op.pos /\ m.len = op.len
    BY <1>3, <1>4, <1>8
  <2>2. CanApply(m, d)
    BY <2>1, <1>1 DEF CanApply
  <2>3. Applied(m, d) = e
    BY <2>1, <1>1 DEF Applied
  <2>4. Remembering(m, d) = [m EXCEPT !.deleted = s]
    <3> HIDE DEF m
    <3> QED BY <2>1 DEF Remembering
  <2> HIDE DEF m, s
  <2>5. [m EXCEPT !.deleted = s] = m
    BY <1>8
  <2> QED BY <2>2, <2>3, <2>4, <2>5
<1> HIDE DEF r, s
<1>9. e \in Document /\ e.text = r /\ Retold(e, t) = d
  BY <1>5, <1>7, TextTwice
<1> HIDE DEF e, m
<1>10. m \in Operation /\ m.kind = "delete" /\ m.pos = pos /\ m.deleted = s
  BY <1>5, <1>8 DEF Operation, Deletion
<1>11. Reversed(m, e) = d
  <2>1. Reversed(m, e) = Retold(e, Splice(e.text, m.pos, 0, m.deleted))
    BY <1>10 DEF Reversed, Retold
  <2> QED BY <2>1, <1>6, <1>9, <1>10
<1>12. CanReverse(m, e)
  <2>1. Len(r) \in Nat
    BY <1>5, LenProperties
  <2>2. pos \in 0..Len(r)
    BY <2>1, <1>6
  <2> QED BY <2>2, <1>9, <1>10 DEF CanReverse
<1> QED BY <1>0, <1>9, <1>10, <1>11, <1>12 DEF Brings, e, m

LEMMA ReplacementBrings ==
  ASSUME NEW op \in Replacement, NEW d \in Document, CanApply(op, d)
  PROVE  Brings(op, d, Applied(op, d)) /\ Remembering(op, d) = op
<1> DEFINE t == d.text
           e == Applied(op, d)
           r == Splice(t, op.pos, Len(op.old), op.new)
<1>1. /\ op.kind = "replace" /\ op.pos \in Int /\ op.old \in Seq(Alphabet) /\ op.new \in Seq(Alphabet)
      /\ t \in Seq(Alphabet) /\ op \in Operation
  BY DEF Replacement, Document, Operation
<1>2. PICK l \in Nat : l = Len(t)
  BY <1>1, LenProperties
<1>3. PICK o \in Nat : o = Len(op.new)
  BY <1>1, LenProperties
<1>4. PICK len \in Nat : len = Len(op.old)
  BY <1>1, LenProperties
<1>5. PICK pos \in Nat : pos = op.pos /\ pos + len <= Len(t) /\ Substring(t, pos, len) = op.old
  BY <1>1, <1>2, <1>4 DEF CanApply, InText
<1>6. r \in Seq(Alphabet) /\ Len(r) \in Nat
  BY <1>1, <1>4, <1>5, SpliceIs, LenProperties
<1>7. Splice(r, pos, o, op.old) = t /\ Substring(r, pos, o) = op.new /\ pos + o <= Len(r)
  BY <1>1, <1>3, <1>4, <1>5, SpliceBack
<1>8. e = Retold(d, r)
  BY <1>1 DEF Applied, Retold
<1> HIDE DEF r
<1>9. e \in Document /\ e.text = r /\ Retold(e, t) = d
  BY <1>6, <1>8, TextTwice
<1> HIDE DEF e
<1>10. Reversed(op, e) = d
  <2>1. Reversed(op, e) = Retold(e, Splice(e.text, op.pos, Len(op.new), op.old))
    BY <1>1 DEF Reversed, Retold
  <2> QED BY <2>1, <1>3, <1>5, <1>7, <1>9
<1>11. CanReverse(op, e)
  <2>1. InText(r, pos, o)
    BY <1>6, <1>7 DEF InText
  <2> QED BY <2>1, <1>1, <1>3, <1>5, <1>7, <1>9 DEF CanReverse
<1>12. Remembering(op, d) = op
  BY <1>1 DEF Remembering
<1> QED BY <1>1, <1>9, <1>10, <1>11, <1>12 DEF Brings, e

LEMMA FormattingBrings ==
  ASSUME NEW op \in Formatting, NEW d \in Document, CanApply(op, d)
  PROVE  Brings(op, d, Applied(op, d)) /\ Remembering(op, d) = op
<1> DEFINE e == Applied(op, d)
           f == [pos |-> op.pos, len |-> op.len, style |-> op.style]
           s == Append(d.formats, f)
<1>1. /\ op.kind = "format" /\ f \in Format /\ op \in Operation
      /\ d.text \in Seq(Alphabet) /\ d.formats \in Seq(Format)
  BY DEF Formatting, Format, Document, Operation
<1>2. e = [d EXCEPT !.formats = s]
  BY <1>1 DEF Applied
<1>3. s \in Seq(Format) /\ WithoutLast(s, f) = d.formats
  BY <1>1, WithoutLastIs, AppendProperties
<1>4. Reversed(op, e) = [e EXCEPT !.formats = WithoutLast(e.formats, f)]
  BY <1>1 DEF Reversed
<1> HIDE DEF s, f, e
<1>5. d = [text |-> d.text, formats |-> d.formats]
  BY DEF Document
<1>6. e = [text |-> d.text, formats |-> s]
  BY <1>2, <1>5
<1>7. e \in Document /\ e.formats = s
  BY <1>1, <1>3, <1>6 DEF Document
<1>8. Reversed(op, e) = [text |-> d.text, formats |-> d.formats]
  BY <1>3, <1>4, <1>6, <1>7
<1>9. CanReverse(op, e) /\ Remembering(op, d) = op
  BY <1>1 DEF CanReverse, Remembering
<1> QED BY <1>1, <1>5, <1>7, <1>8, <1>9 DEF Brings, e

\* Whatever operation can be applied, with what it remembers leads from one document to the other.
LEMMA OperationBrings ==
  ASSUME NEW op \in Operation, NEW d \in Document, CanApply(op, d)
  PROVE  Brings(Remembering(op, d), d, Applied(op, d))
<1>1. op \in Insertion \/ op \in Deletion \/ op \in Replacement \/ op \in Formatting
  BY DEF Operation
<1> QED BY <1>1, InsertionBrings, DeletionBrings, ReplacementBrings, FormattingBrings

-----------------------------------------------------------------------------
(* The list of the operations made: n nodes, c[1] to c[n], and the documents ds[0] to ds[n] they
   lead through.  What c and ds hold beyond is of no account. *)

ListNode == [op : Operation \cup {<<>>}, prev : 0..MaxOps, next : 0..MaxOps]
EditList == [head : 0..MaxOps, tail : 0..MaxOps, size : 0..MaxOps, nodes : [ListNodes -> ListNode]]

\* The i-th of n nodes; there is none before the first or after the last.
NodeAt(c, n, i) == IF i \in 1..n THEN c[i] ELSE Nil

Threads(h, c, n) ==
  /\ h \in EditList /\ c \in [1..MaxOps -> ListNodes] /\ n \in 0..MaxOps
  /\ \A i, j \in 1..n : c[i] = c[j] => i = j
  /\ h.size = n /\ h.head = NodeAt(c, n, 1) /\ h.tail = NodeAt(c, n, n)
  /\ \A i \in 1..n : h.nodes[c[i]].prev = NodeAt(c, n, i - 1) /\ h.nodes[c[i]].next = NodeAt(c, n, i + 1)

Story(h, c, ds, n) ==
  /\ Threads(h, c, n) /\ ds \in [0..MaxOps -> Document]
  /\ \A i \in 1..n : Brings(h.nodes[c[i]].op, ds[i - 1], ds[i])

LEMMA NodeAtTyped ==
  ASSUME NEW h, NEW c, NEW n, Threads(h, c, n), NEW i \in Int
  PROVE  NodeAt(c, n, i) \in 0..MaxOps /\ (NodeAt(c, n, i) = Nil <=> i \notin 1..n)
<1>1. n \in 0..MaxOps /\ c \in [1..MaxOps -> ListNodes]
  BY DEF Threads
<1>2. ASSUME i \in 1..n PROVE NodeAt(c, n, i) \in 1..MaxOps
  <2>1. i \in 1..MaxOps
    BY <1>1, <1>2, EditorConstants
  <2> QED BY <2>1, <1>1, <1>2 DEF NodeAt, ListNodes
<1>3. ASSUME i \notin 1..n PROVE NodeAt(c, n, i) = 0
  BY <1>3 DEF NodeAt, Nil
<1> QED BY <1>2, <1>3, EditorConstants DEF Nil

\* No two nodes of the list are the same, so neither are two of their places.
LEMMA PlaceOfNode ==
  ASSUME NEW h, NEW c, NEW n, Threads(h, c, n), NEW i \in 0..n, NEW j \in 0..n, NodeAt(c, n, i) = NodeAt(c, n, j)
  PROVE  i = j
<1>0. n \in Nat
  BY DEF Threads
<1>1. NodeAt(c, n, i) = Nil <=> i = 0
  BY <1>0, NodeAtTyped
<1>2. NodeAt(c, n, j) = Nil <=> j = 0
  BY <1>0, NodeAtTyped
<1>3. CASE i # 0 /\ j # 0
  <2>1. i \in 1..n /\ j \in 1..n
    BY <1>0, <1>3
  <2> QED BY <2>1 DEF NodeAt, Threads
<1> QED BY <1>1, <1>2, <1>3

LEMMA FollowingIs ==
  ASSUME NEW h, NEW c, NEW n, Threads(h, c, n), NEW p \in 1..n
  PROVE  \A i \in 1..MaxOps : Following(h, c[p])[i] = NodeAt(c, n, p + i)
<1> DEFINE node == CHOOSE g : g = [i \in 0..MaxOps |->
                     IF i = 0 THEN c[p] ELSE IF g[i - 1] = Nil THEN Nil ELSE h.nodes[g[i - 1]].next]
           g == [i \in 0..MaxOps |-> NodeAt(c, n, p + i)]
<1>1. Following(h, c[p]) = [i \in 1..MaxOps |-> node[i]]
  BY DEF Following
<1>2. MaxOps \in Nat /\ n \in 0..MaxOps /\ p \in 1..n
  BY EditorConstants DEF Threads
<1>3. \A i \in 0..MaxOps : g[i] = NodeAt(c, n, p + i)
  OBVIOUS
<1>4. ASSUME NEW i \in 0..MaxOps
      PROVE  g[i] = IF i = 0 THEN c[p] ELSE IF g[i - 1] = Nil THEN Nil ELSE h.nodes[g[i - 1]].next
  <2>1. CASE i = 0
    <3>1. p + i = p
      BY <1>2, <2>1
    <3> QED BY <3>1, <2>1, <1>3 DEF NodeAt
  <2>2. CASE i # 0
    <3>1. i - 1 \in 0..MaxOps /\ p + (i - 1) \in Int
      BY <1>2, <2>2
    <3>2. PICK k \in Int : k = p + (i - 1)
      BY <3>1
    <3>3. g[i - 1] = NodeAt(c, n, k) /\ g[i] = NodeAt(c, n, k + 1)
      <4>1. k + 1 = p + i
        BY <1>2, <3>2
      <4> QED BY <4>1, <3>1, <3>2, <1>3
    <3> HIDE DEF g
    <3>4. NodeAt(c, n, k) = Nil <=> k \notin 1..n
      BY NodeAtTyped
    <3>5. CASE k \in 1..n
      <4>1. NodeAt(c, n, k) = c[k] /\ h.nodes[c[k]].next = NodeAt(c, n, k + 1)
        BY <3>5 DEF NodeAt, Threads
      <4> QED BY <4>1, <3>3, <3>4, <3>5, <2>2
    <3>6. CASE k \notin 1..n
      <4>1. k + 1 \notin 1..n
        BY <1>2, <2>2, <3>2, <3>6
      <4>2. NodeAt(c, n, k) = Nil /\ NodeAt(c, n, k + 1) = Nil
        BY <4>1, <3>6 DEF NodeAt
      <4> QED BY <4>2, <3>3, <2>2
    <3> QED BY <3>5, <3>6
  <2> QED BY <2>1, <2>2
<1> HIDE DEF g
<1>5. g = [i \in 0..MaxOps |-> IF i = 0 THEN c[p] ELSE IF g[i - 1] = Nil THEN Nil ELSE h.nodes[g[i - 1]].next]
  <2>1. g = [i \in 0..MaxOps |-> g[i]]
    BY DEF g
  <2> QED BY <1>4, <2>1
<1>6. node = [i \in 0..MaxOps |-> IF i = 0 THEN c[p] ELSE IF node[i - 1] = Nil THEN Nil ELSE h.nodes[node[i - 1]].next]
  BY <1>5, Zenon
<1> HIDE DEF node
<1>7. \A i \in 0..MaxOps : node[i] = IF i = 0 THEN c[p] ELSE IF node[i - 1] = Nil THEN Nil ELSE h.nodes[node[i - 1]].next
  BY <1>6, Zenon
<1> DEFINE T == {i \in 0..MaxOps : node[i] = g[i]}
<1>8. \A i \in 0..MaxOps : i \in T
  <2>1. 0 \in T
    BY <1>2, <1>4, <1>7
  <2>2. ASSUME NEW i \in 0..MaxOps, i \in T, i < MaxOps PROVE i + 1 \in T
    <3>1. i + 1 \in 0..MaxOps /\ i + 1 # 0 /\ (i + 1) - 1 = i
      BY <2>2, <1>2
    <3> QED BY <3>1, <2>2, <1>4, <1>7
  <2> HIDE DEF T
  <2> QED BY <2>1, <2>2, <1>2, UpTo
<1> QED BY <1>1, <1>2, <1>3, <1>8

\* An empty list tells of nothing done.
LEMMA EmptyStory ==
  ASSUME NEW c \in [1..MaxOps -> ListNodes], NEW ds \in [0..MaxOps -> Document]
  PROVE  Story(EmptyList, c, ds, 0)
<1>1. 0 \in 0..MaxOps
  BY EditorConstants
<1>2. NoNode \in ListNode
  BY <1>1 DEF NoNode, ListNode, Nil
<1>3. EmptyList \in EditList
  BY <1>1, <1>2 DEF EmptyList, EditList, Nil
<1>4. Threads(EmptyList, c, 0)
  BY <1>1, <1>3 DEF Threads, EmptyList, NodeAt
<1> QED BY <1>4 DEF Story

\* Cutting the list after its p-th node leaves the first p.
LEMMA CutIs ==
  ASSUME NEW h, NEW c, NEW ds, NEW n, Story(h, c, ds, n), NEW p \in 1..n
  PROVE  Story(CutAfter(h, c[p]), c, ds, p)
<1> DEFINE after == Following(h, c[p])
           gone == {i \in 1..MaxOps : after[i] # Nil}
<1>1. PICK k : k = CutAfter(h, c[p])
  OBVIOUS
<1>2. Threads(h, c, n) /\ n \in 0..MaxOps /\ n \in Nat /\ MaxOps \in Nat /\ p \in 1..n /\ p \in 0..MaxOps
  BY EditorConstants DEF Story, Threads
<1>3. /\ h \in EditList /\ h.head = NodeAt(c, n, 1) /\ h.size = n
      /\ c \in [1..MaxOps -> ListNodes] /\ \A i, j \in 1..n : c[i] = c[j] => i = j
  BY <1>2 DEF Threads
<1>4. \A i \in 1..n : i \in 1..MaxOps /\ c[i] \in ListNodes
  BY <1>2, <1>3
<1>5. \A i \in 1..MaxOps : after[i] = NodeAt(c, n, p + i)
  BY <1>2, FollowingIs
<1>6. k = [head |-> h.head, tail |-> c[p], size |-> h.size - Cardinality(gone),
           nodes |-> [m \in ListNodes |-> IF m = c[p] THEN [h.nodes[m] EXCEPT !.next = Nil]
                                          ELSE IF \E i \in gone : after[i] = m THEN NoNode ELSE h.nodes[m]]]
  BY <1>1 DEF CutAfter
<1>7. gone = 1..(n - p)
  <2>1. \A i \in 1..MaxOps : after[i] # Nil <=> p + i \in 1..n
    <3> TAKE i \in 1..MaxOps
    <3>1. p + i \in Int
      BY <1>2
    <3> QED BY <3>1, <1>2, <1>5, NodeAtTyped
  <2>2. \A i \in 1..MaxOps : p + i \in 1..n <=> i \in 1..(n - p)
    BY <1>2
  <2>3. \A i \in 1..(n - p) : i \in 1..MaxOps
    BY <1>2
  <2> QED BY <2>1, <2>2, <2>3
<1>8. Cardinality(gone) = n - p
  <2>1. Cardinality(1..(n - p)) = IF 1 > n - p THEN 0 ELSE (n - p) - 1 + 1
    <3>1. 1 \in Int /\ n - p \in Int
      BY <1>2
    <3> QED BY <3>1, FS_Interval
  <2>2. PICK q \in Nat : q = n - p
    <3>1. n - p \in Nat
      BY <1>2
    <3> QED BY <3>1
  <2>3. Cardinality(1..q) = IF 1 > q THEN 0 ELSE q - 1 + 1
    BY <2>1, <2>2
  <2>4. (IF 1 > q THEN 0 ELSE q - 1 + 1) = q
    OBVIOUS
  <2>5. gone = 1..q
    BY <2>2, <1>7
  <2> HIDE DEF gone
  <2> QED BY <2>2, <2>3, <2>4, <2>5
<1>9. ASSUME NEW i \in gone PROVE p + i \in 1..n /\ after[i] = c[p + i]
  BY <1>2, <1>4, <1>5, <1>7, <1>9 DEF NodeAt
<1> HIDE DEF gone, after
<1>10. \A i \in 1..p : ~\E j \in gone : after[j] = c[i]
  <2> SUFFICES ASSUME NEW i \in 1..p, NEW j \in gone, after[j] = c[i] PROVE FALSE
    OBVIOUS
  <2>1. p + j \in 1..n /\ c[p + j] = c[i] /\ i \in 1..n
    BY <1>2, <1>9
  <2>2. p + j = i /\ j \in 1..(n - p)
    BY <2>1, <1>3, <1>7
  <2> QED BY <2>2, <1>2
<1>11. /\ k.head = h.head /\ k.tail = c[p] /\ k.size = p
       /\ \A m \in ListNodes : k.nodes[m] = IF m = c[p] THEN [h.nodes[m] EXCEPT !.next = Nil]
                                            ELSE IF \E i \in gone : after[i] = m THEN NoNode ELSE h.nodes[m]
  <2>1. h.size - Cardinality(gone) = p
    BY <1>2, <1>3, <1>8
  <2> QED BY <2>1, <1>6
<1>12. h.nodes \in [ListNodes -> ListNode] /\ h.head \in 0..MaxOps
  BY <1>3 DEF EditList
<1>13. ASSUME NEW m \in ListNodes
       PROVE  /\ [h.nodes[m] EXCEPT !.next = Nil] \in ListNode
              /\ [h.nodes[m] EXCEPT !.next = Nil].op = h.nodes[m].op
              /\ [h.nodes[m] EXCEPT !.next = Nil].prev = h.nodes[m].prev
              /\ [h.nodes[m] EXCEPT !.next = Nil].next = Nil
  <2>1. h.nodes[m] \in ListNode /\ Nil \in 0..MaxOps
    BY <1>2, <1>12 DEF Nil
  <2> QED BY <2>1 DEF ListNode
<1>14. NoNode \in ListNode
  BY <1>2 DEF NoNode, ListNode, Nil
<1>15. k \in EditList
  <2>1. \A m \in ListNodes : (IF m = c[p] THEN [h.nodes[m] EXCEPT !.next = Nil]
                              ELSE IF \E i \in gone : after[i] = m THEN NoNode ELSE h.nodes[m]) \in ListNode
    BY <1>12, <1>13, <1>14
  <2>2. c[p] \in 0..MaxOps
    BY <1>2, <1>4 DEF ListNodes
  <2>3. h.size - Cardinality(gone) \in 0..MaxOps
    BY <1>2, <1>3, <1>8
  <2> QED BY <2>1, <2>2, <2>3, <1>6, <1>12 DEF EditList
<1>16. ASSUME NEW i \in 1..p
       PROVE  /\ k.nodes[c[i]].op = h.nodes[c[i]].op
              /\ k.nodes[c[i]].prev = h.nodes[c[i]].prev
              /\ k.nodes[c[i]].next = IF i = p THEN Nil ELSE h.nodes[c[i]].next
  <2>1. i \in 1..n /\ c[i] \in ListNodes /\ (c[i] = c[p] <=> i = p)
    BY <1>2, <1>3, <1>4
  <2>2. CASE i = p
    <3>1. k.nodes[c[i]] = [h.nodes[c[i]] EXCEPT !.next = Nil]
      BY <2>1, <2>2, <1>11
    <3> QED BY <3>1, <2>1, <2>2, <1>13
  <2>3. CASE i # p
    <3>1. k.nodes[c[i]] = h.nodes[c[i]]
      BY <2>1, <2>3, <1>10, <1>11
    <3> QED BY <3>1, <2>3
  <2> QED BY <2>2, <2>3
<1>17. ASSUME NEW i \in 1..p
       PROVE  k.nodes[c[i]].prev = NodeAt(c, p, i - 1) /\ k.nodes[c[i]].next = NodeAt(c, p, i + 1)
  <2>1. i \in 1..n /\ h.nodes[c[i]].prev = NodeAt(c, n, i - 1) /\ h.nodes[c[i]].next = NodeAt(c, n, i + 1)
    BY <1>2 DEF Threads
  <2>2. i - 1 \in 1..p <=> i - 1 \in 1..n
    BY <1>2
  <2>3. i # p => (i + 1 \in 1..p /\ i + 1 \in 1..n)
    BY <1>2
  <2>4. i = p => i + 1 \notin 1..p
    BY <1>2
  <2> QED BY <2>1, <2>2, <2>3, <2>4, <1>16 DEF NodeAt
<1>18. \A i, j \in 1..p : c[i] = c[j] => i = j
  BY <1>2, <1>3
<1>19. k.head = NodeAt(c, p, 1) /\ k.tail = NodeAt(c, p, p)
  BY <1>2, <1>3, <1>11 DEF NodeAt
<1>20. Threads(k, c, p)
  BY <1>2, <1>3, <1>11, <1>15, <1>17, <1>18, <1>19 DEF Threads
<1>21. \A i \in 1..p : Brings(k.nodes[c[i]].op, ds[i - 1], ds[i])
  BY <1>2, <1>16 DEF Story
<1> QED BY <1>1, <1>20, <1>21 DEF Story

\* An operation is never the empty tuple a free node holds.
LEMMA OperationNotEmpty == <<>> \notin Operation
<1> SUFFICES ASSUME NEW op \in Operation, op = <<>> PROVE FALSE
  OBVIOUS
<1>1. "pos" \in DOMAIN op
  BY DEF Operation, Insertion, Deletion, Replacement, Formatting
<1>2. DOMAIN op = {}
  BY DEF Operation
<1> QED BY <1>1, <1>2

\* The functions c and ds with another value at i.
Put(f, i, x) == [f EXCEPT ![i] = x]

\* Adding an operation in a free node makes the story one longer.
LEMMA AppendedIs ==
  ASSUME NEW h, NEW c, NEW ds, NEW n, Story(h, c, ds, n), NEW m \in ListNodes, h.nodes[m] = NoNode,
         NEW op, NEW e, Brings(op, ds[n], e)
  PROVE  /\ n < MaxOps
         /\ Story(ListAppend(h, m, op), Put(c, n + 1, m), Put(ds, n + 1, e), n + 1)
<1>1. PICK k : k = ListAppend(h, m, op)
  OBVIOUS
<1>2. Threads(h, c, n) /\ n \in 0..MaxOps /\ n \in Nat /\ MaxOps \in Nat /\ ds \in [0..MaxOps -> Document]
  BY EditorConstants DEF Story, Threads
<1>3. /\ h \in EditList /\ h.head = NodeAt(c, n, 1) /\ h.tail = NodeAt(c, n, n) /\ h.size = n
      /\ c \in [1..MaxOps -> ListNodes] /\ \A i, j \in 1..n : c[i] = c[j] => i = j
  BY <1>2 DEF Threads
<1>4. \A i \in 1..n : i \in 1..MaxOps /\ c[i] \in ListNodes
  BY <1>2, <1>3
<1>5. op \in Operation /\ e \in Document
  BY DEF Brings
<1>6. \A i \in 1..n : c[i] # m
  <2> SUFFICES ASSUME NEW i \in 1..n, c[i] = m PROVE FALSE
    OBVIOUS
  <2>1. h.nodes[m].op \in Operation
    BY DEF Story, Brings
  <2>2. h.nodes[m].op = <<>>
    BY DEF NoNode
  <2> QED BY <2>1, <2>2, OperationNotEmpty
<1>7. n < MaxOps
  <2> SUFFICES ASSUME n = MaxOps PROVE FALSE
    BY <1>2
  <2> DEFINE f == [i \in 1..(n + 1) |-> IF i = n + 1 THEN m ELSE c[i]]
  <2>1. f \in [1..(n + 1) -> ListNodes] /\ \A i, j \in 1..(n + 1) : f[i] = f[j] => i = j
    <3>1. \A i \in 1..(n + 1) : i = n + 1 \/ i \in 1..n
      BY <1>2
    <3>2. \A i \in 1..(n + 1) : f[i] = IF i = n + 1 THEN m ELSE c[i]
      OBVIOUS
    <3>3. f \in [1..(n + 1) -> ListNodes]
      BY <3>1, <1>4
    <3> HIDE DEF f
    <3>4. \A i \in 1..n : i \in 1..(n + 1) /\ i # n + 1
      BY <1>2
    <3>5. \A i, j \in 1..(n + 1) : f[i] = f[j] => i = j
      <4> TAKE i, j \in 1..(n + 1)
      <4>1. (i = n + 1 \/ i \in 1..n) /\ (j = n + 1 \/ j \in 1..n)
        BY <3>1
      <4> QED BY <4>1, <3>2, <3>4, <1>3, <1>6
    <3> QED BY <3>3, <3>5
  <2> HIDE DEF f
  <2>2. f \in Injection(1..(n + 1), ListNodes)
    BY <2>1 DEF Injection, IsInjective
  <2>3. IsFiniteSet(ListNodes) /\ Cardinality(ListNodes) = IF 1 > n THEN 0 ELSE n - 1 + 1
    BY <1>2, FS_Interval DEF ListNodes
  <2>4. Cardinality(1..(n + 1)) = IF 1 > n + 1 THEN 0 ELSE (n + 1) - 1 + 1
    BY <1>2, FS_Interval
  <2>5. Cardinality(1..(n + 1)) <= Cardinality(ListNodes)
    BY <2>2, <2>3, FS_Injection
  <2>6. PICK a, b \in Nat : a = Cardinality(1..(n + 1)) /\ b = Cardinality(ListNodes)
    BY <2>3, <2>4, <1>2
  <2>7. a = n + 1 /\ b = n
    BY <2>3, <2>4, <2>6, <1>2
  <2> QED BY <2>5, <2>6, <2>7, <1>2
<1>8. n + 1 \in 1..MaxOps /\ n + 1 \in 0..MaxOps
  BY <1>2, <1>7
<1>9. PICK d : d = Put(c, n + 1, m)
  OBVIOUS
<1>10. d \in [1..MaxOps -> ListNodes] /\ d[n + 1] = m /\ \A i \in 1..n : d[i] = c[i] /\ i # n + 1
  BY <1>2, <1>3, <1>4, <1>8, <1>9 DEF Put
<1>11. PICK es : es = Put(ds, n + 1, e)
  OBVIOUS
<1>12. es \in [0..MaxOps -> Document] /\ es[n + 1] = e /\ \A i \in 0..n : es[i] = ds[i]
  <2>1. \A i \in 0..n : i # n + 1 /\ i \in 0..MaxOps
    BY <1>2
  <2> QED BY <2>1, <1>2, <1>5, <1>8, <1>11 DEF Put
<1>13. \A i \in 1..(n + 1) : i = n + 1 \/ i \in 1..n
  BY <1>2
<1>14. m # Nil /\ m \in 0..MaxOps /\ (h.tail = Nil <=> n = 0) /\ h.tail \in 0..MaxOps
  <2>1. h.tail = Nil <=> n \notin 1..n
    BY <1>2, <1>3, NodeAtTyped
  <2> QED BY <2>1, <1>2, <1>3 DEF Nil, ListNodes, EditList
<1>15. /\ k.head = (IF n = 0 THEN m ELSE h.head) /\ k.tail = m /\ k.size = n + 1
       /\ \A x \in ListNodes : k.nodes[x] = IF x = m THEN [op |-> op, prev |-> h.tail, next |-> Nil]
                                            ELSE IF x = h.tail THEN [h.nodes[x] EXCEPT !.next = m] ELSE h.nodes[x]
  BY <1>1, <1>3, <1>14 DEF ListAppend
<1>16. h.nodes \in [ListNodes -> ListNode] /\ h.head \in 0..MaxOps
  BY <1>3 DEF EditList
<1>17. ASSUME NEW x \in ListNodes
       PROVE  /\ [h.nodes[x] EXCEPT !.next = m] \in ListNode
              /\ [h.nodes[x] EXCEPT !.next = m].op = h.nodes[x].op
              /\ [h.nodes[x] EXCEPT !.next = m].prev = h.nodes[x].prev
              /\ [h.nodes[x] EXCEPT !.next = m].next = m
  <2>1. h.nodes[x] \in ListNode /\ m \in 0..MaxOps
    BY <1>14, <1>16
  <2> QED BY <2>1 DEF ListNode
<1>18. [op |-> op, prev |-> h.tail, next |-> Nil] \in ListNode
  BY <1>2, <1>5, <1>14 DEF ListNode, Nil
<1>19. k \in EditList
  <2>1. \A x \in ListNodes : (IF x = m THEN [op |-> op, prev |-> h.tail, next |-> Nil]
                              ELSE IF x = h.tail THEN [h.nodes[x] EXCEPT !.next = m] ELSE h.nodes[x]) \in ListNode
    BY <1>16, <1>17, <1>18
  <2>2. h.size + 1 \in 0..MaxOps
    BY <1>3, <1>8
  <2>3. (IF h.tail = Nil THEN m ELSE h.head) \in 0..MaxOps
    BY <1>14, <1>16
  <2> QED BY <2>1, <2>2, <2>3, <1>1, <1>14 DEF EditList, ListAppend
<1>20. ASSUME NEW i \in 1..n
       PROVE  /\ k.nodes[c[i]].op = h.nodes[c[i]].op
              /\ k.nodes[c[i]].prev = h.nodes[c[i]].prev
              /\ k.nodes[c[i]].next = IF i = n THEN m ELSE h.nodes[c[i]].next
  <2>0. n \in 1..n
    BY <1>2
  <2>1. c[i] \in ListNodes /\ c[i] # m /\ (c[i] = h.tail <=> i = n)
    BY <2>0, <1>3, <1>4, <1>6 DEF NodeAt
  <2>2. CASE i = n
    <3>1. k.nodes[c[i]] = [h.nodes[c[i]] EXCEPT !.next = m]
      BY <2>1, <2>2, <1>15
    <3> QED BY <3>1, <2>1, <2>2, <1>17
  <2>3. CASE i # n
    <3>1. k.nodes[c[i]] = h.nodes[c[i]]
      BY <2>1, <2>3, <1>15
    <3> QED BY <3>1, <2>3
  <2> QED BY <2>2, <2>3
<1>21. k.nodes[m].op = op /\ k.nodes[m].prev = h.tail /\ k.nodes[m].next = Nil
  <2>1. k.nodes[m] = [op |-> op, prev |-> h.tail, next |-> Nil]
    BY <1>15
  <2> QED BY <2>1
<1>22. ASSUME NEW i \in 1..(n + 1)
       PROVE  k.nodes[d[i]].prev = NodeAt(d, n + 1, i - 1) /\ k.nodes[d[i]].next = NodeAt(d, n + 1, i + 1)
  <2>1. CASE i = n + 1
    <3>1. i - 1 = n /\ i + 1 \notin 1..(n + 1)
      BY <2>1, <1>2
    <3>2. NodeAt(d, n + 1, i + 1) = Nil
      BY <3>1 DEF NodeAt
    <3>3. NodeAt(d, n + 1, n) = NodeAt(c, n, n)
      <4>1. n \in 1..(n + 1) <=> n \in 1..n
        BY <1>2
      <4> QED BY <4>1, <1>10 DEF NodeAt
    <3> QED BY <3>1, <3>2, <3>3, <2>1, <1>3, <1>10, <1>21
  <2>2. CASE i \in 1..n
    <3>1. h.nodes[c[i]].prev = NodeAt(c, n, i - 1) /\ h.nodes[c[i]].next = NodeAt(c, n, i + 1)
      BY <2>2, <1>2 DEF Threads
    <3>2. i - 1 \in 1..(n + 1) <=> i - 1 \in 1..n
      BY <2>2, <1>2
    <3>3. NodeAt(d, n + 1, i - 1) = NodeAt(c, n, i - 1)
      BY <3>2, <1>10 DEF NodeAt
    <3>4. i + 1 \in 1..(n + 1) /\ (i # n => i + 1 \in 1..n)
      BY <2>2, <1>2
    <3>5. NodeAt(d, n + 1, i + 1) = IF i = n THEN m ELSE NodeAt(c, n, i + 1)
      BY <3>4, <1>10 DEF NodeAt
    <3> QED BY <3>1, <3>3, <3>5, <2>2, <1>10, <1>20
  <2> QED BY <2>1, <2>2, <1>13
<1>23. \A i, j \in 1..(n + 1) : d[i] = d[j] => i = j
  <2> TAKE i, j \in 1..(n + 1)
  <2>1. (i = n + 1 \/ i \in 1..n) /\ (j = n + 1 \/ j \in 1..n)
    BY <1>13
  <2> QED BY <2>1, <1>3, <1>6, <1>10
<1>24. k.head = NodeAt(d, n + 1, 1) /\ k.tail = NodeAt(d, n + 1, n + 1)
  <2>1. 1 \in 1..(n + 1) /\ n + 1 \in 1..(n + 1) /\ (n # 0 => 1 \in 1..n) /\ (n = 0 => n + 1 = 1)
    BY <1>2
  <2> QED BY <2>1, <1>3, <1>10, <1>15 DEF NodeAt
<1>25. Threads(k, d, n + 1)
  BY <1>8, <1>10, <1>15, <1>19, <1>22, <1>23, <1>24 DEF Threads
<1>26. ASSUME NEW i \in 1..(n + 1) PROVE Brings(k.nodes[d[i]].op, es[i - 1], es[i])
  <2>1. CASE i = n + 1
    <3>1. i - 1 = n /\ n \in 0..n
      BY <2>1, <1>2
    <3>2. es[i - 1] = ds[n] /\ es[i] = e /\ k.nodes[d[i]].op = op
      BY <3>1, <2>1, <1>10, <1>12, <1>21
    <3> QED BY <3>2
  <2>2. CASE i \in 1..n
    <3>1. i - 1 \in 0..n /\ i \in 0..n
      BY <2>2, <1>2
    <3>2. es[i - 1] = ds[i - 1] /\ es[i] = ds[i] /\ k.nodes[d[i]].op = h.nodes[c[i]].op
      BY <3>1, <2>2, <1>10, <1>12, <1>20
    <3>3. Brings(h.nodes[c[i]].op, ds[i - 1], ds[i])
      BY <2>2 DEF Story
    <3> QED BY <3>2, <3>3
  <2> QED BY <2>1, <2>2, <1>13
<1> QED BY <1>1, <1>7, <1>9, <1>11, <1>12, <1>25, <1>26 DEF Story

-----------------------------------------------------------------------------
(* The documents before and after a place in the story. *)

\* The documents from number a on up to but not with number b.
Stretch(ds, a, b) == [j \in 1..(b - a) |-> ds[a + (j - 1)]]

IsStretch(s, ds, a, l) ==
  s \in Seq(Document) /\ Len(s) = l /\ \A j \in 1..l : s[j] = ds[a + (j - 1)]

LEMMA StretchIs ==
  ASSUME NEW ds \in [0..MaxOps -> Document], NEW a \in Nat, NEW l \in Nat, NEW b \in Nat, b = a + l, b <= MaxOps + 1
  PROVE  IsStretch(Stretch(ds, a, b), ds, a, l)
<1>1. \A j \in 1..l : a + (j - 1) \in 0..MaxOps
  BY EditorConstants
<1>2. PICK s : s = Stretch(ds, a, b)
  OBVIOUS
<1>3. s = [j \in 1..l |-> ds[a + (j - 1)]]
  <2>1. b - a = l
    OBVIOUS
  <2> QED BY <2>1, <1>2 DEF Stretch
<1>4. s \in [1..l -> Document] /\ \A j \in 1..l : s[j] = ds[a + (j - 1)]
  BY <1>1, <1>3
<1>5. s \in Seq(Document) /\ Len(s) = l
  BY <1>4, IsASeq, LenProperties
<1> QED BY <1>2, <1>4, <1>5 DEF IsStretch

LEMMA StretchLonger ==
  ASSUME NEW ds \in [0..MaxOps -> Document], NEW a \in Nat, NEW b \in Nat, a <= b, b <= MaxOps
  PROVE  /\ Append(Stretch(ds, a, b), ds[b]) = Stretch(ds, a, b + 1)
         /\ <<ds[a]>> \o Stretch(ds, a + 1, b + 1) = Stretch(ds, a, b + 1)
<1>1. PICK l \in Nat : l = b - a
  <2>1. b - a \in Nat
    OBVIOUS
  <2> QED BY <2>1
<1>2. b + 1 \in Nat /\ a + 1 \in Nat /\ a <= b + 1 /\ a + 1 <= b + 1 /\ b <= MaxOps + 1 /\ b + 1 <= MaxOps + 1
  BY EditorConstants
<1>3. b = a + l /\ b + 1 = a + (l + 1) /\ b + 1 = (a + 1) + l /\ l + 1 \in Nat
  BY <1>1
<1>4. PICK s : s = Stretch(ds, a, b)
  OBVIOUS
<1>5. PICK t : t = Stretch(ds, a, b + 1)
  OBVIOUS
<1>6. PICK u : u = Stretch(ds, a + 1, b + 1)
  OBVIOUS
<1>7. s \in Seq(Document) /\ Len(s) = l /\ \A j \in 1..l : s[j] = ds[a + (j - 1)]
  <2>1. IsStretch(s, ds, a, l)
    BY <1>2, <1>3, <1>4, StretchIs
  <2> QED BY <2>1 DEF IsStretch
<1>8. t \in Seq(Document) /\ Len(t) = l + 1 /\ \A j \in 1..(l + 1) : t[j] = ds[a + (j - 1)]
  <2>1. IsStretch(t, ds, a, l + 1)
    BY <1>2, <1>3, <1>5, StretchIs
  <2> QED BY <2>1 DEF IsStretch
<1>9. u \in Seq(Document) /\ Len(u) = l /\ \A j \in 1..l : u[j] = ds[(a + 1) + (j - 1)]
  <2>1. IsStretch(u, ds, a + 1, l)
    BY <1>2, <1>3, <1>6, StretchIs
  <2> QED BY <2>1 DEF IsStretch
<1>10. ds[a] \in Document /\ ds[b] \in Document
  BY EditorConstants
<1>11. Append(s, ds[b]) = t
  <2>1. PICK x : x = Append(s, ds[b])
    OBVIOUS
  <2>2. x \in Seq(Document) /\ Len(x) = l + 1 /\ x[l + 1] = ds[b] /\ \A j \in 1..l : x[j] = s[j]
    BY <2>1, <1>7, <1>10, AppendProperties
  <2>3. ASSUME NEW j \in 1..(l + 1) PROVE x[j] = t[j]
    <3>1. CASE j = l + 1
      <4>1. a + (j - 1) = b
        BY <3>1, <1>3
      <4> QED BY <4>1, <3>1, <2>2, <1>8
    <3>2. CASE j \in 1..l
      BY <3>2, <2>2, <1>7, <1>8
    <3> QED BY <3>1, <3>2
  <2>4. l + 1 \in Nat
    OBVIOUS
  <2> QED BY <2>1, <2>2, <2>3, <2>4, <1>8, SameSequence
<1>12. <<ds[a]>> \o u = t
  <2>1. PICK y : y = <<ds[a]>>
    OBVIOUS
  <2>2. y \in Seq(Document) /\ Len(y) = 1 /\ y[1] = ds[a]
    BY <2>1, <1>10
  <2>3. PICK x : x = y \o u
    OBVIOUS
  <2>4. x \in Seq(Document) /\ Len(x) = 1 + l /\ \A j \in 1..(1 + l) : x[j] = IF j <= 1 THEN y[j] ELSE u[j - 1]
    <3>1. x \in Seq(Document) /\ Len(x) = Len(y) + Len(u)
      BY <2>2, <2>3, <1>9, ConcatProperties
    <3>2. \A j \in 1..(Len(y) + Len(u)) : x[j] = IF j <= Len(y) THEN y[j] ELSE u[j - Len(y)]
      BY <2>2, <2>3, <1>9, ConcatProperties
    <3> QED BY <3>1, <3>2, <2>2, <1>9
  <2>5. ASSUME NEW j \in 1..(l + 1) PROVE x[j] = t[j]
    <3>1. CASE j = 1
      <4>1. a + (j - 1) = a
        BY <3>1
      <4> QED BY <4>1, <3>1, <2>2, <2>4, <1>8
    <3>2. CASE j # 1
      <4>1. j - 1 \in 1..l /\ (a + 1) + ((j - 1) - 1) = a + (j - 1) /\ j \in 1..(1 + l) /\ ~(j <= 1)
        BY <3>2
      <4>2. u[j - 1] = ds[(a + 1) + ((j - 1) - 1)]
        BY <4>1, <1>9
      <4> QED BY <4>1, <4>2, <2>4, <1>8
    <3> QED BY <3>1, <3>2
  <2>6. l + 1 \in Nat /\ Len(x) = l + 1
    BY <2>4
  <2> QED BY <2>1, <2>3, <2>4, <2>5, <2>6, <1>8, SameSequence
<1> QED BY <1>4, <1>5, <1>6, <1>11, <1>12

\* The first and the last document of a stretch, and what is left without them.
LEMMA StretchShorter ==
  ASSUME NEW ds \in [0..MaxOps -> Document], NEW a \in Nat, NEW b \in Nat, a <= b, b <= MaxOps
  PROVE  /\ Stretch(ds, a, b + 1) # <<>> /\ Head(Stretch(ds, a, b + 1)) = ds[a]
         /\ Tail(Stretch(ds, a, b + 1)) = Stretch(ds, a + 1, b + 1)
         /\ Stretch(ds, a, b + 1)[Len(Stretch(ds, a, b + 1))] = ds[b]
         /\ SubSeq(Stretch(ds, a, b + 1), 1, Len(Stretch(ds, a, b + 1)) - 1) = Stretch(ds, a, b)
<1>1. PICK l \in Nat : l = b - a
  <2>1. b - a \in Nat
    OBVIOUS
  <2> QED BY <2>1
<1>2. b + 1 \in Nat /\ a + 1 \in Nat /\ a <= b + 1 /\ a + 1 <= b + 1 /\ b <= MaxOps + 1 /\ b + 1 <= MaxOps + 1
  BY EditorConstants
<1>3. b = a + l /\ b + 1 = a + (l + 1) /\ b + 1 = (a + 1) + l /\ l + 1 \in Nat
  BY <1>1
<1>4. PICK s : s = Stretch(ds, a, b)
  OBVIOUS
<1>5. PICK t : t = Stretch(ds, a, b + 1)
  OBVIOUS
<1>6. PICK u : u = Stretch(ds, a + 1, b + 1)
  OBVIOUS
<1>7. s \in Seq(Document) /\ Len(s) = l /\ \A j \in 1..l : s[j] = ds[a + (j - 1)]
  <2>1. IsStretch(s, ds, a, l)
    BY <1>2, <1>3, <1>4, StretchIs
  <2> QED BY <2>1 DEF IsStretch
<1>8. t \in Seq(Document) /\ Len(t) = l + 1 /\ \A j \in 1..(l + 1) : t[j] = ds[a + (j - 1)]
  <2>1. IsStretch(t, ds, a, l + 1)
    BY <1>2, <1>3, <1>5, StretchIs
  <2> QED BY <2>1 DEF IsStretch
<1>9. u \in Seq(Document) /\ Len(u) = l /\ \A j \in 1..l : u[j] = ds[(a + 1) + (j - 1)]
  <2>1. IsStretch(u, ds, a + 1, l)
    BY <1>2, <1>3, <1>6, StretchIs
  <2> QED BY <2>1 DEF IsStretch
<1>10. t # <<>>
  BY <1>8, EmptySeq
<1>11. Head(t) = ds[a] /\ t[l + 1] = ds[b]
  <2>1. 1 \in 1..(l + 1) /\ l + 1 \in 1..(l + 1) /\ a + (1 - 1) = a /\ a + ((l + 1) - 1) = b
    BY <1>3
  <2>2. Head(t) = t[1]
    BY <1>8, <1>10, HeadTailProperties
  <2> QED BY <2>1, <2>2, <1>8
<1>12. Tail(t) = u
  <2>1. Tail(t) \in Seq(Document) /\ Len(Tail(t)) = (l + 1) - 1 /\ \A i \in 1..((l + 1) - 1) : Tail(t)[i] = t[i + 1]
    BY <1>8, <1>10, HeadTailProperties
  <2>2. ASSUME NEW i \in 1..l PROVE Tail(t)[i] = u[i]
    <3>1. i + 1 \in 1..(l + 1) /\ a + ((i + 1) - 1) = (a + 1) + (i - 1) /\ i \in 1..((l + 1) - 1)
      OBVIOUS
    <3>2. t[i + 1] = ds[a + ((i + 1) - 1)]
      BY <3>1, <1>8
    <3> QED BY <3>1, <3>2, <2>1, <1>9
  <2>3. Len(Tail(t)) = l
    BY <2>1
  <2> QED BY <2>1, <2>2, <2>3, <1>9, SameSequence
<1>13. SubSeq(t, 1, l) = s
  <2>1. \A i \in 1..l : i \in 1..(l + 1) /\ t[i] = s[i] /\ (1 + i) - 1 = i
    BY <1>7, <1>8
  <2>2. \A i \in 1..l : t[i] \in Document
    BY <1>8, <2>1, ElementOfSeq
  <2>3. SubSeq(t, 1, l) \in Seq(Document) /\ Len(SubSeq(t, 1, l)) = IF 1 <= l THEN (l - 1) + 1 ELSE 0
    BY <2>2, SubSeqProperties
  <2>4. \A i \in 1..((l - 1) + 1) : SubSeq(t, 1, l)[i] = t[(1 + i) - 1]
    BY <2>2, SubSeqProperties
  <2>5. PICK x : x = SubSeq(t, 1, l)
    OBVIOUS
  <2>6. x \in Seq(Document) /\ Len(x) = l /\ \A i \in 1..l : x[i] = s[i]
    BY <2>1, <2>3, <2>4, <2>5
  <2> QED BY <2>5, <2>6, <1>7, SameSequence
<1>14. Len(t) - 1 = l
  BY <1>8
<1> QED BY <1>4, <1>5, <1>6, <1>8, <1>10, <1>11, <1>12, <1>13, <1>14

LEMMA StretchEmpty == ASSUME NEW ds, NEW a \in Nat PROVE Stretch(ds, a, a) = <<>>
<1>1. 1..(a - a) = {}
  OBVIOUS
<1>2. Stretch(ds, a, a) = [j \in {} |-> ds[a + (j - 1)]]
  BY <1>1 DEF Stretch
<1> QED BY <1>2

\* The documents that undoing goes back through are those before.
LEMMA PastIs ==
  ASSUME NEW h, NEW c, NEW ds, NEW n, Story(h, c, ds, n), NEW p \in 0..n
  PROVE  Past(h, NodeAt(c, n, p), ds[p]) = Stretch(ds, 0, p)
<1> DEFINE at == NodeAt(c, n, p)
           way == CHOOSE g : g = [i \in 0..MaxOps |-> IF i = 0 THEN WayFrom(at, ds[p]) ELSE StepBack(h, g[i - 1])]
           Come(q) == [doc |-> ds[q], node |-> NodeAt(c, n, q), docs |-> Stretch(ds, q, p)]
           g == [i \in 0..MaxOps |-> Come(IF i <= p THEN p - i ELSE 0)]
<1>1. /\ Threads(h, c, n) /\ n \in 0..MaxOps /\ n \in Nat /\ MaxOps \in Nat /\ p \in Nat /\ p <= n
      /\ ds \in [0..MaxOps -> Document]
  BY EditorConstants DEF Story, Threads
<1>2. Past(h, at, ds[p]) = way[MaxOps].docs
  BY DEF Past
<1>3. ASSUME NEW q \in 1..p PROVE StepBack(h, Come(q)) = Come(q - 1)
  <2>1. q \in 1..n /\ q - 1 \in 0..MaxOps /\ q \in Int
    BY <1>1
  <2>2. NodeAt(c, n, q) = c[q] /\ NodeAt(c, n, q) # Nil
    BY <2>1, <1>1, NodeAtTyped DEF NodeAt
  <2>3. h.nodes[c[q]].prev = NodeAt(c, n, q - 1)
    BY <2>1, <1>1 DEF Threads
  <2>4. Reversed(h.nodes[c[q]].op, ds[q]) = ds[q - 1]
    BY <2>1 DEF Story, Brings
  <2>5. <<ds[q - 1]>> \o Stretch(ds, q, p) = Stretch(ds, q - 1, p)
    <3>1. PICK a \in Nat : a = q - 1
      <4>1. q - 1 \in Nat
        OBVIOUS
      <4> QED BY <4>1
    <3>2. PICK b \in Nat : b = p - 1
      <4>1. p - 1 \in Nat
        BY <1>1
      <4> QED BY <4>1
    <3>3. a + 1 = q /\ b + 1 = p /\ a <= b /\ b <= MaxOps
      BY <3>1, <3>2, <1>1
    <3>4. <<ds[a]>> \o Stretch(ds, a + 1, b + 1) = Stretch(ds, a, b + 1)
      BY <3>3, <1>1, StretchLonger
    <3> QED BY <3>1, <3>3, <3>4
  <2>6. PICK w : w = Come(q)
    OBVIOUS
  <2>7. w.doc = ds[q] /\ w.node = c[q] /\ w.node # Nil /\ w.docs = Stretch(ds, q, p)
    BY <2>2, <2>6
  <2>8. StepBack(h, w) = [doc |-> ds[q - 1], node |-> NodeAt(c, n, q - 1), docs |-> Stretch(ds, q - 1, p)]
    BY <2>3, <2>4, <2>5, <2>7 DEF StepBack
  <2> QED BY <2>6, <2>8
<1>4. StepBack(h, Come(0)) = Come(0)
  <2>1. Come(0).node = Nil
    BY DEF NodeAt
  <2> HIDE DEF Come
  <2> QED BY <2>1 DEF StepBack
<1>5. Come(p) = WayFrom(at, ds[p])
  BY <1>1, StretchEmpty DEF WayFrom
<1>6. Come(0).docs = Stretch(ds, 0, p)
  OBVIOUS
<1> HIDE DEF Come, at
<1>7. \A i \in 0..MaxOps : g[i] = Come(IF i <= p THEN p - i ELSE 0)
  OBVIOUS
<1>8. ASSUME NEW i \in 0..MaxOps PROVE g[i] = IF i = 0 THEN WayFrom(at, ds[p]) ELSE StepBack(h, g[i - 1])
  <2>1. CASE i = 0
    <3>1. 0 \in 0..MaxOps /\ 0 <= p /\ p - 0 = p
      BY <1>1
    <3> QED BY <3>1, <2>1, <1>5, <1>7
  <2>2. CASE i # 0 /\ i <= p
    <3>1. PICK q \in 1..p : q = p - (i - 1)
      <4>1. p - (i - 1) \in 1..p
        BY <2>2, <1>1
      <4> QED BY <4>1
    <3>2. i - 1 \in 0..MaxOps /\ i - 1 <= p /\ p - i = q - 1
      BY <2>2, <3>1, <1>1
    <3>3. g[i] = Come(q - 1) /\ g[i - 1] = Come(q)
      BY <2>2, <3>1, <3>2, <1>7
    <3> QED BY <3>3, <2>2, <1>3
  <2>3. CASE i # 0 /\ ~(i <= p)
    <3>1. i - 1 \in 0..MaxOps /\ (i - 1 <= p => p - (i - 1) = 0)
      BY <2>3, <1>1
    <3>2. g[i] = Come(0) /\ g[i - 1] = Come(0)
      BY <2>3, <3>1, <1>7
    <3> QED BY <3>2, <2>3, <1>4
  <2> QED BY <2>1, <2>2, <2>3
<1> HIDE DEF g
<1>9. g = [i \in 0..MaxOps |-> IF i = 0 THEN WayFrom(at, ds[p]) ELSE StepBack(h, g[i - 1])]
  <2>1. g = [i \in 0..MaxOps |-> g[i]]
    BY DEF g
  <2> QED BY <1>8, <2>1
<1>10. way = [i \in 0..MaxOps |-> IF i = 0 THEN WayFrom(at, ds[p]) ELSE StepBack(h, way[i - 1])]
  BY <1>9, Zenon
<1> HIDE DEF way
<1>11. \A i \in 0..MaxOps : way[i] = IF i = 0 THEN WayFrom(at, ds[p]) ELSE StepBack(h, way[i - 1])
  BY <1>10, Zenon
<1> DEFINE T == {i \in 0..MaxOps : way[i] = g[i]}
<1>12. \A i \in 0..MaxOps : i \in T
  <2>1. 0 \in T
    BY <1>1, <1>8, <1>11
  <2>2. ASSUME NEW i \in 0..MaxOps, i \in T, i < MaxOps PROVE i + 1 \in T
    <3>1. i + 1 \in 0..MaxOps /\ i + 1 # 0 /\ (i + 1) - 1 = i
      BY <2>2, <1>1
    <3> QED BY <3>1, <2>2, <1>8, <1>11
  <2> HIDE DEF T
  <2> QED BY <2>1, <2>2, <1>1, UpTo
<1>13. g[MaxOps] = Come(0)
  <2>1. MaxOps \in 0..MaxOps /\ (MaxOps <= p => p - MaxOps = 0)
    BY <1>1
  <2> QED BY <2>1, <1>7
<1>14. MaxOps \in 0..MaxOps
  BY <1>1
<1> QED BY <1>2, <1>6, <1>12, <1>13, <1>14 DEF at

\* Those that redoing goes through are the ones after.
LEMMA FutureIs ==
  ASSUME NEW h, NEW c, NEW ds, NEW n, Story(h, c, ds, n), NEW p \in 0..n
  PROVE  Future(h, NodeAt(c, n, p + 1), ds[p]) = Stretch(ds, p + 1, n + 1)
<1> DEFINE at == NodeAt(c, n, p + 1)
           way == CHOOSE g : g = [i \in 0..MaxOps |-> IF i = 0 THEN WayFrom(at, ds[p]) ELSE StepOn(h, g[i - 1])]
           Come(q) == [doc |-> ds[q], node |-> NodeAt(c, n, q + 1), docs |-> Stretch(ds, p + 1, q + 1)]
           g == [i \in 0..MaxOps |-> Come(IF i <= n - p THEN p + i ELSE n)]
<1>1. /\ Threads(h, c, n) /\ n \in 0..MaxOps /\ n \in Nat /\ MaxOps \in Nat /\ p \in Nat /\ p <= n
      /\ ds \in [0..MaxOps -> Document]
  BY EditorConstants DEF Story, Threads
<1>2. Future(h, at, ds[p]) = way[MaxOps].docs
  BY DEF Future
<1>3. ASSUME NEW q \in p..(n - 1) PROVE StepOn(h, Come(q)) = Come(q + 1)
  <2>1. q + 1 \in 1..n /\ q + 1 \in 0..MaxOps /\ q + 1 \in Int /\ (q + 1) - 1 = q /\ q \in Nat
    BY <1>1
  <2>2. NodeAt(c, n, q + 1) = c[q + 1] /\ NodeAt(c, n, q + 1) # Nil
    BY <2>1, <1>1, NodeAtTyped DEF NodeAt
  <2>3. h.nodes[c[q + 1]].next = NodeAt(c, n, (q + 1) + 1)
    BY <2>1, <1>1 DEF Threads
  <2>4. Applied(h.nodes[c[q + 1]].op, ds[q]) = ds[q + 1]
    <3>1. Brings(h.nodes[c[q + 1]].op, ds[(q + 1) - 1], ds[q + 1])
      BY <2>1 DEF Story
    <3> QED BY <3>1, <2>1 DEF Brings
  <2>5. Append(Stretch(ds, p + 1, q + 1), ds[q + 1]) = Stretch(ds, p + 1, (q + 1) + 1)
    <3>1. PICK a \in Nat : a = p + 1
      BY <1>1
    <3>2. PICK b \in Nat : b = q + 1
      BY <2>1
    <3>3. a <= b /\ b <= MaxOps
      BY <3>1, <3>2, <1>1
    <3>4. Append(Stretch(ds, a, b), ds[b]) = Stretch(ds, a, b + 1)
      BY <3>3, <1>1, StretchLonger
    <3> QED BY <3>1, <3>2, <3>4
  <2>6. PICK w : w = Come(q)
    OBVIOUS
  <2>7. w.doc = ds[q] /\ w.node = c[q + 1] /\ w.node # Nil /\ w.docs = Stretch(ds, p + 1, q + 1)
    BY <2>2, <2>6
  <2>8. StepOn(h, w) = [doc |-> ds[q + 1], node |-> NodeAt(c, n, (q + 1) + 1), docs |-> Stretch(ds, p + 1, (q + 1) + 1)]
    BY <2>3, <2>4, <2>5, <2>7 DEF StepOn
  <2> QED BY <2>6, <2>8
<1>4. StepOn(h, Come(n)) = Come(n)
  <2>1. Come(n).node = Nil
    BY <1>1 DEF NodeAt
  <2> HIDE DEF Come
  <2> QED BY <2>1 DEF StepOn
<1>5. Come(p) = WayFrom(at, ds[p])
  <2>1. p + 1 \in Nat
    BY <1>1
  <2>2. Stretch(ds, p + 1, p + 1) = <<>>
    BY <2>1, StretchEmpty
  <2> QED BY <2>2 DEF WayFrom
<1>6. Come(n).docs = Stretch(ds, p + 1, n + 1)
  OBVIOUS
<1> HIDE DEF Come, at
<1>7. \A i \in 0..MaxOps : g[i] = Come(IF i <= n - p THEN p + i ELSE n)
  OBVIOUS
<1>8. ASSUME NEW i \in 0..MaxOps PROVE g[i] = IF i = 0 THEN WayFrom(at, ds[p]) ELSE StepOn(h, g[i - 1])
  <2>1. CASE i = 0
    <3>1. 0 \in 0..MaxOps /\ 0 <= n - p /\ p + 0 = p
      BY <1>1
    <3> QED BY <3>1, <2>1, <1>5, <1>7
  <2>2. CASE i # 0 /\ i <= n - p
    <3>1. PICK q \in p..(n - 1) : q = p + (i - 1)
      <4>1. p + (i - 1) \in p..(n - 1)
        BY <2>2, <1>1
      <4> QED BY <4>1
    <3>2. i - 1 \in 0..MaxOps /\ i - 1 <= n - p /\ p + i = q + 1
      BY <2>2, <3>1, <1>1
    <3>3. g[i] = Come(q + 1) /\ g[i - 1] = Come(q)
      BY <2>2, <3>1, <3>2, <1>7
    <3> QED BY <3>3, <2>2, <1>3
  <2>3. CASE i # 0 /\ ~(i <= n - p)
    <3>1. i - 1 \in 0..MaxOps /\ (i - 1 <= n - p => p + (i - 1) = n)
      BY <2>3, <1>1
    <3>2. g[i] = Come(n) /\ g[i - 1] = Come(n)
      BY <2>3, <3>1, <1>7
    <3> QED BY <3>2, <2>3, <1>4
  <2> QED BY <2>1, <2>2, <2>3
<1> HIDE DEF g
<1>9. g = [i \in 0..MaxOps |-> IF i = 0 THEN WayFrom(at, ds[p]) ELSE StepOn(h, g[i - 1])]
  <2>1. g = [i \in 0..MaxOps |-> g[i]]
    BY DEF g
  <2> QED BY <1>8, <2>1
<1>10. way = [i \in 0..MaxOps |-> IF i = 0 THEN WayFrom(at, ds[p]) ELSE StepOn(h, way[i - 1])]
  BY <1>9, Zenon
<1> HIDE DEF way
<1>11. \A i \in 0..MaxOps : way[i] = IF i = 0 THEN WayFrom(at, ds[p]) ELSE StepOn(h, way[i - 1])
  BY <1>10, Zenon
<1> DEFINE T == {i \in 0..MaxOps : way[i] = g[i]}
<1>12. \A i \in 0..MaxOps : i \in T
  <2>1. 0 \in T
    BY <1>1, <1>8, <1>11
  <2>2. ASSUME NEW i \in 0..MaxOps, i \in T, i < MaxOps PROVE i + 1 \in T
    <3>1. i + 1 \in 0..MaxOps /\ i + 1 # 0 /\ (i + 1) - 1 = i
      BY <2>2, <1>1
    <3> QED BY <3>1, <2>2, <1>8, <1>11
  <2> HIDE DEF T
  <2> QED BY <2>1, <2>2, <1>1, UpTo
<1>13. g[MaxOps] = Come(n)
  <2>1. MaxOps \in 0..MaxOps /\ (MaxOps <= n - p => p + MaxOps = n)
    BY <1>1
  <2> QED BY <2>1, <1>7
<1>14. MaxOps \in 0..MaxOps
  BY <1>1
<1> QED BY <1>2, <1>6, <1>12, <1>13, <1>14 DEF at

-----------------------------------------------------------------------------
(* The editor keeps the history it promises. *)

\* The list tells a story of n operations, and cursor k and document d stand after the p-th.
Stands(h, k, d, c, ds, n, p) ==
  Story(h, c, ds, n) /\ p \in 0..n /\ k = NodeAt(c, n, p) /\ d = ds[p]

\* The inductive invariant.
EditorInv == \E c, ds, n, p : Stands(history, cursor, doc, c, ds, n, p)

LEMMA StandsThere ==
  ASSUME NEW h, NEW k, NEW d, NEW c, NEW ds, NEW n, NEW p, Stands(h, k, d, c, ds, n, p)
  PROVE  /\ Past(h, k, d) = Stretch(ds, 0, p)
         /\ NextNode(h, k) = NodeAt(c, n, p + 1)
         /\ Future(h, NextNode(h, k), d) = Stretch(ds, p + 1, n + 1)
         /\ Len(Past(h, k, d)) + Len(Future(h, NextNode(h, k), d)) = h.size
<1>1. Story(h, c, ds, n) /\ p \in 0..n /\ k = NodeAt(c, n, p) /\ d = ds[p]
  BY DEF Stands
<1>2. /\ Threads(h, c, n) /\ n \in 0..MaxOps /\ n \in Nat /\ MaxOps \in Nat /\ p \in Nat /\ p <= n /\ h.size = n
      /\ ds \in [0..MaxOps -> Document]
  BY <1>1, EditorConstants DEF Story, Threads
<1>3. Past(h, k, d) = Stretch(ds, 0, p)
  BY <1>1, PastIs
<1>4. NextNode(h, k) = NodeAt(c, n, p + 1)
  <2>1. k = Nil <=> p \notin 1..n
    BY <1>1, <1>2, NodeAtTyped
  <2>2. CASE p = 0
    <3>1. h.head = NodeAt(c, n, 1) /\ p + 1 = 1 /\ k = Nil
      BY <2>1, <2>2, <1>2 DEF Threads
    <3> QED BY <3>1 DEF NextNode
  <2>3. CASE p # 0
    <3>1. p \in 1..n /\ k # Nil /\ k = c[p]
      BY <2>1, <2>3, <1>1, <1>2 DEF NodeAt
    <3>2. h.nodes[c[p]].next = NodeAt(c, n, p + 1)
      BY <3>1, <1>2 DEF Threads
    <3> QED BY <3>1, <3>2 DEF NextNode
  <2> QED BY <2>2, <2>3
<1>5. Future(h, NextNode(h, k), d) = Stretch(ds, p + 1, n + 1)
  BY <1>1, <1>4, FutureIs
<1>6. Len(Stretch(ds, 0, p)) = p
  <2>1. IsStretch(Stretch(ds, 0, p), ds, 0, p)
    BY <1>2, StretchIs
  <2> QED BY <2>1 DEF IsStretch
<1>7. Len(Stretch(ds, p + 1, n + 1)) = n - p
  <2>1. PICK l \in Nat : l = n - p
    <3>1. n - p \in Nat
      BY <1>2
    <3> QED BY <3>1
  <2>2. p + 1 \in Nat /\ n + 1 \in Nat /\ n + 1 = (p + 1) + l /\ n + 1 <= MaxOps + 1
    BY <2>1, <1>2
  <2>3. IsStretch(Stretch(ds, p + 1, n + 1), ds, p + 1, l)
    BY <2>1, <2>2, <1>2, StretchIs
  <2> QED BY <2>1, <2>3 DEF IsStretch
<1>8. p + (n - p) = n
  BY <1>2
<1> QED BY <1>2, <1>3, <1>4, <1>5, <1>6, <1>7, <1>8

\* What the list is cut to before an edit tells the story up to the cursor.
LEMMA CutStory ==
  ASSUME NEW h, NEW k, NEW d, NEW c, NEW ds, NEW n, NEW p, Stands(h, k, d, c, ds, n, p)
  PROVE  Story(IF k # h.tail THEN RemoveAfter(h, k) ELSE h, c, ds, p)
<1>1. Story(h, c, ds, n) /\ p \in 0..n /\ k = NodeAt(c, n, p) /\ d = ds[p]
  BY DEF Stands
<1>2. /\ Threads(h, c, n) /\ n \in 0..MaxOps /\ n \in Nat /\ p \in Nat /\ p <= n /\ h.tail = NodeAt(c, n, n)
      /\ c \in [1..MaxOps -> ListNodes] /\ ds \in [0..MaxOps -> Document]
  BY <1>1, EditorConstants DEF Story, Threads
<1>3. CASE k = h.tail
  <2>1. n \in 0..n
    BY <1>2
  <2>2. p = n
    BY <2>1, <1>1, <1>2, <1>3, PlaceOfNode
  <2> QED BY <2>2, <1>1, <1>3
<1>4. CASE k # h.tail
  <2>1. k = Nil <=> p \notin 1..n
    BY <1>1, <1>2, NodeAtTyped
  <2>2. CASE p = 0
    <3>1. RemoveAfter(h, k) = EmptyList
      BY <2>1, <2>2 DEF RemoveAfter
    <3> QED BY <3>1, <2>2, <1>2, <1>4, EmptyStory
  <2>3. CASE p # 0
    <3>1. p \in 1..n /\ k # Nil /\ k = c[p]
      BY <2>1, <2>3, <1>1, <1>2 DEF NodeAt
    <3>2. RemoveAfter(h, k) = CutAfter(h, c[p])
      BY <3>1 DEF RemoveAfter
    <3>3. Story(CutAfter(h, c[p]), c, ds, p)
      BY <3>1, <1>1, CutIs
    <3> QED BY <3>2, <3>3, <1>4
  <2> QED BY <2>2, <2>3
<1> QED BY <1>3, <1>4

\* A new edit is one more operation after the p-th, and the last.
LEMMA EditStep ==
  ASSUME NEW c, NEW ds, NEW n, NEW p, Stands(history, cursor, doc, c, ds, n, p),
         NEW op \in Operation, ApplyOperation(op)
  PROVE  EditorInv' /\ History!Next
<1>1. /\ Story(history, c, ds, n) /\ p \in Nat /\ n \in Nat /\ MaxOps \in Nat /\ doc = ds[p] /\ p <= n /\ n <= MaxOps
      /\ ds \in [0..MaxOps -> Document] /\ doc \in Document
  <2>1. /\ Story(history, c, ds, n) /\ p \in 0..n /\ n \in 0..MaxOps /\ doc = ds[p]
        /\ ds \in [0..MaxOps -> Document]
    BY DEF Stands, Story, Threads
  <2>2. p \in 0..MaxOps
    BY <2>1, EditorConstants
  <2> QED BY <2>1, <2>2, EditorConstants
<1>2. Brings(Remembering(op, doc), doc, doc')
  <2>1. CanApply(op, doc) /\ doc' = Applied(op, doc)
    BY DEF ApplyOperation
  <2> QED BY <2>1, <1>1, OperationBrings
<1>3. PICK h : h = IF cursor # history.tail THEN RemoveAfter(history, cursor) ELSE history
  OBVIOUS
<1>4. Story(h, c, ds, p)
  BY <1>3, CutStory
<1>5. PICK m \in ListNodes : h.nodes[m] = NoNode /\ history' = ListAppend(h, m, Remembering(op, doc)) /\ cursor' = m
  <2> DEFINE m == CHOOSE a \in Free(h) : \A b \in Free(h) : a <= b
  <2>1. Free(h) # {} /\ history' = ListAppend(h, m, Remembering(op, doc)) /\ cursor' = m
    BY <1>3 DEF ApplyOperation
  <2>2. m \in Free(h)
    <3>1. Free(h) \in SUBSET Nat
      BY DEF Free, ListNodes
    <3>2. \E a \in Free(h) : \A b \in Free(h) : a <= b
      BY <2>1, <3>1, LeastNatural
    <3> QED BY <3>2
  <2> HIDE DEF m
  <2> QED BY <2>1, <2>2 DEF Free
<1>6. PICK e : e = doc'
  OBVIOUS
<1>7. PICK d : d = Put(c, p + 1, m)
  OBVIOUS
<1>8. PICK es : es = Put(ds, p + 1, e)
  OBVIOUS
<1>9. p < MaxOps /\ Story(history', d, es, p + 1)
  <2>1. Brings(Remembering(op, doc), ds[p], e)
    BY <1>1, <1>2, <1>6
  <2> QED BY <2>1, <1>4, <1>5, <1>7, <1>8, AppendedIs
<1>10. p + 1 \in 0..(p + 1) /\ p + 1 \in 1..(p + 1) /\ p + 1 \in 0..MaxOps /\ p + 1 \in 1..MaxOps
  BY <1>1, <1>9
<1>11. d[p + 1] = m /\ es[p + 1] = e /\ \A i \in 0..p : es[i] = ds[i]
  <2>1. c \in [1..MaxOps -> ListNodes]
    BY <1>4 DEF Story, Threads
  <2>2. \A i \in 0..p : i # p + 1 /\ i \in 0..MaxOps
    BY <1>1
  <2> QED BY <2>1, <2>2, <1>1, <1>7, <1>8, <1>10 DEF Put
<1>12. Stands(history', cursor', doc', d, es, p + 1, p + 1)
  BY <1>5, <1>6, <1>9, <1>10, <1>11 DEF Stands, NodeAt
<1>13. EditorInv'
  BY <1>12 DEF EditorInv
<1>14. Past(history, cursor, doc) = Stretch(ds, 0, p)
  BY StandsThere
<1>15. /\ Past(history', cursor', doc') = Stretch(es, 0, p + 1)
       /\ Future(history', NextNode(history', cursor'), doc') = Stretch(es, (p + 1) + 1, (p + 1) + 1)
       /\ Len(Past(history', cursor', doc')) + Len(Future(history', NextNode(history', cursor'), doc')) = history'.size
  BY <1>12, StandsThere
<1>16. Stretch(es, 0, p + 1) = Append(Stretch(ds, 0, p), doc)
  <2>1. 0 <= p /\ p <= MaxOps /\ 0 \in Nat /\ es \in [0..MaxOps -> Document]
    BY <1>1, <1>9 DEF Story
  <2>2. Append(Stretch(es, 0, p), es[p]) = Stretch(es, 0, p + 1)
    BY <2>1, <1>1, StretchLonger
  <2>3. Stretch(es, 0, p) = Stretch(ds, 0, p)
    <3>1. p - 0 = p
      BY <1>1
    <3>2. \A j \in 1..p : 0 + (j - 1) \in 0..p
      BY <1>1
    <3>3. \A j \in 1..p : es[0 + (j - 1)] = ds[0 + (j - 1)]
      BY <3>2, <1>11
    <3>4. [j \in 1..p |-> es[0 + (j - 1)]] = [j \in 1..p |-> ds[0 + (j - 1)]]
      BY <3>3
    <3> QED BY <3>1, <3>4 DEF Stretch
  <2>4. es[p] = doc
    BY <1>1, <1>11, p \in 0..p
  <2> QED BY <2>2, <2>3, <2>4
<1>17. Stretch(es, (p + 1) + 1, (p + 1) + 1) = <<>>
  BY <1>1, (p + 1) + 1 \in Nat, StretchEmpty
<1>18. History!Edit
  BY <1>14, <1>15, <1>16, <1>17 DEF History!Edit
<1> QED BY <1>13, <1>15, <1>18 DEF History!Next

\* Undoing steps back over the p-th operation.
LEMMA UndoStep ==
  ASSUME NEW c, NEW ds, NEW n, NEW p, Stands(history, cursor, doc, c, ds, n, p), Undo
  PROVE  EditorInv' /\ History!Next
<1>1. /\ Story(history, c, ds, n) /\ Threads(history, c, n) /\ p \in 0..n /\ n \in 0..MaxOps /\ doc = ds[p]
      /\ cursor = NodeAt(c, n, p) /\ ds \in [0..MaxOps -> Document] /\ MaxOps \in Nat
  BY EditorConstants DEF Stands, Story, Threads
<1>2. cursor # Nil /\ history' = history
      /\ doc' = Reversed(history.nodes[cursor].op, doc) /\ cursor' = history.nodes[cursor].prev
  BY DEF Undo
<1>3. p \in 1..n /\ cursor = c[p]
  <2>1. cursor = Nil <=> p \notin 1..n
    BY <1>1, NodeAtTyped
  <2> QED BY <2>1, <1>1, <1>2 DEF NodeAt
<1>4. PICK q \in Nat : p = q + 1
  <2>1. p - 1 \in Nat /\ p = (p - 1) + 1
    BY <1>1, <1>3
  <2> QED BY <2>1
<1>5. q \in 0..n /\ p - 1 = q /\ q <= MaxOps /\ 0 <= q /\ 0 \in Nat
  BY <1>1, <1>3, <1>4
<1>6. doc' = ds[q]
  <2>1. Brings(history.nodes[c[p]].op, ds[p - 1], ds[p])
    BY <1>1, <1>3 DEF Story
  <2> QED BY <2>1, <1>1, <1>2, <1>3, <1>5 DEF Brings
<1>7. cursor' = NodeAt(c, n, q)
  BY <1>1, <1>2, <1>3, <1>5 DEF Threads
<1>8. Stands(history', cursor', doc', c, ds, n, q)
  BY <1>1, <1>2, <1>5, <1>6, <1>7 DEF Stands
<1>9. EditorInv'
  BY <1>8 DEF EditorInv
<1>10. /\ Past(history, cursor, doc) = Stretch(ds, 0, q + 1)
       /\ Future(history, NextNode(history, cursor), doc) = Stretch(ds, (q + 1) + 1, n + 1)
  BY <1>4, StandsThere
<1>11. /\ Past(history', cursor', doc') = Stretch(ds, 0, q)
       /\ Future(history', NextNode(history', cursor'), doc') = Stretch(ds, q + 1, n + 1)
       /\ Len(Past(history', cursor', doc')) + Len(Future(history', NextNode(history', cursor'), doc')) = history'.size
  BY <1>8, StandsThere
<1>12. /\ Stretch(ds, 0, q + 1) # <<>>
       /\ Stretch(ds, 0, q + 1)[Len(Stretch(ds, 0, q + 1))] = ds[q]
       /\ SubSeq(Stretch(ds, 0, q + 1), 1, Len(Stretch(ds, 0, q + 1)) - 1) = Stretch(ds, 0, q)
  BY <1>1, <1>5, StretchShorter
<1>13. <<doc>> \o Stretch(ds, (q + 1) + 1, n + 1) = Stretch(ds, q + 1, n + 1)
  <2>1. q + 1 \in Nat /\ n \in Nat /\ q + 1 <= n /\ n <= MaxOps /\ doc = ds[q + 1]
    BY <1>1, <1>3, <1>4
  <2> QED BY <2>1, <1>1, StretchLonger
<1>14. History!Undo
  BY <1>6, <1>10, <1>11, <1>12, <1>13 DEF History!Undo
<1> QED BY <1>9, <1>11, <1>14 DEF History!Next

\* Redoing steps on over the operation after the p-th, which remembers what it did.
LEMMA RedoStep ==
  ASSUME NEW c, NEW ds, NEW n, NEW p, Stands(history, cursor, doc, c, ds, n, p), Redo
  PROVE  EditorInv' /\ History!Next
<1>1. /\ Story(history, c, ds, n) /\ Threads(history, c, n) /\ p \in 0..n /\ n \in 0..MaxOps /\ doc = ds[p]
      /\ cursor = NodeAt(c, n, p) /\ ds \in [0..MaxOps -> Document] /\ MaxOps \in Nat
  BY EditorConstants DEF Stands, Story, Threads
<1>2. NextNode(history, cursor) = NodeAt(c, n, p + 1)
  BY StandsThere
<1>3. PICK x : x = NextNode(history, cursor)
  OBVIOUS
<1>4. x # Nil /\ doc' = Applied(history.nodes[x].op, doc) /\ cursor' = x
      /\ history' = [history EXCEPT !.nodes[x].op = Remembering(@, doc)]
  BY <1>3 DEF Redo
<1>5. PICK q \in Nat : q = p + 1
  BY <1>1
<1>6. q \in 1..n /\ x = c[q] /\ q \in 0..n /\ q - 1 = p /\ p \in Nat /\ n \in Nat /\ p <= MaxOps
  <2>1. q \in Int /\ x = NodeAt(c, n, q)
    BY <1>2, <1>3, <1>5
  <2>2. x = Nil <=> q \notin 1..n
    BY <2>1, <1>1, NodeAtTyped
  <2> QED BY <2>1, <2>2, <1>1, <1>4, <1>5 DEF NodeAt
<1>7. Brings(history.nodes[x].op, doc, ds[q])
  BY <1>1, <1>6 DEF Story
<1>8. history' = history
  <2>1. x \in ListNodes /\ history \in EditList
    <3>1. q \in 1..MaxOps
      BY <1>1, <1>6
    <3> QED BY <3>1, <1>1, <1>6 DEF Threads
  <2>2. Remembering(history.nodes[x].op, doc) = history.nodes[x].op
    BY <1>7 DEF Brings
  <2>3. PICK hd, tl, sz, nd : nd \in [ListNodes -> ListNode] /\ history = [head |-> hd, tail |-> tl, size |-> sz, nodes |-> nd]
    BY <2>1 DEF EditList
  <2>4. PICK o, pr, nx : nd[x] = [op |-> o, prev |-> pr, next |-> nx]
    BY <2>1, <2>3 DEF ListNode
  <2>5. [nd[x] EXCEPT !.op = o] = nd[x]
    BY <2>4
  <2>6. [nd EXCEPT ![x] = [nd[x] EXCEPT !.op = o]] = nd
    BY <2>1, <2>3, <2>5
  <2>7. history.nodes = nd /\ history.nodes[x].op = o
    BY <2>3, <2>4
  <2>8. history' = [history EXCEPT !.nodes = [nd EXCEPT ![x] = [nd[x] EXCEPT !.op = o]]]
    BY <2>2, <2>7, <1>4
  <2> QED BY <2>3, <2>6, <2>8
<1>9. doc' = ds[q]
  BY <1>4, <1>7 DEF Brings
<1>10. Stands(history', cursor', doc', c, ds, n, q)
  BY <1>1, <1>4, <1>6, <1>8, <1>9 DEF Stands, NodeAt
<1>11. EditorInv'
  BY <1>10 DEF EditorInv
<1>12. /\ Past(history, cursor, doc) = Stretch(ds, 0, p)
       /\ Future(history, NextNode(history, cursor), doc) = Stretch(ds, q, n + 1)
  BY <1>5, StandsThere
<1>13. /\ Past(history', cursor', doc') = Stretch(ds, 0, q)
       /\ Future(history', NextNode(history', cursor'), doc') = Stretch(ds, q + 1, n + 1)
       /\ Len(Past(history', cursor', doc')) + Len(Future(history', NextNode(history', cursor'), doc')) = history'.size
  BY <1>10, StandsThere
<1>14. Stretch(ds, 0, q) = Append(Stretch(ds, 0, p), doc)
  <2>1. 0 \in Nat /\ 0 <= p
    BY <1>6
  <2>2. Append(Stretch(ds, 0, p), ds[p]) = Stretch(ds, 0, p + 1)
    BY <2>1, <1>1, <1>6, StretchLonger
  <2> QED BY <2>2, <1>1, <1>5
<1>15. /\ Stretch(ds, q, n + 1) # <<>> /\ Head(Stretch(ds, q, n + 1)) = ds[q]
       /\ Tail(Stretch(ds, q, n + 1)) = Stretch(ds, q + 1, n + 1)
  <2>1. q <= n /\ n <= MaxOps
    BY <1>1, <1>6
  <2> QED BY <2>1, <1>1, <1>6, StretchShorter
<1>16. History!Redo
  BY <1>9, <1>12, <1>13, <1>14, <1>15 DEF History!Redo
<1> QED BY <1>11, <1>13, <1>16 DEF History!Next

LEMMA EditorStart == EditorInit => EditorInv /\ History!Init
<1> SUFFICES ASSUME EditorInit PROVE EditorInv /\ History!Init
  OBVIOUS
<1>1. MaxOps \in Nat
  BY EditorConstants
<1>2. doc \in Document
  <2>1. <<>> \in Seq(Alphabet) /\ <<>> \in Seq(Format)
    BY EmptySeq
  <2> QED BY <2>1 DEF EditorInit, Document
<1>3. PICK c : c = [i \in 1..MaxOps |-> i]
  OBVIOUS
<1>4. PICK ds : ds = [i \in 0..MaxOps |-> doc]
  OBVIOUS
<1>5. c \in [1..MaxOps -> ListNodes] /\ ds \in [0..MaxOps -> Document] /\ ds[0] = doc
  BY <1>1, <1>2, <1>3, <1>4 DEF ListNodes
<1>6. Stands(history, cursor, doc, c, ds, 0, 0)
  BY <1>5, EmptyStory DEF Stands, EditorInit, NodeAt
<1>7. Past(history, cursor, doc) = Stretch(ds, 0, 0)
      /\ Future(history, NextNode(history, cursor), doc) = Stretch(ds, 0 + 1, 0 + 1)
  BY <1>6, StandsThere
<1>8. Stretch(ds, 0, 0) = <<>> /\ Stretch(ds, 0 + 1, 0 + 1) = <<>>
  BY 0 + 1 \in Nat, StretchEmpty
<1>9. history.size = 0
  BY DEF EditorInit, EmptyList
<1> QED BY <1>6, <1>7, <1>8, <1>9 DEF EditorInv, History!Init

\* Undo gives back exactly the document before the operation and redo the one after it, whatever
\* edits, undos and redos came before, and a new edit discards what was undone.
THEOREM EditorRemembers == EditorSpec => ImplementsHistory
<1>1. EditorInit => EditorInv /\ History!Init
  BY EditorStart
<1>2. EditorInv /\ [EditorNext]_editorVars => EditorInv' /\ [History!Next]_History!historyVars
  <2> SUFFICES ASSUME EditorInv, [EditorNext]_editorVars PROVE EditorInv' /\ [History!Next]_History!historyVars
    OBVIOUS
  <2>1. PICK c, ds, n, p : Stands(history, cursor, doc, c, ds, n, p)
    BY DEF EditorInv
  <2>2. CASE handleInsert
    <3>1. PICK pos \in -1..(MaxText + 1), text \in Texts : ApplyOperation(InsertOperation(pos, text))
      BY <2>2 DEF handleInsert
    <3>2. InsertOperation(pos, text) \in Operation
      BY EditorConstants DEF InsertOperation, Operation, Insertion
    <3> QED BY <2>1, <3>1, <3>2, EditStep
  <2>3. CASE handleDelete
    <3>1. PICK pos \in -1..(MaxText + 1), len \in -1..(MaxText + 1) : ApplyOperation(DeleteOperation(pos, len))
      BY <2>3 DEF handleDelete
    <3>2. DeleteOperation(pos, len) \in Operation
      BY EditorConstants, NothingTyped DEF DeleteOperation, Operation, Deletion
    <3> QED BY <2>1, <3>1, <3>2, EditStep
  <2>4. CASE handleReplace
    <3>1. PICK pos \in -1..(MaxText + 1), old \in Texts, new \in Texts \ {<<>>} : ApplyOperation(ReplaceOperation(pos, old, new))
      BY <2>4 DEF handleReplace
    <3>2. ReplaceOperation(pos, old, new) \in Operation
      BY EditorConstants DEF ReplaceOperation, Operation, Replacement
    <3> QED BY <2>1, <3>1, <3>2, EditStep
  <2>5. CASE handleFormat
    <3>1. PICK pos \in -1..(MaxText + 1), len \in -1..(MaxText + 1), style \in Styles : ApplyOperation(FormatOperation(pos, len, style))
      BY <2>5 DEF handleFormat
    <3>2. FormatOperation(pos, len, style) \in Operation
      BY EditorConstants DEF FormatOperation, Operation, Formatting
    <3> QED BY <2>1, <3>1, <3>2, EditStep
  <2>6. CASE Undo
    BY <2>1, <2>6, UndoStep
  <2>7. CASE Redo
    BY <2>1, <2>7, RedoStep
  <2>8. CASE UNCHANGED editorVars
    <3>1. history' = history /\ cursor' = cursor /\ doc' = doc
      BY <2>8 DEF editorVars
    <3>2. EditorInv'
      BY <2>1, <3>1 DEF EditorInv
    <3>3. UNCHANGED History!historyVars
      BY <3>1 DEF History!historyVars
    <3> QED BY <3>2, <3>3
  <2> QED BY <2>2, <2>3, <2>4, <2>5, <2>6, <2>7, <2>8 DEF EditorNext
<1> QED BY <1>1, <1>2, PTL DEF EditorSpec, ImplementsHistory, History!HistorySpec

-----------------------------------------------------------------------------
(* The heap of the priority scheduler gives up its first task.             *)

\* A loop in the domain D: it ends in Ends with the value Result, and moves on everywhere else,
\* where the measure M goes down.  f is what comes out of it.
Descends(D, Ends, Move, M) == \A x \in D : M[x] \in Nat /\ (x \notin Ends => Move[x] \in D /\ M[Move[x]] < M[x])
Loops(f, D, Ends, Move, Result) == \A x \in D : f[x] = IF x \in Ends THEN Result[x] ELSE f[Move[x]]
Outcome(f, D, Ends, Move, Result) == f = [x \in D |-> IF x \in Ends THEN Result[x] ELSE f[Move[x]]]
Keeps(G, Ends, Move) == \A x \in G : x \notin Ends => Move[x] \in G
NoFarther(D, M, m) == {x \in D : M[x] <= m}

\* What holds where the measure is least if it fails anywhere, fails nowhere.
LEMMA LeastMeasure ==
  ASSUME NEW B, NEW M, \A x \in B : M[x] \in Nat, B # {}
  PROVE  \E x \in B : \A y \in B : M[x] <= M[y]
<1> DEFINE S == {M[x] : x \in B}
<1>1. S \in SUBSET Nat /\ S # {}
  OBVIOUS
<1>2. PICK n \in S : \A m \in S : n <= m
  BY <1>1, LeastNatural
<1>3. PICK x \in B : M[x] = n
  BY <1>2
<1> QED BY <1>2, <1>3

\* Two loops of the same moves agree wherever both run.
LEMMA LoopsAgree ==
  ASSUME NEW D, NEW Ends, NEW Move, NEW Result, NEW M, Descends(D, Ends, Move, M),
         NEW m \in Nat, NEW n \in Nat, m <= n, NEW f, NEW g,
         Loops(f, NoFarther(D, M, m), Ends, Move, Result), Loops(g, NoFarther(D, M, n), Ends, Move, Result)
  PROVE  \A x \in NoFarther(D, M, m) : f[x] = g[x]
<1> DEFINE B == {x \in NoFarther(D, M, m) : f[x] # g[x]}
<1> SUFFICES ASSUME B # {} PROVE FALSE
  OBVIOUS
<1>1. \A x \in B : M[x] \in Nat
  BY DEF Descends, NoFarther
<1>2. PICK x \in B : \A y \in B : M[x] <= M[y]
  BY <1>1, LeastMeasure
<1>3. x \in NoFarther(D, M, m) /\ x \in NoFarther(D, M, n) /\ f[x] # g[x]
  BY <1>1, <1>2 DEF NoFarther
<1>4. x \notin Ends
  BY <1>3 DEF Loops
<1>5. f[x] = f[Move[x]] /\ g[x] = g[Move[x]]
  BY <1>3, <1>4 DEF Loops
<1>6. Move[x] \in D /\ M[Move[x]] < M[x] /\ M[Move[x]] \in Nat /\ M[x] \in Nat
  BY <1>3, <1>4 DEF Descends, NoFarther
<1>7. Move[x] \in NoFarther(D, M, m)
  BY <1>3, <1>6 DEF NoFarther
<1>8. Move[x] \notin B
  BY <1>2, <1>6
<1> QED BY <1>3, <1>5, <1>7, <1>8

\* A loop whose measure goes down comes to something, from everywhere.
LEMMA LoopRuns ==
  ASSUME NEW D, NEW Ends, NEW Move, NEW Result, NEW M, Descends(D, Ends, Move, M)
  PROVE  \E f : Outcome(f, D, Ends, Move, Result)
<1> DEFINE T == {m \in Nat : \E f : Loops(f, NoFarther(D, M, m), Ends, Move, Result)}
<1>1. 0 \in T
  <2> DEFINE f == [x \in D |-> Result[x]]
  <2>1. \A x \in NoFarther(D, M, 0) : x \in Ends /\ f[x] = Result[x]
    <3> SUFFICES ASSUME NEW x \in NoFarther(D, M, 0) PROVE x \in Ends /\ f[x] = Result[x]
      OBVIOUS
    <3>1. x \in D /\ M[x] \in Nat /\ M[x] <= 0
      BY DEF NoFarther, Descends
    <3>2. x \in Ends
      <4> SUFFICES ASSUME x \notin Ends PROVE FALSE
        OBVIOUS
      <4>1. M[Move[x]] \in Nat /\ M[Move[x]] < M[x]
        BY <3>1 DEF Descends
      <4> QED BY <3>1, <4>1
    <3> QED BY <3>1, <3>2
  <2> HIDE DEF f
  <2>2. Loops(f, NoFarther(D, M, 0), Ends, Move, Result)
    BY <2>1 DEF Loops
  <2> QED BY <2>2
<1>2. ASSUME NEW m \in Nat, m \in T PROVE m + 1 \in T
  <2>1. PICK f : Loops(f, NoFarther(D, M, m), Ends, Move, Result)
    BY <1>2
  <2> DEFINE g == [x \in D |-> IF x \in Ends THEN Result[x] ELSE f[Move[x]]]
  <2>2. ASSUME NEW x \in NoFarther(D, M, m + 1) PROVE g[x] = IF x \in Ends THEN Result[x] ELSE g[Move[x]]
    <3>1. x \in D /\ g[x] = IF x \in Ends THEN Result[x] ELSE f[Move[x]]
      BY DEF NoFarther
    <3>2. CASE x \in Ends
      BY <3>1, <3>2
    <3>3. CASE x \notin Ends
      <4>1. Move[x] \in D /\ M[Move[x]] \in Nat /\ M[x] \in Nat /\ M[Move[x]] < M[x] /\ M[x] <= m + 1
        BY <3>1, <3>3 DEF Descends, NoFarther
      <4>2. Move[x] \in NoFarther(D, M, m)
        BY <4>1 DEF NoFarther
      <4>3. f[Move[x]] = IF Move[x] \in Ends THEN Result[Move[x]] ELSE f[Move[Move[x]]]
        BY <2>1, <4>2 DEF Loops
      <4>4. g[Move[x]] = IF Move[x] \in Ends THEN Result[Move[x]] ELSE f[Move[Move[x]]]
        BY <4>1
      <4> QED BY <3>1, <3>3, <4>3, <4>4
    <3> QED BY <3>2, <3>3
  <2> HIDE DEF g
  <2>3. Loops(g, NoFarther(D, M, m + 1), Ends, Move, Result)
    BY <2>2 DEF Loops
  <2> QED BY <2>3
<1>3. \A m \in Nat : m \in T
  <2> SUFFICES ASSUME NEW m \in Nat PROVE m \in T
    OBVIOUS
  <2> HIDE DEF T
  <2>1. \A k \in 0..m : k \in T /\ k < m => k + 1 \in T
    BY <1>2
  <2>2. \A k \in 0..m : k \in T
    BY <1>1, <2>1, UpTo
  <2> QED BY <2>2
<1> DEFINE F(m) == CHOOSE f : Loops(f, NoFarther(D, M, m), Ends, Move, Result)
<1>4. \A m \in Nat : Loops(F(m), NoFarther(D, M, m), Ends, Move, Result)
  BY <1>3
<1> HIDE DEF F
<1> DEFINE f == [x \in D |-> F(M[x])[x]]
<1>5. ASSUME NEW x \in D PROVE f[x] = IF x \in Ends THEN Result[x] ELSE f[Move[x]]
  <2>1. M[x] \in Nat /\ x \in NoFarther(D, M, M[x])
    BY DEF Descends, NoFarther
  <2>2. F(M[x])[x] = IF x \in Ends THEN Result[x] ELSE F(M[x])[Move[x]]
    BY <1>4, <2>1 DEF Loops
  <2>3. CASE x \in Ends
    BY <2>2, <2>3
  <2>4. CASE x \notin Ends
    <3>1. Move[x] \in D /\ M[Move[x]] \in Nat /\ M[Move[x]] < M[x]
      BY <2>4 DEF Descends
    <3>2. Move[x] \in NoFarther(D, M, M[Move[x]]) /\ M[Move[x]] <= M[x]
      BY <2>1, <3>1 DEF NoFarther
    <3>3. Loops(F(M[Move[x]]), NoFarther(D, M, M[Move[x]]), Ends, Move, Result) /\ Loops(F(M[x]), NoFarther(D, M, M[x]), Ends, Move, Result)
      BY <1>4, <2>1, <3>1
    <3>4. F(M[Move[x]])[Move[x]] = F(M[x])[Move[x]]
      BY <2>1, <3>1, <3>2, <3>3, LoopsAgree
    <3> QED BY <2>2, <2>4, <3>1, <3>4
  <2> QED BY <2>3, <2>4
<1>6. Outcome(f, D, Ends, Move, Result)
  BY <1>5 DEF Outcome
<1> HIDE DEF f
<1> QED BY <1>6

\* What every move keeps, holds where the loop ends.
LEMMA LoopEnds ==
  ASSUME NEW D, NEW Ends, NEW Move, NEW Result, NEW M, Descends(D, Ends, Move, M),
         NEW f, Outcome(f, D, Ends, Move, Result),
         NEW G \in SUBSET D, Keeps(G, Ends, Move),
         NEW a \in G
  PROVE  \E x \in G : x \in Ends /\ f[a] = Result[x]
<1> DEFINE Bad == {y \in G : ~\E x \in G : x \in Ends /\ f[y] = Result[x]}
<1> SUFFICES ASSUME Bad # {} PROVE FALSE
  OBVIOUS
<1>1. \A y \in Bad : M[y] \in Nat
  BY DEF Descends
<1>2. PICK y \in Bad : \A x \in Bad : M[y] <= M[x]
  BY <1>1, LeastMeasure
<1>3. y \in G /\ y \in D /\ ~\E x \in G : x \in Ends /\ f[y] = Result[x]
  BY <1>2
<1>4. y \notin Ends
  BY <1>3 DEF Outcome
<1>5. Move[y] \in G /\ M[Move[y]] < M[y] /\ M[y] \in Nat /\ M[Move[y]] \in Nat /\ f[y] = f[Move[y]]
  BY <1>3, <1>4 DEF Descends, Outcome, Keeps
<1>6. Move[y] \notin Bad
  BY <1>2, <1>5
<1> QED BY <1>3, <1>5, <1>6

\* t comes no later than u.
NoLater(t, u) == ~LessTask(u, t)

LEMMA TaskOrder ==
  ASSUME NEW t \in QueuedTask, NEW u \in QueuedTask
  PROVE  /\ NoLater(t, t) /\ (LessTask(t, u) => NoLater(t, u))
         /\ (NoLater(t, u) /\ t.pid # u.pid => LessTask(t, u))
         /\ \A v \in QueuedTask : NoLater(t, u) /\ NoLater(u, v) => NoLater(t, v)
  BY DEF QueuedTask, NoLater, LessTask

LEMMA HalfIs ==
  ASSUME NEW i \in Nat, i >= 2
  PROVE  /\ i \div 2 \in Nat /\ i \div 2 >= 1 /\ i \div 2 < i
         /\ (i = 2 * (i \div 2) \/ i = 2 * (i \div 2) + 1)
  OBVIOUS

LEMMA ChildrenAre ==
  ASSUME NEW k \in Nat, k >= 1
  PROVE  (2 * k) \div 2 = k /\ (2 * k + 1) \div 2 = k
  OBVIOUS

\* g has the tasks S, each once.
Files(g, n, S) ==
  /\ g \in [1..n -> QueuedTask]
  /\ \A i, j \in 1..n : i # j => g[i].pid # g[j].pid
  /\ \A i \in 1..n : g[i] \in S
  /\ \A t \in S : \E i \in 1..n : g[i] = t

\* No item comes before its parent,
HeapOrdered(g, n) == \A i \in 2..n : NoLater(g[i \div 2], g[i])

\* but perhaps the one at k, or the children of the one at k; these do not come before k's parent.
OrderedAbove(g, n, k) ==
  \A i \in 2..n : (i # k => NoLater(g[i \div 2], g[i])) /\ (i \div 2 = k /\ k > 1 => NoLater(g[k \div 2], g[i]))
OrderedBelow(g, n, k) ==
  \A i \in 2..n : (i \div 2 # k => NoLater(g[i \div 2], g[i])) /\ (i \div 2 = k /\ k > 1 => NoLater(g[k \div 2], g[i]))

LEMMA SwapIs ==
  ASSUME NEW n \in Nat, NEW g \in [1..n -> QueuedTask], NEW i \in 1..n, NEW j \in 1..n, i # j
  PROVE  /\ Swap(g, i, j) \in [1..n -> QueuedTask]
         /\ Swap(g, i, j)[i] = g[j] /\ Swap(g, i, j)[j] = g[i]
         /\ \A k \in 1..n : k # i /\ k # j => Swap(g, i, j)[k] = g[k]
  BY DEF Swap

LEMMA SwapFiles ==
  ASSUME NEW n \in Nat, NEW S, NEW g, Files(g, n, S), NEW i \in 1..n, NEW j \in 1..n, i # j
  PROVE  Files(Swap(g, i, j), n, S)
<1>0. g \in [1..n -> QueuedTask]
  BY DEF Files
<1>1. PICK h : h = Swap(g, i, j)
  OBVIOUS
<1>2. /\ h \in [1..n -> QueuedTask] /\ h[i] = g[j] /\ h[j] = g[i]
      /\ \A k \in 1..n : k # i /\ k # j => h[k] = g[k]
  BY <1>0, <1>1, SwapIs
<1>3. \A k, l \in 1..n : k # l => h[k].pid # h[l].pid
  BY <1>2 DEF Files
<1>4. \A k \in 1..n : h[k] \in S
  BY <1>2 DEF Files
<1>5. ASSUME NEW t \in S PROVE \E k \in 1..n : h[k] = t
  <2>1. PICK k \in 1..n : g[k] = t
    BY DEF Files
  <2> QED BY <1>2, <2>1
<1> QED BY <1>1, <1>2, <1>3, <1>4, <1>5 DEF Files

\* An item that comes before its parent changes places with it.
LEMMA RiseKeeps ==
  ASSUME NEW n \in Nat, NEW g \in [1..n -> QueuedTask], NEW k \in 2..n,
         OrderedAbove(g, n, k), LessTask(g[k], g[k \div 2])
  PROVE  k \div 2 \in 1..n /\ k \div 2 # k /\ OrderedAbove(Swap(g, k, k \div 2), n, k \div 2)
<1>1. PICK p \in 1..n : p = k \div 2 /\ p < k
  BY HalfIs
<1>2. PICK h : h = Swap(g, k, p)
  OBVIOUS
<1>3. h \in [1..n -> QueuedTask] /\ h[k] = g[p] /\ h[p] = g[k] /\ \A i \in 1..n : i # k /\ i # p => h[i] = g[i]
  BY <1>1, <1>2, SwapIs
<1>4. ASSUME NEW i \in 2..n, i # p PROVE NoLater(h[i \div 2], h[i])
  <2>1. PICK q \in 1..n : q = i \div 2 /\ q < i
    BY HalfIs
  <2>2. CASE i = k
    BY <1>1, <1>3, <2>1, <2>2, TaskOrder
  <2>3. CASE i # k /\ q = k
    <3>1. NoLater(g[p], g[i]) /\ h[i] = g[i]
      BY <1>1, <1>3, <1>4, <2>1, <2>3 DEF OrderedAbove
    <3> QED BY <1>3, <2>1, <2>3, <3>1
  <2>4. CASE i # k /\ q = p
    <3>1. NoLater(g[p], g[i]) /\ h[i] = g[i] /\ NoLater(g[k], g[p])
      BY <1>1, <1>3, <1>4, <2>1, <2>4, TaskOrder DEF OrderedAbove
    <3>2. NoLater(g[k], g[i])
      BY <3>1, TaskOrder
    <3> QED BY <1>3, <2>1, <2>4, <3>1, <3>2
  <2>5. CASE i # k /\ q # k /\ q # p
    BY <1>3, <1>4, <2>1, <2>5 DEF OrderedAbove
  <2> QED BY <2>2, <2>3, <2>4, <2>5
<1>5. ASSUME NEW i \in 2..n, i \div 2 = p, p > 1 PROVE NoLater(h[p \div 2], h[i])
  <2>1. PICK r \in 1..n : r = p \div 2 /\ r < p
    BY <1>5, HalfIs
  <2>2. h[r] = g[r] /\ NoLater(g[r], g[p])
    BY <1>1, <1>3, <1>5, <2>1 DEF OrderedAbove
  <2>3. CASE i = k
    BY <1>3, <2>1, <2>2, <2>3
  <2>4. CASE i # k
    <3>1. i # p
      BY <1>5, HalfIs
    <3>2. NoLater(g[p], g[i]) /\ h[i] = g[i]
      BY <1>3, <1>5, <2>4, <3>1 DEF OrderedAbove
    <3>3. NoLater(g[r], g[i])
      BY <2>2, <3>2, TaskOrder
    <3> QED BY <2>1, <2>2, <3>2, <3>3
  <2> QED BY <2>3, <2>4
<1> QED BY <1>1, <1>2, <1>4, <1>5 DEF OrderedAbove

\* The smallest of an item and its children.
LEMMA SmallestIs ==
  ASSUME NEW n \in Nat, NEW g \in [1..n -> QueuedTask], NEW k \in 1..n
  PROVE  /\ SmallestOf(g, k) \in 1..n
         /\ SmallestOf(g, k) # k => /\ SmallestOf(g, k) >= 2 /\ SmallestOf(g, k) \div 2 = k
                                    /\ LessTask(g[SmallestOf(g, k)], g[k]) /\ SmallestOf(g, k) > k
         /\ \A i \in 2..n : i \div 2 = k => NoLater(g[SmallestOf(g, k)], g[i])
<1> DEFINE smaller(c, m) == IF c \in DOMAIN g /\ LessTask(g[c], g[m]) THEN c ELSE m
<1>1. PICK a : a = smaller(2 * k, k)
  OBVIOUS
<1>2. PICK b : b = smaller(2 * k + 1, a)
  OBVIOUS
<1>3. SmallestOf(g, k) = b
  BY <1>1, <1>2 DEF SmallestOf
<1>4. DOMAIN g = 1..n
  OBVIOUS
<1>5. /\ a \in 1..n /\ (a = k \/ (a = 2 * k /\ LessTask(g[a], g[k])))
      /\ NoLater(g[a], g[k]) /\ (2 * k \in 1..n => NoLater(g[a], g[2 * k]))
  <2>1. CASE 2 * k \in 1..n /\ LessTask(g[2 * k], g[k])
    BY <1>1, <1>4, <2>1, TaskOrder
  <2>2. CASE ~(2 * k \in 1..n /\ LessTask(g[2 * k], g[k]))
    <3>1. a = k
      BY <1>1, <1>4, <2>2
    <3> QED BY <2>2, <3>1, TaskOrder DEF NoLater
  <2> QED BY <2>1, <2>2
<1>6. /\ b \in 1..n /\ (b = a \/ (b = 2 * k + 1 /\ LessTask(g[b], g[a])))
      /\ NoLater(g[b], g[a]) /\ (2 * k + 1 \in 1..n => NoLater(g[b], g[2 * k + 1]))
  <2>1. CASE 2 * k + 1 \in 1..n /\ LessTask(g[2 * k + 1], g[a])
    BY <1>2, <1>4, <1>5, <2>1, TaskOrder
  <2>2. CASE ~(2 * k + 1 \in 1..n /\ LessTask(g[2 * k + 1], g[a]))
    <3>1. b = a
      BY <1>2, <1>4, <2>2
    <3> QED BY <1>5, <2>2, <3>1, TaskOrder DEF NoLater
  <2> QED BY <2>1, <2>2
<1>7. ASSUME b # k PROVE b >= 2 /\ b \div 2 = k /\ LessTask(g[b], g[k]) /\ b > k
  <2>1. CASE b = a
    BY <1>5, <1>7, <2>1, ChildrenAre
  <2>2. CASE b = 2 * k + 1 /\ LessTask(g[b], g[a])
    <3>1. LessTask(g[b], g[k])
      <4>1. PICK t, u, v \in QueuedTask : t = g[b] /\ u = g[a] /\ v = g[k]
        BY <1>5, <1>6
      <4>2. LessTask(t, u) /\ ~LessTask(v, u)
        BY <1>5, <2>2, <4>1 DEF NoLater
      <4>3. LessTask(t, v)
        BY <4>2 DEF LessTask, QueuedTask
      <4> QED BY <4>1, <4>3
    <3> QED BY <2>2, <3>1, ChildrenAre
  <2> QED BY <1>6, <2>1, <2>2
<1>8. ASSUME NEW i \in 2..n, i \div 2 = k PROVE NoLater(g[b], g[i])
  <2>1. i = 2 * k \/ i = 2 * k + 1
    BY <1>8, HalfIs
  <2>2. CASE i = 2 * k
    BY <1>5, <1>6, <2>2, TaskOrder
  <2> QED BY <1>6, <2>1, <2>2
<1> QED BY <1>3, <1>6, <1>7, <1>8

\* An item that comes after a child changes places with the smallest.
LEMMA SinkKeeps ==
  ASSUME NEW n \in Nat, NEW g \in [1..n -> QueuedTask], NEW k \in 1..n,
         OrderedBelow(g, n, k), SmallestOf(g, k) # k
  PROVE  OrderedBelow(Swap(g, k, SmallestOf(g, k)), n, SmallestOf(g, k))
<1>1. PICK m \in 2..n : m = SmallestOf(g, k) /\ m \div 2 = k /\ k < m /\ LessTask(g[m], g[k])
  BY SmallestIs
<1>2. \A i \in 2..n : i \div 2 = k => NoLater(g[m], g[i])
  BY <1>1, SmallestIs
<1>3. PICK h : h = Swap(g, k, m)
  OBVIOUS
<1>4. h \in [1..n -> QueuedTask] /\ h[k] = g[m] /\ h[m] = g[k] /\ \A i \in 1..n : i # k /\ i # m => h[i] = g[i]
  BY <1>1, <1>3, SwapIs
<1>5. ASSUME NEW i \in 2..n, i \div 2 # m PROVE NoLater(h[i \div 2], h[i])
  <2>1. PICK q \in 1..n : q = i \div 2 /\ q < i
    BY HalfIs
  <2>2. CASE i = m
    BY <1>1, <1>4, <2>1, <2>2, TaskOrder
  <2>3. CASE i # m /\ q = k
    BY <1>2, <1>4, <2>1, <2>3
  <2>4. CASE i = k
    <3>1. k > 1 /\ m \div 2 = k /\ q # k /\ q # m
      BY <1>1, <1>5, <2>1, <2>4
    <3>2. NoLater(g[q], g[m])
      BY <1>1, <2>1, <2>4, <3>1 DEF OrderedBelow
    <3> QED BY <1>4, <2>1, <2>4, <3>1, <3>2
  <2>5. CASE i # m /\ i # k /\ q # k
    <3>1. NoLater(g[q], g[i])
      BY <2>1, <2>5 DEF OrderedBelow
    <3> QED BY <1>4, <1>5, <2>1, <2>5, <3>1
  <2> QED BY <2>2, <2>3, <2>4, <2>5
<1>6. ASSUME NEW i \in 2..n, i \div 2 = m PROVE NoLater(h[m \div 2], h[i])
  <2>1. i > m /\ i # k
    BY <1>1, <1>6, HalfIs
  <2>2. NoLater(g[m], g[i])
    BY <1>1, <1>6 DEF OrderedBelow
  <2> QED BY <1>1, <1>4, <2>1, <2>2
<1> QED BY <1>1, <1>3, <1>5, <1>6 DEF OrderedBelow

\* The root comes first.
LEMMA RootIsFirst ==
  ASSUME NEW n \in Nat, NEW g \in [1..n -> QueuedTask], HeapOrdered(g, n)
  PROVE  \A i \in 1..n : NoLater(g[1], g[i])
<1> DEFINE Bad == {i \in 1..n : ~NoLater(g[1], g[i])}
<1> SUFFICES ASSUME Bad # {} PROVE FALSE
  OBVIOUS
<1>1. Bad \in SUBSET Nat
  OBVIOUS
<1>2. PICK k \in Bad : \A m \in Bad : k <= m
  BY <1>1, LeastNatural
<1>3. k \in 1..n /\ ~NoLater(g[1], g[k])
  BY <1>2
<1>4. k # 1
  BY <1>3, TaskOrder
<1>5. PICK q \in 1..n : q = k \div 2 /\ q < k
  BY <1>3, <1>4, HalfIs
<1>6. NoLater(g[q], g[k])
  BY <1>3, <1>4, <1>5 DEF HeapOrdered
<1>7. NoLater(g[1], g[q])
  <2>1. q \notin Bad
    BY <1>2, <1>5
  <2> QED BY <2>1
<1> QED BY <1>3, <1>5, <1>6, <1>7, TaskOrder

LEMMA MovingIs ==
  ASSUME NEW n \in Nat, NEW w \in Moving(n), NEW i \in 1..n, i # w.index
  PROVE  /\ MovedTo(w, i) \in Moving(n)
         /\ MovedTo(w, i).items = Swap(w.items, w.index, i) /\ MovedTo(w, i).index = i
<1>1. w.items \in [1..n -> QueuedTask] /\ w.index \in 1..n
  BY DEF Moving
<1>2. Swap(w.items, w.index, i) \in [1..n -> QueuedTask]
  BY <1>1, SwapIs
<1> QED BY <1>2 DEF Moving, MovedTo

\* heapifyUp: the tasks stay the same, and only one that was out of order moves.
LEMMA UpIs ==
  ASSUME NEW n \in Nat, NEW g \in [1..n -> QueuedTask], Len(g) = n, NEW k \in 1..n, NEW S
  PROVE  /\ HeapifyUp(g, k) \in [1..n -> QueuedTask]
         /\ Files(g, n, S) => Files(HeapifyUp(g, k), n, S)
         /\ OrderedAbove(g, n, k) => HeapOrdered(HeapifyUp(g, k), n)
<1> DEFINE Stays(w) == w.index = 1 \/ ~LessTask(w.items[w.index], w.items[w.index \div 2])
           D == Moving(n)
           Ends == {w \in D : Stays(w)}
           Move == [w \in D |-> MovedTo(w, w.index \div 2)]
           Result == [w \in D |-> w.items]
           M == [w \in D |-> w.index]
           Up(f) == [w \in D |-> IF Stays(w) THEN w.items ELSE f[MovedTo(w, w.index \div 2)]]
           up == CHOOSE up : up = [w \in Moving(Len(g)) |->
                    IF w.index = 1 \/ ~LessTask(w.items[w.index], w.items[w.index \div 2]) THEN w.items
                    ELSE up[MovedTo(w, w.index \div 2)]]
<1>1. ASSUME NEW w \in D, w \notin Ends
      PROVE  w.index \in 2..n /\ w.index \div 2 \in 1..n /\ w.index \div 2 < w.index
             /\ w.items \in [1..n -> QueuedTask] /\ LessTask(w.items[w.index], w.items[w.index \div 2])
  <2>1. w.index \in 1..n /\ w.index # 1 /\ w.items \in [1..n -> QueuedTask]
    BY <1>1 DEF Moving
  <2> QED BY <1>1, <2>1, HalfIs
<1>2. ASSUME NEW w \in D, w \notin Ends PROVE Move[w] \in D /\ M[Move[w]] < M[w]
  <2>1. MovedTo(w, w.index \div 2) \in D /\ MovedTo(w, w.index \div 2).index = w.index \div 2
    <3>1. w.index \div 2 \in 1..n /\ w.index \div 2 # w.index
      BY <1>1, <1>2
    <3> QED BY <3>1, MovingIs
  <2> QED BY <1>1, <1>2, <2>1
<1>3. Descends(D, Ends, Move, M)
  <2>1. \A w \in D : M[w] \in Nat
    BY DEF Moving
  <2> HIDE DEF D, Ends, Move, M
  <2> QED BY <1>2, <2>1 DEF Descends
<1>4. \A f : [w \in D |-> IF w \in Ends THEN Result[w] ELSE f[Move[w]]] = Up(f)
  OBVIOUS
<1>5. \E f : f = Up(f)
  <2> HIDE DEF Up, Ends, Move, Result, M, D
  <2>1. PICK f : Outcome(f, D, Ends, Move, Result)
    BY <1>3, LoopRuns
  <2> QED BY <1>4, <2>1 DEF Outcome
<1>6. up = Up(up)
  BY <1>5, Zenon
<1>7. HeapifyUp(g, k) = up[[items |-> g, index |-> k]]
  BY DEF HeapifyUp
<1> HIDE DEF up
<1>8. Outcome(up, D, Ends, Move, Result)
  BY <1>4, <1>6 DEF Outcome
<1> DEFINE Lasts(w) == (Files(g, n, S) => Files(w.items, n, S)) /\ (OrderedAbove(g, n, k) => OrderedAbove(w.items, n, w.index))
           G == {w \in D : Lasts(w)}
<1>9. ASSUME NEW w \in G, w \notin Ends PROVE Move[w] \in G
  <2>1. w \in D /\ Lasts(w) /\ Move[w] \in D /\ Move[w] = MovedTo(w, w.index \div 2)
    BY <1>2, <1>9
  <2>2. PICK p \in 1..n : p = w.index \div 2 /\ p # w.index
    BY <1>1, <1>9
  <2>3. MovedTo(w, p).items = Swap(w.items, w.index, p) /\ MovedTo(w, p).index = p
    BY <2>1, <2>2, MovingIs
  <2>4. Files(g, n, S) => Files(Swap(w.items, w.index, p), n, S)
    <3>1. w.index \in 1..n
      BY <1>1, <1>9
    <3> QED BY <2>1, <2>2, <3>1, SwapFiles
  <2>5. OrderedAbove(g, n, k) => OrderedAbove(Swap(w.items, w.index, p), n, p)
    <3>1. w.items \in [1..n -> QueuedTask] /\ w.index \in 2..n /\ LessTask(w.items[w.index], w.items[w.index \div 2])
      BY <1>1, <1>9
    <3>2. OrderedAbove(w.items, n, w.index) => OrderedAbove(Swap(w.items, w.index, w.index \div 2), n, w.index \div 2)
      BY <3>1, RiseKeeps
    <3> QED BY <2>1, <2>2, <3>2
  <2> QED BY <2>1, <2>2, <2>3, <2>4, <2>5
<1>10. [items |-> g, index |-> k] \in G
  BY DEF Moving
<1>11. PICK w \in G : w \in Ends /\ HeapifyUp(g, k) = Result[w]
  <2> HIDE DEF G, Ends, Move, Result, M, D
  <2>1. G \in SUBSET D
    BY DEF G
  <2>2. Keeps(G, Ends, Move)
    BY <1>9 DEF Keeps
  <2>3. PICK a : a = [items |-> g, index |-> k]
    OBVIOUS
  <2>4. a \in G
    BY <1>10, <2>3
  <2>5. \E w \in G : w \in Ends /\ up[a] = Result[w]
    BY <1>3, <1>8, <2>1, <2>2, <2>4, LoopEnds
  <2> QED BY <1>7, <2>3, <2>5
<1>12. w \in D /\ Lasts(w) /\ Stays(w) /\ HeapifyUp(g, k) = w.items /\ w.items \in [1..n -> QueuedTask] /\ w.index \in 1..n
  BY <1>11 DEF Moving
<1>13. ASSUME OrderedAbove(w.items, n, w.index) PROVE HeapOrdered(w.items, n)
  <2> SUFFICES ASSUME NEW i \in 2..n PROVE NoLater(w.items[i \div 2], w.items[i])
    BY DEF HeapOrdered
  <2> QED BY <1>12, <1>13 DEF OrderedAbove, NoLater
<1> QED BY <1>12, <1>13

\* heapifyDown, likewise.
LEMMA DownIs ==
  ASSUME NEW n \in Nat, NEW g \in [1..n -> QueuedTask], Len(g) = n, NEW k \in 1..n, NEW S
  PROVE  /\ HeapifyDown(g, k) \in [1..n -> QueuedTask]
         /\ Files(g, n, S) => Files(HeapifyDown(g, k), n, S)
         /\ OrderedBelow(g, n, k) => HeapOrdered(HeapifyDown(g, k), n)
<1> DEFINE Next1(w) == SmallestOf(w.items, w.index)
           D == Moving(n)
           Ends == {w \in D : Next1(w) = w.index}
           Move == [w \in D |-> MovedTo(w, Next1(w))]
           Result == [w \in D |-> w.items]
           M == [w \in D |-> n - w.index]
           Down(f) == [w \in D |-> IF Next1(w) = w.index THEN w.items ELSE f[MovedTo(w, Next1(w))]]
           down == CHOOSE down : down = [w \in Moving(Len(g)) |->
                    IF SmallestOf(w.items, w.index) = w.index THEN w.items
                    ELSE down[MovedTo(w, SmallestOf(w.items, w.index))]]
<1>0. ASSUME NEW w \in D PROVE w.index \in 1..n /\ w.items \in [1..n -> QueuedTask] /\ Next1(w) \in 1..n
  <2>1. w.index \in 1..n /\ w.items \in [1..n -> QueuedTask]
    BY DEF Moving
  <2> QED BY <2>1, SmallestIs
<1>1. ASSUME NEW w \in D, w \notin Ends PROVE Next1(w) \in 1..n /\ Next1(w) > w.index
  <2>1. Next1(w) # w.index
    BY <1>1
  <2> QED BY <1>0, <2>1, SmallestIs
<1>2. ASSUME NEW w \in D, w \notin Ends PROVE Move[w] \in D /\ M[Move[w]] < M[w]
  <2>1. MovedTo(w, Next1(w)) \in D /\ MovedTo(w, Next1(w)).index = Next1(w)
    <3>1. Next1(w) \in 1..n /\ Next1(w) # w.index
      BY <1>0, <1>1, <1>2
    <3> QED BY <3>1, MovingIs
  <2>2. M[Move[w]] = n - Next1(w) /\ M[w] = n - w.index
    BY <2>1
  <2> QED BY <1>0, <1>1, <1>2, <2>1, <2>2
<1>3. Descends(D, Ends, Move, M)
  <2>1. \A w \in D : M[w] \in Nat
    BY <1>0
  <2> HIDE DEF D, Ends, Move, M
  <2> QED BY <1>2, <2>1 DEF Descends
<1>4. \A f : [w \in D |-> IF w \in Ends THEN Result[w] ELSE f[Move[w]]] = Down(f)
  OBVIOUS
<1>5. \E f : f = Down(f)
  <2> HIDE DEF Down, Ends, Move, Result, M, D
  <2>1. PICK f : Outcome(f, D, Ends, Move, Result)
    BY <1>3, LoopRuns
  <2> QED BY <1>4, <2>1 DEF Outcome
<1>6. down = Down(down)
  BY <1>5, Zenon
<1>7. HeapifyDown(g, k) = down[[items |-> g, index |-> k]]
  BY DEF HeapifyDown
<1> HIDE DEF down
<1>8. Outcome(down, D, Ends, Move, Result)
  BY <1>4, <1>6 DEF Outcome
<1> DEFINE Lasts(w) == (Files(g, n, S) => Files(w.items, n, S)) /\ (OrderedBelow(g, n, k) => OrderedBelow(w.items, n, w.index))
           G == {w \in D : Lasts(w)}
<1>9. ASSUME NEW w \in G, w \notin Ends PROVE Move[w] \in G
  <2>1. w \in D /\ Lasts(w) /\ Move[w] \in D /\ Move[w] = MovedTo(w, Next1(w))
    BY <1>2, <1>9
  <2>2. PICK p \in 1..n : p = Next1(w) /\ p # w.index
    BY <1>0, <1>1, <1>9
  <2>3. MovedTo(w, p).items = Swap(w.items, w.index, p) /\ MovedTo(w, p).index = p
    BY <2>1, <2>2, MovingIs
  <2>4. Files(g, n, S) => Files(Swap(w.items, w.index, p), n, S)
    <3>1. w.index \in 1..n
      BY <1>0, <1>9
    <3> QED BY <2>1, <2>2, <3>1, SwapFiles
  <2>5. OrderedBelow(g, n, k) => OrderedBelow(Swap(w.items, w.index, p), n, p)
    <3>1. w.items \in [1..n -> QueuedTask] /\ w.index \in 1..n
      BY <1>0, <1>9
    <3>2. OrderedBelow(w.items, n, w.index) => OrderedBelow(Swap(w.items, w.index, Next1(w)), n, Next1(w))
      BY <2>2, <3>1, SinkKeeps
    <3> QED BY <2>1, <2>2, <3>2
  <2> QED BY <2>1, <2>2, <2>3, <2>4, <2>5
<1>10. [items |-> g, index |-> k] \in G
  BY DEF Moving
<1>11. PICK w \in G : w \in Ends /\ HeapifyDown(g, k) = Result[w]
  <2> HIDE DEF G, Ends, Move, Result, M, D
  <2>1. G \in SUBSET D
    BY DEF G
  <2>2. Keeps(G, Ends, Move)
    BY <1>9 DEF Keeps
  <2>3. PICK a : a = [items |-> g, index |-> k]
    OBVIOUS
  <2>4. a \in G
    BY <1>10, <2>3
  <2>5. \E w \in G : w \in Ends /\ down[a] = Result[w]
    BY <1>3, <1>8, <2>1, <2>2, <2>4, LoopEnds
  <2> QED BY <1>7, <2>3, <2>5
<1>12. w \in D /\ Lasts(w) /\ Next1(w) = w.index /\ HeapifyDown(g, k) = w.items /\ w.items \in [1..n -> QueuedTask] /\ w.index \in 1..n
  BY <1>0, <1>11
<1>13. ASSUME OrderedBelow(w.items, n, w.index) PROVE HeapOrdered(w.items, n)
  <2>1. \A i \in 2..n : i \div 2 = w.index => NoLater(w.items[w.index], w.items[i])
    BY <1>12, SmallestIs
  <2> SUFFICES ASSUME NEW i \in 2..n PROVE NoLater(w.items[i \div 2], w.items[i])
    BY DEF HeapOrdered
  <2> QED BY <1>12, <1>13, <2>1 DEF OrderedBelow
<1> QED BY <1>12, <1>13

LEMMA FilesSeq ==
  ASSUME NEW n \in Nat, NEW g \in [1..n -> QueuedTask]
  PROVE  g \in Seq(QueuedTask) /\ Len(g) = n
  OBVIOUS

\* A heap of n tasks, which are the tasks S.
HeapOf(h, n, S) == Files(h, n, S) /\ HeapOrdered(h, n)
\* h is a heap of the tasks S.
IsHeap(h, S) == \E n \in Nat : HeapOf(h, n, S)

\* g is h and then x.
Longer(g, n, h, x) ==
  /\ g \in [1..(n + 1) -> QueuedTask] /\ Len(g) = n + 1 /\ n + 1 \in Nat /\ n + 1 \in 1..(n + 1)
  /\ g[n + 1] = x /\ \A i \in 1..n : g[i] = h[i]

LEMMA LongerByOne ==
  ASSUME NEW n \in Nat, NEW h \in Seq(QueuedTask), Len(h) = n, NEW x \in QueuedTask
  PROVE  Longer(Append(h, x), n, h, x)
<1>0. PICK g : g = Append(h, x)
  OBVIOUS
<1>1. g \in Seq(QueuedTask) /\ Len(g) = n + 1
  BY <1>0
<1>2. g[n + 1] = x /\ \A i \in 1..n : g[i] = h[i]
  BY <1>0
<1>3. g \in [1..(n + 1) -> QueuedTask]
  BY <1>1, LenProperties
<1> QED BY <1>0, <1>1, <1>2, <1>3 DEF Longer

LEMMA PushTyped ==
  ASSUME NEW h \in Seq(QueuedTask), NEW x \in QueuedTask
  PROVE  Push(h, x) \in Seq(QueuedTask)
<1>1. PICK n \in Nat : n = Len(h)
  BY LenProperties
<1>2. PICK g : g = Append(h, x)
  OBVIOUS
<1>3. g \in [1..(n + 1) -> QueuedTask] /\ Len(g) = n + 1 /\ n + 1 \in Nat /\ n + 1 \in 1..(n + 1)
  BY <1>1, <1>2, LongerByOne DEF Longer
<1>4. HeapifyUp(g, n + 1) \in [1..(n + 1) -> QueuedTask]
  BY <1>3, UpIs
<1>5. Push(h, x) = HeapifyUp(g, n + 1)
  BY <1>1, <1>2 DEF Push
<1> QED BY <1>3, <1>4, <1>5, FilesSeq

\* A task pushed is one more in the heap.
LEMMA PushIs ==
  ASSUME NEW S \in SUBSET QueuedTask, NEW h, IsHeap(h, S), NEW x \in QueuedTask, \A t \in S : t.pid # x.pid
  PROVE  IsHeap(Push(h, x), S \cup {x})
<1>1. PICK n \in Nat : HeapOf(h, n, S)
  BY DEF IsHeap
<1>2. h \in [1..n -> QueuedTask] /\ h \in Seq(QueuedTask) /\ Len(h) = n
  BY <1>1, FilesSeq DEF HeapOf, Files
<1>3. PICK g : g = Append(h, x)
  OBVIOUS
<1>4. /\ g \in [1..(n + 1) -> QueuedTask] /\ Len(g) = n + 1 /\ n + 1 \in Nat /\ n + 1 \in 1..(n + 1)
      /\ g[n + 1] = x /\ \A i \in 1..n : g[i] = h[i]
  <2>1. Longer(g, n, h, x)
    BY <1>2, <1>3, LongerByOne
  <2> QED BY <2>1 DEF Longer
<1>5. Files(g, n + 1, S \cup {x})
  <2>1. ASSUME NEW i \in 1..(n + 1), NEW j \in 1..(n + 1), i # j PROVE g[i].pid # g[j].pid
    <3>1. \A k \in 1..(n + 1) : k \in 1..n \/ k = n + 1
      OBVIOUS
    <3>2. \A k \in 1..n : g[k] \in S
      BY <1>1, <1>4 DEF HeapOf, Files
    <3>3. CASE i \in 1..n /\ j \in 1..n
      BY <1>1, <1>4, <2>1, <3>3 DEF HeapOf, Files
    <3>4. CASE i \in 1..n /\ j = n + 1
      BY <1>4, <3>2, <3>4
    <3>5. CASE i = n + 1 /\ j \in 1..n
      BY <1>4, <3>2, <3>5
    <3> QED BY <2>1, <3>1, <3>3, <3>4, <3>5
  <2>2. ASSUME NEW i \in 1..(n + 1) PROVE g[i] \in S \cup {x}
    <3>1. i \in 1..n \/ i = n + 1
      OBVIOUS
    <3> QED BY <1>1, <1>4, <3>1 DEF HeapOf, Files
  <2>3. ASSUME NEW t \in S \cup {x} PROVE \E i \in 1..(n + 1) : g[i] = t
    <3>1. CASE t = x
      BY <1>4, <3>1
    <3>2. CASE t \in S
      <4>1. PICK i \in 1..n : h[i] = t
        BY <1>1, <3>2 DEF HeapOf, Files
      <4>2. i \in 1..(n + 1) /\ g[i] = t
        BY <1>4, <4>1
      <4> QED BY <4>2
    <3> QED BY <3>1, <3>2
  <2> QED BY <1>4, <2>1, <2>2, <2>3 DEF Files
<1>6. OrderedAbove(g, n + 1, n + 1)
  <2> SUFFICES ASSUME NEW i \in 2..(n + 1)
               PROVE  (i # n + 1 => NoLater(g[i \div 2], g[i])) /\ i \div 2 # n + 1
    BY DEF OrderedAbove
  <2>1. PICK q \in 1..n : q = i \div 2 /\ q < i
    BY HalfIs
  <2>2. CASE i # n + 1
    <3>1. i \in 2..n /\ g[i] = h[i] /\ g[q] = h[q]
      BY <1>4, <2>1, <2>2
    <3> QED BY <1>1, <2>1, <3>1 DEF HeapOf, HeapOrdered
  <2> QED BY <2>1, <2>2
<1>7. HeapOf(HeapifyUp(g, n + 1), n + 1, S \cup {x})
  <2>1. Files(HeapifyUp(g, n + 1), n + 1, S \cup {x}) /\ HeapOrdered(HeapifyUp(g, n + 1), n + 1)
    BY <1>4, <1>5, <1>6, UpIs
  <2> QED BY <2>1 DEF HeapOf
<1>8. Push(h, x) = HeapifyUp(g, n + 1)
  BY <1>2, <1>3 DEF Push
<1> QED BY <1>4, <1>7, <1>8 DEF IsHeap

\* r is h without its first task, the last in its place.
Left(r, n, h) ==
  /\ r \in Seq(QueuedTask) /\ r \in [1..(n - 1) -> QueuedTask] /\ Len(r) = n - 1
  /\ \A i \in 1..(n - 1) : r[i] = IF i = 1 THEN h[n] ELSE h[i]

LEMMA LeftIs ==
  ASSUME NEW n \in Nat \ {0}, NEW h \in Seq(QueuedTask), Len(h) = n
  PROVE  Left(SubSeq([h EXCEPT ![1] = h[Len(h)]], 1, Len(h) - 1), n, h)
<1>1. n \in 1..Len(h) /\ 1 \in 1..Len(h)
  OBVIOUS
<1>2. h[n] \in QueuedTask
  BY <1>1, ElementOfSeq
<1>3. PICK e : e = [h EXCEPT ![1] = h[n]]
  OBVIOUS
<1>4. e \in Seq(QueuedTask) /\ Len(e) = n /\ \A i \in 1..n : e[i] = IF i = 1 THEN h[n] ELSE h[i]
  BY <1>1, <1>2, <1>3, ExceptSeq
<1>5. PICK r : r = SubSeq(e, 1, n - 1)
  OBVIOUS
<1>6. r \in Seq(QueuedTask) /\ Len(r) = n - 1
  <2>1. \A i \in 1..(n - 1) : e[i] \in QueuedTask
    BY <1>4, ElementOfSeq
  <2>2. n - 1 \in Int /\ 1 \in Int
    OBVIOUS
  <2>3. SubSeq(e, 1, n - 1) \in Seq(QueuedTask) /\ Len(SubSeq(e, 1, n - 1)) = IF 1 <= n - 1 THEN n - 1 - 1 + 1 ELSE 0
    BY <2>1, <2>2, SubSeqProperties
  <2> QED BY <1>5, <2>3
<1>7. \A i \in 1..(n - 1) : r[i] = e[i]
  <2> TAKE i \in 1..(n - 1)
  <2> QED BY <1>4, <1>5
<1>8. r \in [1..(n - 1) -> QueuedTask]
  BY <1>6, LenProperties
<1>9. Left(r, n, h)
  BY <1>4, <1>6, <1>7, <1>8 DEF Left
<1>10. SubSeq([h EXCEPT ![1] = h[Len(h)]], 1, Len(h) - 1) = r
  BY <1>3, <1>5
<1> QED BY <1>9, <1>10

LEMMA NotEmpty ==
  ASSUME NEW h \in Seq(QueuedTask), h # <<>>
  PROVE  \E n \in Nat \ {0} : Len(h) = n /\ Left(SubSeq([h EXCEPT ![1] = h[Len(h)]], 1, Len(h) - 1), n, h)
<1>1. PICK n \in Nat \ {0} : Len(h) = n
  BY EmptySeq
<1> QED BY <1>1, LeftIs

LEMMA PoppedTyped ==
  ASSUME NEW h \in Seq(QueuedTask), h # <<>>
  PROVE  Popped(h) \in Seq(QueuedTask)
<1>1. PICK r : r = SubSeq([h EXCEPT ![1] = h[Len(h)]], 1, Len(h) - 1)
  OBVIOUS
<1>2. PICK n \in Nat \ {0} : Left(r, n, h)
  BY <1>1, NotEmpty
<1>3. Popped(h) = IF r = <<>> THEN r ELSE HeapifyDown(r, 1)
  BY <1>1 DEF Popped
<1>4. r \in Seq(QueuedTask) /\ r \in [1..(n - 1) -> QueuedTask] /\ Len(r) = n - 1 /\ n - 1 \in Nat
  BY <1>2 DEF Left
<1>5. CASE r = <<>>
  BY <1>3, <1>4, <1>5
<1>6. CASE r # <<>>
  <2>1. 1 \in 1..(n - 1)
    <3>1. Len(r) \in Nat \ {0}
      BY <1>4, <1>6, EmptySeq
    <3> QED BY <1>4, <3>1
  <2>2. HeapifyDown(r, 1) \in [1..(n - 1) -> QueuedTask]
    BY <1>4, <2>1, DownIs
  <2> QED BY <1>3, <1>4, <1>6, <2>2, FilesSeq
<1> QED BY <1>5, <1>6

\* Pop takes the first task and leaves a heap of the others.
LEMMA PoppedIs ==
  ASSUME NEW S \in SUBSET QueuedTask, NEW h, IsHeap(h, S), h # <<>>
  PROVE  /\ Head(h) \in S /\ \A t \in S : NoLater(Head(h), t)
         /\ IsHeap(Popped(h), S \ {Head(h)})
<1>1. PICK m \in Nat : HeapOf(h, m, S)
  BY DEF IsHeap
<1>2. h \in [1..m -> QueuedTask] /\ h \in Seq(QueuedTask) /\ Len(h) = m
  BY <1>1, FilesSeq DEF HeapOf, Files
<1>3. PICK r : r = SubSeq([h EXCEPT ![1] = h[Len(h)]], 1, Len(h) - 1)
  OBVIOUS
<1>4. PICK n \in Nat \ {0} : n = m /\ Left(r, n, h)
  BY <1>2, <1>3, NotEmpty
<1>5. Files(h, n, S) /\ HeapOrdered(h, n) /\ h \in [1..n -> QueuedTask]
  BY <1>1, <1>2, <1>4 DEF HeapOf
<1>6. PICK a \in QueuedTask : a = Head(h) /\ a = h[1] /\ 1 \in 1..n
  <2>1. Head(h) = h[1] /\ 1 \in 1..n
    BY <1>2, <1>4
  <2> QED BY <1>5, <2>1
<1>7. a \in S /\ \A t \in S : NoLater(a, t)
  <2>1. \A i \in 1..n : NoLater(a, h[i])
    BY <1>5, <1>6, RootIsFirst
  <2> QED BY <1>5, <1>6, <2>1 DEF Files
<1>8. PICK l \in Nat : l = n - 1
  OBVIOUS
<1>9. r \in Seq(QueuedTask) /\ r \in [1..l -> QueuedTask] /\ Len(r) = l /\ \A i \in 1..l : r[i] = IF i = 1 THEN h[n] ELSE h[i]
  BY <1>4, <1>8 DEF Left
<1>10. Files(r, l, S \ {a})
  <2>1. ASSUME NEW i \in 1..l PROVE \E k \in 2..n : r[i] = h[k] /\ (i = 1 => k = n) /\ (i # 1 => k = i)
    <3>1. CASE i = 1
      BY <1>8, <1>9, <3>1
    <3>2. CASE i # 1
      BY <1>8, <1>9, <3>2
    <3> QED BY <3>1, <3>2
  <2>2. ASSUME NEW i \in 1..l, NEW j \in 1..l, i # j PROVE r[i].pid # r[j].pid
    <3>1. PICK k \in 2..n : r[i] = h[k] /\ (i = 1 => k = n) /\ (i # 1 => k = i)
      BY <2>1
    <3>2. PICK q \in 2..n : r[j] = h[q] /\ (j = 1 => q = n) /\ (j # 1 => q = j)
      BY <2>1
    <3>3. k # q
      BY <1>8, <2>2, <3>1, <3>2
    <3> QED BY <1>5, <3>1, <3>2, <3>3 DEF Files
  <2>3. ASSUME NEW i \in 1..l PROVE r[i] \in S \ {a}
    <3>1. PICK k \in 2..n : r[i] = h[k]
      BY <2>1
    <3>2. h[k] \in S /\ h[k].pid # h[1].pid
      BY <1>5, <1>6 DEF Files
    <3> QED BY <1>6, <3>1, <3>2
  <2>4. ASSUME NEW t \in S \ {a} PROVE \E i \in 1..l : r[i] = t
    <3>1. PICK k \in 1..n : h[k] = t
      BY <1>5 DEF Files
    <3>2. k # 1
      BY <1>6, <2>4, <3>1
    <3>3. CASE k = n
      <4>1. 1 \in 1..l /\ r[1] = h[n]
        BY <1>8, <1>9, <3>2, <3>3
      <4> QED BY <3>1, <3>3, <4>1
    <3>4. CASE k # n
      <4>1. k \in 1..l /\ r[k] = h[k]
        BY <1>8, <1>9, <3>2, <3>4
      <4> QED BY <3>1, <4>1
    <3> QED BY <3>3, <3>4
  <2> QED BY <1>9, <2>2, <2>3, <2>4 DEF Files
<1>11. OrderedBelow(r, l, 1)
  <2> SUFFICES ASSUME NEW i \in 2..l, i \div 2 # 1 PROVE NoLater(r[i \div 2], r[i])
    BY DEF OrderedBelow
  <2>1. PICK q \in 1..l : q = i \div 2 /\ q < i
    BY HalfIs
  <2>2. i \in 2..n /\ r[i] = h[i] /\ r[q] = h[q]
    BY <1>8, <1>9, <2>1
  <2> QED BY <1>5, <2>1, <2>2 DEF HeapOrdered
<1>12. Popped(h) = IF r = <<>> THEN r ELSE HeapifyDown(r, 1)
  BY <1>3 DEF Popped
<1>13. HeapOf(Popped(h), l, S \ {a})
  <2>1. CASE r = <<>>
    <3>1. l = 0
      BY <1>9, <2>1, EmptySeq
    <3>2. HeapOrdered(r, l)
      BY <3>1 DEF HeapOrdered
    <3> QED BY <1>10, <1>12, <2>1, <3>2 DEF HeapOf
  <2>2. CASE r # <<>>
    <3>1. 1 \in 1..l
      <4>1. Len(r) \in Nat \ {0}
        BY <1>9, <2>2, EmptySeq
      <4> QED BY <1>9, <4>1
    <3>2. Files(HeapifyDown(r, 1), l, S \ {a}) /\ HeapOrdered(HeapifyDown(r, 1), l)
      BY <1>9, <1>10, <1>11, <3>1, DownIs
    <3> QED BY <1>12, <2>2, <3>2 DEF HeapOf
  <2> QED BY <2>1, <2>2
<1> QED BY <1>6, <1>7, <1>13 DEF IsHeap

LEMMA AgedIs ==
  ASSUME NEW t \in QueuedTask
  PROVE  Aged(t) \in QueuedTask /\ Aged(t).pid = t.pid
<1>1. CASE t.priority > 1
  <2>1. Aged(t) = [t EXCEPT !.priority = t.priority - 1] /\ t.priority - 1 \in Nat
    BY <1>1 DEF Aged, QueuedTask
  <2> QED BY <2>1 DEF QueuedTask
<1>2. CASE ~(t.priority > 1)
  BY <1>2 DEF Aged
<1> QED BY <1>1, <1>2

\* The tasks of a sequence have different PIDs, none of them past n.
Apart(q, n) ==
  /\ q \in Seq(QueuedTask)
  /\ \A i, j \in 1..Len(q) : i # j => q[i].pid # q[j].pid
  /\ \A i \in 1..Len(q) : q[i].pid <= n
\* No task of S has the PID of one in q, or one past n.
Clear(S, q, n) == \A t \in S : t.pid <= n /\ \A i \in 1..Len(q) : q[i].pid # t.pid

LEMMA ApartAppend ==
  ASSUME NEW q, NEW n \in Nat, Apart(q, n), NEW x \in QueuedTask, x.pid <= n, \A i \in 1..Len(q) : q[i].pid # x.pid
  PROVE  Apart(Append(q, x), n)
<1>1. PICK l \in Nat : l = Len(q) /\ q \in Seq(QueuedTask)
  BY LenProperties DEF Apart
<1>2. PICK g : g = Append(q, x)
  OBVIOUS
<1>3. Longer(g, l, q, x) /\ g \in Seq(QueuedTask)
  BY <1>1, <1>2, LongerByOne
<1>4. Len(g) = l + 1 /\ g[l + 1] = x /\ \A i \in 1..l : g[i] = q[i]
  BY <1>3 DEF Longer
<1>5. \A i \in 1..(l + 1) : i \in 1..l \/ i = l + 1
  BY <1>1
<1>6. ASSUME NEW i \in 1..(l + 1), NEW j \in 1..(l + 1), i # j PROVE g[i].pid # g[j].pid
  <2>1. CASE i \in 1..l /\ j \in 1..l
    BY <1>1, <1>4, <1>6, <2>1 DEF Apart
  <2>2. CASE i \in 1..l /\ j = l + 1
    BY <1>1, <1>4, <2>2
  <2>3. CASE i = l + 1 /\ j \in 1..l
    BY <1>1, <1>4, <2>3
  <2> QED BY <1>5, <1>6, <2>1, <2>2, <2>3
<1>7. ASSUME NEW i \in 1..(l + 1) PROVE g[i].pid <= n
  <2>1. CASE i \in 1..l
    BY <1>1, <1>4, <2>1 DEF Apart
  <2> QED BY <1>4, <1>5, <2>1
<1> QED BY <1>2, <1>3, <1>4, <1>6, <1>7 DEF Apart

LEMMA ApartEmpty == ASSUME NEW n PROVE Apart(<<>>, n)
<1>1. <<>> \in Seq(QueuedTask) /\ Len(<<>>) = 0
  BY EmptySeq
<1> QED BY <1>1 DEF Apart

LEMMA ClearAppend ==
  ASSUME NEW S \in SUBSET QueuedTask, NEW q, NEW n \in Nat, Apart(q, n), Clear(S, q, n), NEW x \in QueuedTask,
         NEW R \in SUBSET S, \A u \in R : u.pid # x.pid
  PROVE  Clear(R, Append(q, x), n)
<1>1. PICK l \in Nat : l = Len(q) /\ q \in Seq(QueuedTask)
  BY LenProperties DEF Apart
<1>2. PICK g : g = Append(q, x)
  OBVIOUS
<1>3. Longer(g, l, q, x)
  BY <1>1, <1>2, LongerByOne
<1>4. Len(g) = l + 1 /\ g[l + 1] = x /\ \A i \in 1..l : g[i] = q[i]
  BY <1>3 DEF Longer
<1>5. ASSUME NEW u \in R, NEW i \in 1..(l + 1) PROVE g[i].pid # u.pid
  <2>1. i \in 1..l \/ i = l + 1
    OBVIOUS
  <2> QED BY <1>1, <1>4, <2>1 DEF Clear
<1> QED BY <1>2, <1>4, <1>5 DEF Clear

LEMMA HeapPIDs ==
  ASSUME NEW h, NEW S, IsHeap(h, S), NEW t \in S, NEW u \in S, t # u
  PROVE  t.pid # u.pid
<1>1. PICK n \in Nat : Files(h, n, S)
  BY DEF IsHeap, HeapOf
<1> QED BY <1>1 DEF Files

LEMMA PoppedShorter ==
  ASSUME NEW h \in Seq(QueuedTask), h # <<>>
  PROVE  Len(Popped(h)) < Len(h)
<1>1. PICK r : r = SubSeq([h EXCEPT ![1] = h[Len(h)]], 1, Len(h) - 1)
  OBVIOUS
<1>2. PICK n \in Nat \ {0} : Len(h) = n /\ Left(r, n, h)
  BY <1>1, NotEmpty
<1>3. Popped(h) = IF r = <<>> THEN r ELSE HeapifyDown(r, 1)
  BY <1>1 DEF Popped
<1>4. r \in Seq(QueuedTask) /\ r \in [1..(n - 1) -> QueuedTask] /\ Len(r) = n - 1 /\ n - 1 \in Nat
  BY <1>2 DEF Left
<1>5. CASE r = <<>>
  BY <1>2, <1>3, <1>4, <1>5
<1>6. CASE r # <<>>
  <2>1. 1 \in 1..(n - 1)
    <3>1. Len(r) \in Nat \ {0}
      BY <1>4, <1>6, EmptySeq
    <3> QED BY <1>4, <3>1
  <2>2. HeapifyDown(r, 1) \in [1..(n - 1) -> QueuedTask]
    BY <1>4, <2>1, DownIs
  <2>3. Len(HeapifyDown(r, 1)) = n - 1
    BY <1>4, <2>2, FilesSeq
  <2> QED BY <1>2, <1>3, <1>6, <2>3
<1> QED BY <1>5, <1>6

\* Popping and aging keep the tasks apart.
LEMMA RefillIs ==
  ASSUME NEW n \in Nat, NEW S \in SUBSET QueuedTask, NEW h \in Seq(QueuedTask), IsHeap(h, S), \A t \in S : t.pid <= n
  PROVE  Apart(Refill(h), n)
<1> DEFINE D == InTransit
           Ends == {w \in D : w.from = <<>>}
           Move == [w \in D |-> AgeFirst(w)]
           Result == [w \in D |-> w.to]
           M == [w \in D |-> Len(w.from)]
           Pop1(f) == [w \in D |-> IF w.from = <<>> THEN w.to ELSE f[AgeFirst(w)]]
           pop == CHOOSE pop : pop = [w \in InTransit |-> IF w.from = <<>> THEN w.to ELSE pop[AgeFirst(w)]]
<1>1. ASSUME NEW w \in D, w \notin Ends
      PROVE  /\ w.from \in Seq(QueuedTask) /\ w.from # <<>> /\ w.to \in Seq(QueuedTask) /\ Head(w.from) \in QueuedTask
             /\ AgeFirst(w) \in D /\ AgeFirst(w).from = Popped(w.from) /\ AgeFirst(w).to = Append(w.to, Aged(Head(w.from)))
  <2>1. w.from \in Seq(QueuedTask) /\ w.from # <<>> /\ w.to \in Seq(QueuedTask)
    BY <1>1 DEF InTransit
  <2>2. Head(w.from) \in QueuedTask
    BY <2>1, HeadTailProperties
  <2>3. Popped(w.from) \in Seq(QueuedTask)
    BY <2>1, PoppedTyped
  <2>4. Append(w.to, Aged(Head(w.from))) \in Seq(QueuedTask)
    BY <2>1, <2>2, AgedIs
  <2> QED BY <2>1, <2>2, <2>3, <2>4 DEF AgeFirst, InTransit
<1>2. ASSUME NEW w \in D, w \notin Ends PROVE Move[w] \in D /\ M[Move[w]] < M[w]
  <2>1. Len(Popped(w.from)) < Len(w.from)
    BY <1>1, <1>2, PoppedShorter
  <2> QED BY <1>1, <1>2, <2>1
<1>3. Descends(D, Ends, Move, M)
  <2>1. \A w \in D : M[w] \in Nat
    <3> TAKE w \in D
    <3>1. w.from \in Seq(QueuedTask)
      BY DEF InTransit
    <3>2. Len(w.from) \in Nat
      BY <3>1, LenProperties
    <3> QED BY <3>2
  <2> HIDE DEF D, Ends, Move, M
  <2> QED BY <1>2, <2>1 DEF Descends
<1>4. \A f : [w \in D |-> IF w \in Ends THEN Result[w] ELSE f[Move[w]]] = Pop1(f)
  OBVIOUS
<1>5. \E f : f = Pop1(f)
  <2> HIDE DEF Pop1, Ends, Move, Result, M, D
  <2>1. PICK f : Outcome(f, D, Ends, Move, Result)
    BY <1>3, LoopRuns
  <2> QED BY <1>4, <2>1 DEF Outcome
<1>6. pop = Pop1(pop)
  BY <1>5, Zenon
<1>7. Refill(h) = pop[[from |-> h, to |-> <<>>]]
  BY DEF Refill
<1> HIDE DEF pop
<1>8. Outcome(pop, D, Ends, Move, Result)
  BY <1>4, <1>6 DEF Outcome
<1> DEFINE Lasts(w) == Apart(w.to, n) /\ \E R \in SUBSET QueuedTask : IsHeap(w.from, R) /\ Clear(R, w.to, n)
           G == {w \in D : Lasts(w)}
<1>9. ASSUME NEW w \in G, w \notin Ends PROVE Move[w] \in G
  <2>1. w \in D /\ Move[w] = AgeFirst(w) /\ Move[w] \in D /\ Apart(w.to, n)
    BY <1>2, <1>9
  <2>2. PICK R \in SUBSET QueuedTask : IsHeap(w.from, R) /\ Clear(R, w.to, n)
    BY <1>9
  <2>3. PICK t \in QueuedTask : t = Head(w.from) /\ w.from # <<>>
    BY <1>1, <1>9
  <2>4. t \in R /\ IsHeap(Popped(w.from), R \ {t})
    BY <2>2, <2>3, PoppedIs
  <2>5. Aged(t) \in QueuedTask /\ Aged(t).pid = t.pid /\ t.pid <= n /\ \A i \in 1..Len(w.to) : w.to[i].pid # t.pid
    BY <2>2, <2>4, AgedIs DEF Clear
  <2>6. Apart(Append(w.to, Aged(t)), n)
    BY <2>1, <2>5, ApartAppend
  <2>7. Clear(R \ {t}, Append(w.to, Aged(t)), n)
    <3>1. \A u \in R \ {t} : u.pid # t.pid
      BY <2>2, <2>4, HeapPIDs
    <3> QED BY <2>1, <2>2, <2>5, <3>1, ClearAppend
  <2>8. AgeFirst(w).from = Popped(w.from) /\ AgeFirst(w).to = Append(w.to, Aged(t))
    BY <1>1, <1>9, <2>3
  <2>9. Lasts(AgeFirst(w))
    <3>1. R \ {t} \in SUBSET QueuedTask
      OBVIOUS
    <3> QED BY <2>4, <2>6, <2>7, <2>8, <3>1
  <2> QED BY <2>1, <2>9
<1>10. [from |-> h, to |-> <<>>] \in G
  <2>1. Clear(S, <<>>, n)
    BY EmptySeq DEF Clear
  <2>2. Apart(<<>>, n) /\ <<>> \in Seq(QueuedTask)
    BY ApartEmpty, EmptySeq
  <2> QED BY <2>1, <2>2 DEF InTransit
<1>11. PICK w \in G : w \in Ends /\ Refill(h) = Result[w]
  <2> HIDE DEF G, Ends, Move, Result, M, D
  <2>1. G \in SUBSET D
    BY DEF G
  <2>2. Keeps(G, Ends, Move)
    BY <1>9 DEF Keeps
  <2>3. PICK a : a = [from |-> h, to |-> <<>>]
    OBVIOUS
  <2>4. a \in G
    BY <1>10, <2>3
  <2>5. \E w \in G : w \in Ends /\ pop[a] = Result[w]
    BY <1>3, <1>8, <2>1, <2>2, <2>4, LoopEnds
  <2> QED BY <1>7, <2>3, <2>5
<1> QED BY <1>11

\* r is q without its first task a.
WithoutFirst(r, q, a) ==
  /\ r \in Seq(QueuedTask) /\ Len(q) = Len(r) + 1 /\ 1 \in 1..Len(q) /\ q[1] = a
  /\ \A i \in 1..Len(r) : i + 1 \in 1..Len(q) /\ i + 1 # 1 /\ r[i] = q[i + 1]

LEMMA WithoutFirstIs ==
  ASSUME NEW q \in Seq(QueuedTask), q # <<>>
  PROVE  WithoutFirst(Tail(q), q, Head(q)) /\ Len(Tail(q)) < Len(q)
<1>1. PICK n \in Nat \ {0} : Len(q) = n
  BY EmptySeq
<1>2. PICK r : r = Tail(q)
  OBVIOUS
<1>3. r \in Seq(QueuedTask) /\ Len(r) = n - 1 /\ q[1] = Head(q)
  BY <1>1, <1>2
<1>4. \A i \in 1..(n - 1) : r[i] = q[i + 1]
  BY <1>1, <1>2
<1>5. \A i \in 1..(n - 1) : i + 1 \in 1..n /\ i + 1 # 1
  OBVIOUS
<1> QED BY <1>1, <1>2, <1>3, <1>4, <1>5 DEF WithoutFirst

\* The first of tasks that are apart goes to the others.
LEMMA TailKeeps ==
  ASSUME NEW n \in Nat, NEW S \in SUBSET QueuedTask, NEW q, Apart(q, n), q # <<>>, Clear(S, q, n)
  PROVE  /\ Head(q) \in QueuedTask /\ \A t \in S : t.pid # Head(q).pid
         /\ Apart(Tail(q), n) /\ Clear(S \cup {Head(q)}, Tail(q), n)
<1>1. q \in Seq(QueuedTask) /\ Head(q) \in QueuedTask
  BY HeadTailProperties DEF Apart
<1>2. PICK r : r = Tail(q)
  OBVIOUS
<1>3. PICK a \in QueuedTask : a = Head(q)
  BY <1>1
<1>4. WithoutFirst(r, q, a)
  BY <1>1, <1>2, <1>3, WithoutFirstIs
<1>5. a.pid <= n /\ \A t \in S : t.pid # a.pid
  BY <1>4 DEF WithoutFirst, Apart, Clear
<1>6. Apart(r, n)
  <2>1. ASSUME NEW i \in 1..Len(r), NEW j \in 1..Len(r), i # j PROVE r[i].pid # r[j].pid
    <3>1. i + 1 \in 1..Len(q) /\ r[i] = q[i + 1] /\ j + 1 \in 1..Len(q) /\ r[j] = q[j + 1]
      BY <1>4 DEF WithoutFirst
    <3>2. i + 1 # j + 1
      BY <2>1
    <3> QED BY <3>1, <3>2 DEF Apart
  <2>2. ASSUME NEW i \in 1..Len(r) PROVE r[i].pid <= n
    <3>1. i + 1 \in 1..Len(q) /\ r[i] = q[i + 1]
      BY <1>4 DEF WithoutFirst
    <3> QED BY <3>1 DEF Apart
  <2>3. r \in Seq(QueuedTask)
    BY <1>4 DEF WithoutFirst
  <2> QED BY <2>1, <2>2, <2>3 DEF Apart
<1>7. Clear(S \cup {a}, r, n)
  <2>1. ASSUME NEW t \in S, NEW i \in 1..Len(r) PROVE r[i].pid # t.pid
    <3>1. i + 1 \in 1..Len(q) /\ r[i] = q[i + 1]
      BY <1>4 DEF WithoutFirst
    <3> QED BY <3>1 DEF Clear
  <2>2. ASSUME NEW i \in 1..Len(r) PROVE r[i].pid # a.pid
    <3>1. i + 1 \in 1..Len(q) /\ r[i] = q[i + 1] /\ i + 1 # 1 /\ 1 \in 1..Len(q) /\ q[1] = a
      BY <1>4 DEF WithoutFirst
    <3> QED BY <3>1 DEF Apart
  <2>3. \A t \in S : t.pid <= n
    BY DEF Clear
  <2> QED BY <1>5, <2>1, <2>2, <2>3 DEF Clear
<1> QED BY <1>2, <1>3, <1>5, <1>6, <1>7

LEMMA NoHeap == IsHeap(<<>>, {})
<1>1. <<>> \in [1..0 -> QueuedTask]
  <2>1. <<>> \in Seq(QueuedTask) /\ Len(<<>>) = 0
    BY EmptySeq
  <2> QED BY <2>1, LenProperties
<1>2. Files(<<>>, 0, {})
  BY <1>1 DEF Files
<1>3. HeapOrdered(<<>>, 0)
  BY DEF HeapOrdered
<1> QED BY <1>2, <1>3 DEF IsHeap, HeapOf

\* Pushing tasks that are apart makes a heap.
LEMMA PushAllIs ==
  ASSUME NEW n \in Nat, NEW q, Apart(q, n)
  PROVE  \E S \in SUBSET QueuedTask : IsHeap(PushAll(q), S) /\ \A t \in S : t.pid <= n
<1> DEFINE D == InTransit
           Ends == {w \in D : w.from = <<>>}
           Move == [w \in D |-> PushFirst(w)]
           Result == [w \in D |-> w.to]
           M == [w \in D |-> Len(w.from)]
           Push1(f) == [w \in D |-> IF w.from = <<>> THEN w.to ELSE f[PushFirst(w)]]
           push == CHOOSE push : push = [w \in InTransit |-> IF w.from = <<>> THEN w.to ELSE push[PushFirst(w)]]
<1>1. ASSUME NEW w \in D, w \notin Ends
      PROVE  /\ w.from \in Seq(QueuedTask) /\ w.from # <<>> /\ w.to \in Seq(QueuedTask) /\ Head(w.from) \in QueuedTask
             /\ PushFirst(w) \in D /\ PushFirst(w).from = Tail(w.from) /\ PushFirst(w).to = Push(w.to, Head(w.from))
  <2>1. w.from \in Seq(QueuedTask) /\ w.from # <<>> /\ w.to \in Seq(QueuedTask)
    BY <1>1 DEF InTransit
  <2>2. Head(w.from) \in QueuedTask /\ Tail(w.from) \in Seq(QueuedTask)
    BY <2>1, HeadTailProperties
  <2>3. Push(w.to, Head(w.from)) \in Seq(QueuedTask)
    BY <2>1, <2>2, PushTyped
  <2> QED BY <2>1, <2>2, <2>3 DEF PushFirst, InTransit
<1>2. ASSUME NEW w \in D, w \notin Ends PROVE Move[w] \in D /\ M[Move[w]] < M[w]
  <2>1. Len(Tail(w.from)) < Len(w.from)
    BY <1>1, <1>2, WithoutFirstIs
  <2> QED BY <1>1, <1>2, <2>1
<1>3. Descends(D, Ends, Move, M)
  <2>1. \A w \in D : M[w] \in Nat
    <3> TAKE w \in D
    <3>1. w.from \in Seq(QueuedTask)
      BY DEF InTransit
    <3>2. Len(w.from) \in Nat
      BY <3>1, LenProperties
    <3> QED BY <3>2
  <2> HIDE DEF D, Ends, Move, M
  <2> QED BY <1>2, <2>1 DEF Descends
<1>4. \A f : [w \in D |-> IF w \in Ends THEN Result[w] ELSE f[Move[w]]] = Push1(f)
  OBVIOUS
<1>5. \E f : f = Push1(f)
  <2> HIDE DEF Push1, Ends, Move, Result, M, D
  <2>1. PICK f : Outcome(f, D, Ends, Move, Result)
    BY <1>3, LoopRuns
  <2> QED BY <1>4, <2>1 DEF Outcome
<1>6. push = Push1(push)
  BY <1>5, Zenon
<1>7. PushAll(q) = push[[from |-> q, to |-> <<>>]]
  BY DEF PushAll
<1> HIDE DEF push
<1>8. Outcome(push, D, Ends, Move, Result)
  BY <1>4, <1>6 DEF Outcome
<1> DEFINE Lasts(w) == Apart(w.from, n) /\ \E R \in SUBSET QueuedTask : IsHeap(w.to, R) /\ Clear(R, w.from, n)
           G == {w \in D : Lasts(w)}
<1>9. ASSUME NEW w \in G, w \notin Ends PROVE Move[w] \in G
  <2>1. w \in D /\ Move[w] = PushFirst(w) /\ Move[w] \in D /\ Apart(w.from, n) /\ w.from # <<>>
    BY <1>1, <1>2, <1>9
  <2>2. PICK R \in SUBSET QueuedTask : IsHeap(w.to, R) /\ Clear(R, w.from, n)
    BY <1>9
  <2>3. PICK t : t = Head(w.from)
    OBVIOUS
  <2>4. /\ t \in QueuedTask /\ \A u \in R : u.pid # t.pid
        /\ Apart(Tail(w.from), n) /\ Clear(R \cup {t}, Tail(w.from), n)
    BY <2>1, <2>2, <2>3, TailKeeps
  <2>5. IsHeap(Push(w.to, t), R \cup {t})
    BY <2>2, <2>4, PushIs
  <2>6. PushFirst(w).from = Tail(w.from) /\ PushFirst(w).to = Push(w.to, t)
    BY <1>1, <1>9, <2>3
  <2>7. Lasts(PushFirst(w))
    <3>1. R \cup {t} \in SUBSET QueuedTask
      BY <2>4
    <3> QED BY <2>4, <2>5, <2>6, <3>1
  <2> QED BY <2>1, <2>7
<1>10. [from |-> q, to |-> <<>>] \in G
  <2>1. Clear({}, q, n)
    BY DEF Clear
  <2>2. q \in Seq(QueuedTask) /\ <<>> \in Seq(QueuedTask)
    BY EmptySeq DEF Apart
  <2>3. IsHeap(<<>>, {})
    BY NoHeap
  <2> QED BY <2>1, <2>2, <2>3 DEF InTransit
<1>11. PICK w \in G : w \in Ends /\ PushAll(q) = Result[w]
  <2> HIDE DEF G, Ends, Move, Result, M, D
  <2>1. G \in SUBSET D
    BY DEF G
  <2>2. Keeps(G, Ends, Move)
    BY <1>9 DEF Keeps
  <2>3. PICK a : a = [from |-> q, to |-> <<>>]
    OBVIOUS
  <2>4. a \in G
    BY <1>10, <2>3
  <2>5. \E w \in G : w \in Ends /\ push[a] = Result[w]
    BY <1>3, <1>8, <2>1, <2>2, <2>4, LoopEnds
  <2> QED BY <1>7, <2>3, <2>5
<1>12. Lasts(w) /\ PushAll(q) = w.to
  BY <1>11
<1>13. PICK R \in SUBSET QueuedTask : IsHeap(w.to, R) /\ Clear(R, w.from, n)
  BY <1>12
<1> QED BY <1>12, <1>13 DEF Clear

-----------------------------------------------------------------------------

\* The queue is a heap of tasks that have arrived, each of which is in it once.
PSInv ==
  /\ produced \in Nat
  /\ \E S \in SUBSET QueuedTask : IsHeap(heap, S) /\ \A t \in S : t.pid <= produced

LEMMA PSInitInv == PSInit => PSInv
<1> SUFFICES ASSUME PSInit PROVE PSInv
  OBVIOUS
<1>1. IsHeap(heap, {}) /\ produced = 0
  BY NoHeap DEF PSInit
<1> QED BY <1>1 DEF PSInv

LEMMA PSNextInv == PSInv /\ [PSNext]_psVars => PSInv'
<1> SUFFICES ASSUME PSInv, [PSNext]_psVars PROVE PSInv'
  OBVIOUS
<1>0. PICK S \in SUBSET QueuedTask : IsHeap(heap, S) /\ \A t \in S : t.pid <= produced
  BY DEF PSInv
<1>1. produced \in Nat
  BY DEF PSInv
<1>2. heap \in Seq(QueuedTask)
  <2>1. PICK n \in Nat : HeapOf(heap, n, S)
    BY <1>0 DEF IsHeap
  <2> QED BY <2>1, FilesSeq DEF HeapOf, Files
<1>3. CASE PushTask
  <2>1. PICK p \in 1..MaxPriority : heap' = Push(heap, [pid |-> produced + 1, priority |-> p])
    BY <1>3 DEF PushTask
  <2>2. produced' = produced + 1
    BY <1>3 DEF PushTask
  <2>3. PICK x : x = [pid |-> produced + 1, priority |-> p]
    OBVIOUS
  <2>4. x \in QueuedTask /\ x.pid = produced + 1
    BY <1>1, <2>3, PrioritySchedulerConstants DEF QueuedTask
  <2>5. \A t \in S : t.pid \in Nat /\ t.pid <= produced
    BY <1>0 DEF QueuedTask
  <2>6. \A t \in S : t.pid # x.pid
    BY <1>1, <2>4, <2>5
  <2>7. IsHeap(heap', S \cup {x})
    BY <1>0, <2>1, <2>3, <2>4, <2>6, PushIs
  <2>8. \A t \in S \cup {x} : t.pid <= produced'
    BY <1>1, <2>2, <2>4, <2>5
  <2>9. S \cup {x} \in SUBSET QueuedTask /\ produced' \in Nat
    BY <1>1, <2>2, <2>4
  <2> QED BY <2>7, <2>8, <2>9 DEF PSInv
<1>4. CASE PopTask
  <2>1. heap # <<>> /\ heap' = Popped(heap) /\ produced' = produced
    BY <1>4 DEF PopTask
  <2>2. IsHeap(heap', S \ {Head(heap)})
    BY <1>0, <2>1, PoppedIs
  <2>3. S \ {Head(heap)} \in SUBSET QueuedTask /\ \A t \in S \ {Head(heap)} : t.pid <= produced'
    BY <1>0, <2>1
  <2> QED BY <1>1, <2>1, <2>2, <2>3 DEF PSInv
<1>5. CASE Age
  <2>1. heap' = PushAll(Refill(heap)) /\ produced' = produced
    BY <1>5 DEF Age
  <2>2. Apart(Refill(heap), produced)
    BY <1>0, <1>1, <1>2, RefillIs
  <2>3. \E R \in SUBSET QueuedTask : IsHeap(heap', R) /\ \A t \in R : t.pid <= produced'
    BY <1>1, <2>1, <2>2, PushAllIs
  <2> QED BY <1>1, <2>1, <2>3 DEF PSInv
<1>6. CASE heap' = heap /\ produced' = produced
  BY <1>0, <1>1, <1>6 DEF PSInv
<1> QED BY <1>3, <1>4, <1>5, <1>6
        DEF PSNext, ProducerStep, SchedulerStep, MainStep, Notify, ProducerDone, PopEmpty, Listen, Wake, SchedulerDone,
            RunTask, AgingDone, SeeProducerDone, Cancel, SeeSchedulerDone, SeeAgingDone, Awaken, psVars

\* The task popped comes before every one left.
LEMMA PopsFirst ==
  ASSUME PSInv, PopTask
  PROVE  \A i \in DOMAIN heap' : LessTask(running'[1], heap'[i])
<1>1. PICK S \in SUBSET QueuedTask : IsHeap(heap, S)
  BY DEF PSInv
<1>2. heap # <<>> /\ heap' = Popped(heap) /\ running' = <<Head(heap)>>
  BY DEF PopTask
<1>3. PICK a : a = Head(heap)
  OBVIOUS
<1>4. a \in S /\ (\A t \in S : NoLater(a, t)) /\ IsHeap(heap', S \ {a})
  BY <1>1, <1>2, <1>3, PoppedIs
<1>5. running'[1] = a
  BY <1>2, <1>3
<1>6. PICK n \in Nat : HeapOf(heap', n, S \ {a})
  BY <1>4 DEF IsHeap
<1>7. DOMAIN heap' = 1..n /\ \A i \in 1..n : heap'[i] \in S \ {a}
  BY <1>6 DEF HeapOf, Files
<1>8. ASSUME NEW t \in S \ {a} PROVE LessTask(a, t)
  <2>1. a.pid # t.pid
    BY <1>1, <1>4, HeapPIDs
  <2> QED BY <1>4, <2>1, TaskOrder
<1> QED BY <1>5, <1>7, <1>8

\* Only a pop takes the scheduler from looking to running.
LEMMA OnlyPops ==
  ASSUME [PSNext]_psVars, scheduler = "pop", scheduler' = "run"
  PROVE  PopTask
  BY DEF PSNext, ProducerStep, SchedulerStep, MainStep, PushTask, Notify, ProducerDone, PopEmpty, Listen, Wake,
         SchedulerDone, RunTask, Age, AgingDone, SeeProducerDone, Cancel, SeeSchedulerDone, SeeAgingDone, Awaken, psVars

\* For any number of tasks and priorities, what PriorityScheduler.Run pops comes before every task left in the heap:
\* heapifyUp, heapifyDown and AgeWaitingTasks, which pops and pushes all of them, keep no child before its parent.
THEOREM FirstIsTaken == PSSpec => TakesFirst
<1>1. PSInit => PSInv
  BY PSInitInv
<1>2. PSInv /\ [PSNext]_psVars => PSInv'
  BY PSNextInv
<1>3. PSInv /\ [PSNext]_psVars =>
        [scheduler = "pop" /\ scheduler' = "run" => \A i \in DOMAIN heap' : LessTask(running'[1], heap'[i])]_psVars
  BY PopsFirst, OnlyPops
<1> QED BY <1>1, <1>2, <1>3, PTL DEF PSSpec, TakesFirst
=============================================================================
