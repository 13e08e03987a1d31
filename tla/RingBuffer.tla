----------------------------- MODULE RingBuffer -----------------------------
(***************************************************************************)
(* ds.RingBuffer (capstone/internal/ds/ring_buffer.go), the history of a   *)
(* road's congestion: the updater appends one sample per tick and          *)
(* Congestion averages Items.  buf is indexed from 0 as in the code.       *)
(***************************************************************************)
EXTENDS Naturals, Sequences

CONSTANTS
  Samples,  \* the values recorded
  Zero,     \* the zero value make fills the slots with
  Cap       \* the capacity, > 0 or NewRingBuffer panics

ASSUME RingConstants == Cap \in Nat \ {0} /\ Zero \in Samples

VARIABLES buf, start, size

ringVars == <<buf, start, size>>

Slots == 0..(Cap - 1)

\* The slot i places after slot a.
Slot(a, i) == (a + i) % Cap

RingInit == buf = [s \in Slots |-> Zero] /\ start = 0 /\ size = 0

\* Append while there is a free slot.
Fill(v) ==
  /\ size < Cap
  /\ buf' = [buf EXCEPT ![Slot(start, size)] = v]
  /\ size' = size + 1
  /\ UNCHANGED start

\* Broken variant: the oldest slot does not move on.
Overwrite_KeepsStart(v) ==
  size >= Cap /\ buf' = [buf EXCEPT ![start] = v] /\ UNCHANGED <<start, size>>

\* Append to a full buffer: the oldest sample makes room.
Overwrite(v) ==
  /\ size >= Cap
  /\ buf' = [buf EXCEPT ![start] = v]
  /\ start' = Slot(start, 1)
  /\ UNCHANGED size

RingNext == \E v \in Samples : Fill(v) \/ Overwrite(v)

RingSpec == RingInit /\ [][RingNext]_ringVars

Items == [i \in 1..size |-> buf[Slot(start, i - 1)]]

-----------------------------------------------------------------------------

\* The indices stay inside the buffer, whatever the code's % arithmetic does.
RingTypeOK == buf \in [Slots -> Samples] /\ start \in Slots /\ size \in 0..Cap

Window == INSTANCE SlidingWindow WITH window <- Items

\* Readers of the ring see the last Cap samples, oldest first, however often the
\* slots have been reused.
ImplementsWindow == Window!WindowSpec
=============================================================================
