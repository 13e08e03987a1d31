--------------------------- MODULE SlidingWindow ---------------------------
(***************************************************************************)
(* What a congestion history promises its readers: the last Cap samples,   *)
(* oldest first.                                                           *)
(***************************************************************************)
EXTENDS Naturals, Sequences

CONSTANTS Samples, Cap

VARIABLE window

Init == window = << >>

Record(v) ==
  window' = Append(IF Len(window) < Cap THEN window ELSE Tail(window), v)

WindowSpec == Init /\ [][\E v \in Samples : Record(v)]_window
=============================================================================
