---------------------------- MODULE GarageLedger ----------------------------
(***************************************************************************)
(* What a parking garage promises: a vehicle stands on one spot and a spot *)
(* holds one vehicle; it gets the first free spot of the floor asked for,  *)
(* and pays for every hour started since then.                             *)
(***************************************************************************)
EXTENDS Naturals

CONSTANTS
  Floors, PerFloor,  \* spots are numbered from 1, floor by floor
  HourTicks,         \* ticks of the clock in an hour
  Rate               \* per started hour

VARIABLES
  parked,   \* [plate, spot, since]
  receipt,  \* the last fee charged, 0 unless the last command was an exit
  now

ledgerVars == <<parked, receipt, now>>

Init == parked = {} /\ receipt = 0 /\ now = 0

SpotsOf(floor) == ((floor - 1) * PerFloor + 1)..(floor * PerFloor)

Taken == {p.spot : p \in parked}

Park ==
  \E floor \in 1..Floors, entry \in parked' \ parked :
    /\ entry.plate \notin {p.plate : p \in parked}
    /\ entry.since = now
    /\ entry.spot \in SpotsOf(floor) \ Taken
    /\ \A s \in SpotsOf(floor) : s < entry.spot => s \in Taken
    /\ parked' = parked \cup {entry}
    /\ receipt' = 0 /\ UNCHANGED now

\* Every hour started is paid, and at least one.
Fee(since) ==
  CHOOSE fee \in {h * Rate : h \in 1..(now + 1)} :
    /\ fee * HourTicks >= (now - since) * Rate
    /\ fee = Rate \/ (fee - Rate) * HourTicks < (now - since) * Rate

Leave ==
  \E p \in parked :
    parked' = parked \ {p} /\ receipt' = Fee(p.since) /\ UNCHANGED now

\* A command refused, or time passing.
Idle == receipt' = 0 /\ now' >= now /\ UNCHANGED parked

Next == Park \/ Leave \/ Idle

LedgerSpec == Init /\ [][Next]_ledgerVars
=============================================================================
