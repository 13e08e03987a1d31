------------------------------- MODULE Garage -------------------------------
(***************************************************************************)
(* The parking garage (01-day/project): an array of spots and a registry   *)
(* from plates to indices in it, behind the commands of the CLI.           *)
(***************************************************************************)
EXTENDS Integers, Sequences

CONSTANTS
  Typed,             \* plates as a user types them, sequences of characters
  IndianPlates,      \* the normalized plates the validator accepts
  Floors, PerFloor,  \* PARKING_TOTAL_FLOORS and PARKING_SPOTS_PER_FLOOR
  HourTicks,         \* the clock's resolution
  HourlyRate,
  MaxClock            \* bound on the clock

ASSUME GarageConstants ==
  /\ Floors \in Nat /\ PerFloor \in Nat
  /\ HourTicks \in Nat \ {0} /\ HourlyRate \in Nat

VARIABLES
  spots,     \* GarageManager.spots: [floor, occupied, plate, entry], from index 0
  registry,  \* GarageManager.registry: the index for each plate, or Absent
  fee,       \* what the last command charged
  clock

garageVars == <<spots, registry, fee, clock>>

Absent == -1
NoTime == 0

GarageInit ==
  /\ spots = [i \in 0..(Floors * PerFloor - 1) |->
                [floor |-> i \div PerFloor + 1, occupied |-> FALSE, plate |-> <<>>, entry |-> NoTime]]
  /\ registry = [p \in IndianPlates |-> Absent]
  /\ fee = 0 /\ clock = 0

Upper(c) == CASE c = "a" -> "A" [] c = "b" -> "B" [] OTHER -> c

NormalizePlate(typed) ==
  LET kept == SelectSeq(typed, LAMBDA c : c \notin {"-", " "})
  IN  [i \in DOMAIN kept |-> Upper(kept[i])]

ValidPlate(typed) == NormalizePlate(typed) \in IndianPlates

ValidFloor(floor) == floor \in 1..Floors

\* The free spots of a floor, by index.
FreeOn(floor) == {i \in ((floor - 1) * PerFloor)..((floor - 1) * PerFloor + PerFloor - 1) : ~spots[i].occupied}

\* Broken variant: the spot is freed and the registry keeps the vehicle's index.
Released_KeepsIndex(plate) ==
  /\ spots' = [spots EXCEPT ![registry[plate]] = [@ EXCEPT !.occupied = FALSE, !.plate = <<>>, !.entry = NoTime]]
  /\ UNCHANGED registry

Released(plate) ==
  /\ spots' = [spots EXCEPT ![registry[plate]] = [@ EXCEPT !.occupied = FALSE, !.plate = <<>>, !.entry = NoTime]]
  /\ registry' = [registry EXCEPT ![plate] = Absent]

Park(plate, floor) ==
  /\ registry[plate] = Absent /\ FreeOn(floor) # {}
  /\ LET i == CHOOSE i \in FreeOn(floor) : \A j \in FreeOn(floor) : i <= j
     IN  /\ spots' = [spots EXCEPT ![i] = [@ EXCEPT !.occupied = TRUE, !.plate = plate, !.entry = clock]]
         /\ registry' = [registry EXCEPT ![plate] = i]
  /\ fee' = 0

calculateStartedHourFee(duration) ==
  LET hours == duration \div HourTicks + (IF duration % HourTicks # 0 THEN 1 ELSE 0)
  IN  HourlyRate * (IF hours = 0 THEN 1 ELSE hours)

Exit(plate) ==
  /\ registry[plate] # Absent
  /\ fee' = calculateStartedHourFee(clock - spots[registry[plate]].entry)
  /\ Released(plate)

\* The commands.  The floor a user types may not exist.
handlePark ==
  /\ \E typed \in Typed, floor \in 0..(Floors + 1) :
       /\ ValidPlate(typed) /\ ValidFloor(floor)
       /\ Park(NormalizePlate(typed), floor)
  /\ UNCHANGED clock

handleExit ==
  /\ \E typed \in Typed : ValidPlate(typed) /\ Exit(NormalizePlate(typed))
  /\ UNCHANGED clock

\* A command refused, a search or a status changes nothing.
Refused == fee # 0 /\ fee' = 0 /\ UNCHANGED <<spots, registry, clock>>

GarageTick == clock < MaxClock /\ clock' = clock + 1 /\ fee' = 0 /\ UNCHANGED <<spots, registry>>

GarageNext == handlePark \/ handleExit \/ Refused \/ GarageTick

GarageSpec == GarageInit /\ [][GarageNext]_garageVars

-----------------------------------------------------------------------------
(* What Search and Status say. *)

SpotOf(plate) == registry[plate] + 1
Available(floor) == {i \in DOMAIN spots : ~spots[i].occupied /\ spots[i].floor = floor}

Ledger == INSTANCE GarageLedger WITH
  Rate <- HourlyRate, receipt <- fee, now <- clock,
  parked <- {[plate |-> p, spot |-> SpotOf(p), since |-> spots[registry[p]].entry] :
             p \in {q \in IndianPlates : registry[q] # Absent}}

\* The spots and the registry name the same vehicles, and the free spots of a floor are counted.
RegistryExact ==
  /\ \A i \in DOMAIN spots : spots[i].occupied => registry[spots[i].plate] = i
  /\ \A p \in IndianPlates : registry[p] # Absent => spots[registry[p]].plate = p
  /\ \A floor \in 1..Floors : Available(floor) = FreeOn(floor)

\* ImplementsLedger: however a plate is typed, parking, leaving and searching keep array and
\* registry together, the first free spot of the floor is given, every hour started is paid.
ImplementsLedger == Ledger!LedgerSpec /\ [][RegistryExact']_garageVars
=============================================================================
