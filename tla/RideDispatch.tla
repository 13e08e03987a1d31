---------------------------- MODULE RideDispatch ----------------------------
(***************************************************************************)
(* Ride dispatch (06,07-day/project/internal/dispatch/dispatcher.go over   *)
(* driver/store.go, rider/store.go, ridequeue and rides).  The             *)
(* dispatcher's mutex makes its calls one at a time; drivers go online, go *)
(* offline and move through the driver store, whose mutex is held only     *)
(* within a step, so they run between the steps of a dispatch or of a      *)
(* completion.                                                             *)
(*                                                                         *)
(* The heap of requests is the set of them with their ages, and its root:  *)
(* which of two requests of one age comes up is left open, as is which of  *)
(* two drivers equally near is taken.  An age stands for now minus         *)
(* RequestTime; past MaxAge it no longer matters and is not counted.       *)
(***************************************************************************)
EXTENDS Naturals, Sequences, FiniteSets

CONSTANTS
  Requests,      \* the requests ever made; a ride has its request's name
  Drivers, Riders,
  Locations,
  Block(_),      \* geo.GetBlockID
  Near,          \* Near[b]: geo.NeighborBlocks of block b
  Distance(_, _),\* geo.DistanceKm
  MaxPickup,     \* MaxPickupDistanceKm
  Timeout,       \* RequestTimeout
  Rider, Pickup, Dropoff \* of each request

Blocks == {Block(l) : l \in Locations}

\* Ages are told apart up to here: expired, even for a caller's clock one behind.
MaxAge == Timeout + 2

NoRequest == "none"
NoDriver == "nobody"

ASSUME RideConstants ==
  /\ NoRequest \notin Requests /\ NoDriver \notin Drivers
  /\ Locations # {}
  /\ Timeout \in Nat /\ MaxPickup \in Nat
  /\ Rider \in [Requests -> Riders]
  /\ Pickup \in [Requests -> Locations] /\ Dropoff \in [Requests -> Locations]
  /\ \A r \in Requests : Pickup[r] # Dropoff[r]
  /\ \A k, l \in Locations : Distance(k, l) \in Nat
  /\ Near \in [Blocks -> SUBSET Blocks]

VARIABLES
  status,    \* status[d]: "unknown" until registered, "offline", "available" or "busy"
  at,        \* Location of d
  block,     \* BlockID of d
  index,     \* availableDriversByBlock
  served,    \* RideHistory of d
  riders,    \* the registered riders
  taken,     \* RideHistory of a rider
  asked,     \* the requests made
  age, root, \* the heap: the age of each request in it, and the one at the top
  active,    \* activeRides
  driver,    \* driver[r]: DriverID of the ride
  history,   \* rideHistory: [request |-> "completed" or "cancelled"]
  pc, cur,   \* the call that holds the dispatcher's mutex, and its request
  found      \* the driver it has found

driverVars == <<status, at, block, index, served>>
riderVars == <<riders, taken>>
storeVars == <<driverVars, riderVars>>
queueVars == <<asked, age, root>>
rideVars  == <<queueVars, active, driver, history>>
callVars  == <<pc, cur, found>>
vars == <<storeVars, rideVars, callVars>>

queue == DOMAIN age

Init ==
  /\ status = [d \in Drivers |-> "unknown"]
  /\ at = [d \in Drivers |-> CHOOSE l \in Locations : TRUE] /\ block = [d \in Drivers |-> Block(at[d])]
  /\ index = [b \in Blocks |-> {}]
  /\ served = [d \in Drivers |-> <<>>]
  /\ riders = {} /\ taken = [p \in Riders |-> <<>>]
  /\ asked = {} /\ age = [r \in {} |-> 0] /\ root = NoRequest
  /\ active = {} /\ driver = [r \in Requests |-> NoDriver] /\ history = [r \in {} |-> ""]
  /\ pc = "idle" /\ cur = NoRequest /\ found = NoDriver

-----------------------------------------------------------------------------
(* The rider store and the driver store, as riders and drivers use them. *)

RegisterRider(p) ==
  /\ p \notin riders
  /\ riders' = riders \cup {p}
  /\ UNCHANGED <<driverVars, taken, rideVars, callVars>>

\* Whatever status the caller filled in, a new driver is offline.
Register(d) ==
  /\ status[d] = "unknown"
  /\ status' = [status EXCEPT ![d] = "offline"]
  /\ \E loc \in Locations :
       at' = [at EXCEPT ![d] = loc] /\ block' = [block EXCEPT ![d] = Block(loc)]
  /\ UNCHANGED <<index, served, riderVars, rideVars, callVars>>

Listed(b, d)   == [index EXCEPT ![b] = @ \cup {d}]
Unlisted(b, d) == [index EXCEPT ![b] = @ \ {d}]

\* A busy driver is refused; an available one stays what he is.
GoOnline(d) ==
  /\ status[d] = "offline"
  /\ status' = [status EXCEPT ![d] = "available"]
  /\ block' = [block EXCEPT ![d] = Block(at[d])]
  /\ index' = Listed(block'[d], d)
  /\ UNCHANGED <<at, served, riderVars, rideVars, callVars>>

GoOffline(d) ==
  /\ status[d] = "available"
  /\ status' = [status EXCEPT ![d] = "offline"]
  /\ index' = Unlisted(block[d], d)
  /\ UNCHANGED <<at, block, served, riderVars, rideVars, callVars>>

\* Broken variant: the index is left from the new block, not the old one.
UpdateLocation_NewBlock(d, loc) ==
  /\ at' = [at EXCEPT ![d] = loc]
  /\ block' = [block EXCEPT ![d] = Block(loc)]
  /\ index' = IF status[d] = "available"
              THEN [Unlisted(Block(loc), d) EXCEPT ![Block(loc)] = @ \cup {d}]
              ELSE index

\* UpdateLocation: d leaves the index under his old block and enters it under
\* the new one.
UpdateLocation(d, loc) ==
  /\ at' = [at EXCEPT ![d] = loc]
  /\ block' = [block EXCEPT ![d] = Block(loc)]
  /\ index' = IF status[d] = "available"
              THEN [Unlisted(block[d], d) EXCEPT ![Block(loc)] = @ \cup {d}]
              ELSE index

Move(d) ==
  /\ status[d] # "unknown"
  /\ \E loc \in Locations \ {at[d]} : UpdateLocation(d, loc)
  /\ UNCHANGED <<status, served, riderVars, rideVars, callVars>>

TimePasses ==
  /\ \E r \in queue : age[r] < MaxAge
  /\ age' = [r \in queue |-> IF age[r] < MaxAge THEN age[r] + 1 ELSE MaxAge]
  /\ UNCHANGED <<storeVars, asked, root, active, driver, history, callVars>>

-----------------------------------------------------------------------------
(* RequestRide. *)

\* Push: the new request becomes the root only if it is strictly older.
Push(r, a) ==
  /\ age' = [x \in queue \cup {r} |-> IF x = r THEN a ELSE age[x]]
  /\ root' = IF root = NoRequest \/ a > age[root] THEN r ELSE root

\* Broken variant: the dispatcher's mutex is not taken, and the request being
\* dispatched may no longer be the root when it is popped.
RequestRide_Unlocked(r) ==
  /\ r \notin asked /\ Rider[r] \in riders
  /\ asked' = asked \cup {r}
  /\ \E a \in 0..MaxAge - 1 : Push(r, a)
  /\ UNCHANGED <<storeVars, active, driver, history, callVars>>

\* The caller names the time of the request, which may be long past; a rider who
\* is not registered is refused.
RequestRide(r) ==
  /\ pc = "idle" /\ r \notin asked /\ Rider[r] \in riders
  /\ asked' = asked \cup {r}
  /\ \E a \in 0..MaxAge - 1 : Push(r, a)
  /\ UNCHANGED <<storeVars, active, driver, history, callVars>>

-----------------------------------------------------------------------------
(* ProcessNextRequest. *)

Call(where, r) == pc' = where /\ cur' = r
Done == pc' = "idle" /\ cur' = NoRequest /\ found' = NoDriver

Pop ==
  LET left == queue \ {root} IN
  /\ age' = [r \in left |-> age[r]]
  /\ root' \in IF left = {} THEN {NoRequest}
               ELSE {r \in left : \A x \in left : age[x] <= age[r]}
  /\ UNCHANGED asked

\* The caller reads the clock, then waits for the mutex: its now may be a little
\* old, by at most one unit here.
Peek ==
  /\ pc = "idle" /\ queue # {}
  /\ \E waited \in {age[root], age[root] - 1} \cap Nat :
       Call(IF waited > Timeout THEN "expire" ELSE "find", root)
  /\ UNCHANGED <<storeVars, rideVars, found>>

\* Broken variant: the expired request stays in the queue.
Expire_KeepsRequest ==
  /\ pc = "expire"
  /\ history' = [x \in DOMAIN history \cup {root} |->
                   IF x = root THEN "cancelled" ELSE history[x]]
  /\ Done
  /\ UNCHANGED <<storeVars, queueVars, active, driver>>

Expire ==
  /\ pc = "expire"
  /\ Pop
  /\ history' = [x \in DOMAIN history \cup {root} |->
                   IF x = root THEN "cancelled" ELSE history[x]]
  /\ Done
  /\ UNCHANGED <<storeVars, active, driver>>

\* Available drivers of the neighbouring blocks, close enough to r.
Candidates(r) ==
  LET from == Pickup[r] IN
  {d \in UNION {index[b] : b \in Near[Block(from)]} : Distance(from, at[d]) <= MaxPickup}

FindNearest ==
  LET from == Pickup[cur] IN
  /\ pc = "find"
  /\ IF Candidates(cur) = {} THEN Done
     ELSE \E d \in Candidates(cur) :
            /\ \A e \in Candidates(cur) : Distance(from, at[d]) <= Distance(from, at[e])
            /\ found' = d /\ Call("assign", cur)
  /\ UNCHANGED <<storeVars, rideVars>>

\* Assign fails if the driver went offline since; a busy one is assigned again.
Assign ==
  /\ pc = "assign"
  /\ \/ status[found] = "offline" /\ Done /\ UNCHANGED <<status, index>>
     \/ status[found] = "busy" /\ Call("match", cur) /\ UNCHANGED <<status, index, found>>
     \/ /\ status[found] = "available"
        /\ status' = [status EXCEPT ![found] = "busy"]
        /\ index' = Unlisted(block[found], found)
        /\ Call("match", cur) /\ UNCHANGED found
  /\ UNCHANGED <<at, block, served, riderVars, rideVars>>

\* The queue is popped and the ride made of the request peeked at.
Match ==
  /\ pc = "match"
  /\ Pop
  /\ active' = active \cup {cur} /\ driver' = [driver EXCEPT ![cur] = found]
  /\ Done
  /\ UNCHANGED <<storeVars, history>>

-----------------------------------------------------------------------------
(* CompleteRide. *)

Complete(r) ==
  /\ pc = "idle" /\ r \in active
  /\ active' = active \ {r}
  /\ history' = [x \in DOMAIN history \cup {r} |-> IF x = r THEN "completed" ELSE history[x]]
  /\ Call("arrive", r)
  /\ UNCHANGED <<storeVars, queueVars, driver, found>>

Arrive ==
  /\ pc = "arrive"
  /\ UpdateLocation(driver[cur], Dropoff[cur])
  /\ Call("record", cur)
  /\ UNCHANGED <<status, served, riderVars, rideVars, found>>

\* The driver's history, then the rider's.
Record ==
  /\ pc = "record"
  /\ served' = [served EXCEPT ![driver[cur]] = Append(@, cur)]
  /\ Call("thank", cur)
  /\ UNCHANGED <<status, at, block, index, riderVars, rideVars, found>>

RecordRider ==
  /\ pc = "thank"
  /\ taken' = [taken EXCEPT ![Rider[cur]] = Append(@, cur)]
  /\ Call("release", cur)
  /\ UNCHANGED <<driverVars, riders, rideVars, found>>

Release ==
  LET d == driver[cur] IN
  /\ pc = "release"
  /\ IF status[d] = "busy"
     THEN /\ status' = [status EXCEPT ![d] = "available"]
          /\ block' = [block EXCEPT ![d] = Block(at[d])]
          /\ index' = Listed(block'[d], d)
     ELSE UNCHANGED <<status, block, index>>
  /\ Done
  /\ UNCHANGED <<at, served, riderVars, rideVars>>

-----------------------------------------------------------------------------

DispatcherStep == Expire \/ FindNearest \/ Assign \/ Match \/ Arrive \/ Record \/ RecordRider \/ Release

Next ==
  \/ TimePasses
  \/ \E p \in Riders : RegisterRider(p)
  \/ \E d \in Drivers : Register(d) \/ GoOnline(d) \/ GoOffline(d) \/ Move(d)
  \/ \E r \in Requests : RequestRide(r) \/ Complete(r)
  \/ Peek \/ DispatcherStep

Spec == Init /\ [][Next]_vars

\* The clock goes on, a call that has begun returns, and somebody goes on calling
\* ProcessNextRequest, however many requests and completions win the mutex (SF).
FairSpec ==
  /\ Spec
  /\ WF_vars(TimePasses) /\ WF_vars(DispatcherStep) /\ SF_vars(Peek)

-----------------------------------------------------------------------------
(* Properties *)

TypeOK ==
  /\ status \in [Drivers -> {"unknown", "offline", "available", "busy"}]
  /\ at \in [Drivers -> Locations] /\ block \in [Drivers -> Blocks]
  /\ index \in [Blocks -> SUBSET Drivers] /\ served \in [Drivers -> Seq(Requests)]
  /\ riders \subseteq Riders /\ taken \in [Riders -> Seq(Requests)]
  /\ asked \subseteq Requests /\ age \in [queue -> 0..MaxAge] /\ queue \subseteq asked
  /\ root \in queue \cup {NoRequest} /\ active \subseteq Requests
  /\ driver \in [Requests -> Drivers \cup {NoDriver}]
  /\ DOMAIN history \subseteq Requests
  /\ pc \in {"idle", "expire", "find", "assign", "match", "arrive", "record", "thank", "release"}
  /\ cur \in Requests \cup {NoRequest} /\ found \in Drivers \cup {NoDriver}

\* The index that matching searches lists each available driver in the block he
\* is in, and nobody else, whatever order drivers and dispatcher act in.
IndexExact ==
  \A b \in Blocks :
    index[b] = {d \in Drivers : status[d] = "available" /\ Block(at[d]) = b}

\* The rides on which d is out: active, being matched or being completed.
Out(d) ==
  {r \in active : driver[r] = d}
  \cup (IF pc = "match" /\ found = d THEN {cur} ELSE {})
  \cup (IF pc \in {"arrive", "record", "thank", "release"} /\ driver[cur] = d THEN {cur} ELSE {})

\* A driver is busy exactly while he is out on one ride: he is never given a
\* second one, nor kept busy after the last.
DriversAccountedFor ==
  \A d \in Drivers : Cardinality(Out(d)) = IF status[d] = "busy" THEN 1 ELSE 0

\* Driver and rider have each completed ride in their histories once, as soon as the
\* completion has come past them, and no other ride.
HistoriesAgree ==
  \A r \in Requests :
    LET completed == r \in DOMAIN history /\ history[r] = "completed"
        Times(rides) == Cardinality({k \in DOMAIN rides : rides[k] = r})
    IN
    /\ \A d \in Drivers :
         Times(served[d]) = IF completed /\ driver[r] = d /\ ~(cur = r /\ pc \in {"arrive", "record"}) THEN 1 ELSE 0
    /\ \A p \in Riders :
         Times(taken[p]) =
           IF completed /\ Rider[r] = p /\ ~(cur = r /\ pc \in {"arrive", "record", "thank"}) THEN 1 ELSE 0

\* StoresAgree: the drivers' statuses, the index, the active rides and the histories tell one story
\* at every lock the dispatcher and the drivers take.
StoresAgree == IndexExact /\ DriversAccountedFor /\ HistoriesAgree

\* Each request is in one place and goes through the life RideService allows.
Phase(r) ==
  IF r \notin asked THEN "none"
  ELSE IF r \in active THEN "riding"
  ELSE IF r \in queue THEN "waiting"
  ELSE IF r \in DOMAIN history THEN history[r]
  ELSE "lost"

Service == INSTANCE RideService WITH phase <- [r \in Requests |-> Phase(r)], driver <- driver

\* Dispatch implements the ride service: no request is lost, matched twice or
\* cancelled after it was matched, and no driver has two rides.
ImplementsRideService == Service!Spec

\* Every request is matched or cancelled: the oldest one blocks those behind it
\* no longer than its timeout.
EveryRequestSettled ==
  \A r \in Requests : r \in queue ~> r \notin queue
=============================================================================
