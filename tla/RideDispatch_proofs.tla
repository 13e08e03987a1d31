------------------------- MODULE RideDispatch_proofs -------------------------
(***************************************************************************)
(* For any drivers, riders, requests and places: the stores of ride        *)
(* dispatch agree, and dispatch implements the ride service.               *)
(***************************************************************************)
EXTENDS RideDispatch, FiniteSetTheorems, SequenceTheorems, TLAPS

\* What the call that holds the dispatcher's mutex knows: the request it dispatches is
\* the root, the one it completes is in the history, and each has its driver.
CallKnows ==
  /\ pc \in {"expire", "find", "assign", "match"} => cur = root /\ root \in queue
  /\ pc \in {"assign", "match"} => found \in Drivers
  /\ pc \in {"arrive", "record", "thank", "release"} =>
       cur \in DOMAIN history /\ history[cur] = "completed"

\* Each request that was made is in one place, and has a driver from its match on.
Places ==
  /\ asked = queue \cup active \cup DOMAIN history
  /\ queue \cap active = {} /\ queue \cap DOMAIN history = {} /\ active \cap DOMAIN history = {}
  /\ root = NoRequest => queue = {}
  /\ \A r \in DOMAIN history : history[r] \in {"completed", "cancelled"}
  /\ \A r \in active : driver[r] \in Drivers
  /\ \A r \in DOMAIN history : history[r] = "completed" => driver[r] \in Drivers

\* Every write to a driver's location writes his block with it.
BlocksKept == \A d \in Drivers : block[d] = Block(at[d])

Typing == TypeOK /\ CallKnows /\ Places /\ BlocksKept

-----------------------------------------------------------------------------
(* What the operations of the stores and of the heap do. *)

\* A request is pushed: it is in the heap, and the heap has a root.
LEMMA PushFacts ==
  ASSUME TypeOK, NEW r \in Requests, NEW a \in 0..(MaxAge - 1), Push(r, a)
  PROVE  /\ queue' = queue \cup {r}
         /\ age' \in [queue' -> 0..MaxAge]
         /\ root' \in queue'
<1>1. MaxAge \in Nat /\ NoRequest \notin Requests
  BY RideConstants DEF MaxAge
<1>2. queue' = queue \cup {r}
  BY DEF Push, queue
<1>3. \A x \in queue : age[x] \in 0..MaxAge
  BY DEF TypeOK
<1>4. age' \in [queue' -> 0..MaxAge]
  BY <1>1, <1>2, <1>3 DEF Push
<1>5. root' \in queue'
  BY <1>2 DEF Push, TypeOK
<1> QED BY <1>2, <1>4, <1>5

\* The root is popped: it alone leaves the heap, which has a root as long as it is not
\* empty.
LEMMA PopFacts ==
  ASSUME TypeOK, root \in queue, Pop
  PROVE  /\ queue' = queue \ {root} /\ asked' = asked
         /\ age' \in [queue' -> 0..MaxAge]
         /\ root' \in queue' \cup {NoRequest}
         /\ root' = NoRequest => queue' = {}
<1>1. queue \subseteq Requests /\ NoRequest \notin Requests
  BY RideConstants DEF TypeOK
<1>2. queue' = queue \ {root} /\ asked' = asked
  BY DEF Pop, queue
<1>3. age' \in [queue' -> 0..MaxAge]
  BY <1>2 DEF Pop, TypeOK
<1>4. root' \in queue' \cup {NoRequest} /\ (root' = NoRequest => queue' = {})
  BY <1>1, <1>2 DEF Pop
<1> QED BY <1>2, <1>3, <1>4

\* A move keeps the block with the location, whatever the driver is doing.
LEMMA MoveFacts ==
  ASSUME TypeOK, BlocksKept, NEW d \in Drivers, NEW loc \in Locations, UpdateLocation(d, loc)
  PROVE  /\ at' \in [Drivers -> Locations] /\ block' \in [Drivers -> Blocks]
         /\ index' \in [Blocks -> SUBSET Drivers]
         /\ BlocksKept'
<1>1. Block(loc) \in Blocks
  BY DEF Blocks
<1>2. at' \in [Drivers -> Locations] /\ block' \in [Drivers -> Blocks]
  BY <1>1 DEF UpdateLocation, TypeOK
<1>3. index' \in [Blocks -> SUBSET Drivers]
  BY <1>1 DEF UpdateLocation, TypeOK, Unlisted
<1>4. BlocksKept'
  BY DEF UpdateLocation, TypeOK, BlocksKept
<1> QED BY <1>2, <1>3, <1>4

-----------------------------------------------------------------------------
(* Types, and where requests are. *)

LEMMA TypingInductive == Typing /\ [Next]_vars => Typing'
<1> SUFFICES ASSUME Typing, [Next]_vars PROVE Typing'
  OBVIOUS
<1> USE DEF driverVars, riderVars, storeVars, queueVars, rideVars, callVars
<1>t. TypeOK /\ CallKnows /\ Places /\ BlocksKept
  BY DEF Typing
<1>n. NoRequest \notin Requests /\ NoDriver \notin Drivers
  BY RideConstants
<1>1. CASE TimePasses
  <2>1. queue' = queue /\ UNCHANGED <<storeVars, asked, root, active, driver, history, callVars>>
    BY <1>1 DEF TimePasses, queue
  <2>2. MaxAge \in Nat
    BY RideConstants DEF MaxAge
  <2>3. \A r \in queue : age[r] \in 0..MaxAge
    BY <1>t DEF TypeOK
  <2>4. age' \in [queue' -> 0..MaxAge]
    BY <1>1, <2>1, <2>2, <2>3 DEF TimePasses
  <2>5. TypeOK'
    BY <1>t, <2>1, <2>4 DEF TypeOK
  <2>6. CallKnows' /\ Places' /\ BlocksKept'
    BY <1>t, <2>1 DEF CallKnows, Places, BlocksKept
  <2> QED BY <2>5, <2>6 DEF Typing
<1>2. ASSUME NEW p \in Riders, RegisterRider(p) PROVE Typing'
  <2>1. UNCHANGED <<driverVars, taken, rideVars, callVars>> /\ riders' \subseteq Riders
    BY <1>t, <1>2 DEF RegisterRider, TypeOK
  <2> QED BY <1>t, <2>1 DEF Typing, TypeOK, CallKnows, Places, BlocksKept, queue
<1>3. ASSUME NEW d \in Drivers, Register(d) \/ GoOnline(d) \/ GoOffline(d) \/ Move(d)
      PROVE  Typing'
  <2>1. UNCHANGED <<served, riderVars, rideVars, callVars>> /\ queue' = queue
    BY <1>3 DEF Register, GoOnline, GoOffline, Move, queue
  <2>2. Block(at[d]) \in Blocks
    BY <1>t DEF TypeOK, Blocks
  <2>3. /\ status' \in [Drivers -> {"unknown", "offline", "available", "busy"}]
        /\ at' \in [Drivers -> Locations] /\ block' \in [Drivers -> Blocks]
        /\ index' \in [Blocks -> SUBSET Drivers]
        /\ BlocksKept'
    <3>1. CASE Register(d)
      <4>1. PICK loc \in Locations :
              at' = [at EXCEPT ![d] = loc] /\ block' = [block EXCEPT ![d] = Block(loc)]
        BY <3>1 DEF Register
      <4>2. Block(loc) \in Blocks
        BY DEF Blocks
      <4> QED BY <1>t, <3>1, <4>1, <4>2 DEF Register, TypeOK, BlocksKept
    <3>2. CASE GoOnline(d)
      BY <1>t, <2>2, <3>2 DEF GoOnline, TypeOK, BlocksKept, Listed
    <3>3. CASE GoOffline(d)
      BY <1>t, <3>3 DEF GoOffline, TypeOK, BlocksKept, Unlisted
    <3>4. CASE Move(d)
      BY <1>t, <3>4, MoveFacts DEF Move, TypeOK
    <3> QED BY <1>3, <3>1, <3>2, <3>3, <3>4
  <2>4. TypeOK'
    BY <1>t, <2>1, <2>3 DEF TypeOK
  <2>5. CallKnows' /\ Places'
    BY <1>t, <2>1 DEF CallKnows, Places
  <2> QED BY <2>3, <2>4, <2>5 DEF Typing
<1>4. ASSUME NEW r \in Requests, RequestRide(r) PROVE Typing'
  <2>1. PICK a \in 0..(MaxAge - 1) : Push(r, a)
    BY <1>4 DEF RequestRide
  <2>2. /\ pc = "idle" /\ r \notin asked /\ asked' = asked \cup {r}
        /\ UNCHANGED <<storeVars, active, driver, history, callVars>>
    BY <1>4 DEF RequestRide
  <2>3. queue' = queue \cup {r} /\ age' \in [queue' -> 0..MaxAge] /\ root' \in queue'
    BY <1>t, <2>1, PushFacts
  <2>4. TypeOK'
    BY <1>t, <2>2, <2>3 DEF TypeOK
  <2>5. CallKnows' /\ BlocksKept'
    BY <1>t, <2>2 DEF CallKnows, BlocksKept
  <2>6. queue' \subseteq Requests
    BY <1>t, <2>3 DEF TypeOK
  <2>7. Places'
    BY <1>t, <1>n, <2>2, <2>3, <2>6 DEF Places
  <2> QED BY <2>4, <2>5, <2>7 DEF Typing
<1>5. ASSUME NEW r \in Requests, Complete(r) PROVE Typing'
  <2>1. /\ pc = "idle" /\ r \in active /\ active' = active \ {r}
        /\ DOMAIN history' = DOMAIN history \cup {r}
        /\ \A x \in DOMAIN history' :
             history'[x] = IF x = r THEN "completed" ELSE history[x]
        /\ pc' = "arrive" /\ cur' = r
        /\ UNCHANGED <<storeVars, queueVars, driver, found>> /\ queue' = queue
    BY <1>5 DEF Complete, Call, queue
  <2>2. TypeOK'
    BY <1>t, <2>1 DEF TypeOK
  <2>3. CallKnows' /\ BlocksKept'
    BY <1>t, <2>1 DEF CallKnows, BlocksKept
  <2>4. Places'
    BY <1>t, <2>1 DEF Places
  <2> QED BY <2>2, <2>3, <2>4 DEF Typing
<1>6. CASE Peek
  <2>1. /\ pc' \in {"expire", "find"} /\ cur' = root /\ queue # {}
        /\ UNCHANGED <<storeVars, rideVars, found>> /\ queue' = queue
    BY <1>6 DEF Peek, Call, queue
  <2>2. root \in queue /\ root \in Requests
    BY <1>t, <2>1 DEF TypeOK, Places
  <2> QED BY <1>t, <2>1, <2>2 DEF Typing, TypeOK, CallKnows, Places, BlocksKept
<1>7. CASE Expire
  <2>1. /\ pc = "expire" /\ Pop /\ pc' = "idle" /\ cur' = NoRequest /\ found' = NoDriver
        /\ DOMAIN history' = DOMAIN history \cup {root}
        /\ \A x \in DOMAIN history' :
             history'[x] = IF x = root THEN "cancelled" ELSE history[x]
        /\ UNCHANGED <<storeVars, active, driver>>
    BY <1>7 DEF Expire, Done
  <2>2. root \in queue /\ root \in Requests
    BY <1>t, <2>1 DEF CallKnows, TypeOK
  <2>3. /\ queue' = queue \ {root} /\ asked' = asked /\ age' \in [queue' -> 0..MaxAge]
        /\ root' \in queue' \cup {NoRequest} /\ (root' = NoRequest => queue' = {})
    BY <1>t, <2>1, <2>2, PopFacts
  <2>4. TypeOK'
    BY <1>t, <2>1, <2>2, <2>3 DEF TypeOK
  <2>5. CallKnows' /\ BlocksKept'
    BY <1>t, <2>1 DEF CallKnows, BlocksKept
  <2>6. Places'
    BY <1>t, <2>1, <2>2, <2>3 DEF Places
  <2> QED BY <2>4, <2>5, <2>6 DEF Typing
<1>8. CASE FindNearest
  <2>1. /\ UNCHANGED <<storeVars, rideVars>> /\ queue' = queue /\ pc = "find"
        /\ \/ pc' = "idle" /\ cur' = NoRequest /\ found' = NoDriver
           \/ found' \in Candidates(cur) /\ pc' = "assign" /\ cur' = cur
    BY <1>8 DEF FindNearest, Call, Done, queue
  <2>2. cur \in Requests /\ cur = root /\ root \in queue
    BY <1>t, <2>1 DEF CallKnows, TypeOK
  <2>3. Candidates(cur) \subseteq Drivers
    <3>1. Pickup[cur] \in Locations
      BY <2>2, RideConstants
    <3>2. Near[Block(Pickup[cur])] \subseteq Blocks
      BY <3>1, RideConstants DEF Blocks
    <3> QED BY <1>t, <3>2 DEF Candidates, TypeOK
  <2> QED BY <1>t, <2>1, <2>2, <2>3 DEF Typing, TypeOK, CallKnows, Places, BlocksKept
<1>9. CASE Assign
  <2>1. /\ UNCHANGED <<at, block, served, riderVars, rideVars>> /\ queue' = queue
        /\ pc = "assign"
        /\ \/ /\ pc' = "idle" /\ cur' = NoRequest /\ found' = NoDriver
              /\ UNCHANGED <<status, index>>
           \/ pc' = "match" /\ cur' = cur /\ UNCHANGED <<status, index, found>>
           \/ /\ pc' = "match" /\ cur' = cur /\ found' = found
              /\ status' = [status EXCEPT ![found] = "busy"]
              /\ index' = Unlisted(block[found], found)
    BY <1>9 DEF Assign, Call, Done, queue
  <2>2. found \in Drivers
    BY <1>t, <2>1 DEF CallKnows
  <2>3. /\ status' \in [Drivers -> {"unknown", "offline", "available", "busy"}]
        /\ index' \in [Blocks -> SUBSET Drivers]
    <3>1. Unlisted(block[found], found) \in [Blocks -> SUBSET Drivers]
      BY <1>t, <2>2 DEF TypeOK, Unlisted
    <3> QED BY <1>t, <2>1, <2>2, <3>1 DEF TypeOK
  <2>4. TypeOK'
    BY <1>t, <2>1, <2>2, <2>3 DEF TypeOK
  <2>5. CallKnows' /\ Places' /\ BlocksKept'
    BY <1>t, <2>1, <2>2 DEF CallKnows, Places, BlocksKept
  <2> QED BY <2>4, <2>5 DEF Typing
<1>10. CASE Match
  <2>1. /\ pc = "match" /\ Pop /\ pc' = "idle" /\ cur' = NoRequest /\ found' = NoDriver
        /\ active' = active \cup {cur} /\ driver' = [driver EXCEPT ![cur] = found]
        /\ UNCHANGED <<storeVars, history>>
    BY <1>10 DEF Match, Done
  <2>2. cur = root /\ root \in queue /\ root \in Requests /\ found \in Drivers
    BY <1>t, <2>1 DEF CallKnows, TypeOK
  <2>3. /\ queue' = queue \ {root} /\ asked' = asked /\ age' \in [queue' -> 0..MaxAge]
        /\ root' \in queue' \cup {NoRequest} /\ (root' = NoRequest => queue' = {})
    BY <1>t, <2>1, <2>2, PopFacts
  <2>4. TypeOK'
    BY <1>t, <2>1, <2>2, <2>3 DEF TypeOK
  <2>5. CallKnows' /\ BlocksKept'
    BY <1>t, <2>1 DEF CallKnows, BlocksKept
  <2>6. driver'[root] = found /\ \A r \in Requests \ {root} : driver'[r] = driver[r]
    BY <1>t, <2>1, <2>2 DEF TypeOK
  <2>7. Places'
    BY <1>t, <2>1, <2>2, <2>3, <2>6 DEF Places, TypeOK
  <2> QED BY <2>4, <2>5, <2>7 DEF Typing
<1>11. CASE Arrive
  <2>1. /\ pc = "arrive" /\ UpdateLocation(driver[cur], Dropoff[cur])
        /\ pc' = "record" /\ cur' = cur
        /\ UNCHANGED <<status, served, riderVars, rideVars, found>> /\ queue' = queue
    BY <1>11 DEF Arrive, Call, queue
  <2>2. driver[cur] \in Drivers /\ Dropoff[cur] \in Locations
    BY <1>t, <2>1, RideConstants DEF CallKnows, Places, TypeOK
  <2>3. /\ at' \in [Drivers -> Locations] /\ block' \in [Drivers -> Blocks]
        /\ index' \in [Blocks -> SUBSET Drivers] /\ BlocksKept'
    BY <1>t, <2>1, <2>2, MoveFacts
  <2>4. TypeOK'
    BY <1>t, <2>1, <2>3 DEF TypeOK
  <2>5. CallKnows' /\ Places'
    BY <1>t, <2>1 DEF CallKnows, Places
  <2> QED BY <2>3, <2>4, <2>5 DEF Typing
<1>12. CASE Record \/ RecordRider
  <2>1. /\ pc \in {"record", "thank"} /\ pc' \in {"thank", "release"} /\ cur' = cur
        /\ UNCHANGED <<status, at, block, index, riders, rideVars, found>> /\ queue' = queue
    BY <1>12 DEF Record, RecordRider, Call, queue
  <2>2. cur \in Requests /\ driver[cur] \in Drivers /\ Rider[cur] \in Riders
    BY <1>t, <2>1, RideConstants DEF CallKnows, Places, TypeOK
  <2>3. served' \in [Drivers -> Seq(Requests)] /\ taken' \in [Riders -> Seq(Requests)]
    <3>1. Append(served[driver[cur]], cur) \in Seq(Requests)
      BY <1>t, <2>2, AppendProperties DEF TypeOK
    <3>2. Append(taken[Rider[cur]], cur) \in Seq(Requests)
      BY <1>t, <2>2, AppendProperties DEF TypeOK
    <3> QED BY <1>t, <1>12, <2>2, <3>1, <3>2 DEF Record, RecordRider, TypeOK
  <2>4. TypeOK'
    BY <1>t, <2>1, <2>3 DEF TypeOK
  <2>5. CallKnows' /\ Places' /\ BlocksKept'
    BY <1>t, <2>1 DEF CallKnows, Places, BlocksKept
  <2> QED BY <2>4, <2>5 DEF Typing
<1>13. CASE Release
  <2> DEFINE d == driver[cur]
  <2>1. /\ pc = "release" /\ pc' = "idle" /\ cur' = NoRequest /\ found' = NoDriver
        /\ UNCHANGED <<at, served, riderVars, rideVars>> /\ queue' = queue
        /\ \/ /\ status' = [status EXCEPT ![d] = "available"]
              /\ block' = [block EXCEPT ![d] = Block(at[d])]
              /\ index' = Listed(block'[d], d)
           \/ UNCHANGED <<status, block, index>>
    BY <1>13 DEF Release, Done, queue
  <2>2. d \in Drivers /\ Block(at[d]) \in Blocks
    BY <1>t, <2>1 DEF CallKnows, Places, TypeOK, Blocks
  <2>3. /\ status' \in [Drivers -> {"unknown", "offline", "available", "busy"}]
        /\ block' \in [Drivers -> Blocks] /\ index' \in [Blocks -> SUBSET Drivers]
        /\ BlocksKept'
    <3>1. CASE UNCHANGED <<status, block, index>>
      BY <1>t, <2>1, <3>1 DEF TypeOK, BlocksKept
    <3>2. CASE /\ status' = [status EXCEPT ![d] = "available"]
               /\ block' = [block EXCEPT ![d] = Block(at[d])]
               /\ index' = Listed(block'[d], d)
      <4>1. block' \in [Drivers -> Blocks] /\ block'[d] \in Blocks /\ BlocksKept'
        BY <1>t, <2>1, <2>2, <3>2 DEF TypeOK, BlocksKept
      <4>2. index' \in [Blocks -> SUBSET Drivers]
        BY <1>t, <2>2, <3>2, <4>1 DEF TypeOK, Listed
      <4> QED BY <1>t, <2>2, <3>2, <4>1, <4>2 DEF TypeOK
    <3> QED BY <2>1, <3>1, <3>2
  <2>4. TypeOK'
    BY <1>t, <2>1, <2>3 DEF TypeOK
  <2>5. CallKnows' /\ Places'
    BY <1>t, <2>1 DEF CallKnows, Places
  <2> QED BY <2>3, <2>4, <2>5 DEF Typing
<1>14. CASE UNCHANGED vars
  BY <1>t, <1>14 DEF vars, Typing, TypeOK, CallKnows, Places, BlocksKept, queue
<1> QED
  BY <1>1, <1>2, <1>3, <1>4, <1>5, <1>6, <1>7, <1>8, <1>9, <1>10, <1>11, <1>12, <1>13, <1>14
  DEF Next, DispatcherStep

\* Types are right in every reachable state; every request that was made is in one
\* place, and every match and completion has its driver.
THEOREM TypeCorrect == Spec => []Typing
<1>1. Init => Typing
  <2> SUFFICES ASSUME Init PROVE Typing
    OBVIOUS
  <2>1. PICK loc \in Locations : at = [d \in Drivers |-> loc]
    BY RideConstants DEF Init
  <2>2. block = [d \in Drivers |-> Block(loc)] /\ Block(loc) \in Blocks
    BY <2>1 DEF Init, Blocks
  <2>3. queue = {} /\ DOMAIN history = {} /\ age \in [queue -> 0..MaxAge]
    BY DEF Init, queue
  <2>4. served \in [Drivers -> Seq(Requests)] /\ taken \in [Riders -> Seq(Requests)]
    BY EmptySeq DEF Init
  <2>5. TypeOK
    BY <2>1, <2>2, <2>3, <2>4 DEF Init, TypeOK
  <2> QED
    BY <2>1, <2>2, <2>3, <2>5 DEF Init, Typing, CallKnows, Places, BlocksKept
<1> QED BY <1>1, TypingInductive, PTL DEF Spec

-----------------------------------------------------------------------------
(* The index of available drivers. *)

\* Whatever order drivers and dispatcher act in, each write to the status, the
\* location or the index of a driver leaves him listed exactly where he is.
LEMMA IndexInductive == Typing /\ IndexExact /\ [Next]_vars => IndexExact'
<1> SUFFICES ASSUME Typing, IndexExact, [Next]_vars PROVE IndexExact'
  OBVIOUS
<1> USE DEF driverVars, riderVars, storeVars, rideVars, callVars
<1>t. /\ status \in [Drivers -> {"unknown", "offline", "available", "busy"}]
      /\ at \in [Drivers -> Locations] /\ block \in [Drivers -> Blocks]
      /\ index \in [Blocks -> SUBSET Drivers]
      /\ BlocksKept
  BY DEF Typing, TypeOK
\* One driver's entry.
<1>i. ASSUME NEW b \in Blocks, NEW d \in Drivers
      PROVE  d \in index[b] <=> status[d] = "available" /\ Block(at[d]) = b
  BY DEF IndexExact
<1>s. ASSUME index' \in [Blocks -> SUBSET Drivers],
             \A b \in Blocks, d \in Drivers :
               d \in index'[b] <=> status'[d] = "available" /\ Block(at'[d]) = b
      PROVE  IndexExact'
  BY <1>s DEF IndexExact
<1>b. \A d \in Drivers : Block(at[d]) \in Blocks /\ block[d] = Block(at[d])
  BY <1>t DEF Blocks, BlocksKept
<1>1. CASE UNCHANGED <<status, at, index>>
  BY <1>1 DEF IndexExact
<1>2. ASSUME NEW d \in Drivers, Register(d) PROVE IndexExact'
  <2>1. /\ UNCHANGED index /\ status[d] = "unknown" /\ status'[d] = "offline"
        /\ \A e \in Drivers \ {d} : status'[e] = status[e] /\ at'[e] = at[e]
    BY <1>t, <1>2 DEF Register
  <2> QED BY <1>t, <1>i, <1>s, <2>1
<1>3. ASSUME NEW d \in Drivers, GoOnline(d) PROVE IndexExact'
  <2>1. /\ UNCHANGED at /\ status' = [status EXCEPT ![d] = "available"]
        /\ index' = Listed(Block(at[d]), d)
    BY <1>t, <1>3 DEF GoOnline
  <2>2. index' \in [Blocks -> SUBSET Drivers]
    BY <1>t, <1>b, <2>1 DEF Listed
  <2> QED BY <1>t, <1>b, <1>i, <1>s, <2>1, <2>2 DEF Listed
<1>4. ASSUME NEW d \in Drivers, status[d] = "available", UNCHANGED at,
             NEW st \in {"offline", "busy"}, status' = [status EXCEPT ![d] = st],
             index' = Unlisted(block[d], d)
      PROVE  IndexExact'
  <2>1. index' \in [Blocks -> SUBSET Drivers]
    BY <1>t, <1>b, <1>4 DEF Unlisted
  <2> QED BY <1>t, <1>b, <1>i, <1>s, <1>4, <2>1 DEF Unlisted
<1>5. ASSUME NEW d \in Drivers, NEW loc \in Locations, UpdateLocation(d, loc), UNCHANGED status
      PROVE  IndexExact'
  <2>1. Block(loc) \in Blocks
    BY DEF Blocks
  <2>2. at'[d] = loc /\ \A e \in Drivers \ {d} : at'[e] = at[e]
    BY <1>t, <1>5 DEF UpdateLocation
  <2>3. CASE status[d] = "available"
    <3>1. index' = [Unlisted(Block(at[d]), d) EXCEPT ![Block(loc)] = @ \cup {d}]
      BY <1>b, <1>5, <2>3 DEF UpdateLocation
    <3>2. index' \in [Blocks -> SUBSET Drivers]
      BY <1>t, <1>b, <2>1, <3>1 DEF Unlisted
    <3>3. \A b \in Blocks : d \in index'[b] <=> b = Block(loc)
      BY <1>t, <1>b, <1>i, <2>1, <2>3, <3>1 DEF Unlisted
    <3>4. \A b \in Blocks : \A e \in Drivers \ {d} : e \in index'[b] <=> e \in index[b]
      BY <1>t, <1>b, <2>1, <3>1 DEF Unlisted
    <3> QED BY <1>i, <1>s, <1>5, <2>2, <2>3, <3>2, <3>3, <3>4
  <2>4. CASE status[d] # "available"
    BY <1>t, <1>i, <1>s, <1>5, <2>2, <2>4 DEF UpdateLocation
  <2> QED BY <2>3, <2>4
<1>6. ASSUME NEW d \in Drivers, GoOffline(d) \/ Move(d) PROVE IndexExact'
  BY <1>4, <1>5, <1>6 DEF GoOffline, Move
<1>7. CASE Assign
  <2>1. found \in Drivers
    BY <1>7 DEF Assign, Typing, CallKnows
  <2> QED BY <1>1, <1>4, <1>7, <2>1 DEF Assign
<1>8. CASE Arrive
  <2>1. driver[cur] \in Drivers /\ Dropoff[cur] \in Locations
    BY <1>8, RideConstants DEF Arrive, Typing, CallKnows, Places, TypeOK
  <2> QED BY <1>5, <1>8, <2>1 DEF Arrive
<1>9. CASE Release
  <2> DEFINE d == driver[cur]
  <2>1. d \in Drivers
    BY <1>9 DEF Release, Typing, CallKnows, Places
  <2>2. CASE UNCHANGED <<status, block, index>>
    BY <1>1, <1>9, <2>2 DEF Release
  <2>3. CASE /\ status[d] = "busy" /\ status' = [status EXCEPT ![d] = "available"]
             /\ index' = Listed(Block(at[d]), d)
    <3>1. index' \in [Blocks -> SUBSET Drivers] /\ UNCHANGED at
      BY <1>t, <1>b, <1>9, <2>1, <2>3 DEF Listed, Release
    <3> QED BY <1>t, <1>b, <1>i, <1>s, <2>1, <2>3, <3>1 DEF Listed
  <2> QED BY <1>t, <1>9, <2>1, <2>2, <2>3 DEF Release
<1> QED
  BY <1>1, <1>2, <1>3, <1>6, <1>7, <1>8, <1>9
  DEF Next, vars, TimePasses, RegisterRider, RequestRide, Complete, Peek, DispatcherStep,
      Expire, FindNearest, Match, Record, RecordRider

-----------------------------------------------------------------------------
(* Drivers and their rides. *)

\* A driver with a ride is busy, has that one only, and a driver found for a match
\* has not been taken by anybody else.
Busy ==
  /\ \A d \in Drivers : status[d] = "busy" <=> Out(d) # {}
  /\ \A d \in Drivers : \A r, s \in Out(d) : r = s
  /\ pc = "assign" => status[found] \in {"offline", "available"}

LEMMA BusyInductive == Typing /\ IndexExact /\ Busy /\ [Next]_vars => Busy'
<1> SUFFICES ASSUME Typing, IndexExact, Busy, [Next]_vars PROVE Busy'
  OBVIOUS
<1> USE DEF driverVars, riderVars, storeVars, rideVars, queueVars, callVars
<1>t. /\ status \in [Drivers -> {"unknown", "offline", "available", "busy"}]
      /\ driver \in [Requests -> Drivers \cup {NoDriver}] /\ active \subseteq Requests
      /\ NoDriver \notin Drivers
      /\ pc \in {"idle", "expire", "find", "assign", "match", "arrive", "record", "thank", "release"}
  BY RideConstants DEF Typing, TypeOK
<1> DEFINE Riding == {"match", "arrive", "record", "thank", "release"}
\* A step that leaves the rides and who is busy alone.
<1>k. ASSUME \A d \in Drivers : Out(d)' = Out(d),
             \A d \in Drivers : status'[d] = "busy" <=> status[d] = "busy",
             pc' = "assign" => status'[found'] \in {"offline", "available"}
      PROVE  Busy'
  BY <1>k DEF Busy
<1>o. ASSUME UNCHANGED <<active, driver>>,
             (pc' \notin Riding /\ pc \notin Riding) \/ UNCHANGED <<pc, cur, found>>
      PROVE  \A d \in Drivers : Out(d)' = Out(d)
  BY <1>o DEF Out
<1>1. CASE UNCHANGED <<status, active, driver, callVars>>
  BY <1>k, <1>o, <1>1 DEF Busy
<1>2. ASSUME NEW d \in Drivers, Register(d) \/ GoOnline(d) \/ GoOffline(d) PROVE Busy'
  <2>1. /\ UNCHANGED <<active, driver, callVars>> /\ status[d] # "busy"
        /\ status' = [status EXCEPT ![d] = "available"] \/ status' = [status EXCEPT ![d] = "offline"]
    BY <1>t, <1>2 DEF Register, GoOnline, GoOffline
  <2>2. pc = "assign" => status'[found] \in {"offline", "available"}
    BY <1>t, <2>1 DEF Busy, Typing, CallKnows
  <2>3. \A e \in Drivers : status'[e] = "busy" <=> status[e] = "busy"
    BY <1>t, <2>1
  <2> QED BY <1>k, <1>o, <2>1, <2>2, <2>3
<1>3. ASSUME NEW r \in Requests, Complete(r) PROVE Busy'
  <2>1. /\ pc = "idle" /\ r \in active /\ active' = active \ {r}
        /\ pc' = "arrive" /\ cur' = r /\ UNCHANGED <<status, driver>>
    BY <1>3 DEF Complete, Call
  <2>2. \A d \in Drivers : Out(d)' = Out(d)
    BY <2>1 DEF Out
  <2> QED BY <1>k, <2>1, <2>2
<1>4. CASE Peek \/ Expire
  <2>1. /\ pc \notin Riding /\ pc' \in {"idle", "expire", "find"}
        /\ UNCHANGED <<status, active, driver>>
    BY <1>4 DEF Peek, Expire, Call, Done
  <2> QED BY <1>k, <1>o, <2>1
<1>5. CASE FindNearest
  <2>1. /\ pc = "find" /\ pc' \in {"idle", "assign"} /\ UNCHANGED <<status, active, driver>>
        /\ pc' = "assign" => found' \in Candidates(cur)
    BY <1>5 DEF FindNearest, Call, Done
  <2>2. cur \in Requests /\ Near[Block(Pickup[cur])] \subseteq Blocks
    BY <2>1, RideConstants DEF Typing, TypeOK, CallKnows, Blocks
  <2>3. pc' = "assign" => status[found'] = "available"
    BY <2>1, <2>2 DEF Candidates, IndexExact
  <2> QED BY <1>k, <1>o, <2>1, <2>3
<1>6. CASE Assign
  <2>1. /\ pc = "assign" /\ found \in Drivers /\ status[found] \in {"offline", "available"}
        /\ UNCHANGED <<active, driver>>
    BY <1>6 DEF Assign, Busy, Typing, CallKnows
  <2>2. CASE status[found] = "offline"
    <3>1. pc' = "idle" /\ UNCHANGED status
      BY <1>6, <2>2 DEF Assign, Done
    <3> QED BY <1>k, <1>o, <2>1, <3>1
  <2>3. CASE status[found] = "available"
    <3>1. /\ pc' = "match" /\ UNCHANGED <<cur, found>>
          /\ status' = [status EXCEPT ![found] = "busy"]
      BY <1>6, <2>3 DEF Assign, Call
    <3>2. Out(found) = {} /\ Out(found)' = {cur}
      BY <2>1, <2>3, <3>1 DEF Busy, Out
    <3>3. \A d \in Drivers \ {found} : Out(d)' = Out(d) /\ status'[d] = status[d]
      BY <1>t, <2>1, <3>1 DEF Out
    <3>4. status'[found] = "busy"
      BY <1>t, <2>1, <3>1
    <3> QED BY <3>1, <3>2, <3>3, <3>4 DEF Busy
  <2> QED BY <2>1, <2>2, <2>3
<1>7. CASE Match
  <2>1. /\ pc = "match" /\ pc' = "idle" /\ UNCHANGED status
        /\ active' = active \cup {cur} /\ driver' = [driver EXCEPT ![cur] = found]
    BY <1>7 DEF Match, Done
  <2>2. cur \in Requests /\ cur \notin active
    BY <2>1 DEF Typing, TypeOK, CallKnows, Places
  <2>3. driver'[cur] = found /\ \A r \in active : driver'[r] = driver[r]
    BY <1>t, <2>1, <2>2
  <2>4. \A d \in Drivers : Out(d)' = Out(d)
    BY <2>1, <2>2, <2>3 DEF Out
  <2> QED BY <1>k, <2>1, <2>4
<1>8. CASE Arrive \/ Record \/ RecordRider
  <2>1. /\ pc \in {"arrive", "record", "thank"} /\ pc' \in {"record", "thank", "release"}
        /\ UNCHANGED <<cur, status, active, driver>>
    BY <1>8 DEF Arrive, Record, RecordRider, Call
  <2>2. \A d \in Drivers : Out(d)' = Out(d)
    BY <2>1 DEF Out
  <2> QED BY <1>k, <2>1, <2>2
<1>9. CASE Release
  <2>1. pc = "release" /\ pc' = "idle" /\ UNCHANGED <<active, driver>>
    BY <1>9 DEF Release, Done
  <2>2. driver[cur] \in Drivers /\ cur \notin active
    BY <2>1 DEF Typing, CallKnows, Places
  <2>e. PICK e \in Drivers : e = driver[cur]
    BY <2>2
  <2>3. cur \in Out(e)
    BY <2>1, <2>e DEF Out
  <2>4. status[e] = "busy" /\ \A r \in Out(e) : r = cur
    BY <2>2, <2>3 DEF Busy
  <2>5. status' = [status EXCEPT ![e] = "available"]
    BY <1>9, <2>4, <2>e DEF Release
  <2>6. Out(e)' = {}
    BY <2>1, <2>2, <2>4 DEF Out
  <2>7. \A d \in Drivers \ {e} : Out(d)' = Out(d) /\ status'[d] = status[d]
    BY <1>t, <2>1, <2>5, <2>e DEF Out
  <2>8. status'[e] = "available"
    BY <1>t, <2>2, <2>5
  <2> QED BY <2>1, <2>2, <2>6, <2>7, <2>8 DEF Busy
<1> QED
  BY <1>1, <1>2, <1>3, <1>4, <1>5, <1>6, <1>7, <1>8, <1>9
  DEF Next, vars, TimePasses, RegisterRider, Move, RequestRide, DispatcherStep

\* A driver is busy exactly while he is out on one ride.
LEMMA BusyIsAccounted == Busy => DriversAccountedFor
<1> SUFFICES ASSUME Busy, NEW d \in Drivers
             PROVE  Cardinality(Out(d)) = IF status[d] = "busy" THEN 1 ELSE 0
  BY DEF DriversAccountedFor
<1>1. CASE Out(d) = {}
  BY <1>1, FS_EmptySet DEF Busy
<1>2. CASE Out(d) # {}
  <2>1. PICK r \in Out(d) : TRUE
    BY <1>2
  <2>2. Out(d) = {r}
    BY <2>1 DEF Busy
  <2> QED BY <1>2, <2>2, FS_Singleton DEF Busy
<1> QED BY <1>1, <1>2

-----------------------------------------------------------------------------
(* The histories. *)

\* How often r is in a history.
Times(rides, r) == Cardinality({k \in DOMAIN rides : rides[k] = r})

LEMMA TimesEmpty == \A r : Times(<<>>, r) = 0
<1>1. \A r : {k \in DOMAIN <<>> : <<>>[k] = r} = {}
  OBVIOUS
<1> QED BY <1>1, FS_EmptySet DEF Times

\* A ride recorded is in the history once more; the others are as often in it as before.
LEMMA TimesAppend ==
  ASSUME NEW S, NEW rides \in Seq(S), NEW x \in S, NEW r
  PROVE  Times(Append(rides, x), r) = Times(rides, r) + (IF x = r THEN 1 ELSE 0)
<1> DEFINE new == Append(rides, x)
           n == Len(rides)
           K == {k \in DOMAIN rides : rides[k] = r}
<1>1. /\ n \in Nat /\ DOMAIN rides = 1..n /\ DOMAIN new = 1..(n + 1)
      /\ new[n + 1] = x /\ \A k \in 1..n : new[k] = rides[k]
  BY AppendProperties, LenProperties
<1>2. IsFiniteSet(K) /\ Cardinality(K) \in Nat
  <2>1. IsFiniteSet(1..n)
    BY <1>1, FS_Interval
  <2> QED BY <1>1, <2>1, FS_Subset, FS_CardinalityType
<1>3. CASE x = r
  <2>1. {k \in DOMAIN new : new[k] = r} = K \cup {n + 1}
    BY <1>1, <1>3
  <2>2. n + 1 \notin K
    BY <1>1
  <2> QED BY <1>2, <1>3, <2>1, <2>2, FS_AddElement DEF Times
<1>4. CASE x # r
  <2>1. {k \in DOMAIN new : new[k] = r} = K
    BY <1>1, <1>4
  <2>2. Times(new, r) = Cardinality(K) /\ Times(rides, r) = Cardinality(K)
    BY <2>1 DEF Times
  <2> QED BY <1>2, <1>4, <2>2
<1> QED BY <1>3, <1>4

Completed(r) == r \in DOMAIN history /\ history[r] = "completed"
Due(r, d)    == Completed(r) /\ driver[r] = d /\ ~(cur = r /\ pc \in {"arrive", "record"})
RiderDue(r, p) ==
  Completed(r) /\ Rider[r] = p /\ ~(cur = r /\ pc \in {"arrive", "record", "thank"})

\* HistoriesAgree, with names for its parts.
Recorded ==
  \A r \in Requests :
    /\ \A d \in Drivers : Times(served[d], r) = IF Due(r, d) THEN 1 ELSE 0
    /\ \A p \in Riders : Times(taken[p], r) = IF RiderDue(r, p) THEN 1 ELSE 0

LEMMA RecordedIsAgreed == Recorded => HistoriesAgree
BY DEF Recorded, HistoriesAgree, Times, Due, RiderDue, Completed

LEMMA RecordedInductive == Typing /\ Recorded /\ [Next]_vars => Recorded'
<1> SUFFICES ASSUME Typing, Recorded, [Next]_vars PROVE Recorded'
  OBVIOUS
<1> USE DEF driverVars, riderVars, storeVars, rideVars, queueVars, callVars
<1>t. /\ served \in [Drivers -> Seq(Requests)] /\ taken \in [Riders -> Seq(Requests)]
      /\ driver \in [Requests -> Drivers \cup {NoDriver}]
      /\ NoRequest \notin Requests
  BY RideConstants DEF Typing, TypeOK
\* A step that records nothing, and makes no record due.
<1>k. ASSUME UNCHANGED <<served, taken>>,
             \A r \in Requests, d \in Drivers : Due(r, d)' <=> Due(r, d),
             \A r \in Requests, p \in Riders : RiderDue(r, p)' <=> RiderDue(r, p)
      PROVE  Recorded'
  BY <1>k DEF Recorded
<1>1. CASE UNCHANGED <<served, taken, driver, history, pc, cur>>
  BY <1>k, <1>1 DEF Due, RiderDue, Completed
<1>2. CASE Peek \/ FindNearest \/ Assign
  <2>1. /\ UNCHANGED <<served, taken, driver, history>>
        /\ pc \in {"idle", "find", "assign"} /\ pc' \in {"idle", "expire", "find", "assign", "match"}
    BY <1>2 DEF Peek, FindNearest, Assign, Call, Done
  <2> QED BY <1>k, <2>1 DEF Due, RiderDue, Completed
<1>3. CASE Expire
  <2>1. /\ pc = "expire" /\ pc' = "idle" /\ UNCHANGED <<served, taken, driver>>
        /\ root \notin DOMAIN history /\ DOMAIN history' = DOMAIN history \cup {root}
        /\ history'[root] = "cancelled"
        /\ \A x \in DOMAIN history : history'[x] = history[x]
    BY <1>3 DEF Expire, Done, Typing, CallKnows, Places
  <2> QED BY <1>k, <2>1 DEF Due, RiderDue, Completed
<1>4. CASE Match
  <2>1. /\ pc = "match" /\ pc' = "idle" /\ UNCHANGED <<served, taken, history>>
        /\ cur \notin DOMAIN history /\ driver' = [driver EXCEPT ![cur] = found]
    BY <1>4 DEF Match, Done, Typing, CallKnows, Places
  <2>2. \A r \in Requests \cap DOMAIN history : driver'[r] = driver[r]
    BY <1>t, <2>1
  <2> QED BY <1>k, <2>1, <2>2 DEF Due, RiderDue, Completed
<1>5. ASSUME NEW x \in Requests, Complete(x) PROVE Recorded'
  <2>1. /\ pc = "idle" /\ pc' = "arrive" /\ cur' = x /\ UNCHANGED <<served, taken, driver>>
        /\ x \notin DOMAIN history /\ DOMAIN history' = DOMAIN history \cup {x}
        /\ \A r \in DOMAIN history : history'[r] = history[r]
    BY <1>5 DEF Complete, Call, Typing, Places
  <2> QED BY <1>k, <2>1 DEF Due, RiderDue, Completed
<1>6. CASE Arrive
  <2>1. /\ pc = "arrive" /\ pc' = "record" /\ UNCHANGED <<cur, served, taken, driver, history>>
    BY <1>6 DEF Arrive, Call
  <2> QED BY <1>k, <2>1 DEF Due, RiderDue, Completed
<1>7. CASE Record
  <2>1. /\ pc = "record" /\ pc' = "thank" /\ UNCHANGED <<cur, taken, driver, history>>
        /\ served' = [served EXCEPT ![driver[cur]] = Append(@, cur)]
    BY <1>7 DEF Record, Call
  <2>2. cur \in Requests /\ Completed(cur) /\ driver[cur] \in Drivers
    BY <2>1 DEF Typing, TypeOK, CallKnows, Places, Completed
  <2>3. ASSUME NEW r \in Requests, NEW d \in Drivers
        PROVE  Times(served'[d], r) = IF Due(r, d)' THEN 1 ELSE 0
    <3>1. Times(served[d], r) = IF Due(r, d) THEN 1 ELSE 0
      BY DEF Recorded
    <3>2. CASE d = driver[cur] /\ r = cur
      <4>1. served'[d] = Append(served[d], cur) /\ ~Due(r, d) /\ Due(r, d)'
        BY <1>t, <2>1, <2>2, <3>2 DEF Due, Completed
      <4>2. Times(Append(served[d], cur), r) = Times(served[d], r) + 1
        BY <1>t, <2>2, <3>2, TimesAppend
      <4> QED BY <3>1, <4>1, <4>2
    <3>3. CASE d = driver[cur] /\ r # cur
      <4>1. served'[d] = Append(served[d], cur) /\ (Due(r, d)' <=> Due(r, d))
        BY <1>t, <2>1, <2>2, <3>3 DEF Due, Completed
      <4>2. Times(Append(served[d], cur), r) = Times(served[d], r) + 0
        BY <1>t, <2>2, <3>3, TimesAppend
      <4> QED BY <3>1, <4>1, <4>2
    <3>4. CASE d # driver[cur]
      <4>1. served'[d] = served[d] /\ (Due(r, d)' <=> Due(r, d))
        BY <1>t, <2>1, <2>2, <3>4 DEF Due, Completed
      <4> QED BY <3>1, <4>1
    <3> QED BY <3>2, <3>3, <3>4
  <2>4. \A r \in Requests, p \in Riders : RiderDue(r, p)' <=> RiderDue(r, p)
    BY <2>1 DEF RiderDue, Completed
  <2> QED BY <2>1, <2>3, <2>4 DEF Recorded
<1>8. CASE RecordRider
  <2>1. /\ pc = "thank" /\ pc' = "release" /\ UNCHANGED <<cur, served, driver, history>>
        /\ taken' = [taken EXCEPT ![Rider[cur]] = Append(@, cur)]
    BY <1>8 DEF RecordRider, Call
  <2>2. cur \in Requests /\ Completed(cur) /\ Rider[cur] \in Riders
    BY <2>1, RideConstants DEF Typing, TypeOK, CallKnows, Completed
  <2>3. ASSUME NEW r \in Requests, NEW p \in Riders
        PROVE  Times(taken'[p], r) = IF RiderDue(r, p)' THEN 1 ELSE 0
    <3>1. Times(taken[p], r) = IF RiderDue(r, p) THEN 1 ELSE 0
      BY DEF Recorded
    <3>2. CASE p = Rider[cur] /\ r = cur
      <4>1. taken'[p] = Append(taken[p], cur) /\ ~RiderDue(r, p) /\ RiderDue(r, p)'
        BY <1>t, <2>1, <2>2, <3>2 DEF RiderDue, Completed
      <4>2. Times(Append(taken[p], cur), r) = Times(taken[p], r) + 1
        BY <1>t, <2>2, <3>2, TimesAppend
      <4> QED BY <3>1, <4>1, <4>2
    <3>3. CASE p = Rider[cur] /\ r # cur
      <4>1. taken'[p] = Append(taken[p], cur) /\ (RiderDue(r, p)' <=> RiderDue(r, p))
        BY <1>t, <2>1, <2>2, <3>3 DEF RiderDue, Completed
      <4>2. Times(Append(taken[p], cur), r) = Times(taken[p], r) + 0
        BY <1>t, <2>2, <3>3, TimesAppend
      <4> QED BY <3>1, <4>1, <4>2
    <3>4. CASE p # Rider[cur]
      <4>1. taken'[p] = taken[p] /\ (RiderDue(r, p)' <=> RiderDue(r, p))
        BY <1>t, <2>1, <2>2, <3>4 DEF RiderDue, Completed
      <4> QED BY <3>1, <4>1
    <3> QED BY <3>2, <3>3, <3>4
  <2>4. \A r \in Requests, d \in Drivers : Due(r, d)' <=> Due(r, d)
    BY <2>1 DEF Due, Completed
  <2> QED BY <2>1, <2>3, <2>4 DEF Recorded
<1>9. CASE Release
  <2>1. /\ pc = "release" /\ pc' = "idle" /\ UNCHANGED <<served, taken, driver, history>>
    BY <1>9 DEF Release, Done
  <2> QED BY <1>k, <2>1 DEF Due, RiderDue, Completed
<1> QED
  BY <1>1, <1>2, <1>3, <1>4, <1>5, <1>6, <1>7, <1>8, <1>9
  DEF Next, vars, TimePasses, RegisterRider, Register, GoOnline, GoOffline, Move, RequestRide,
      DispatcherStep

-----------------------------------------------------------------------------
(* The stores agree. *)

StoresInv == IndexExact /\ Busy /\ Recorded

LEMMA StoresInductive == Spec => []StoresInv
<1>1. Init => StoresInv
  <2> SUFFICES ASSUME Init PROVE StoresInv
    OBVIOUS
  <2>1. IndexExact
    BY DEF Init, IndexExact
  <2>2. Busy
    BY DEF Init, Busy, Out
  <2>3. Recorded
    BY TimesEmpty DEF Init, Recorded, Due, RiderDue, Completed
  <2> QED BY <2>1, <2>2, <2>3 DEF StoresInv
<1>2. Typing /\ StoresInv /\ [Next]_vars => StoresInv'
  BY IndexInductive, BusyInductive, RecordedInductive DEF StoresInv
<1> QED BY <1>1, <1>2, TypeCorrect, PTL DEF Spec

\* The index that matching searches, the drivers' statuses, the rides and the histories
\* tell one story at every lock the dispatcher and the drivers take: each available
\* driver is listed where he is, a busy one has one ride, and a completed ride is in
\* both histories once.
THEOREM StoresConsistent == Spec => []StoresAgree
<1>1. StoresInv => StoresAgree
  BY BusyIsAccounted, RecordedIsAgreed DEF StoresInv, StoresAgree
<1> QED BY <1>1, StoresInductive, PTL

-----------------------------------------------------------------------------
(* Dispatch implements the ride service. *)

LEMMA ServiceInit == Init => Service!Init
BY DEF Init, Service!Init, Phase, NoDriver, Service!NoDriver

LEMMA ServiceStep ==
  Typing /\ Busy /\ [Next]_vars
    => [Service!Next]_<<[r \in Requests |-> Phase(r)], driver>>
<1> SUFFICES ASSUME Typing, Busy, [Next]_vars
             PROVE  [Service!Next]_<<[r \in Requests |-> Phase(r)], driver>>
  OBVIOUS
<1> USE DEF driverVars, riderVars, storeVars, rideVars, queueVars, callVars
<1> DEFINE phase == [r \in Requests |-> Phase(r)]
<1>t. /\ asked \subseteq Requests /\ queue \subseteq asked /\ active \subseteq Requests
      /\ driver \in [Requests -> Drivers \cup {NoDriver}]
  BY DEF Typing, TypeOK
<1>p. Places
  BY DEF Typing
<1>1. CASE UNCHANGED <<asked, queue, active, driver, history>>
  BY <1>1 DEF Phase
<1>2. ASSUME NEW r \in Requests, RequestRide(r) PROVE Service!Ask(r)
  <2>1. /\ r \notin asked /\ asked' = asked \cup {r} /\ UNCHANGED <<active, driver, history>>
        /\ queue' = queue \cup {r}
    BY <1>2 DEF RequestRide, Push, queue
  <2>2. Phase(r) = "none" /\ Phase(r)' = "waiting"
    BY <1>p, <2>1 DEF Phase, Places
  <2>3. \A x \in Requests \ {r} : Phase(x)' = Phase(x)
    BY <2>1 DEF Phase
  <2> QED BY <2>1, <2>2, <2>3 DEF Service!Ask
<1>3. ASSUME NEW r \in Requests, Complete(r) PROVE Service!Complete(r)
  <2>1. /\ r \in active /\ active' = active \ {r} /\ UNCHANGED <<asked, driver>> /\ queue' = queue
        /\ DOMAIN history' = DOMAIN history \cup {r}
        /\ \A x \in DOMAIN history' : history'[x] = IF x = r THEN "completed" ELSE history[x]
    BY <1>3 DEF Complete, queue
  <2>2. Phase(r) = "riding" /\ Phase(r)' = "completed"
    BY <1>p, <2>1 DEF Phase, Places
  <2>3. \A x \in Requests \ {r} : Phase(x)' = Phase(x)
    BY <2>1 DEF Phase
  <2> QED BY <2>1, <2>2, <2>3 DEF Service!Complete
<1>4. CASE Expire
  <2>1. PICK r : r = root
    OBVIOUS
  <2>2. /\ r \in queue /\ queue' = queue \ {r} /\ UNCHANGED <<asked, active, driver>>
        /\ DOMAIN history' = DOMAIN history \cup {r}
        /\ \A x \in DOMAIN history' : history'[x] = IF x = r THEN "cancelled" ELSE history[x]
    BY <1>4, <2>1, PopFacts DEF Expire, Typing, CallKnows
  <2>3. r \in Requests /\ Phase(r) = "waiting" /\ Phase(r)' = "cancelled"
    BY <1>t, <1>p, <2>2 DEF Phase, Places
  <2>4. \A x \in Requests \ {r} : Phase(x)' = Phase(x)
    BY <2>2 DEF Phase
  <2>5. Service!Cancel(r)
    BY <2>2, <2>3, <2>4 DEF Service!Cancel
  <2> QED BY <2>3, <2>5 DEF Service!Next
<1>5. CASE Match
  <2>1. PICK r, d : r = cur /\ d = found
    OBVIOUS
  <2>2. /\ r = root /\ r \in queue /\ r \in Requests /\ d \in Drivers
        /\ pc = "match" /\ active' = active \cup {r} /\ driver' = [driver EXCEPT ![r] = d]
        /\ queue' = queue \ {r} /\ UNCHANGED <<asked, history>>
    BY <1>5, <2>1, PopFacts DEF Match, Typing, CallKnows, TypeOK
  <2>3. Phase(r) = "waiting" /\ Phase(r)' = "riding"
    BY <1>t, <1>p, <2>2 DEF Phase, Places
  <2>4. \A x \in Requests \ {r} : Phase(x)' = Phase(x)
    BY <2>2 DEF Phase
  <2>5. r \in Out(d) /\ r \notin active
    BY <1>p, <2>1, <2>2 DEF Out, Places
  <2>6. Service!Free(d)
    <3> SUFFICES ASSUME NEW x \in Requests, Phase(x) = "riding", driver[x] = d PROVE FALSE
      BY DEF Service!Free
    <3>1. x \in active
      BY <1>p DEF Phase, Places
    <3>2. x \in Out(d)
      BY <3>1 DEF Out
    <3> QED BY <2>2, <2>5, <3>1, <3>2 DEF Busy
  <2>7. Service!Match(r, d)
    BY <2>2, <2>3, <2>4, <2>6 DEF Service!Match
  <2> QED BY <2>2, <2>7 DEF Service!Next
<1> QED
  <2>1. CASE UNCHANGED vars
    BY <1>1, <2>1 DEF vars, queue
  <2>2. CASE TimePasses
    BY <1>1, <2>2 DEF TimePasses, queue
  <2>3. ASSUME NEW r \in Requests, RequestRide(r) \/ Complete(r) PROVE Service!Next
    BY <1>2, <1>3, <2>3 DEF Service!Next
  <2>4. CASE \/ \E p \in Riders : RegisterRider(p)
             \/ \E d \in Drivers : Register(d) \/ GoOnline(d) \/ GoOffline(d) \/ Move(d)
             \/ Peek \/ FindNearest \/ Assign \/ Arrive \/ Record \/ RecordRider \/ Release
    BY <1>1, <2>4
    DEF RegisterRider, Register, GoOnline, GoOffline, Move, Peek, FindNearest, Assign, Arrive,
        Record, RecordRider, Release, queue
  <2> QED BY <1>4, <1>5, <2>1, <2>2, <2>3, <2>4 DEF Next, DispatcherStep

\* Dispatch implements the ride service, for any drivers and requests: no request is
\* lost, matched twice or cancelled after its match, and no driver has two rides,
\* although the driver store changes between the steps of a dispatch.
THEOREM Refinement == Spec => ImplementsRideService
<1>1. Typing /\ StoresInv /\ [Next]_vars
        => [Service!Next]_<<[r \in Requests |-> Phase(r)], driver>>
  BY ServiceStep DEF StoresInv
<1> QED
  BY <1>1, ServiceInit, TypeCorrect, StoresInductive, PTL
  DEF Spec, ImplementsRideService, Service!Spec
=============================================================================
