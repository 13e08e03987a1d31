------------------------------- MODULE Auction -------------------------------
(***************************************************************************)
(* The auction service: PlaceBid, RetractLastBid, EndAuction and live      *)
(* watchers (13,14-day/internal/auction/service.go and store.go).          *)
(*                                                                         *)
(* A call is an HTTP handler's goroutine.  It holds its item's mutex from  *)
(* start to end, the sends to the watchers included, and takes store.mu    *)
(* several times in between: each such section is one action here, so that *)
(* calls on other items, subscriptions and readers run between them.       *)
(*                                                                         *)
(* The heap of an item is the set of its bids: only its top is ever looked *)
(* at.  Bid IDs count the bids in the order they are entered.              *)
(***************************************************************************)
EXTENDS Naturals, Sequences, FiniteSets, SequencesExt

CONSTANTS
  Calls,        \* goroutines serving requests
  Users, Items,
  Seller,       \* Seller[i]
  StartPrice,   \* StartPrice[i]
  Balance,      \* Balance[u]
  Requests,     \* what callers may ask: see Request
  Watchers,     \* subscriptions
  ItemOf,       \* ItemOf[w]: the item w watches
  ChanSize,     \* defaultWatcherChannelSize
  MaxBids       \* bound on the bids entered

None == 0       \* no bid

Request == [op : {"place"}, user : Users, item : Items, amount : Nat]
           \cup [op : {"retract"}, user : Users, item : Items]
           \cup [op : {"end"}, item : Items]

ASSUME AuctionConstants ==
  /\ Seller \in [Items -> Users] /\ StartPrice \in [Items -> Nat \ {0}]
  /\ Balance \in [Users -> Nat] /\ Requests \subseteq Request
  /\ ItemOf \in [Watchers -> Items] /\ "free" \notin Calls
  /\ ChanSize \in Nat \ {0} /\ MaxBids \in Nat

VARIABLES
  window,     \* window[i]: "early", "open" or "late" against StartTime and EndTime
  status,     \* status[i]: "absent" before CreateItem, "active" or "ended"
  bids,       \* bidsByID, a sequence of [user, item, amount, retracted]
  heap,       \* itemBidHeaps[i]
  history,    \* BidHistory of i
  stack,      \* userBidStacks[u][i], the last bid last
  active,     \* ActiveBids of u
  current,    \* CurrentBid of i, or None
  watchers,   \* watchersByItemID[i]
  chan,       \* chan[w]: events in the channel of w
  got,        \* history: got[w], the events its reader has taken
  log,        \* history: log[i], what happened to i
  reader,     \* reader[w]: "new", "in" or "gone"
  joined,     \* history: joined[w], Len of the log when w was added
  dropped,    \* history: dropped[w], an event found the channel full
  lock,       \* lock[i]: the call that holds i's mutex, or "free"
  pc, req,    \* where call c is, and what it was asked
  now,        \* now[c]: the window when it read the time, for a bid to validate
  event,      \* event[c]: what it publishes
  sendTo      \* sendTo[c]: watchers of its snapshot still to be sent to

bookVars  == <<bids, heap, history, stack, active, current>>
watchVars == <<watchers, chan, reader, got, joined, dropped>>
callVars  == <<lock, pc, req, now, event, sendTo>>
vars == <<window, status, bookVars, watchVars, log, callVars>>

NoRequest == [op |-> "none"]
NoEvent == [bid |-> None, action |-> "none"]

Init ==
  /\ window = [i \in Items |-> "early"] /\ status = [i \in Items |-> "absent"]
  /\ bids = <<>>
  /\ heap = [i \in Items |-> {}] /\ history = [i \in Items |-> <<>>]
  /\ stack = [u \in Users |-> [i \in Items |-> <<>>]]
  /\ active = [u \in Users |-> <<>>]
  /\ current = [i \in Items |-> None]
  /\ watchers = [i \in Items |-> {}]
  /\ chan = [w \in Watchers |-> <<>>] /\ got = [w \in Watchers |-> <<>>]
  /\ reader = [w \in Watchers |-> "new"]
  /\ joined = [w \in Watchers |-> 0] /\ dropped = [w \in Watchers |-> FALSE]
  /\ log = [i \in Items |-> <<>>]
  /\ lock = [i \in Items |-> "free"]
  /\ pc = [c \in Calls |-> "idle"] /\ req = [c \in Calls |-> NoRequest]
  /\ now = [c \in Calls |-> "early"]
  /\ event = [c \in Calls |-> NoEvent] /\ sendTo = [c \in Calls |-> {}]

-----------------------------------------------------------------------------
(* Items and time. *)

CreateItem(i) ==
  /\ status[i] = "absent"
  /\ status' = [status EXCEPT ![i] = "active"]
  /\ UNCHANGED <<window, bookVars, watchVars, log, callVars>>

TimePasses(i) ==
  /\ window[i] # "late"
  /\ window' = [window EXCEPT ![i] = IF @ = "early" THEN "open" ELSE "late"]
  /\ UNCHANGED <<status, bookVars, watchVars, log, callVars>>

-----------------------------------------------------------------------------
(* A call: take the item's mutex and read the time, validate, change the   *)
(* books, snapshot the watchers, send, return.                             *)

Goto(c, where) == pc' = [pc EXCEPT ![c] = where]

\* The deferred Unlock, on every way out.
Return(c) ==
  /\ Goto(c, "idle")
  /\ lock' = [lock EXCEPT ![req[c].item] = "free"]
  /\ req' = [req EXCEPT ![c] = NoRequest]
  /\ now' = [now EXCEPT ![c] = "early"] /\ event' = [event EXCEPT ![c] = NoEvent]

Call(c) ==
  /\ pc[c] = "idle"
  /\ \E i \in Items : req' = [req EXCEPT ![c] = [op |-> "none", item |-> i]]
  /\ Goto(c, "lock")
  /\ UNCHANGED <<window, status, bookVars, watchVars, log, lock, now, event, sendTo>>

\* The rest of the request, which matters from now on.
Admit(c) ==
  /\ \E r \in {q \in Requests : q.item = req[c].item} :
       /\ r.op = "place" =>
            Len(bids) + Cardinality({d \in Calls : req[d].op = "place" /\ event[d] = NoEvent}) < MaxBids
       /\ req' = [req EXCEPT ![c] = r]
       /\ Goto(c, IF r.op = "end" THEN "change" ELSE "validate")
  /\ now' = [now EXCEPT ![c] = IF req'[c].op = "place" THEN window[req[c].item] ELSE @]

\* Broken variant: the item's mutex is not taken by a retraction.
LockItem_NotForRetract(c) ==
  /\ pc[c] = "lock"
  /\ Admit(c)
  /\ IF req'[c].op = "retract" THEN UNCHANGED lock
     ELSE lock[req[c].item] = "free" /\ lock' = [lock EXCEPT ![req[c].item] = c]
  /\ UNCHANGED <<window, status, bookVars, watchVars, log, event, sendTo>>

LockItem(c) ==
  /\ pc[c] = "lock" /\ lock[req[c].item] = "free"
  /\ Admit(c)
  /\ lock' = [lock EXCEPT ![req[c].item] = c]
  /\ UNCHANGED <<window, status, bookVars, watchVars, log, event, sendTo>>

\* What a new bid on i must exceed.
Price(i) == IF current[i] = None THEN StartPrice[i] ELSE bids[current[i]].amount

ValidBid(c) ==
  LET r == req[c] IN
  /\ status[r.item] = "active" /\ now[c] = "open"
  /\ Seller[r.item] # r.user /\ Balance[r.user] >= r.amount
  /\ r.amount > Price(r.item)

\* A retraction is not bound to the bidding window.
StillActive(c) == status[req[c].item] = "active"

Validate(c) ==
  /\ pc[c] = "validate"
  /\ IF (IF req[c].op = "place" THEN ValidBid(c) ELSE StillActive(c))
     THEN Goto(c, "change") /\ now' = [now EXCEPT ![c] = "early"] /\ UNCHANGED <<lock, req, event>>
     ELSE Return(c)
  /\ UNCHANGED <<window, status, bookVars, watchVars, log, sendTo>>

\* What c publishes, and what happened to its item.
Announce(c, bid, action) ==
  /\ event' = [event EXCEPT ![c] = [bid |-> bid, action |-> action]]
  /\ log' = [log EXCEPT ![req[c].item] = Append(@, event'[c])]
  /\ Goto(c, "snapshot")

EnterBid(c) ==
  LET r == req[c]
      id == Len(bids) + 1
  IN
  /\ pc[c] = "change" /\ r.op = "place"
  /\ bids' = Append(bids, [user |-> r.user, item |-> r.item, amount |-> r.amount,
                           retracted |-> FALSE])
  /\ heap' = [heap EXCEPT ![r.item] = @ \cup {id}]
  /\ history' = [history EXCEPT ![r.item] = Append(@, id)]
  /\ stack' = [stack EXCEPT ![r.user][r.item] = Append(@, id)]
  /\ active' = [active EXCEPT ![r.user] = Append(@, id)]
  /\ current' = [current EXCEPT ![r.item] = id]
  /\ Announce(c, id, "placed")
  /\ UNCHANGED <<window, status, watchVars, lock, req, now, sendTo>>

\* The bids of i's heap that stand, given the bids b.
Standing(i, b) == {x \in heap[i] : ~b[x].retracted}

\* The loop over the heap's top, after which b holds: retracted bids above the
\* highest standing one are popped, and that one is the current bid.  (A bid enters
\* above every standing one, so amounts in a heap are distinct.)
Settle(i, b) ==
  LET Below(x) == {y \in heap[i] : b[y].amount <= b[x].amount} IN
  IF Standing(i, b) = {}
  THEN heap' = [heap EXCEPT ![i] = {}] /\ current' = [current EXCEPT ![i] = None]
  ELSE \E top \in Standing(i, b) :
         /\ Standing(i, b) \subseteq Below(top)
         /\ heap' = [heap EXCEPT ![i] = Below(top)] /\ current' = [current EXCEPT ![i] = top]

\* The last occurrence goes.
removeBidID(list, target) ==
  LET places == {k \in DOMAIN list : list[k] = target}
  IN  IF places = {} THEN list ELSE RemoveAt(list, Max(places))

\* Broken variant: the current bid is recomputed only by EndAuction.
RetractBid_KeepsCurrent(c) ==
  LET r == req[c]
      id == Last(stack[r.user][r.item])
  IN
  /\ pc[c] = "change" /\ r.op = "retract" /\ stack[r.user][r.item] # <<>>
  /\ stack' = [stack EXCEPT ![r.user][r.item] = Front(@)]
  /\ bids' = [bids EXCEPT ![id].retracted = TRUE]
  /\ active' = [active EXCEPT ![r.user] = removeBidID(@, id)]
  /\ Announce(c, id, "retracted")
  /\ UNCHANGED <<window, status, heap, current, history, watchVars, lock, req, now, sendTo>>

\* The bid popped is the user's own, on this item and standing (see BooksAgree), so
\* the code's checks of that never fail.
RetractBid(c) ==
  LET r == req[c]
      id == Last(stack[r.user][r.item])
  IN
  /\ pc[c] = "change" /\ r.op = "retract" /\ stack[r.user][r.item] # <<>>
  /\ stack' = [stack EXCEPT ![r.user][r.item] = Front(@)]
  /\ bids' = [bids EXCEPT ![id].retracted = TRUE]
  /\ active' = [active EXCEPT ![r.user] = removeBidID(@, id)]
  /\ Settle(r.item, bids')
  /\ Announce(c, id, "retracted")
  /\ UNCHANGED <<window, status, history, watchVars, lock, req, now, sendTo>>

NothingToRetract(c) ==
  /\ pc[c] = "change" /\ req[c].op = "retract" /\ stack[req[c].user][req[c].item] = <<>>
  /\ Return(c)
  /\ UNCHANGED <<window, status, bookVars, watchVars, log, sendTo>>

EndAuction(c) ==
  LET i == req[c].item IN
  /\ pc[c] = "change" /\ req[c].op = "end"
  /\ IF status[i] # "active"
     THEN Return(c) /\ UNCHANGED <<status, heap, current, log>>
     ELSE /\ status' = [status EXCEPT ![i] = "ended"]
          /\ Settle(i, bids)
          /\ Announce(c, current'[i], "ended")
          /\ UNCHANGED <<lock, req, now>>
  /\ UNCHANGED <<window, bids, history, stack, active, watchVars, sendTo>>

\* Broken variant: the mutex is released before the event is sent.
Snapshot_Unlocks(c) ==
  /\ pc[c] = "snapshot"
  /\ sendTo' = [sendTo EXCEPT ![c] = watchers[req[c].item]]
  /\ lock' = [lock EXCEPT ![req[c].item] = "free"]
  /\ Goto(c, "send")
  /\ UNCHANGED <<window, status, bookVars, watchVars, log, req, now, event>>

Snapshot(c) ==
  /\ pc[c] = "snapshot"
  /\ sendTo' = [sendTo EXCEPT ![c] = watchers[req[c].item]]
  /\ Goto(c, "send")
  /\ UNCHANGED <<window, status, bookVars, watchVars, log, lock, req, now, event>>

\* Broken variant: the send blocks while the channel is full.
Send_Blocks(c, w) ==
  /\ pc[c] = "send" /\ w \in sendTo[c] /\ Len(chan[w]) < ChanSize
  /\ sendTo' = [sendTo EXCEPT ![c] = @ \ {w}]
  /\ chan' = [chan EXCEPT ![w] = Append(@, event[c])]
  /\ UNCHANGED <<window, status, bookVars, watchers, reader, got, joined, dropped, log, lock, pc,
                 req, now, event>>

\* A select with a default: a full channel drops the event.
Send(c, w) ==
  /\ pc[c] = "send" /\ w \in sendTo[c]
  /\ sendTo' = [sendTo EXCEPT ![c] = @ \ {w}]
  /\ IF reader[w] = "gone" THEN UNCHANGED <<chan, dropped>>
     ELSE IF Len(chan[w]) < ChanSize
     THEN chan' = [chan EXCEPT ![w] = Append(@, event[c])] /\ UNCHANGED dropped
     ELSE dropped' = [dropped EXCEPT ![w] = TRUE] /\ UNCHANGED chan
  /\ UNCHANGED <<window, status, bookVars, watchers, reader, got, joined, log, lock, pc, req, now,
                 event>>

Finish(c) ==
  /\ pc[c] = "send" /\ sendTo[c] = {}
  /\ Return(c)
  /\ UNCHANGED <<window, status, bookVars, watchVars, log, sendTo>>

Serve(c) ==
  \/ LockItem(c) \/ Validate(c)
  \/ EnterBid(c) \/ RetractBid(c) \/ NothingToRetract(c) \/ EndAuction(c)
  \/ Snapshot(c) \/ (\E w \in Watchers : Send(c, w)) \/ Finish(c)

-----------------------------------------------------------------------------
(* Watchers: the handler of GET /items/{id}/live. *)

\* SubscribeItem: an item that exists never goes away, so its check and
\* addWatcher are one step.
Subscribe(w) ==
  LET i == ItemOf[w] IN
  /\ reader[w] = "new" /\ status[i] # "absent"
  /\ reader' = [reader EXCEPT ![w] = "in"]
  /\ watchers' = [watchers EXCEPT ![i] = @ \cup {w}]
  /\ joined' = [joined EXCEPT ![w] = Len(log[i])]
  /\ UNCHANGED <<window, status, bookVars, chan, got, dropped, log, callVars>>

Receive(w) ==
  /\ reader[w] = "in" /\ chan[w] # <<>>
  /\ got' = [got EXCEPT ![w] = Append(@, Head(chan[w]))]
  /\ chan' = [chan EXCEPT ![w] = Tail(@)]
  /\ UNCHANGED <<window, status, bookVars, watchers, reader, joined, dropped, log, callVars>>

\* The client goes away: UnsubscribeItem.  A snapshot may still name the channel,
\* which nobody reads any more.
Unsubscribe(w) ==
  /\ reader[w] = "in"
  /\ reader' = [reader EXCEPT ![w] = "gone"]
  /\ watchers' = [watchers EXCEPT ![ItemOf[w]] = @ \ {w}]
  /\ chan' = [chan EXCEPT ![w] = <<>>] /\ got' = [got EXCEPT ![w] = <<>>]
  /\ joined' = [joined EXCEPT ![w] = 0] /\ dropped' = [dropped EXCEPT ![w] = FALSE]
  /\ UNCHANGED <<window, status, bookVars, log, callVars>>

Next ==
  \/ \E i \in Items : CreateItem(i) \/ TimePasses(i)
  \/ \E c \in Calls : Call(c) \/ Serve(c)
  \/ \E w \in Watchers : Subscribe(w) \/ Receive(w) \/ Unsubscribe(w)

Spec == Init /\ [][Next]_vars

-----------------------------------------------------------------------------
(* Properties *)

Bid == [user : Users, item : Items, amount : Nat, retracted : BOOLEAN]
Event == [bid : Nat, action : {"none", "placed", "retracted", "ended"}]

TypeOK ==
  /\ window \in [Items -> {"early", "open", "late"}]
  /\ status \in [Items -> {"absent", "active", "ended"}]
  /\ bids \in Seq(Bid) /\ current \in [Items -> 0..Len(bids)]
  /\ heap \in [Items -> SUBSET (1..Len(bids))] /\ history \in [Items -> Seq(1..Len(bids))]
  /\ stack \in [Users -> [Items -> Seq(Nat)]] /\ active \in [Users -> Seq(Nat)]
  /\ log \in [Items -> Seq(Event)] /\ watchers \in [Items -> SUBSET Watchers]
  /\ reader \in [Watchers -> {"new", "in", "gone"}]
  /\ chan \in [Watchers -> Seq(Event)] /\ got \in [Watchers -> Seq(Event)]
  /\ joined \in [Watchers -> Nat] /\ dropped \in [Watchers -> BOOLEAN]
  /\ lock \in [Items -> Calls \cup {"free"}]
  /\ pc \in [Calls -> {"idle", "lock", "validate", "change", "snapshot", "send"}]
  /\ req \in [Calls -> Requests \cup {NoRequest} \cup [op : {"none"}, item : Items]]
  /\ now \in [Calls -> {"early", "open", "late"}]
  /\ event \in [Calls -> Event] /\ sendTo \in [Calls -> SUBSET Watchers]

Ids == 1..Len(bids)
Increasing(s) == \A j, k \in DOMAIN s : j < k => s[j] < s[k]
BidsOn(i) == {x \in Ids : bids[x].item = i /\ ~bids[x].retracted}

\* The books agree with the bids. At every moment the current bid of an item, and in
\* the end its winner, is the highest bid entered on it that has not been retracted,
\* although retracted bids leave the heap lazily. A user's stack for an item holds his
\* standing bids on it in the order he made them, ActiveBids all his standing
\* bids, the heap every standing bid of its item, and the history every bid.
BooksAgree ==
  /\ \A i \in Items :
       IF BidsOn(i) = {} THEN current[i] = None
       ELSE /\ current[i] \in BidsOn(i)
            /\ \A x \in BidsOn(i) : bids[x].amount <= bids[current[i]].amount
  /\ \A u \in Users :
       /\ ToSet(active[u]) = {x \in Ids : bids[x].user = u /\ ~bids[x].retracted}
       /\ \A i \in Items :
            /\ ToSet(stack[u][i]) = {x \in BidsOn(i) : bids[x].user = u}
            /\ Increasing(stack[u][i])
  /\ \A i \in Items :
       /\ BidsOn(i) \subseteq heap[i]
       /\ ToSet(history[i]) = {x \in Ids : bids[x].item = i}

\* A bid enters only above the price of that very moment, although the price was
\* compared in an earlier critical section; and once an item has ended nothing
\* about it changes any more.
PricesRiseUntilEnd ==
  [][\A i \in Items :
       /\ Len(history'[i]) > Len(history[i]) =>
            bids'[Last(history'[i])].amount > Price(i)
       /\ status[i] = "ended" =>
            /\ status'[i] = "ended" /\ current'[i] = current[i] /\ log'[i] = log[i]
    ]_vars

Position(e, s) == CHOOSE k \in DOMAIN s : s[k] = e
Delivered(w) == got[w] \o chan[w]

\* A watcher is sent what happened to its item in the order it happened, nothing
\* twice; and while its channel has never been full, everything since it joined,
\* up to the event of the call that is publishing.
WatchersInOrder ==
  \A w \in Watchers :
    LET d == Delivered(w)
        i == ItemOf[w]
    IN  /\ ToSet(d) \subseteq ToSet(log[i])
        /\ \A j, k \in DOMAIN d : j < k => Position(d[j], log[i]) < Position(d[k], log[i])
        /\ reader[w] = "in" /\ ~dropped[w] /\ lock[i] = "free" =>
             ToSet(SubSeq(log[i], joined[w] + 1, Len(log[i]))) \subseteq ToSet(d)

\* The call that holds an item's mutex can always go on: a watcher that does not
\* read its channel, or has gone, never keeps bids on the item waiting.
BiddingNeverBlocks == \A i \in Items : lock[i] # "free" => ENABLED Serve(lock[i])
=============================================================================
