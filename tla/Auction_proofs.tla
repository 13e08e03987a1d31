--------------------------- MODULE Auction_proofs ---------------------------
(***************************************************************************)
(* For any users, items, requests, calls and watchers: the books of the    *)
(* auction agree with the bids, and prices rise until the end.             *)
(***************************************************************************)
EXTENDS Auction, SequenceTheorems, TLAPS

\* Between LockItem and Return.
Inside(c) == pc[c] \in {"validate", "change", "snapshot", "send"}

\* What a call knows of its item: it alone is inside, so what it validated still holds.
HeldBy(c) ==
  /\ pc[c] = "idle" => req[c] = NoRequest
  /\ pc[c] = "lock" => req[c] \in [op : {"none"}, item : Items]
  /\ Inside(c) => req[c] \in Requests /\ lock[req[c].item] = c
  /\ pc[c] = "validate" => req[c].op # "end"
  /\ pc[c] = "change" /\ req[c].op # "end" => status[req[c].item] = "active"
  /\ pc[c] = "change" /\ req[c].op = "place" => req[c].amount > Price(req[c].item)

Held == \A c \in Calls : HeldBy(c)

\* Bids only enter the heap of their item, and active bids are in the order they were made.
Books ==
  /\ BooksAgree
  /\ \A i \in Items : \A x \in heap[i] : bids[x].item = i
  /\ \A u \in Users : Increasing(active[u])

-----------------------------------------------------------------------------
(* Lists of bids. *)

LEMMA AppendFacts ==
  ASSUME NEW list \in Seq(Nat), NEW x \in Nat
  PROVE  /\ Append(list, x) \in Seq(Nat)
         /\ ToSet(Append(list, x)) = ToSet(list) \cup {x}
         /\ Increasing(list) /\ (\A y \in ToSet(list) : y < x) => Increasing(Append(list, x))
<1> DEFINE new == Append(list, x)
           n == Len(list)
<1>1. /\ n \in Nat /\ DOMAIN list = 1..n /\ new \in Seq(Nat) /\ Len(new) = n + 1
      /\ DOMAIN new = 1..(n + 1) /\ new[n + 1] = x /\ \A k \in 1..n : new[k] = list[k]
  OBVIOUS
<1>2. ToSet(new) = ToSet(list) \cup {x}
  BY <1>1 DEF ToSet
<1>3. ASSUME Increasing(list), \A y \in ToSet(list) : y < x PROVE Increasing(new)
  <2>1. ASSUME NEW j \in 1..(n + 1), NEW k \in 1..(n + 1), j < k PROVE new[j] < new[k]
    <3>1. j \in 1..n
      BY <1>1, <2>1
    <3>2. CASE k \in 1..n
      BY <1>1, <1>3, <2>1, <3>1, <3>2 DEF Increasing
    <3>3. CASE k = n + 1
      <4>1. list[j] \in ToSet(list)
        BY <1>1, <3>1 DEF ToSet
      <4> QED BY <1>1, <1>3, <3>1, <3>3, <4>1
    <3> QED BY <1>1, <3>2, <3>3
  <2> QED BY <1>1, <2>1 DEF Increasing
<1> QED BY <1>1, <1>2, <1>3

\* Without its k-th element: the elements before it, and those after it one place down.
LEMMA RemoveAtFacts ==
  ASSUME NEW list \in Seq(Nat), NEW k \in 1..Len(list), Increasing(list)
  PROVE  /\ RemoveAt(list, k) \in Seq(Nat)
         /\ ToSet(RemoveAt(list, k)) = ToSet(list) \ {list[k]}
         /\ Increasing(RemoveAt(list, k))
<1> DEFINE n == Len(list)
           a == SubSeq(list, 1, k - 1)
           b == SubSeq(list, k + 1, n)
           new == RemoveAt(list, k)
           from(j) == IF j < k THEN j ELSE j + 1
<1>1. n \in Nat /\ DOMAIN list = 1..n /\ \A j \in 1..n : list[j] \in Nat
  OBVIOUS
<1>2. a \in Seq(Nat) /\ Len(a) = k - 1 /\ \A j \in 1..(k - 1) : a[j] = list[j]
  BY <1>1, SubSeqProperties
<1>3. b \in Seq(Nat) /\ Len(b) = n - k /\ \A j \in 1..(n - k) : b[j] = list[k + j]
  <2>1. k + 1 \in Int /\ n \in Int /\ \A j \in (k + 1)..n : list[j] \in Nat
    BY <1>1
  <2>2. /\ b \in Seq(Nat) /\ Len(b) = IF k + 1 <= n THEN n - (k + 1) + 1 ELSE 0
        /\ \A j \in 1..(n - (k + 1) + 1) : b[j] = list[(k + 1) + j - 1]
    BY <2>1, SubSeqProperties
  <2>3. \A j \in 1..(n - k) : (k + 1) + j - 1 = k + j
    BY <1>1
  <2>4. /\ n - (k + 1) + 1 = n - k
        /\ k + 1 <= n \/ (~(k + 1 <= n) /\ n - k = 0)
    <3>1. n \in Int /\ k \in Int /\ k <= n
      BY <1>1
    <3> HIDE DEF n
    <3> QED BY <3>1
  <2> QED BY <2>2, <2>3, <2>4
<1>4. /\ new \in Seq(Nat) /\ Len(new) = n - 1
      /\ \A j \in 1..(n - 1) : new[j] = list[from(j)]
  <2>0. new = a \o b
    BY DEF RemoveAt
  <2> HIDE DEF a, b, new
  <2>1. /\ new \in Seq(Nat) /\ Len(new) = Len(a) + Len(b)
        /\ \A j \in 1..(Len(a) + Len(b)) : new[j] = IF j <= Len(a) THEN a[j] ELSE b[j - Len(a)]
    BY <1>2, <1>3, <2>0, ConcatProperties
  <2>2. Len(a) + Len(b) = n - 1
    BY <1>1, <1>2, <1>3
  <2>3. ASSUME NEW j \in 1..(n - 1) PROVE new[j] = list[from(j)]
    <3>1. new[j] = IF j <= k - 1 THEN a[j] ELSE b[j - (k - 1)]
      BY <1>2, <2>1, <2>2
    <3>2. CASE j < k
      <4>1. j \in 1..(k - 1) /\ j <= k - 1
        BY <1>1, <3>2
      <4> QED BY <1>2, <3>1, <3>2, <4>1
    <3>3. CASE ~(j < k)
      <4>1. /\ ~(j <= k - 1) /\ j - (k - 1) \in 1..(n - k)
            /\ k + (j - (k - 1)) = j + 1
        BY <1>1, <3>3
      <4> QED BY <1>3, <3>1, <3>3, <4>1
    <3> QED BY <3>2, <3>3
  <2> QED BY <2>1, <2>2, <2>3
<1> HIDE DEF new
<1>5. DOMAIN new = 1..(n - 1)
  BY <1>1, <1>4
<1>6. \A i, j \in 1..n : i # j => list[i] # list[j]
  BY <1>1 DEF Increasing
<1>7. ToSet(new) = ToSet(list) \ {list[k]}
  <2>1. ASSUME NEW j \in 1..(n - 1) PROVE new[j] \in ToSet(list) \ {list[k]}
    <3>1. from(j) \in 1..n /\ from(j) # k
      BY <1>1
    <3> QED BY <1>1, <1>4, <1>6, <3>1 DEF ToSet
  <2>2. ASSUME NEW x \in ToSet(list) \ {list[k]} PROVE x \in ToSet(new)
    <3>1. PICK i \in 1..n : x = list[i] /\ i # k
      BY <1>1 DEF ToSet
    <3>2. PICK j \in 1..(n - 1) : from(j) = i
      <4>1. CASE i < k
        BY <1>1, <3>1, <4>1
      <4>2. CASE i > k
        <5>1. i - 1 \in 1..(n - 1) /\ from(i - 1) = i
          BY <1>1, <3>1, <4>2
        <5> QED BY <5>1
      <4> QED BY <1>1, <3>1, <4>1, <4>2
    <3> QED BY <1>4, <1>5, <3>1, <3>2 DEF ToSet
  <2>3. ASSUME NEW x \in ToSet(new) PROVE \E j \in 1..(n - 1) : x = new[j]
    BY <1>5 DEF ToSet
  <2> QED BY <2>1, <2>2, <2>3
<1>8. Increasing(new)
  <2>1. ASSUME NEW i \in 1..(n - 1), NEW j \in 1..(n - 1), i < j PROVE new[i] < new[j]
    <3>1. from(i) \in 1..n /\ from(j) \in 1..n /\ from(i) < from(j)
      BY <1>1, <2>1
    <3> QED BY <1>1, <1>4, <3>1 DEF Increasing
  <2> QED BY <1>5, <2>1 DEF Increasing
<1> QED BY <1>4, <1>7, <1>8 DEF new

\* removeBidID removes the bid, and leaves the others in their order.
LEMMA RemoveBidFacts ==
  ASSUME NEW list \in Seq(Nat), NEW target \in Nat, Increasing(list)
  PROVE  /\ removeBidID(list, target) \in Seq(Nat)
         /\ ToSet(removeBidID(list, target)) = ToSet(list) \ {target}
         /\ Increasing(removeBidID(list, target))
<1> DEFINE places == {k \in DOMAIN list : list[k] = target}
<1>1. DOMAIN list = 1..Len(list) /\ Len(list) \in Nat /\ \A k \in 1..Len(list) : list[k] \in Nat
  OBVIOUS
<1>2. CASE places = {}
  BY <1>2 DEF removeBidID, ToSet
<1>3. CASE places # {}
  <2>1. PICK k \in 1..Len(list) : list[k] = target
    BY <1>1, <1>3
  <2>2. \A j \in 1..Len(list) : list[j] = target => j = k
    BY <1>1, <2>1 DEF Increasing
  <2>3. places = {k}
    BY <1>1, <2>1, <2>2
  <2>4. Max(places) = k
    BY <2>3 DEF Max
  <2>5. removeBidID(list, target) = RemoveAt(list, k)
    BY <1>3, <2>4 DEF removeBidID
  <2> QED BY <2>1, <2>5, RemoveAtFacts
<1> QED BY <1>2, <1>3

\* A stack's last bid is popped.
LEMMA PopFacts ==
  ASSUME NEW list \in Seq(Nat), list # <<>>, Increasing(list)
  PROVE  /\ Last(list) \in ToSet(list) /\ Front(list) \in Seq(Nat)
         /\ ToSet(Front(list)) = ToSet(list) \ {Last(list)} /\ Increasing(Front(list))
<1> DEFINE n == Len(list)
           new == Front(list)
<1>1. n \in Nat \ {0} /\ DOMAIN list = 1..n /\ \A k \in 1..n : list[k] \in Nat
  OBVIOUS
<1>2. /\ new \in Seq(Nat) /\ DOMAIN new = 1..(n - 1) /\ \A j \in 1..(n - 1) : new[j] = list[j]
  BY <1>1, SubSeqProperties DEF Front
<1>3. Last(list) = list[n]
  BY DEF Last
<1>4. \A j \in 1..(n - 1) : list[j] # list[n]
  BY <1>1 DEF Increasing
<1> HIDE DEF n, new
<1>0. n \in Nat \ {0} /\ DOMAIN list = 1..n
  BY <1>1
<1>5. ToSet(new) = ToSet(list) \ {list[n]}
  <2>1. \A j \in 1..n : j # n => j \in 1..(n - 1)
    BY <1>0
  <2>2. \A j \in 1..(n - 1) : j \in 1..n
    BY <1>0
  <2>3. ToSet(list) = {list[j] : j \in 1..n} /\ ToSet(new) = {new[j] : j \in 1..(n - 1)}
    BY <1>0, <1>2 DEF ToSet
  <2> QED BY <1>2, <1>4, <2>1, <2>2, <2>3
<1>6. Increasing(new)
  <2>1. \A j \in 1..(n - 1) : j \in 1..n
    BY <1>0
  <2> QED BY <1>0, <1>2, <2>1 DEF Increasing
<1>7. list[n] \in ToSet(list)
  BY <1>0 DEF ToSet
<1> QED BY <1>2, <1>3, <1>5, <1>6, <1>7 DEF n, new

-----------------------------------------------------------------------------
(* The books: a bid entered, a bid retracted, the top recomputed. *)

\* The loop over the heap's top finds the highest standing bid, and keeps every standing one.
LEMMA SettleFacts ==
  ASSUME TypeOK, NEW i \in Items, NEW b, Settle(i, b)
  PROVE  /\ heap' = [heap EXCEPT ![i] = heap'[i]] /\ current' = [current EXCEPT ![i] = current'[i]]
         /\ heap'[i] \subseteq heap[i] /\ Standing(i, b) \subseteq heap'[i]
         /\ Standing(i, b) = {} => current'[i] = None
         /\ Standing(i, b) # {} =>
              /\ current'[i] \in Standing(i, b)
              /\ \A x \in Standing(i, b) : b[x].amount <= b[current'[i]].amount
<1>1. heap \in [Items -> SUBSET (1..Len(bids))] /\ current \in [Items -> 0..Len(bids)]
  BY DEF TypeOK
<1> DEFINE Below(x) == {y \in heap[i] : b[y].amount <= b[x].amount}
<1>2. CASE Standing(i, b) = {}
  BY <1>1, <1>2 DEF Settle
<1>3. CASE Standing(i, b) # {}
  <2>1. PICK top \in Standing(i, b) :
          /\ Standing(i, b) \subseteq Below(top)
          /\ heap' = [heap EXCEPT ![i] = Below(top)] /\ current' = [current EXCEPT ![i] = top]
    BY <1>3 DEF Settle
  <2>2. heap'[i] = Below(top) /\ current'[i] = top
    BY <1>1, <2>1
  <2> QED BY <1>3, <2>1, <2>2
<1> QED BY <1>2, <1>3

\* What EnterBid writes.
LEMMA EnterFacts ==
  ASSUME TypeOK, Held, Books, NEW c \in Calls, EnterBid(c)
  PROVE  LET u  == req[c].user
             i  == req[c].item
             id == Len(bids) + 1
         IN  /\ u \in Users /\ i \in Items /\ req[c].amount \in Nat
             /\ id \in Nat /\ Ids = 1..Len(bids) /\ Ids' = Ids \cup {id} /\ id \notin Ids
             /\ Len(bids') = id /\ bids' \in Seq(Bid)
             /\ \A x \in Ids : bids'[x] = bids[x]
             /\ bids'[id].user = u /\ bids'[id].item = i /\ bids'[id].amount = req[c].amount
             /\ ~bids'[id].retracted
             /\ heap' = [heap EXCEPT ![i] = @ \cup {id}]
             /\ history' = [history EXCEPT ![i] = Append(@, id)]
             /\ stack' = [stack EXCEPT ![u][i] = Append(@, id)]
             /\ active' = [active EXCEPT ![u] = Append(@, id)]
             /\ current' = [current EXCEPT ![i] = id]
             /\ status[i] = "active" /\ req[c].amount > Price(i) /\ lock[i] = c
<1> DEFINE u  == req[c].user
           i  == req[c].item
           id == Len(bids) + 1
           no == FALSE
           bid == [user |-> u, item |-> i, amount |-> req[c].amount, retracted |-> no]
<1>1. HeldBy(c) /\ pc[c] = "change" /\ req[c].op = "place"
  BY DEF Held, EnterBid
<1>2. /\ req[c] \in Requests /\ lock[i] = c /\ status[i] = "active" /\ req[c].amount > Price(i)
  BY <1>1 DEF HeldBy, Inside
<1>3. req[c] \in Request
  BY <1>2, AuctionConstants
<1>4. u \in Users /\ i \in Items /\ req[c].amount \in Nat
  BY <1>1, <1>3 DEF Request
<1>5. bids \in Seq(Bid) /\ Len(bids) \in Nat
  BY DEF TypeOK
<1>6. bid \in Bid /\ bid.user = u /\ bid.item = i /\ bid.amount = req[c].amount /\ ~bid.retracted
  <2>1. no \in BOOLEAN
    OBVIOUS
  <2>2. ~bid.retracted
    OBVIOUS
  <2> HIDE DEF no
  <2> QED BY <1>4, <2>1, <2>2 DEF Bid
<1>7. bids' = Append(bids, bid)
  BY DEF EnterBid
<1> HIDE DEF bid
<1>8. /\ Len(bids') = id /\ bids' \in Seq(Bid) /\ bids'[id] = bid
      /\ \A x \in 1..Len(bids) : bids'[x] = bids[x]
  BY <1>5, <1>6, <1>7
<1>9. Ids = 1..Len(bids) /\ Ids' = Ids \cup {id} /\ id \notin Ids /\ id \in Nat
  BY <1>5, <1>8 DEF Ids
<1> QED BY <1>2, <1>4, <1>6, <1>8, <1>9 DEF EnterBid

\* What RetractBid writes: the bid popped stands, and is the user's own on this item.
LEMMA RetractFacts ==
  ASSUME TypeOK, Held, Books, NEW c \in Calls, RetractBid(c)
  PROVE  LET u  == req[c].user
             i  == req[c].item
             id == Last(stack[u][i])
         IN  /\ u \in Users /\ i \in Items /\ stack[u][i] # <<>>
             /\ id \in BidsOn(i) /\ bids[id].user = u /\ id \in Ids
             /\ Ids = 1..Len(bids) /\ Len(bids) \in Nat /\ Ids' = Ids
             /\ Len(bids') = Len(bids) /\ bids' \in Seq(Bid)
             /\ \A x \in Ids : /\ bids'[x].user = bids[x].user /\ bids'[x].item = bids[x].item
                               /\ bids'[x].amount = bids[x].amount
                               /\ x # id => bids'[x] = bids[x]
             /\ bids'[id].retracted
             /\ stack' = [stack EXCEPT ![u][i] = Front(@)]
             /\ active' = [active EXCEPT ![u] = removeBidID(@, id)]
             /\ Settle(i, bids') /\ UNCHANGED history
             /\ status[i] = "active" /\ lock[i] = c
<1> DEFINE u  == req[c].user
           i  == req[c].item
           id == Last(stack[u][i])
<1>1. HeldBy(c) /\ pc[c] = "change" /\ req[c].op = "retract"
  BY DEF Held, RetractBid
<1>2. /\ req[c] \in Requests /\ lock[i] = c /\ status[i] = "active"
  BY <1>1 DEF HeldBy, Inside
<1>3. req[c] \in Request
  BY <1>2, AuctionConstants
<1>4. u \in Users /\ i \in Items
  BY <1>1, <1>3 DEF Request
<1>5. stack[u][i] # <<>>
  BY DEF RetractBid
<1>6. stack[u][i] \in Seq(Nat) /\ Increasing(stack[u][i])
      /\ ToSet(stack[u][i]) = {x \in BidsOn(i) : bids[x].user = u}
  BY <1>4 DEF TypeOK, Books, BooksAgree
<1>7. id \in ToSet(stack[u][i])
  BY <1>5, <1>6, PopFacts
<1>8. id \in BidsOn(i) /\ bids[id].user = u /\ id \in Ids
  BY <1>6, <1>7 DEF BidsOn
<1>9. bids \in Seq(Bid) /\ Len(bids) \in Nat /\ Ids = 1..Len(bids)
  BY DEF TypeOK, Ids
<1>10. bids' = [bids EXCEPT ![id].retracted = TRUE]
  BY DEF RetractBid
<1> HIDE DEF u, i, id
<1>11. /\ bids' \in Seq(Bid) /\ Len(bids') = Len(bids)
       /\ \A x \in Ids : /\ bids'[x].user = bids[x].user /\ bids'[x].item = bids[x].item
                         /\ bids'[x].amount = bids[x].amount
                         /\ x # id => bids'[x] = bids[x]
  <2> DEFINE on == TRUE
             bid == [bids[id] EXCEPT !.retracted = on]
  <2>1. on \in BOOLEAN /\ bids[id] \in Bid
    BY <1>8, <1>9
  <2>2. bids' = [bids EXCEPT ![id] = bid]
    BY <1>8, <1>9, <1>10
  <2> HIDE DEF on
  <2>3. /\ bid \in Bid /\ bid.user = bids[id].user /\ bid.item = bids[id].item
        /\ bid.amount = bids[id].amount
    BY <2>1 DEF Bid
  <2> HIDE DEF bid
  <2>4. bids' \in Seq(Bid) /\ Len(bids') = Len(bids)
    BY <1>8, <1>9, <2>2, <2>3
  <2> QED BY <1>8, <1>9, <2>2, <2>3, <2>4
<1>12. bids'[id].retracted
  BY <1>8, <1>9, <1>10 DEF Bid
<1>13. Ids' = Ids
  BY <1>11 DEF Ids
<1> QED
  BY <1>2, <1>4, <1>5, <1>8, <1>9, <1>11, <1>12, <1>13 DEF RetractBid, u, i, id

\* A new bid is above every bid that stands on its item.
LEMMA BooksAfterBid ==
  ASSUME TypeOK, Held, Books, NEW c \in Calls, EnterBid(c)
  PROVE  Books'
<1> DEFINE u  == req[c].user
           i  == req[c].item
           id == Len(bids) + 1
<1>1. /\ u \in Users /\ i \in Items /\ req[c].amount \in Nat
      /\ id \in Nat /\ Ids = 1..Len(bids) /\ Ids' = Ids \cup {id} /\ id \notin Ids
      /\ \A x \in Ids : bids'[x] = bids[x]
      /\ bids'[id].user = u /\ bids'[id].item = i /\ bids'[id].amount = req[c].amount
      /\ ~bids'[id].retracted
      /\ heap' = [heap EXCEPT ![i] = @ \cup {id}]
      /\ history' = [history EXCEPT ![i] = Append(@, id)]
      /\ stack' = [stack EXCEPT ![u][i] = Append(@, id)]
      /\ active' = [active EXCEPT ![u] = Append(@, id)]
      /\ current' = [current EXCEPT ![i] = id]
      /\ req[c].amount > Price(i)
  BY EnterFacts
<1>2. /\ bids \in Seq(Bid) /\ Len(bids) \in Nat /\ current \in [Items -> 0..Len(bids)]
      /\ heap \in [Items -> SUBSET (1..Len(bids))] /\ history \in [Items -> Seq(1..Len(bids))]
      /\ stack \in [Users -> [Items -> Seq(Nat)]] /\ active \in [Users -> Seq(Nat)]
  BY DEF TypeOK
<1>b. BooksAgree
  BY DEF Books
<1> HIDE DEF u, i, id
<1>3. ASSUME NEW j \in Items
      PROVE  /\ BidsOn(j)' = IF j = i THEN BidsOn(j) \cup {id} ELSE BidsOn(j)
             /\ BidsOn(j) \subseteq Ids
  <2>1. /\ BidsOn(j)' = {x \in Ids \cup {id} : bids'[x].item = j /\ ~bids'[x].retracted}
        /\ BidsOn(j) = {x \in Ids : bids[x].item = j /\ ~bids[x].retracted}
    BY <1>1 DEF BidsOn
  <2>2. \A x \in Ids : /\ bids'[x].item = bids[x].item
                       /\ bids'[x].retracted = bids[x].retracted
    BY <1>1
  <2>3. bids'[id].item = i /\ ~bids'[id].retracted
    BY <1>1
  <2> QED BY <2>1, <2>2, <2>3
<1>4. ASSUME NEW j \in Items
      PROVE  IF BidsOn(j)' = {} THEN current'[j] = None
             ELSE /\ current'[j] \in BidsOn(j)'
                  /\ \A x \in BidsOn(j)' : bids'[x].amount <= bids'[current'[j]].amount
  <2>1. CASE j = i
    <3>1. current'[i] = id
      BY <1>1, <1>2
    <3>2. ASSUME NEW x \in BidsOn(j) PROVE bids'[x].amount <= bids'[id].amount
      <4>1. current[i] \in BidsOn(j) /\ bids[x].amount <= bids[current[i]].amount
        BY <1>b, <2>1 DEF BooksAgree
      <4>2. current[i] \in Ids /\ x \in Ids
        BY <1>3, <4>1
      <4>3. current[i] # None
        BY <1>1, <1>2, <4>2 DEF None
      <4>4. Price(i) = bids[current[i]].amount
        BY <4>3 DEF Price
      <4>5. bids[x].amount \in Nat /\ bids[current[i]].amount \in Nat
        <5>1. bids[x] \in Bid /\ bids[current[i]] \in Bid
          BY <1>1, <1>2, <4>2
        <5> QED BY <5>1 DEF Bid
      <4>6. bids'[x].amount = bids[x].amount /\ bids'[id].amount = req[c].amount
        BY <1>1, <4>2
      <4>7. req[c].amount \in Nat /\ req[c].amount > Price(i)
        BY <1>1
      <4> QED BY <4>1, <4>4, <4>5, <4>6, <4>7
    <3>3. bids'[id].amount <= bids'[id].amount
      BY <1>1
    <3>4. BidsOn(j)' = BidsOn(j) \cup {id}
      BY <1>3, <2>1
    <3> QED BY <2>1, <3>1, <3>2, <3>3, <3>4
  <2>2. CASE j # i
    <3>1. current'[j] = current[j] /\ BidsOn(j)' = BidsOn(j)
      BY <1>1, <1>2, <1>3, <2>2
    <3>2. \A x \in BidsOn(j) : bids'[x] = bids[x]
      BY <1>1, <1>3
    <3> QED BY <1>b, <3>1, <3>2 DEF BooksAgree
  <2> QED BY <2>1, <2>2
<1>5. ASSUME NEW v \in Users
      PROVE  /\ ToSet(active'[v]) = {x \in Ids' : bids'[x].user = v /\ ~bids'[x].retracted}
             /\ Increasing(active'[v])
  <2>1. /\ ToSet(active[v]) = {x \in Ids : bids[x].user = v /\ ~bids[x].retracted}
        /\ Increasing(active[v])
    BY <1>b DEF BooksAgree, Books
  <2>2. CASE v = u
    <3>1. \A y \in ToSet(active[v]) : y < id
      BY <1>1, <1>2, <2>1 DEF id
    <3>2. /\ ToSet(Append(active[v], id)) = ToSet(active[v]) \cup {id}
          /\ Increasing(Append(active[v], id))
      BY <1>1, <1>2, <2>1, <3>1, AppendFacts
    <3>3. active'[v] = Append(active[v], id)
      BY <1>1, <1>2, <2>2
    <3> QED BY <1>1, <2>1, <2>2, <3>2, <3>3
  <2>3. CASE v # u
    <3>1. active'[v] = active[v]
      BY <1>1, <1>2, <2>3
    <3> QED BY <1>1, <2>1, <2>3, <3>1
  <2> QED BY <2>2, <2>3
<1>6. ASSUME NEW v \in Users, NEW j \in Items
      PROVE  /\ ToSet(stack'[v][j]) = {x \in BidsOn(j)' : bids'[x].user = v}
             /\ Increasing(stack'[v][j])
  <2>1. /\ ToSet(stack[v][j]) = {x \in BidsOn(j) : bids[x].user = v}
        /\ Increasing(stack[v][j])
    BY <1>b DEF BooksAgree
  <2>2. CASE v = u /\ j = i
    <3>1. \A y \in ToSet(stack[v][j]) : y < id
      BY <1>1, <1>2, <1>3, <2>1 DEF id
    <3>2. stack[v][j] \in Seq(Nat) /\ id \in Nat
      BY <1>1, <1>2
    <3>3. /\ ToSet(Append(stack[v][j], id)) = ToSet(stack[v][j]) \cup {id}
          /\ Increasing(Append(stack[v][j], id))
      BY <2>1, <3>1, <3>2, AppendFacts
    <3>4. stack'[v][j] = Append(stack[v][j], id)
      <4>1. stack[v] \in [Items -> Seq(Nat)]
        BY <1>2
      <4>2. stack'[v] = [stack[v] EXCEPT ![i] = Append(@, id)]
        BY <1>1, <1>2, <2>2
      <4> QED BY <2>2, <4>1, <4>2
    <3>5. BidsOn(j)' = BidsOn(j) \cup {id} /\ BidsOn(j) \subseteq Ids
      BY <1>3, <2>2
    <3>6. bids'[id].user = v /\ \A x \in BidsOn(j) : bids'[x].user = bids[x].user
      BY <1>1, <2>2, <3>5
    <3> QED BY <2>1, <3>3, <3>4, <3>5, <3>6
  <2>3. CASE ~(v = u /\ j = i)
    <3>1. stack'[v][j] = stack[v][j]
      <4>1. CASE v = u
        <5>1. stack[v] \in [Items -> Seq(Nat)] /\ j # i
          BY <1>2, <2>3, <4>1
        <5>2. stack'[v] = [stack[v] EXCEPT ![i] = Append(@, id)]
          BY <1>1, <1>2, <4>1
        <5> QED BY <5>1, <5>2
      <4>2. CASE v # u
        BY <1>1, <1>2, <4>2
      <4> QED BY <4>1, <4>2
    <3>2. \A x \in BidsOn(j) : bids'[x] = bids[x]
      BY <1>1, <1>3
    <3>3. {x \in BidsOn(j)' : bids'[x].user = v} = {x \in BidsOn(j) : bids[x].user = v}
      <4>1. CASE j = i
        <5>1. bids'[id].user # v /\ BidsOn(j)' = BidsOn(j) \cup {id}
          BY <1>1, <1>3, <2>3, <4>1
        <5> QED BY <3>2, <5>1
      <4>2. CASE j # i
        BY <1>3, <3>2, <4>2
      <4> QED BY <4>1, <4>2
    <3> QED BY <2>1, <3>1, <3>3
  <2> QED BY <2>2, <2>3
<1>7. ASSUME NEW j \in Items
      PROVE  /\ BidsOn(j)' \subseteq heap'[j]
             /\ ToSet(history'[j]) = {x \in Ids' : bids'[x].item = j}
             /\ \A x \in heap'[j] : bids'[x].item = j
  <2>1. /\ BidsOn(j) \subseteq heap[j]
        /\ ToSet(history[j]) = {x \in Ids : bids[x].item = j}
        /\ \A x \in heap[j] : bids[x].item = j
    BY <1>b DEF BooksAgree, Books
  <2>2. heap[j] \subseteq Ids
    BY <1>1, <1>2
  <2>3. CASE j = i
    <3>1. heap'[j] = heap[j] \cup {id} /\ history'[j] = Append(history[j], id)
      BY <1>1, <1>2, <2>3
    <3>2. history[j] \in Seq(Nat)
      <4>1. history[j] \in Seq(1..Len(bids))
        BY <1>2
      <4> QED BY <4>1
    <3>3. ToSet(Append(history[j], id)) = ToSet(history[j]) \cup {id}
      BY <1>1, <3>2, AppendFacts
    <3>4. \A x \in Ids : bids'[x].item = bids[x].item
      BY <1>1
    <3>5. Ids' = Ids \cup {id} /\ bids'[id].item = i
      BY <1>1
    <3>6. BidsOn(j)' = BidsOn(j) \cup {id}
      BY <1>3, <2>3
    <3> QED BY <2>1, <2>2, <2>3, <3>1, <3>3, <3>4, <3>5, <3>6
  <2>4. CASE j # i
    <3>1. heap'[j] = heap[j] /\ history'[j] = history[j]
      BY <1>1, <1>2, <2>4
    <3> QED BY <1>1, <1>3, <2>1, <2>2, <2>4, <3>1
  <2> QED BY <2>3, <2>4
<1>8. BooksAgree'
  BY <1>4, <1>5, <1>6, <1>7 DEF BooksAgree
<1> QED BY <1>5, <1>7, <1>8 DEF Books

\* After the loop over the heap's top the current bid of i is its highest standing bid.
LEMMA SettledTop ==
  ASSUME TypeOK, NEW i \in Items, Settle(i, bids'), BidsOn(i)' \subseteq heap[i],
         \A x \in heap[i] : x \in Ids' /\ bids'[x].item = i
  PROVE  /\ BidsOn(i)' = {} => current'[i] = None
         /\ BidsOn(i)' # {} =>
              /\ current'[i] \in BidsOn(i)'
              /\ \A x \in BidsOn(i)' : bids'[x].amount <= bids'[current'[i]].amount
         /\ BidsOn(i)' \subseteq heap'[i] /\ heap'[i] \subseteq heap[i]
         /\ \A j \in Items : j # i => heap'[j] = heap[j] /\ current'[j] = current[j]
<1>1. Standing(i, bids') = BidsOn(i)'
  BY DEF Standing, BidsOn
<1>2. heap \in [Items -> SUBSET (1..Len(bids))] /\ current \in [Items -> 0..Len(bids)]
  BY DEF TypeOK
<1>3. /\ heap' = [heap EXCEPT ![i] = heap'[i]] /\ current' = [current EXCEPT ![i] = current'[i]]
      /\ heap'[i] \subseteq heap[i] /\ Standing(i, bids') \subseteq heap'[i]
      /\ Standing(i, bids') = {} => current'[i] = None
      /\ Standing(i, bids') # {} =>
           /\ current'[i] \in Standing(i, bids')
           /\ \A x \in Standing(i, bids') : bids'[x].amount <= bids'[current'[i]].amount
  BY SettleFacts
<1> QED BY <1>1, <1>2, <1>3

\* The bid retracted leaves the books of its user and the top of its item's heap.
LEMMA BooksAfterRetract ==
  ASSUME TypeOK, Held, Books, NEW c \in Calls, RetractBid(c)
  PROVE  Books'
<1>1. PICK u \in Users, i \in Items, id \in Ids :
        /\ id \in BidsOn(i)
        /\ stack[u][i] # <<>> /\ id = Last(stack[u][i])
        /\ bids[id].user = u /\ id \in Ids
        /\ Ids = 1..Len(bids) /\ Ids' = Ids
        /\ \A x \in Ids : /\ bids'[x].user = bids[x].user /\ bids'[x].item = bids[x].item
                          /\ bids'[x].amount = bids[x].amount
                          /\ x # id => bids'[x] = bids[x]
        /\ bids'[id].retracted
        /\ stack' = [stack EXCEPT ![u][i] = Front(@)]
        /\ active' = [active EXCEPT ![u] = removeBidID(@, id)]
        /\ Settle(i, bids') /\ history' = history
  <2> DEFINE u  == req[c].user
             i  == req[c].item
             id == Last(stack[u][i])
  <2>1. /\ u \in Users /\ i \in Items /\ stack[u][i] # <<>>
        /\ id \in BidsOn(i) /\ bids[id].user = u /\ id \in Ids
        /\ Ids = 1..Len(bids) /\ Ids' = Ids
        /\ \A x \in Ids : /\ bids'[x].user = bids[x].user /\ bids'[x].item = bids[x].item
                          /\ bids'[x].amount = bids[x].amount
                          /\ x # id => bids'[x] = bids[x]
        /\ bids'[id].retracted
        /\ stack' = [stack EXCEPT ![u][i] = Front(@)]
        /\ active' = [active EXCEPT ![u] = removeBidID(@, id)]
        /\ Settle(i, bids') /\ history' = history
    BY RetractFacts
  <2> HIDE DEF u, i
  <2> QED BY <2>1
<1>2. /\ bids \in Seq(Bid) /\ Len(bids) \in Nat /\ current \in [Items -> 0..Len(bids)]
      /\ heap \in [Items -> SUBSET (1..Len(bids))] /\ history \in [Items -> Seq(1..Len(bids))]
      /\ stack \in [Users -> [Items -> Seq(Nat)]] /\ active \in [Users -> Seq(Nat)]
  BY DEF TypeOK
<1>b. BooksAgree
  BY DEF Books
<1>3. ASSUME NEW j \in Items
      PROVE  BidsOn(j)' = BidsOn(j) \ {id} /\ BidsOn(j) \subseteq Ids /\ (j # i => id \notin BidsOn(j))
  <2>1. /\ BidsOn(j)' = {x \in Ids : bids'[x].item = j /\ ~bids'[x].retracted}
        /\ BidsOn(j) = {x \in Ids : bids[x].item = j /\ ~bids[x].retracted}
    BY <1>1 DEF BidsOn
  <2>2. bids[id].item = i
    BY <1>1 DEF BidsOn
  <2>3. \A x \in Ids : x # id => bids'[x] = bids[x]
    BY <1>1
  <2>4. bids'[id].retracted
    BY <1>1
  <2> QED BY <2>1, <2>2, <2>3, <2>4
<1>4. /\ BidsOn(i)' = {} => current'[i] = None
      /\ BidsOn(i)' # {} =>
           /\ current'[i] \in BidsOn(i)'
           /\ \A x \in BidsOn(i)' : bids'[x].amount <= bids'[current'[i]].amount
      /\ BidsOn(i)' \subseteq heap'[i] /\ heap'[i] \subseteq heap[i]
      /\ \A j \in Items : j # i => heap'[j] = heap[j] /\ current'[j] = current[j]
  <2>1. BidsOn(i)' \subseteq heap[i]
    BY <1>3, <1>b DEF BooksAgree
  <2>2. \A x \in heap[i] : x \in Ids' /\ bids'[x].item = i
    BY <1>1, <1>2 DEF Books
  <2> QED BY <1>1, <2>1, <2>2, SettledTop
<1>5. ASSUME NEW j \in Items
      PROVE  IF BidsOn(j)' = {} THEN current'[j] = None
             ELSE /\ current'[j] \in BidsOn(j)'
                  /\ \A x \in BidsOn(j)' : bids'[x].amount <= bids'[current'[j]].amount
  <2>1. CASE j = i
    BY <1>4, <2>1
  <2>2. CASE j # i
    <3>1. current'[j] = current[j] /\ BidsOn(j)' = BidsOn(j)
      BY <1>3, <1>4, <2>2
    <3>2. \A x \in BidsOn(j) : bids'[x].amount = bids[x].amount
      BY <1>1, <1>3
    <3> QED BY <1>b, <3>1, <3>2 DEF BooksAgree
  <2> QED BY <2>1, <2>2
<1>6. ASSUME NEW v \in Users
      PROVE  /\ ToSet(active'[v]) = {x \in Ids' : bids'[x].user = v /\ ~bids'[x].retracted}
             /\ Increasing(active'[v])
  <2>1. /\ ToSet(active[v]) = {x \in Ids : bids[x].user = v /\ ~bids[x].retracted}
        /\ Increasing(active[v])
    BY <1>b DEF BooksAgree, Books
  <2>2. CASE v = u
    <3>1. active[v] \in Seq(Nat) /\ id \in Nat
      BY <1>1, <1>2
    <3>2. /\ ToSet(removeBidID(active[v], id)) = ToSet(active[v]) \ {id}
          /\ Increasing(removeBidID(active[v], id))
      BY <2>1, <3>1, RemoveBidFacts
    <3>3. active'[v] = removeBidID(active[v], id)
      BY <1>1, <1>2, <2>2
    <3> QED BY <1>1, <2>1, <3>2, <3>3
  <2>3. CASE v # u
    <3>1. active'[v] = active[v]
      BY <1>1, <1>2, <2>3
    <3> QED BY <1>1, <2>1, <2>3, <3>1
  <2> QED BY <2>2, <2>3
<1>7. ASSUME NEW v \in Users, NEW j \in Items
      PROVE  /\ ToSet(stack'[v][j]) = {x \in BidsOn(j)' : bids'[x].user = v}
             /\ Increasing(stack'[v][j])
  <2>1. /\ ToSet(stack[v][j]) = {x \in BidsOn(j) : bids[x].user = v}
        /\ Increasing(stack[v][j])
    BY <1>b DEF BooksAgree
  <2>2. \A x \in BidsOn(j) : bids'[x].user = bids[x].user
    BY <1>1, <1>3
  <2>3. BidsOn(j)' = BidsOn(j) \ {id}
    BY <1>3
  <2>4. CASE v = u /\ j = i
    <3>1. stack[v][j] \in Seq(Nat) /\ stack[v][j] # <<>>
      BY <1>1, <1>2, <2>4
    <3>2. /\ ToSet(Front(stack[v][j])) = ToSet(stack[v][j]) \ {id}
          /\ Increasing(Front(stack[v][j]))
      BY <1>1, <2>1, <2>4, <3>1, PopFacts
    <3>3. stack'[v][j] = Front(stack[v][j])
      <4>1. stack[v] \in [Items -> Seq(Nat)]
        BY <1>2
      <4>2. stack'[v] = [stack[v] EXCEPT ![i] = Front(@)]
        BY <1>1, <1>2, <2>4
      <4> QED BY <2>4, <4>1, <4>2
    <3> QED BY <2>1, <2>2, <2>3, <3>2, <3>3
  <2>5. CASE ~(v = u /\ j = i)
    <3>1. stack'[v][j] = stack[v][j]
      <4>1. CASE v = u
        <5>1. stack[v] \in [Items -> Seq(Nat)] /\ j # i
          BY <1>2, <2>5, <4>1
        <5>2. stack'[v] = [stack[v] EXCEPT ![i] = Front(@)]
          BY <1>1, <1>2, <4>1
        <5> QED BY <5>1, <5>2
      <4>2. CASE v # u
        BY <1>1, <1>2, <4>2
      <4> QED BY <4>1, <4>2
    <3>2. id \notin BidsOn(j) \/ bids[id].user # v
      BY <1>1, <1>3, <2>5
    <3> QED BY <2>1, <2>2, <2>3, <3>1, <3>2
  <2> QED BY <2>4, <2>5
<1>8. ASSUME NEW j \in Items
      PROVE  /\ BidsOn(j)' \subseteq heap'[j]
             /\ ToSet(history'[j]) = {x \in Ids' : bids'[x].item = j}
             /\ \A x \in heap'[j] : bids'[x].item = j
  <2>1. /\ BidsOn(j) \subseteq heap[j]
        /\ ToSet(history[j]) = {x \in Ids : bids[x].item = j}
        /\ \A x \in heap[j] : bids[x].item = j
    BY <1>b DEF BooksAgree, Books
  <2>2. heap[j] \subseteq Ids
    BY <1>1, <1>2
  <2>3. heap'[j] \subseteq heap[j] /\ BidsOn(j)' \subseteq heap'[j]
    BY <1>3, <1>4, <2>1
  <2>4. Ids' = Ids /\ history' = history /\ \A x \in Ids : bids'[x].item = bids[x].item
    BY <1>1
  <2> QED BY <2>1, <2>2, <2>3, <2>4
<1>9. BooksAgree'
  BY <1>5, <1>6, <1>7, <1>8 DEF BooksAgree
<1> QED BY <1>6, <1>8, <1>9 DEF Books

\* A step that changes nothing in the books.
LEMMA BooksUnchanged ==
  ASSUME Books, UNCHANGED bookVars
  PROVE  Books'
BY DEF Books, BooksAgree, bookVars, BidsOn, Ids, Increasing, ToSet

\* The winner is looked for once more when the auction ends.
LEMMA BooksAfterEnd ==
  ASSUME TypeOK, Held, Books, NEW c \in Calls, EndAuction(c)
  PROVE  Books'
<1> DEFINE i == req[c].item
<1>1. bids' = bids /\ history' = history /\ stack' = stack /\ active' = active
  BY DEF EndAuction
<1>2. CASE status[i] # "active"
  BY <1>1, <1>2, BooksUnchanged DEF EndAuction, bookVars
<1>3. CASE status[i] = "active"
  <2>1. Settle(i, bids)
    BY <1>3 DEF EndAuction
  <2>2. i \in Items
    <3>1. req[c] \in Requests /\ req[c].op = "end"
      BY DEF Held, HeldBy, Inside, EndAuction
    <3> QED BY <3>1, AuctionConstants DEF Request
  <2>3. PICK k \in Items : Settle(k, bids')
    <3> HIDE DEF i
    <3> QED BY <1>1, <2>1, <2>2
  <2>4. heap \in [Items -> SUBSET (1..Len(bids))] /\ BooksAgree
    BY DEF TypeOK, Books
  <2>5. Ids' = Ids /\ Ids = 1..Len(bids) /\ \A j \in Items : BidsOn(j)' = BidsOn(j)
    BY <1>1 DEF Ids, BidsOn
  <2>6. /\ BidsOn(k)' = {} => current'[k] = None
        /\ BidsOn(k)' # {} =>
             /\ current'[k] \in BidsOn(k)'
             /\ \A x \in BidsOn(k)' : bids'[x].amount <= bids'[current'[k]].amount
        /\ BidsOn(k)' \subseteq heap'[k] /\ heap'[k] \subseteq heap[k]
        /\ \A j \in Items : j # k => heap'[j] = heap[j] /\ current'[j] = current[j]
    <3>1. BidsOn(k)' \subseteq heap[k] /\ \A x \in heap[k] : x \in Ids' /\ bids'[x].item = k
      BY <1>1, <2>4, <2>5 DEF BooksAgree, Books
    <3> QED BY <2>3, <3>1, SettledTop
  <2>7. ASSUME NEW j \in Items
        PROVE  /\ IF BidsOn(j)' = {} THEN current'[j] = None
                  ELSE /\ current'[j] \in BidsOn(j)'
                       /\ \A x \in BidsOn(j)' : bids'[x].amount <= bids'[current'[j]].amount
               /\ BidsOn(j)' \subseteq heap'[j] /\ heap'[j] \subseteq heap[j]
    <3>1. CASE j = k
      BY <2>6, <3>1
    <3>2. CASE j # k
      BY <1>1, <2>4, <2>5, <2>6, <3>2 DEF BooksAgree
    <3> QED BY <3>1, <3>2
  <2>8. \A v \in Users :
          /\ ToSet(active'[v]) = {x \in Ids' : bids'[x].user = v /\ ~bids'[x].retracted}
          /\ Increasing(active'[v])
          /\ \A j \in Items :
               /\ ToSet(stack'[v][j]) = {x \in BidsOn(j)' : bids'[x].user = v}
               /\ Increasing(stack'[v][j])
    BY <1>1, <2>4, <2>5 DEF BooksAgree, Books
  <2>9. \A j \in Items : /\ ToSet(history'[j]) = {x \in Ids' : bids'[x].item = j}
                         /\ \A x \in heap'[j] : bids'[x].item = j
    BY <1>1, <2>4, <2>5, <2>7 DEF BooksAgree, Books
  <2>10. BooksAgree'
    BY <2>7, <2>8, <2>9 DEF BooksAgree
  <2> QED BY <2>8, <2>9, <2>10 DEF Books
<1> QED BY <1>2, <1>3

-----------------------------------------------------------------------------
(* What calls know: nobody else acts on an item whose mutex a call holds. *)

\* What a call that is inside was asked.
LEMMA Asked ==
  ASSUME Held, NEW c \in Calls, Inside(c)
  PROVE  /\ req[c] \in Requests /\ req[c].item \in Items /\ lock[req[c].item] = c
         /\ req[c].op \in {"place", "retract", "end"}
         /\ req[c].op # "end" => req[c].user \in Users
         /\ req[c].op = "place" => req[c].amount \in Nat
<1>1. req[c] \in Requests /\ lock[req[c].item] = c
  BY DEF Held, HeldBy
<1>2. req[c] \in Request
  BY <1>1, AuctionConstants
<1> QED BY <1>1, <1>2 DEF Request

\* A price changes only with the current bid: amounts never do.
LEMMA PriceKept ==
  ASSUME TypeOK, NEW i \in Items, current'[i] = current[i],
         \A x \in Ids : bids'[x].amount = bids[x].amount
  PROVE  Price(i)' = Price(i)
<1>1. current[i] = None \/ current[i] \in Ids
  <2>1. current[i] \in 0..Len(bids) /\ Len(bids) \in Nat
    BY DEF TypeOK
  <2> QED BY <2>1 DEF None, Ids
<1> QED BY <1>1 DEF Price

\* What d knows stays true while it stands still and its item is left alone.
LEMMA OthersHold ==
  ASSUME Held, NEW d \in Calls, pc'[d] = pc[d], req'[d] = req[d],
         \A i \in Items : lock[i] = d =>
           /\ lock'[i] = d /\ Price(i)' = Price(i)
           /\ status[i] = "active" => status'[i] = "active"
  PROVE  HeldBy(d)'
<1>1. HeldBy(d)
  BY DEF Held
<1>2. CASE Inside(d)
  <2>1. PICK i \in Items : i = req[d].item /\ lock[i] = d
    BY <1>2, Asked
  <2>2. /\ lock'[i] = d /\ Price(i)' = Price(i)
        /\ status[i] = "active" => status'[i] = "active"
    BY <2>1
  <2>3. req'[d].item = i
    BY <2>1
  <2>4. Price(req[d].item)' = Price(i) /\ Price(req[d].item) = Price(i)
    BY <2>1, <2>2, <2>3 DEF Price
  <2> QED BY <1>1, <1>2, <2>1, <2>2, <2>3, <2>4 DEF HeldBy, Inside
<1>3. CASE ~Inside(d)
  BY <1>1, <1>3 DEF HeldBy, Inside
<1> QED BY <1>2, <1>3

\* Whatever touches neither a call nor the books.
LEMMA HeldOutside ==
  ASSUME Held, UNCHANGED <<callVars, bookVars>>,
         \A i \in Items : status[i] = "active" => status'[i] = "active"
  PROVE  Held'
<1>1. \A i \in Items : Price(i)' = Price(i)
  BY DEF Price, bookVars
<1>2. ASSUME NEW d \in Calls PROVE HeldBy(d)'
  BY <1>1, OthersHold DEF callVars
<1> QED BY <1>2 DEF Held

\* A step of call c on its own item.
LEMMA HeldInside ==
  ASSUME TypeOK, Held, NEW c \in Calls, HeldBy(c)',
         \A d \in Calls \ {c} : pc'[d] = pc[d] /\ req'[d] = req[d],
         \A i \in Items : lock[i] # c /\ lock[i] # "free" =>
           lock'[i] = lock[i] /\ current'[i] = current[i] /\ status'[i] = status[i],
         \A x \in Ids : bids'[x].amount = bids[x].amount
  PROVE  Held'
<1>1. ASSUME NEW d \in Calls \ {c}, NEW i \in Items, lock[i] = d
      PROVE  /\ lock'[i] = d /\ Price(i)' = Price(i)
             /\ status[i] = "active" => status'[i] = "active"
  <2>1. lock[i] # c /\ lock[i] # "free"
    BY <1>1, AuctionConstants
  <2>2. lock'[i] = d /\ current'[i] = current[i] /\ status'[i] = status[i]
    BY <1>1, <2>1
  <2> QED BY <2>2, PriceKept
<1>2. ASSUME NEW d \in Calls \ {c} PROVE HeldBy(d)'
  BY <1>1, OthersHold
<1> QED BY <1>2 DEF Held

\* Whatever way out is taken, the mutex and the call are free again.
LEMMA ReturnFacts ==
  ASSUME TypeOK, NEW c \in Calls, Return(c)
  PROVE  /\ pc' = [pc EXCEPT ![c] = "idle"] /\ pc'[c] = "idle" /\ req'[c] = NoRequest
         /\ \A d \in Calls \ {c} : pc'[d] = pc[d] /\ req'[d] = req[d]
         /\ \A i \in Items : i # req[c].item => lock'[i] = lock[i]
         /\ HeldBy(c)'
<1>1. /\ pc \in [Calls -> {"idle", "lock", "validate", "change", "snapshot", "send"}]
      /\ req \in [Calls -> Requests \cup {NoRequest} \cup [op : {"none"}, item : Items]]
      /\ lock \in [Items -> Calls \cup {"free"}]
  BY DEF TypeOK
<1>2. /\ pc' = [pc EXCEPT ![c] = "idle"] /\ req' = [req EXCEPT ![c] = NoRequest]
      /\ lock' = [lock EXCEPT ![req[c].item] = "free"]
  BY DEF Return, Goto
<1>3. pc'[c] = "idle" /\ req'[c] = NoRequest
  BY <1>1, <1>2
<1>4. HeldBy(c)'
  BY <1>3 DEF HeldBy, Inside
<1> QED BY <1>1, <1>2, <1>3, <1>4

\* Every step keeps what the calls know.
LEMMA HeldNext ==
  ASSUME TypeOK, Held, Books, Next
  PROVE  Held'
<1>0. /\ pc \in [Calls -> {"idle", "lock", "validate", "change", "snapshot", "send"}]
      /\ req \in [Calls -> Requests \cup {NoRequest} \cup [op : {"none"}, item : Items]]
      /\ lock \in [Items -> Calls \cup {"free"}] /\ status \in [Items -> {"absent", "active", "ended"}]
      /\ current \in [Items -> 0..Len(bids)]
  BY DEF TypeOK
<1>1. ASSUME NEW i \in Items, CreateItem(i) PROVE Held'
  <2>1. \A k \in Items : status[k] = "active" => status'[k] = "active"
    BY <1>0, <1>1 DEF CreateItem
  <2> QED BY <1>1, <2>1, HeldOutside DEF CreateItem
<1>2. ASSUME NEW i \in Items, TimePasses(i) PROVE Held'
  BY <1>2, HeldOutside DEF TimePasses
<1>3. ASSUME NEW c \in Calls, Call(c) PROVE Held'
  <2>1. PICK i \in Items : req' = [req EXCEPT ![c] = [op |-> "none", item |-> i]]
    BY <1>3 DEF Call
  <2>2. /\ pc' = [pc EXCEPT ![c] = "lock"] /\ UNCHANGED <<lock, status, bookVars>>
    BY <1>3 DEF Call, Goto
  <2>3. pc'[c] = "lock" /\ req'[c] = [op |-> "none", item |-> i]
    BY <1>0, <2>1, <2>2
  <2>4. HeldBy(c)'
    BY <2>3 DEF HeldBy, Inside
  <2>5. \A d \in Calls \ {c} : pc'[d] = pc[d] /\ req'[d] = req[d]
    BY <1>0, <2>1, <2>2
  <2> QED BY <2>2, <2>4, <2>5, HeldInside DEF bookVars
<1>4. ASSUME NEW c \in Calls, LockItem(c) PROVE Held'
  <2>1. PICK r \in Requests :
          /\ r.item = req[c].item /\ req' = [req EXCEPT ![c] = r]
          /\ pc' = [pc EXCEPT ![c] = IF r.op = "end" THEN "change" ELSE "validate"]
    BY <1>4 DEF LockItem, Admit, Goto
  <2>2. /\ lock[req[c].item] = "free" /\ lock' = [lock EXCEPT ![req[c].item] = c]
        /\ UNCHANGED <<status, bookVars>> /\ pc[c] = "lock"
    BY <1>4 DEF LockItem
  <2>3. req[c].item \in Items
    BY <2>2 DEF Held, HeldBy
  <2>4. /\ req'[c] = r /\ lock'[req'[c].item] = c
        /\ pc'[c] = (IF r.op = "end" THEN "change" ELSE "validate")
    BY <1>0, <2>1, <2>2, <2>3
  <2>5. HeldBy(c)'
    BY <2>4 DEF HeldBy, Inside
  <2>6. \A d \in Calls \ {c} : pc'[d] = pc[d] /\ req'[d] = req[d]
    BY <1>0, <2>1, <2>2
  <2>7. \A i \in Items : lock[i] # "free" => lock'[i] = lock[i]
    BY <1>0, <2>2
  <2> QED BY <2>2, <2>5, <2>6, <2>7, HeldInside DEF bookVars
<1>5. ASSUME NEW c \in Calls, Validate(c) PROVE Held'
  <2>1. pc[c] = "validate" /\ HeldBy(c) /\ Inside(c) /\ UNCHANGED <<status, bookVars>>
    BY <1>5 DEF Validate, Held, Inside
  <2>2. req[c].item \in Items /\ lock[req[c].item] = c
    BY <2>1, Asked
  <2>3. CASE Return(c)
    BY <2>1, <2>2, <2>3, HeldInside, ReturnFacts DEF bookVars
  <2>4. CASE ~Return(c)
    <3>1. /\ IF req[c].op = "place" THEN ValidBid(c) ELSE StillActive(c)
          /\ pc' = [pc EXCEPT ![c] = "change"] /\ UNCHANGED <<lock, req>>
      BY <1>5, <2>4 DEF Validate, Goto
    <3>2. /\ status[req[c].item] = "active"
          /\ req[c].op = "place" => req[c].amount > Price(req[c].item)
      BY <3>1 DEF ValidBid, StillActive
    <3>3. Price(req[c].item)' = Price(req[c].item)
      BY <2>1, <3>1 DEF Price, bookVars
    <3>4. pc'[c] = "change" /\ \A d \in Calls \ {c} : pc'[d] = pc[d]
      BY <1>0, <3>1
    <3>5. HeldBy(c)'
      BY <2>1, <3>1, <3>2, <3>3, <3>4 DEF HeldBy, Inside
    <3> QED BY <2>1, <3>1, <3>4, <3>5, HeldInside DEF bookVars
  <2> QED BY <2>3, <2>4
<1>a. ASSUME NEW c \in Calls, Inside(c), UNCHANGED <<lock, req>>,
             NEW where \in {"snapshot", "send"}, pc' = [pc EXCEPT ![c] = where]
      PROVE  HeldBy(c)' /\ \A d \in Calls \ {c} : pc'[d] = pc[d] /\ req'[d] = req[d]
  <2>1. pc'[c] = where
    BY <1>0, <1>a
  <2>2. req[c] \in Requests /\ lock[req[c].item] = c
    BY <1>a, Asked
  <2> QED BY <1>0, <1>a, <2>1, <2>2 DEF HeldBy, Inside
<1>6. ASSUME NEW c \in Calls, EnterBid(c) PROVE Held'
  <2>1. Inside(c) /\ pc' = [pc EXCEPT ![c] = "snapshot"] /\ UNCHANGED <<lock, req, status>>
    BY <1>6 DEF EnterBid, Inside, Announce, Goto
  <2>2. /\ \A x \in Ids : bids'[x] = bids[x]
        /\ current' = [current EXCEPT ![req[c].item] = Len(bids) + 1] /\ lock[req[c].item] = c
    BY <1>6, EnterFacts
  <2>3. \A i \in Items : lock[i] # c => current'[i] = current[i]
    BY <1>0, <2>2
  <2> QED BY <1>a, <2>1, <2>2, <2>3, HeldInside
<1>b. ASSUME NEW c \in Calls, NEW i \in Items, lock[i] = c, NEW b, Settle(i, b)
      PROVE  \A k \in Items : lock[k] # c => current'[k] = current[k]
  <2>1. current' = [current EXCEPT ![i] = current'[i]]
    BY <1>b, SettleFacts
  <2> QED BY <1>0, <1>b, <2>1
<1>7. ASSUME NEW c \in Calls, RetractBid(c) PROVE Held'
  <2>1. Inside(c) /\ pc' = [pc EXCEPT ![c] = "snapshot"] /\ UNCHANGED <<lock, req, status>>
    BY <1>7 DEF RetractBid, Inside, Announce, Goto
  <2>2. PICK i \in Items : lock[i] = c /\ Settle(i, bids')
    <3>1. /\ req[c].item \in Items /\ lock[req[c].item] = c /\ Settle(req[c].item, bids')
      BY <1>7, RetractFacts
    <3> QED BY <3>1
  <2>3. \A k \in Items : lock[k] # c => current'[k] = current[k]
    BY <1>b, <2>2
  <2>4. \A x \in Ids : bids'[x].amount = bids[x].amount
    BY <1>7, RetractFacts
  <2> QED BY <1>a, <2>1, <2>3, <2>4, HeldInside
<1>8. ASSUME NEW c \in Calls, NothingToRetract(c) PROVE Held'
  <2>1. Inside(c) /\ Return(c) /\ UNCHANGED <<status, bookVars>>
    BY <1>8 DEF NothingToRetract, Inside
  <2> QED BY <2>1, Asked, HeldInside, ReturnFacts DEF bookVars
<1>9. ASSUME NEW c \in Calls, EndAuction(c) PROVE Held'
  <2>1. Inside(c) /\ bids' = bids
    BY <1>9 DEF EndAuction, Inside
  <2>2. req[c].item \in Items /\ lock[req[c].item] = c
    BY <2>1, Asked
  <2>3. CASE status[req[c].item] # "active"
    <3>1. Return(c) /\ UNCHANGED <<status, current>>
      BY <1>9, <2>3 DEF EndAuction
    <3> QED BY <2>1, <2>2, <3>1, HeldInside, ReturnFacts
  <2>4. CASE status[req[c].item] = "active"
    <3>1. /\ pc' = [pc EXCEPT ![c] = "snapshot"] /\ UNCHANGED <<lock, req>>
          /\ status' = [status EXCEPT ![req[c].item] = "ended"] /\ Settle(req[c].item, bids)
      BY <1>9, <2>4 DEF EndAuction, Announce, Goto
    <3>2. \A k \in Items : lock[k] # c => current'[k] = current[k] /\ status'[k] = status[k]
      BY <1>0, <1>b, <2>2, <3>1
    <3> QED BY <1>a, <2>1, <3>1, <3>2, HeldInside
  <2> QED BY <2>3, <2>4
<1>10. ASSUME NEW c \in Calls, Snapshot(c) PROVE Held'
  <2>1. /\ Inside(c) /\ pc' = [pc EXCEPT ![c] = "send"] /\ UNCHANGED <<lock, req, status, bookVars>>
    BY <1>10 DEF Snapshot, Inside, Goto
  <2> QED BY <1>a, <2>1, HeldInside DEF bookVars
<1>11. ASSUME NEW c \in Calls, NEW w \in Watchers, Send(c, w) PROVE Held'
  <2>1. UNCHANGED <<pc, req, lock, status, bookVars>>
    BY <1>11 DEF Send
  <2>2. HeldBy(c) /\ Price(req[c].item)' = Price(req[c].item)
    BY <2>1 DEF Held, Price, bookVars
  <2>3. HeldBy(c)'
    BY <2>1, <2>2 DEF HeldBy, Inside
  <2> QED BY <2>1, <2>3, HeldInside DEF bookVars
<1>12. ASSUME NEW c \in Calls, Finish(c) PROVE Held'
  <2>1. Inside(c) /\ Return(c) /\ UNCHANGED <<status, bookVars>>
    BY <1>12 DEF Finish, Inside
  <2> QED BY <2>1, Asked, HeldInside, ReturnFacts DEF bookVars
<1>13. ASSUME NEW w \in Watchers, Subscribe(w) \/ Receive(w) \/ Unsubscribe(w) PROVE Held'
  <2>1. UNCHANGED <<status, bookVars, callVars>>
    BY <1>13 DEF Subscribe, Receive, Unsubscribe
  <2> QED BY <2>1, HeldOutside
<1> QED
  BY <1>1, <1>2, <1>3, <1>4, <1>5, <1>6, <1>7, <1>8, <1>9, <1>10, <1>11, <1>12, <1>13
  DEF Next, Serve

\* Every step keeps the books.
LEMMA BooksNext ==
  ASSUME TypeOK, Held, Books, Next
  PROVE  Books'
<1>1. ASSUME NEW i \in Items, CreateItem(i) \/ TimePasses(i) PROVE Books'
  BY <1>1, BooksUnchanged DEF CreateItem, TimePasses
<1>2. ASSUME NEW c \in Calls, Call(c) \/ LockItem(c) \/ Validate(c) \/ Snapshot(c) PROVE Books'
  <2>1. UNCHANGED bookVars
    BY <1>2 DEF Call, LockItem, Validate, Snapshot
  <2> QED BY <2>1, BooksUnchanged
<1>3. ASSUME NEW c \in Calls, NothingToRetract(c) \/ Finish(c) \/ \E w \in Watchers : Send(c, w)
      PROVE  Books'
  <2>1. UNCHANGED bookVars
    BY <1>3 DEF NothingToRetract, Finish, Send
  <2> QED BY <2>1, BooksUnchanged
<1>4. ASSUME NEW c \in Calls, EnterBid(c) \/ RetractBid(c) \/ EndAuction(c) PROVE Books'
  BY <1>4, BooksAfterBid, BooksAfterRetract, BooksAfterEnd
<1>5. ASSUME NEW w \in Watchers, Subscribe(w) \/ Receive(w) \/ Unsubscribe(w) PROVE Books'
  <2>1. UNCHANGED bookVars
    BY <1>5 DEF Subscribe, Receive, Unsubscribe
  <2> QED BY <2>1, BooksUnchanged
<1> QED BY <1>1, <1>2, <1>3, <1>4, <1>5 DEF Next, Serve

-----------------------------------------------------------------------------
(* Types. *)

\* The variables of the books, of the watchers and of the calls, each on their own.
BookTypes ==
  /\ bids \in Seq(Bid) /\ current \in [Items -> 0..Len(bids)]
  /\ heap \in [Items -> SUBSET (1..Len(bids))] /\ history \in [Items -> Seq(1..Len(bids))]
  /\ stack \in [Users -> [Items -> Seq(Nat)]] /\ active \in [Users -> Seq(Nat)]
WatchTypes ==
  /\ watchers \in [Items -> SUBSET Watchers] /\ reader \in [Watchers -> {"new", "in", "gone"}]
  /\ chan \in [Watchers -> Seq(Event)] /\ got \in [Watchers -> Seq(Event)]
  /\ joined \in [Watchers -> Nat] /\ dropped \in [Watchers -> BOOLEAN]
CallTypes ==
  /\ lock \in [Items -> Calls \cup {"free"}]
  /\ pc \in [Calls -> {"idle", "lock", "validate", "change", "snapshot", "send"}]
  /\ req \in [Calls -> Requests \cup {NoRequest} \cup [op : {"none"}, item : Items]]
  /\ now \in [Calls -> {"early", "open", "late"}]
  /\ event \in [Calls -> Event] /\ sendTo \in [Calls -> SUBSET Watchers]
ItemTypes ==
  /\ window \in [Items -> {"early", "open", "late"}]
  /\ status \in [Items -> {"absent", "active", "ended"}]
  /\ log \in [Items -> Seq(Event)]

\* The parts are the whole.
LEMMA Types == TypeOK <=> BookTypes /\ WatchTypes /\ CallTypes /\ ItemTypes
BY DEF TypeOK, BookTypes, WatchTypes, CallTypes, ItemTypes

\* Every step keeps the types of the books.
LEMMA BookTypesNext ==
  ASSUME TypeOK, Held, Books, Next
  PROVE  BookTypes'
<1>0. BookTypes
  BY Types
<1>1. CASE UNCHANGED bookVars
  BY <1>0, <1>1 DEF BookTypes, bookVars
<1>2. ASSUME NEW c \in Calls, EnterBid(c) PROVE BookTypes'
  <2> DEFINE u  == req[c].user
             i  == req[c].item
             id == Len(bids) + 1
  <2>1. /\ u \in Users /\ i \in Items /\ id \in Nat /\ Len(bids') = id /\ bids' \in Seq(Bid)
        /\ heap' = [heap EXCEPT ![i] = @ \cup {id}]
        /\ history' = [history EXCEPT ![i] = Append(@, id)]
        /\ stack' = [stack EXCEPT ![u][i] = Append(@, id)]
        /\ active' = [active EXCEPT ![u] = Append(@, id)]
        /\ current' = [current EXCEPT ![i] = id]
    BY <1>2, EnterFacts
  <2>2. Len(bids) \in Nat
    BY <1>0 DEF BookTypes
  <2>3. 0..Len(bids) \subseteq 0..id /\ 1..Len(bids) \subseteq 1..id /\ id \in 1..id
    BY <2>2
  <2> HIDE DEF u, i, id
  <2>4. current' \in [Items -> 0..id]
    <3>1. current \in [Items -> 0..id] /\ id \in 0..id
      BY <1>0, <2>1, <2>3 DEF BookTypes
    <3> QED BY <2>1, <3>1
  <2>5. heap' \in [Items -> SUBSET (1..id)]
    <3>1. heap \in [Items -> SUBSET (1..id)]
      BY <1>0, <2>3 DEF BookTypes
    <3> QED BY <2>1, <2>3, <3>1
  <2>6. history' \in [Items -> Seq(1..id)]
    <3>1. ASSUME NEW j \in Items PROVE history[j] \in Seq(1..id) /\ Append(history[j], id) \in Seq(1..id)
      <4>1. history[j] \in Seq(1..Len(bids))
        BY <1>0 DEF BookTypes
      <4>2. history[j] \in Seq(1..id)
        <5> DEFINE S == 1..Len(bids)
                   T == 1..id
        <5>1. history[j] \in Seq(S) /\ S \subseteq T
          BY <2>3, <4>1
        <5> HIDE DEF S, T
        <5>2. history[j] \in Seq(T)
          BY <5>1
        <5> QED BY <5>2 DEF T
      <4> QED BY <2>3, <4>2
    <3>2. history = [j \in Items |-> history[j]]
      BY <1>0 DEF BookTypes
    <3> QED BY <2>1, <3>1, <3>2
  <2>7. stack' \in [Users -> [Items -> Seq(Nat)]]
    <3>1. stack[u] \in [Items -> Seq(Nat)] /\ stack \in [Users -> [Items -> Seq(Nat)]]
      BY <1>0, <2>1 DEF BookTypes
    <3>2. [stack[u] EXCEPT ![i] = Append(@, id)] \in [Items -> Seq(Nat)]
      BY <2>1, <3>1
    <3> QED BY <2>1, <3>1, <3>2
  <2>8. active' \in [Users -> Seq(Nat)]
    BY <1>0, <2>1 DEF BookTypes
  <2> QED BY <2>1, <2>4, <2>5, <2>6, <2>7, <2>8 DEF BookTypes
<1>a. ASSUME NEW i \in Items, NEW b, Settle(i, b), Len(bids') = Len(bids)
      PROVE  /\ current' \in [Items -> 0..Len(bids')]
             /\ heap' \in [Items -> SUBSET (1..Len(bids'))]
  <2>1. /\ heap' = [heap EXCEPT ![i] = heap'[i]] /\ current' = [current EXCEPT ![i] = current'[i]]
        /\ heap'[i] \subseteq heap[i]
        /\ Standing(i, b) = {} => current'[i] = None
        /\ Standing(i, b) # {} => current'[i] \in Standing(i, b)
    BY <1>a, SettleFacts
  <2>2. /\ heap \in [Items -> SUBSET (1..Len(bids))] /\ current \in [Items -> 0..Len(bids)]
        /\ Len(bids) \in Nat
    BY <1>0 DEF BookTypes
  <2>3. current'[i] \in 0..Len(bids)
    <3>1. Standing(i, b) \subseteq 1..Len(bids)
      BY <2>2 DEF Standing
    <3>2. None \in 0..Len(bids) /\ 1..Len(bids) \subseteq 0..Len(bids)
      BY <2>2 DEF None
    <3> QED BY <2>1, <3>1, <3>2
  <2>4. heap'[i] \in SUBSET (1..Len(bids))
    BY <2>1, <2>2
  <2> QED BY <1>a, <2>1, <2>2, <2>3, <2>4
<1>3. ASSUME NEW c \in Calls, RetractBid(c) PROVE BookTypes'
  <2> DEFINE u  == req[c].user
             i  == req[c].item
             id == Last(stack[u][i])
  <2>1. /\ u \in Users /\ i \in Items /\ stack[u][i] # <<>> /\ id \in Ids /\ Ids = 1..Len(bids)
        /\ Len(bids') = Len(bids) /\ bids' \in Seq(Bid)
        /\ stack' = [stack EXCEPT ![u][i] = Front(@)]
        /\ active' = [active EXCEPT ![u] = removeBidID(@, id)]
        /\ Settle(i, bids') /\ history' = history
    BY <1>3, RetractFacts
  <2> HIDE DEF u, i, id
  <2>2. /\ current' \in [Items -> 0..Len(bids')] /\ heap' \in [Items -> SUBSET (1..Len(bids'))]
    BY <1>a, <2>1
  <2>3. stack' \in [Users -> [Items -> Seq(Nat)]]
    <3>1. stack[u] \in [Items -> Seq(Nat)] /\ stack \in [Users -> [Items -> Seq(Nat)]]
      BY <1>0, <2>1 DEF BookTypes
    <3>2. stack[u][i] \in Seq(Nat) /\ Increasing(stack[u][i])
      BY <2>1, <3>1 DEF Books, BooksAgree
    <3>3. Front(stack[u][i]) \in Seq(Nat)
      BY <2>1, <3>2, PopFacts
    <3>4. [stack[u] EXCEPT ![i] = Front(@)] \in [Items -> Seq(Nat)]
      BY <2>1, <3>1, <3>3
    <3> QED BY <2>1, <3>1, <3>4
  <2>4. active' \in [Users -> Seq(Nat)]
    <3>1. active[u] \in Seq(Nat) /\ Increasing(active[u]) /\ id \in Nat
      BY <1>0, <2>1 DEF BookTypes, Books
    <3>2. removeBidID(active[u], id) \in Seq(Nat)
      BY <3>1, RemoveBidFacts
    <3> QED BY <1>0, <2>1, <3>2 DEF BookTypes
  <2>5. history' \in [Items -> Seq(1..Len(bids'))]
    BY <1>0, <2>1 DEF BookTypes
  <2> QED BY <2>1, <2>2, <2>3, <2>4, <2>5 DEF BookTypes
<1>4. ASSUME NEW c \in Calls, EndAuction(c) PROVE BookTypes'
  <2>1. bids' = bids /\ history' = history /\ stack' = stack /\ active' = active
    BY <1>4 DEF EndAuction
  <2>2. CASE status[req[c].item] # "active"
    BY <1>1, <1>4, <2>1, <2>2 DEF EndAuction, bookVars
  <2>3. CASE status[req[c].item] = "active"
    <3>1. req[c].item \in Items
      BY <1>4, Asked DEF EndAuction, Inside
    <3>2. Settle(req[c].item, bids)
      BY <1>4, <2>3 DEF EndAuction
    <3>3. /\ current' \in [Items -> 0..Len(bids')] /\ heap' \in [Items -> SUBSET (1..Len(bids'))]
      BY <1>a, <2>1, <3>1, <3>2
    <3> QED BY <1>0, <2>1, <3>3 DEF BookTypes
  <2> QED BY <2>2, <2>3
<1>5. ASSUME NEW i \in Items, CreateItem(i) \/ TimePasses(i) PROVE UNCHANGED bookVars
  BY <1>5 DEF CreateItem, TimePasses
<1>6. ASSUME NEW c \in Calls, Call(c) \/ LockItem(c) \/ Validate(c) \/ Snapshot(c)
      PROVE  UNCHANGED bookVars
  BY <1>6 DEF Call, LockItem, Validate, Snapshot
<1>7. ASSUME NEW c \in Calls, NothingToRetract(c) \/ Finish(c) \/ \E w \in Watchers : Send(c, w)
      PROVE  UNCHANGED bookVars
  BY <1>7 DEF NothingToRetract, Finish, Send
<1>8. ASSUME NEW w \in Watchers, Subscribe(w) \/ Receive(w) \/ Unsubscribe(w)
      PROVE  UNCHANGED bookVars
  BY <1>8 DEF Subscribe, Receive, Unsubscribe
<1> QED BY <1>1, <1>2, <1>3, <1>4, <1>5, <1>6, <1>7, <1>8 DEF Next, Serve

\* Every step keeps the types of the calls' variables.
LEMMA CallTypesNext ==
  ASSUME TypeOK, Held, Books, Next
  PROVE  CallTypes'
<1>0. CallTypes /\ BookTypes /\ ItemTypes /\ WatchTypes
  BY Types
<1>1. CASE UNCHANGED callVars
  BY <1>0, <1>1 DEF CallTypes, callVars
<1>r. ASSUME NEW c \in Calls, Return(c), UNCHANGED sendTo PROVE CallTypes'
  <2>1. NoEvent \in Event
    BY DEF NoEvent, Event, None
  <2> QED BY <1>0, <1>r, <2>1 DEF Return, Goto, CallTypes
<1>e. ASSUME NEW c \in Calls, NEW bid \in Nat, NEW action \in {"placed", "retracted", "ended"},
             Announce(c, bid, action), UNCHANGED <<lock, req, now, sendTo>>
      PROVE  CallTypes'
  <2>1. [bid |-> bid, action |-> action] \in Event
    BY DEF Event
  <2>2. /\ event' = [event EXCEPT ![c] = [bid |-> bid, action |-> action]]
        /\ pc' = [pc EXCEPT ![c] = "snapshot"]
    BY <1>e DEF Announce, Goto
  <2> QED BY <1>0, <1>e, <2>1, <2>2 DEF CallTypes
<1>2. ASSUME NEW i \in Items, CreateItem(i) \/ TimePasses(i) PROVE CallTypes'
  BY <1>1, <1>2 DEF CreateItem, TimePasses
<1>3. ASSUME NEW c \in Calls, Call(c) PROVE CallTypes'
  <2>1. PICK i \in Items : req' = [req EXCEPT ![c] = [op |-> "none", item |-> i]]
    BY <1>3 DEF Call
  <2>2. [op |-> "none", item |-> i] \in [op : {"none"}, item : Items]
    OBVIOUS
  <2>3. pc' = [pc EXCEPT ![c] = "lock"] /\ UNCHANGED <<lock, now, event, sendTo>>
    BY <1>3 DEF Call, Goto
  <2> QED BY <1>0, <2>1, <2>2, <2>3 DEF CallTypes
<1>4. ASSUME NEW c \in Calls, LockItem(c) PROVE CallTypes'
  <2>1. PICK r \in Requests : req' = [req EXCEPT ![c] = r]
            /\ pc' = [pc EXCEPT ![c] = IF r.op = "end" THEN "change" ELSE "validate"]
    BY <1>4 DEF LockItem, Admit, Goto
  <2>2. /\ lock' = [lock EXCEPT ![req[c].item] = c] /\ UNCHANGED <<event, sendTo>>
        /\ now' = [now EXCEPT ![c] = IF req'[c].op = "place" THEN window[req[c].item] ELSE @]
    BY <1>4 DEF LockItem, Admit
  <2>3. req[c].item \in Items
    BY <1>4 DEF LockItem, Held, HeldBy
  <2>4. window[req[c].item] \in {"early", "open", "late"}
    BY <1>0, <2>3 DEF ItemTypes
  <2>5. now' \in [Calls -> {"early", "open", "late"}]
    BY <1>0, <2>2, <2>4 DEF CallTypes
  <2>6. lock' \in [Items -> Calls \cup {"free"}]
    BY <1>0, <2>2 DEF CallTypes
  <2>7. pc' \in [Calls -> {"idle", "lock", "validate", "change", "snapshot", "send"}]
    BY <1>0, <2>1 DEF CallTypes
  <2>8. req' \in [Calls -> Requests \cup {NoRequest} \cup [op : {"none"}, item : Items]]
    BY <1>0, <2>1 DEF CallTypes
  <2> QED BY <1>0, <2>2, <2>5, <2>6, <2>7, <2>8 DEF CallTypes
<1>5. ASSUME NEW c \in Calls, Validate(c) PROVE CallTypes'
  <2>1. CASE Return(c)
    BY <1>5, <1>r, <2>1 DEF Validate
  <2>2. CASE ~Return(c)
    <3>1. /\ pc' = [pc EXCEPT ![c] = "change"] /\ now' = [now EXCEPT ![c] = "early"]
          /\ UNCHANGED <<lock, req, event, sendTo>>
      BY <1>5, <2>2 DEF Validate, Goto
    <3> QED BY <1>0, <3>1 DEF CallTypes
  <2> QED BY <2>1, <2>2
<1>6. ASSUME NEW c \in Calls, EnterBid(c) PROVE CallTypes'
  <2>1. Len(bids) + 1 \in Nat
    BY <1>0 DEF BookTypes
  <2> QED BY <1>6, <1>e, <2>1 DEF EnterBid
<1>7. ASSUME NEW c \in Calls, RetractBid(c) PROVE CallTypes'
  <2>1. Last(stack[req[c].user][req[c].item]) \in Nat
    <3>1. Last(stack[req[c].user][req[c].item]) \in Ids /\ Ids = 1..Len(bids)
      BY <1>7, RetractFacts
    <3> QED BY <3>1
  <2> QED BY <1>7, <1>e, <2>1 DEF RetractBid
<1>8. ASSUME NEW c \in Calls, NothingToRetract(c) \/ Finish(c) PROVE CallTypes'
  BY <1>8, <1>r DEF NothingToRetract, Finish
<1>9. ASSUME NEW c \in Calls, EndAuction(c) PROVE CallTypes'
  <2>1. CASE status[req[c].item] # "active"
    BY <1>9, <1>r, <2>1 DEF EndAuction
  <2>2. CASE status[req[c].item] = "active"
    <3>1. req[c].item \in Items
      BY <1>9, Asked DEF EndAuction, Inside
    <3>2. current'[req[c].item] \in Nat
      <4>1. current'[req[c].item] \in 0..Len(bids') /\ Len(bids') \in Nat
        BY <3>1, BookTypesNext DEF BookTypes
      <4> QED BY <4>1
    <3>3. Announce(c, current'[req[c].item], "ended") /\ UNCHANGED <<lock, req, now, sendTo>>
      BY <1>9, <2>2 DEF EndAuction
    <3> QED BY <1>e, <3>2, <3>3
  <2> QED BY <2>1, <2>2
<1>10. ASSUME NEW c \in Calls, Snapshot(c) PROVE CallTypes'
  <2>1. /\ sendTo' = [sendTo EXCEPT ![c] = watchers[req[c].item]]
        /\ pc' = [pc EXCEPT ![c] = "send"] /\ UNCHANGED <<lock, req, now, event>>
    BY <1>10 DEF Snapshot, Goto
  <2>2. watchers[req[c].item] \in SUBSET Watchers
    <3>1. req[c].item \in Items
      BY <1>10, Asked DEF Snapshot, Inside
    <3> QED BY <1>0, <3>1 DEF WatchTypes
  <2> QED BY <1>0, <2>1, <2>2 DEF CallTypes
<1>11. ASSUME NEW c \in Calls, NEW w \in Watchers, Send(c, w) PROVE CallTypes'
  <2>1. sendTo' = [sendTo EXCEPT ![c] = @ \ {w}] /\ UNCHANGED <<lock, pc, req, now, event>>
    BY <1>11 DEF Send
  <2> QED BY <1>0, <2>1 DEF CallTypes
<1>12. ASSUME NEW w \in Watchers, Subscribe(w) \/ Receive(w) \/ Unsubscribe(w) PROVE CallTypes'
  <2>1. UNCHANGED callVars
    BY <1>12 DEF Subscribe, Receive, Unsubscribe
  <2> QED BY <1>1, <2>1
<1> QED
  BY <1>2, <1>3, <1>4, <1>5, <1>6, <1>7, <1>8, <1>9, <1>10, <1>11, <1>12 DEF Next, Serve

\* Every step keeps the types of the watchers' variables.
LEMMA WatchTypesNext ==
  ASSUME TypeOK, Held, Books, Next
  PROVE  WatchTypes'
<1>0. WatchTypes /\ CallTypes /\ ItemTypes
  BY Types
<1>1. CASE UNCHANGED watchVars
  BY <1>0, <1>1 DEF WatchTypes, watchVars
<1>2. ASSUME NEW i \in Items, CreateItem(i) \/ TimePasses(i) PROVE UNCHANGED watchVars
  BY <1>2 DEF CreateItem, TimePasses
<1>3. ASSUME NEW c \in Calls, \/ Call(c) \/ LockItem(c) \/ Validate(c) \/ EnterBid(c)
                              \/ RetractBid(c) \/ NothingToRetract(c) \/ EndAuction(c)
                              \/ Snapshot(c) \/ Finish(c)
      PROVE  UNCHANGED watchVars
  BY <1>3 DEF Call, LockItem, Validate, EnterBid, RetractBid, NothingToRetract, EndAuction,
              Snapshot, Finish
<1>4. ASSUME NEW c \in Calls, NEW w \in Watchers, Send(c, w) PROVE WatchTypes'
  <2>1. /\ chan' = chan \/ chan' = [chan EXCEPT ![w] = Append(@, event[c])]
        /\ dropped' = dropped \/ dropped' = [dropped EXCEPT ![w] = TRUE]
        /\ UNCHANGED <<watchers, reader, got, joined>>
    BY <1>4 DEF Send
  <2>2. chan' \in [Watchers -> Seq(Event)]
    <3>1. event[c] \in Event
      BY <1>0 DEF CallTypes
    <3>2. chan[w] \in Seq(Event) /\ Append(chan[w], event[c]) \in Seq(Event)
      BY <1>0, <3>1 DEF WatchTypes
    <3> QED BY <1>0, <2>1, <3>2 DEF WatchTypes
  <2>3. dropped' \in [Watchers -> BOOLEAN]
    BY <1>0, <2>1, Zenon DEF WatchTypes
  <2> QED BY <1>0, <2>1, <2>2, <2>3 DEF WatchTypes
<1>5. ASSUME NEW w \in Watchers, Subscribe(w) PROVE WatchTypes'
  <2> DEFINE i == ItemOf[w]
  <2>1. i \in Items
    BY AuctionConstants
  <2>2. /\ reader' = [reader EXCEPT ![w] = "in"] /\ watchers' = [watchers EXCEPT ![i] = @ \cup {w}]
        /\ joined' = [joined EXCEPT ![w] = Len(log[i])] /\ UNCHANGED <<chan, got, dropped>>
    BY <1>5 DEF Subscribe
  <2>3. Len(log[i]) \in Nat
    <3>1. log[i] \in Seq(Event)
      BY <1>0, <2>1 DEF ItemTypes
    <3> QED BY <3>1
  <2>4. joined' \in [Watchers -> Nat]
    BY <1>0, <2>2, <2>3 DEF WatchTypes
  <2>5. watchers' \in [Items -> SUBSET Watchers]
    BY <1>0, <2>2 DEF WatchTypes
  <2>6. reader' \in [Watchers -> {"new", "in", "gone"}]
    BY <1>0, <2>2 DEF WatchTypes
  <2> QED BY <1>0, <2>2, <2>4, <2>5, <2>6 DEF WatchTypes
<1>6. ASSUME NEW w \in Watchers, Receive(w) PROVE WatchTypes'
  <2>1. /\ got' = [got EXCEPT ![w] = Append(@, Head(chan[w]))]
        /\ chan' = [chan EXCEPT ![w] = Tail(@)] /\ chan[w] # <<>>
        /\ UNCHANGED <<watchers, reader, joined, dropped>>
    BY <1>6 DEF Receive
  <2>2. chan[w] \in Seq(Event) /\ got[w] \in Seq(Event)
    BY <1>0 DEF WatchTypes
  <2>3. Head(chan[w]) \in Event /\ Tail(chan[w]) \in Seq(Event)
    BY <2>1, <2>2, HeadTailProperties
  <2>4. Append(got[w], Head(chan[w])) \in Seq(Event)
    BY <2>2, <2>3
  <2>5. got' \in [Watchers -> Seq(Event)]
    BY <1>0, <2>1, <2>4 DEF WatchTypes
  <2>6. chan' \in [Watchers -> Seq(Event)]
    BY <1>0, <2>1, <2>3 DEF WatchTypes
  <2> QED BY <1>0, <2>1, <2>5, <2>6 DEF WatchTypes
<1>7. ASSUME NEW w \in Watchers, Unsubscribe(w) PROVE WatchTypes'
  <2>1. /\ reader' = [reader EXCEPT ![w] = "gone"]
        /\ watchers' = [watchers EXCEPT ![ItemOf[w]] = @ \ {w}]
        /\ chan' = [chan EXCEPT ![w] = <<>>] /\ got' = [got EXCEPT ![w] = <<>>]
        /\ joined' = [joined EXCEPT ![w] = 0] /\ dropped' = [dropped EXCEPT ![w] = FALSE]
    BY <1>7 DEF Unsubscribe
  <2>2. <<>> \in Seq(Event)
    OBVIOUS
  <2>3. chan' \in [Watchers -> Seq(Event)] /\ got' \in [Watchers -> Seq(Event)]
    BY <1>0, <2>1, <2>2 DEF WatchTypes
  <2>4. joined' \in [Watchers -> Nat] /\ reader' \in [Watchers -> {"new", "in", "gone"}]
    BY <1>0, <2>1 DEF WatchTypes
  <2>5. dropped' \in [Watchers -> BOOLEAN]
    BY <1>0, <2>1, Zenon DEF WatchTypes
  <2>6. watchers' \in [Items -> SUBSET Watchers]
    BY <1>0, <2>1 DEF WatchTypes
  <2> QED BY <2>3, <2>4, <2>5, <2>6 DEF WatchTypes
<1> QED BY <1>1, <1>2, <1>3, <1>4, <1>5, <1>6, <1>7 DEF Next, Serve

\* Every step keeps the types of windows, statuses and logs.
LEMMA ItemTypesNext ==
  ASSUME TypeOK, Held, Books, Next
  PROVE  ItemTypes'
<1>0. ItemTypes
  BY Types
<1>1. CASE UNCHANGED <<window, status, log>>
  BY <1>0, <1>1 DEF ItemTypes
<1>a. ASSUME NEW c \in Calls, NEW bid, NEW action, Announce(c, bid, action)
      PROVE  log' \in [Items -> Seq(Event)]
  <2>1. event'[c] \in Event
    BY CallTypesNext DEF CallTypes
  <2>2. log' = [log EXCEPT ![req[c].item] = Append(@, event'[c])]
    BY <1>a DEF Announce
  <2>3. log \in [Items -> Seq(Event)] /\ \A i \in Items : Append(log[i], event'[c]) \in Seq(Event)
    BY <1>0, <2>1 DEF ItemTypes
  <2> QED BY <2>2, <2>3
<1>2. ASSUME NEW i \in Items, CreateItem(i) PROVE ItemTypes'
  BY <1>0, <1>2 DEF ItemTypes, CreateItem
<1>3. ASSUME NEW i \in Items, TimePasses(i) PROVE ItemTypes'
  BY <1>0, <1>3 DEF ItemTypes, TimePasses
<1>4. ASSUME NEW c \in Calls, EnterBid(c) \/ RetractBid(c) PROVE ItemTypes'
  BY <1>0, <1>4, <1>a DEF ItemTypes, EnterBid, RetractBid
<1>5. ASSUME NEW c \in Calls, EndAuction(c) PROVE ItemTypes'
  <2>1. CASE status[req[c].item] # "active"
    BY <1>1, <1>5, <2>1 DEF EndAuction
  <2>2. CASE status[req[c].item] = "active"
    <3>1. /\ status' = [status EXCEPT ![req[c].item] = "ended"] /\ window' = window
          /\ Announce(c, current'[req[c].item], "ended")
      BY <1>5, <2>2 DEF EndAuction
    <3> QED BY <1>0, <1>a, <3>1 DEF ItemTypes
  <2> QED BY <2>1, <2>2
<1>6. ASSUME NEW c \in Calls, \/ Call(c) \/ LockItem(c) \/ Validate(c) \/ NothingToRetract(c)
                              \/ Snapshot(c) \/ (\E w \in Watchers : Send(c, w)) \/ Finish(c)
      PROVE  UNCHANGED <<window, status, log>>
  BY <1>6 DEF Call, LockItem, Validate, NothingToRetract, Snapshot, Send, Finish
<1>7. ASSUME NEW w \in Watchers, Subscribe(w) \/ Receive(w) \/ Unsubscribe(w)
      PROVE  UNCHANGED <<window, status, log>>
  BY <1>7 DEF Subscribe, Receive, Unsubscribe
<1> QED BY <1>1, <1>2, <1>3, <1>4, <1>5, <1>6, <1>7 DEF Next, Serve

-----------------------------------------------------------------------------
(* The theorems. *)

IInv == TypeOK /\ Held /\ Books

\* Nothing has been entered and nobody calls.
LEMMA Initially ==
  ASSUME Init
  PROVE  IInv
<1>1. bids = <<>> /\ bids \in Seq(Bid) /\ Len(bids) = 0
  BY DEF Init
<1>2. NoEvent \in Event
  BY DEF NoEvent, Event, None
<1>3. BookTypes
  <2>1. \A T : <<>> \in Seq(T)
    OBVIOUS
  <2>2. 0 \in 0..Len(bids)
    BY <1>1
  <2> QED BY <1>1, <2>1, <2>2 DEF Init, BookTypes, None
<1>4. CallTypes
  BY <1>2 DEF Init, CallTypes
<1>5. WatchTypes
  <2>1. <<>> \in Seq(Event)
    OBVIOUS
  <2>2. dropped \in [Watchers -> BOOLEAN]
    BY Zenon DEF Init
  <2> QED BY <2>1, <2>2 DEF Init, WatchTypes
<1>6. ItemTypes
  <2>1. <<>> \in Seq(Event)
    OBVIOUS
  <2> QED BY <2>1 DEF Init, ItemTypes
<1>7. Held
  BY DEF Init, Held, HeldBy, Inside
<1>8. Books
  <2>1. Ids = {} /\ \A i \in Items : BidsOn(i) = {}
    BY <1>1 DEF Ids, BidsOn
  <2>2. ToSet(<<>>) = {} /\ Increasing(<<>>)
    BY DEF ToSet, Increasing
  <2>3. \A i \in Items : /\ current[i] = None /\ heap[i] = {} /\ history[i] = <<>>
                         /\ \A u \in Users : stack[u][i] = <<>>
    BY DEF Init
  <2>4. \A u \in Users : active[u] = <<>>
    BY DEF Init
  <2>5. BooksAgree
    BY <2>1, <2>2, <2>3, <2>4 DEF BooksAgree
  <2> QED BY <2>2, <2>3, <2>4, <2>5 DEF Books
<1> QED BY <1>3, <1>4, <1>5, <1>6, <1>7, <1>8, Types DEF IInv

\* The three parts together are inductive.
LEMMA Inductive ==
  ASSUME IInv, [Next]_vars
  PROVE  IInv'
<1>1. CASE Next
  <2>1. TypeOK /\ Held /\ Books
    BY DEF IInv
  <2>2. (BookTypes /\ WatchTypes /\ CallTypes /\ ItemTypes)'
    BY <1>1, <2>1, BookTypesNext, WatchTypesNext, CallTypesNext, ItemTypesNext
  <2>3. TypeOK'
    BY <2>2 DEF TypeOK, BookTypes, WatchTypes, CallTypes, ItemTypes
  <2> QED BY <1>1, <2>1, <2>3, HeldNext, BooksNext DEF IInv
<1>2. CASE UNCHANGED vars
  <2>1. TypeOK /\ Held /\ Books /\ UNCHANGED <<window, status, log>>
        /\ UNCHANGED bookVars /\ UNCHANGED watchVars /\ UNCHANGED callVars
    BY <1>2 DEF IInv, vars
  <2>2. TypeOK'
    BY <2>1 DEF TypeOK, bookVars, watchVars, callVars
  <2>3. Held'
    BY <2>1, HeldOutside
  <2> QED BY <2>1, <2>2, <2>3, BooksUnchanged DEF IInv
<1> QED BY <1>1, <1>2

\* Every variable of the auction keeps its type: bids are only ever named by their
\* IDs, and the books hold only IDs of bids entered.
THEOREM TypeCorrect == Spec => []TypeOK
<1>1. Init => IInv
  BY Initially
<1>2. IInv /\ [Next]_vars => IInv'
  BY Inductive
<1>3. IInv => TypeOK
  BY DEF IInv
<1> QED BY <1>1, <1>2, <1>3, PTL DEF Spec

\* The current bid of an item, and in the end its winner, is its highest bid not
\* retracted; and stacks, active bids, heaps and histories hold the bids they should.
THEOREM BooksConsistent == Spec => []BooksAgree
<1>1. Init => IInv
  BY Initially
<1>2. IInv /\ [Next]_vars => IInv'
  BY Inductive
<1>3. IInv => BooksAgree
  BY DEF IInv, Books
<1> QED BY <1>1, <1>2, <1>3, PTL DEF Spec

\* What a step may do to an item: only EnterBid lengthens a history.
LEMMA ItemStep ==
  ASSUME TypeOK, Held, Books, Next, NEW i \in Items
  PROVE  /\ Len(history'[i]) > Len(history[i]) => bids'[Last(history'[i])].amount > Price(i)
         /\ status[i] = "ended" =>
              /\ status'[i] = "ended" /\ current'[i] = current[i] /\ log'[i] = log[i]
<1>0. /\ history \in [Items -> Seq(1..Len(bids))] /\ status \in [Items -> {"absent", "active", "ended"}]
      /\ current \in [Items -> 0..Len(bids)] /\ log \in [Items -> Seq(Event)]
  BY DEF TypeOK
<1>a. CASE UNCHANGED <<history, status, current, log>>
  BY <1>0, <1>a
<1>b. \A h : h = Len(history[i]) => ~(h > h)
  <2>1. Len(history[i]) \in Nat
    BY <1>0
  <2> QED BY <2>1
<1>1. ASSUME NEW k \in Items, CreateItem(k)
      PROVE  UNCHANGED <<history, current, log>> /\ (status[i] = "ended" => status'[i] = "ended")
  BY <1>0, <1>1 DEF CreateItem, bookVars
<1>2. ASSUME NEW k \in Items, TimePasses(k) PROVE UNCHANGED <<history, status, current, log>>
  BY <1>2 DEF TimePasses, bookVars
<1>3. ASSUME NEW c \in Calls, \/ Call(c) \/ LockItem(c) \/ Validate(c) \/ NothingToRetract(c)
                              \/ Snapshot(c) \/ (\E w \in Watchers : Send(c, w)) \/ Finish(c)
      PROVE  UNCHANGED <<history, status, current, log>>
  BY <1>3 DEF Call, LockItem, Validate, NothingToRetract, Snapshot, Send, Finish, bookVars
<1>4. ASSUME NEW w \in Watchers, Subscribe(w) \/ Receive(w) \/ Unsubscribe(w)
      PROVE  UNCHANGED <<history, status, current, log>>
  BY <1>4 DEF Subscribe, Receive, Unsubscribe, bookVars
<1>5. ASSUME NEW c \in Calls, EnterBid(c)
      PROVE  /\ Len(history'[i]) > Len(history[i]) => bids'[Last(history'[i])].amount > Price(i)
             /\ status[i] = "ended" =>
                  /\ status'[i] = "ended" /\ current'[i] = current[i] /\ log'[i] = log[i]
  <2> DEFINE k  == req[c].item
             id == Len(bids) + 1
  <2>1. /\ k \in Items /\ id \in Nat /\ bids'[id].amount = req[c].amount
        /\ history' = [history EXCEPT ![k] = Append(@, id)]
        /\ current' = [current EXCEPT ![k] = id]
        /\ status[k] = "active" /\ req[c].amount > Price(k)
    BY <1>5, EnterFacts
  <2>2. log' = [log EXCEPT ![k] = Append(@, event'[c])] /\ status' = status
    BY <1>5 DEF EnterBid, Announce
  <2> HIDE DEF k, id
  <2>3. CASE i = k
    <3>1. history'[i] = Append(history[i], id) /\ history[i] \in Seq(1..Len(bids))
      BY <1>0, <2>1, <2>3
    <3>2. Last(history'[i]) = id
      <4>1. /\ Append(history[i], id)[Len(history[i]) + 1] = id
            /\ Len(Append(history[i], id)) = Len(history[i]) + 1
        BY <3>1
      <4> QED BY <3>1, <4>1 DEF Last
    <3>3. bids'[Last(history'[i])].amount > Price(i)
      BY <2>1, <2>3, <3>2
    <3> QED BY <2>1, <2>3, <3>3
  <2>4. CASE i # k
    <3>1. history'[i] = history[i] /\ current'[i] = current[i] /\ log'[i] = log[i]
      BY <1>0, <2>1, <2>2, <2>4
    <3> QED BY <1>b, <2>2, <3>1
  <2> QED BY <2>3, <2>4
<1>6. ASSUME NEW c \in Calls, RetractBid(c)
      PROVE  /\ history' = history
             /\ status[i] = "ended" =>
                  /\ status'[i] = "ended" /\ current'[i] = current[i] /\ log'[i] = log[i]
  <2> DEFINE k == req[c].item
  <2>1. k \in Items /\ Settle(k, bids') /\ history' = history /\ status[k] = "active"
    BY <1>6, RetractFacts
  <2>2. log' = [log EXCEPT ![k] = Append(@, event'[c])] /\ status' = status
    BY <1>6 DEF RetractBid, Announce
  <2>3. current' = [current EXCEPT ![k] = current'[k]]
    <3> HIDE DEF k
    <3>1. \A j \in Items : j = k => current' = [current EXCEPT ![j] = current'[j]]
      BY <2>1, SettleFacts
    <3> QED BY <2>1, <3>1
  <2> HIDE DEF k
  <2>4. ASSUME status[i] = "ended" PROVE status'[i] = "ended" /\ current'[i] = current[i] /\ log'[i] = log[i]
    <3>1. i # k
      BY <2>1, <2>4
    <3> QED BY <1>0, <2>2, <2>3, <2>4, <3>1
  <2> QED BY <2>1, <2>4
<1>7. ASSUME NEW c \in Calls, EndAuction(c)
      PROVE  /\ history' = history
             /\ status[i] = "ended" =>
                  /\ status'[i] = "ended" /\ current'[i] = current[i] /\ log'[i] = log[i]
  <2> DEFINE k == req[c].item
  <2>1. history' = history /\ k \in Items
    BY <1>7, Asked DEF EndAuction, Inside
  <2>2. CASE status[k] # "active"
    BY <1>7, <2>1, <2>2 DEF EndAuction
  <2>3. CASE status[k] = "active"
    <3>1. /\ Settle(k, bids) /\ status' = [status EXCEPT ![k] = "ended"]
          /\ log' = [log EXCEPT ![k] = Append(@, event'[c])]
      BY <1>7, <2>3 DEF EndAuction, Announce
    <3>2. current' = [current EXCEPT ![k] = current'[k]]
      <4> HIDE DEF k
      <4>1. \A j \in Items : j = k => current' = [current EXCEPT ![j] = current'[j]]
        BY <3>1, SettleFacts
      <4> QED BY <2>1, <4>1
    <3> HIDE DEF k
    <3> QED BY <1>0, <2>1, <2>3, <3>1, <3>2
  <2> QED BY <2>2, <2>3
<1>8. ASSUME history' = history,
             status[i] = "ended" =>
               /\ status'[i] = "ended" /\ current'[i] = current[i] /\ log'[i] = log[i]
      PROVE  /\ Len(history'[i]) > Len(history[i]) => bids'[Last(history'[i])].amount > Price(i)
             /\ status[i] = "ended" =>
                  /\ status'[i] = "ended" /\ current'[i] = current[i] /\ log'[i] = log[i]
  BY <1>8, <1>b
<1> QED BY <1>a, <1>1, <1>2, <1>3, <1>4, <1>5, <1>6, <1>7, <1>8 DEF Next, Serve

\* A bid enters only above the price of that moment, although it was compared in an
\* earlier critical section, and nothing about an item changes once it has ended.
THEOREM PricesRise == Spec => PricesRiseUntilEnd
<1> DEFINE Rise == \A i \in Items :
             /\ Len(history'[i]) > Len(history[i]) => bids'[Last(history'[i])].amount > Price(i)
             /\ status[i] = "ended" =>
                  /\ status'[i] = "ended" /\ current'[i] = current[i] /\ log'[i] = log[i]
<1>1. Init => IInv
  BY Initially
<1>2. IInv /\ [Next]_vars => IInv'
  BY Inductive
<1>3. IInv /\ [Next]_vars => [Rise]_vars
  BY ItemStep DEF IInv
<1> QED BY <1>1, <1>2, <1>3, PTL DEF Spec, PricesRiseUntilEnd

-----------------------------------------------------------------------------
(* Watchers. *)

Hears(w, e) == e \in ToSet(Delivered(w))

\* What c has logged and not yet tried to send to w.
Unsent(c, w) == (pc[c] = "snapshot" /\ ItemOf[w] = req[c].item) \/ w \in sendTo[c]

Distinct(s) == \A j, k \in DOMAIN s : s[j] = s[k] => j = k

\* d holds elements of s only, in the order of s.
Ordered(d, s) ==
  /\ ToSet(d) \subseteq ToSet(s)
  /\ \A j, k \in DOMAIN d : j < k => Position(d[j], s) < Position(d[k], s)

\* An item's log holds no event twice: a bid enters once and is retracted once, and an
\* item ends once. The call that publishes has logged its event last.
Logged ==
  /\ \A i \in Items : Distinct(log[i])
  /\ \A i \in Items : \A e \in ToSet(log[i]) :
       /\ e.action \in {"placed", "retracted"} => e.bid \in Ids
       /\ e.action = "retracted" => bids[e.bid].retracted
       /\ e.action = "ended" => status[i] = "ended"
  /\ \A c \in Calls : pc[c] \in {"snapshot", "send"} =>
       log[req[c].item] # <<>> /\ event[c] = Last(log[req[c].item])

\* Who watches, and what is still to be sent.
Watching ==
  /\ \A w \in Watchers : reader[w] # "in" => got[w] = <<>> /\ chan[w] = <<>>
  /\ \A i \in Items : watchers[i] = {w \in Watchers : ItemOf[w] = i /\ reader[w] = "in"}
  /\ \A c \in Calls : pc[c] # "send" => sendTo[c] = {}
  /\ \A c \in Calls : \A w \in sendTo[c] : ItemOf[w] = req[c].item /\ reader[w] # "new"
  /\ \A c \in Calls : \A w \in Watchers : Unsent(c, w) => ~Hears(w, event[c])

\* Only the last event may be missing, while its call has still to send it.
Complete ==
  \A w \in Watchers : \A i \in Items :
    ItemOf[w] = i /\ reader[w] = "in" /\ ~dropped[w] =>
      \A k \in (joined[w] + 1)..Len(log[i]) :
        \/ Hears(w, log[i][k])
        \/ k = Len(log[i]) /\ \E c \in Calls : lock[i] = c /\ Unsent(c, w)

\* What has been delivered is in the log, in the log's order.
InOrder == \A w \in Watchers : Ordered(Delivered(w), log[ItemOf[w]])

Feeds == Logged /\ Watching /\ Complete /\ InOrder

\* In a sequence without repetitions every element has one place, which appending keeps.
LEMMA PositionFacts ==
  ASSUME NEW S, NEW s \in Seq(S), Distinct(s)
  PROVE  \A k \in 1..Len(s) : Position(s[k], s) = k
<1>1. DOMAIN s = 1..Len(s)
  OBVIOUS
<1>2. ASSUME NEW k \in 1..Len(s) PROVE Position(s[k], s) = k
  <2>1. \E j \in DOMAIN s : s[j] = s[k]
    BY <1>1
  <2>2. Position(s[k], s) \in DOMAIN s /\ s[Position(s[k], s)] = s[k]
    BY <2>1 DEF Position
  <2> QED BY <1>1, <2>2 DEF Distinct
<1> QED BY <1>2

LEMMA DistinctAppend ==
  ASSUME NEW S, NEW s \in Seq(S), NEW x \in S, Distinct(s), x \notin ToSet(s)
  PROVE  Distinct(Append(s, x)) /\ ToSet(Append(s, x)) = ToSet(s) \cup {x}
<1> DEFINE new == Append(s, x)
<1>1. /\ Len(s) \in Nat /\ DOMAIN s = 1..Len(s) /\ DOMAIN new = 1..(Len(s) + 1)
      /\ new[Len(s) + 1] = x /\ \A k \in 1..Len(s) : new[k] = s[k] /\ s[k] \in ToSet(s)
  BY DEF ToSet
<1> HIDE DEF new
<1>2. ToSet(new) = ToSet(s) \cup {x}
  <2>1. \A k \in 1..(Len(s) + 1) : k \in 1..Len(s) \/ k = Len(s) + 1
    BY <1>1
  <2>2. \A k \in 1..Len(s) : k \in 1..(Len(s) + 1)
    BY <1>1
  <2>3. Len(s) + 1 \in 1..(Len(s) + 1)
    BY <1>1
  <2>4. ToSet(new) = {new[k] : k \in 1..(Len(s) + 1)} /\ ToSet(s) = {s[k] : k \in 1..Len(s)}
    BY <1>1 DEF ToSet
  <2> QED BY <1>1, <2>1, <2>2, <2>3, <2>4
<1>3. ASSUME NEW j \in 1..(Len(s) + 1), NEW k \in 1..(Len(s) + 1), new[j] = new[k] PROVE j = k
  <2>1. CASE j \in 1..Len(s) /\ k \in 1..Len(s)
    BY <1>1, <1>3, <2>1 DEF Distinct
  <2>2. CASE j = Len(s) + 1 \/ k = Len(s) + 1
    <3>1. ~(j \in 1..Len(s)) /\ ~(k \in 1..Len(s))
      BY <1>1, <1>3, <2>2
    <3> QED BY <1>1, <3>1
  <2> QED BY <1>1, <2>1, <2>2
<1> QED BY <1>1, <1>2, <1>3 DEF Distinct, new

\* The log grows: what was in order still is.
LEMMA OrderedLog ==
  ASSUME NEW S, NEW s \in Seq(S), NEW x \in S, NEW d \in Seq(S),
         Distinct(s), x \notin ToSet(s), Ordered(d, s)
  PROVE  Ordered(d, Append(s, x))
<1>1. Distinct(Append(s, x)) /\ ToSet(Append(s, x)) = ToSet(s) \cup {x}
  BY DistinctAppend
<1>2. ASSUME NEW y \in ToSet(s) PROVE Position(y, Append(s, x)) = Position(y, s)
  <2>1. PICK k \in 1..Len(s) : y = s[k]
    BY DEF ToSet
  <2>2. /\ Append(s, x) \in Seq(S) /\ Append(s, x)[k] = y /\ k \in 1..Len(Append(s, x))
    BY <2>1
  <2>3. Position(Append(s, x)[k], Append(s, x)) = k
    BY <1>1, <2>2, PositionFacts
  <2>4. Position(s[k], s) = k
    BY PositionFacts
  <2> QED BY <2>1, <2>2, <2>3, <2>4
<1>3. \A j \in DOMAIN d : d[j] \in ToSet(s)
  BY DEF Ordered, ToSet
<1>4. \A j \in DOMAIN d : Position(d[j], Append(s, x)) = Position(d[j], s)
  BY <1>2, <1>3
<1> QED BY <1>1, <1>4 DEF Ordered

\* The log's last event is sent: it comes after everything sent before.
LEMMA OrderedSend ==
  ASSUME NEW S, NEW s \in Seq(S), NEW d \in Seq(S), Distinct(s), s # <<>>,
         Last(s) \notin ToSet(d), Ordered(d, s)
  PROVE  Ordered(Append(d, Last(s)), s) /\ ToSet(Append(d, Last(s))) = ToSet(d) \cup {Last(s)}
<1> DEFINE n == Len(s)
           m == Len(d)
           new == Append(d, s[n])
<1>1. n \in Nat \ {0} /\ n \in 1..n /\ s[n] \in S /\ Last(s) = s[n] /\ m \in Nat
  BY DEF Last
<1>2. /\ DOMAIN d = 1..m /\ DOMAIN new = 1..(m + 1) /\ new[m + 1] = s[n]
      /\ \A j \in 1..m : new[j] = d[j] /\ d[j] \in ToSet(d)
  BY <1>1 DEF ToSet
<1>3. s[n] \in ToSet(s)
  BY <1>1 DEF ToSet
<1> HIDE DEF n, m, new
<1>4. \A j \in 1..(m + 1) : j \in 1..m \/ j = m + 1
  BY <1>1
<1>5. ToSet(new) = ToSet(d) \cup {s[n]}
  <2>1. \A k \in 1..m : k \in 1..(m + 1)
    BY <1>1
  <2>2. m + 1 \in 1..(m + 1)
    BY <1>1
  <2>3. ToSet(new) = {new[k] : k \in 1..(m + 1)} /\ ToSet(d) = {d[k] : k \in 1..m}
    BY <1>2 DEF ToSet
  <2> QED BY <1>2, <1>4, <2>1, <2>2, <2>3
<1>6. Position(s[n], s) = n
  BY <1>1, PositionFacts DEF n
<1>7. ASSUME NEW y \in ToSet(d) PROVE Position(y, s) < n
  <2>1. PICK k \in 1..n : y = s[k]
    <3>1. DOMAIN s = 1..n /\ y \in ToSet(s)
      BY DEF Ordered, n
    <3> QED BY <3>1 DEF ToSet
  <2>2. Position(s[k], s) = k
    BY PositionFacts DEF n
  <2>3. k # n
    BY <1>1, <2>1
  <2> QED BY <1>1, <2>1, <2>2, <2>3
<1>8. ASSUME NEW j \in 1..(m + 1), NEW k \in 1..(m + 1), j < k
      PROVE  Position(new[j], s) < Position(new[k], s)
  <2>1. j \in 1..m
    BY <1>1, <1>8
  <2>2. CASE k \in 1..m
    BY <1>2, <1>8, <2>1, <2>2 DEF Ordered
  <2>3. CASE k = m + 1
    BY <1>2, <1>6, <1>7, <2>1, <2>3
  <2> QED BY <1>4, <2>2, <2>3
<1>9. ToSet(new) \subseteq ToSet(s)
  BY <1>3, <1>5 DEF Ordered
<1>10. new = Append(d, Last(s))
  BY <1>1 DEF new
<1> QED BY <1>1, <1>2, <1>5, <1>8, <1>9, <1>10 DEF Ordered

\* Steps that neither log, nor publish, nor change who watches, but may release a mutex.
LEMMA FeedsQuiet ==
  ASSUME TypeOK, Feeds, UNCHANGED <<bids, log, watchVars, sendTo>>,
         \A i \in Items : status[i] = "ended" => status'[i] = "ended",
         \A c \in Calls :
           /\ pc[c] = "snapshot" <=> pc'[c] = "snapshot"
           /\ pc'[c] = "send" => pc[c] = "send"
           /\ pc[c] = "send" /\ pc'[c] # "send" => sendTo[c] = {}
           /\ pc'[c] \in {"snapshot", "send"} => req'[c] = req[c] /\ event'[c] = event[c],
         \A c \in Calls, i \in Items :
           lock[i] = c /\ lock'[i] # c => pc[c] # "snapshot" /\ sendTo[c] = {}
  PROVE  Feeds'
<1>0. Logged /\ Watching /\ Complete /\ InOrder
  BY DEF Feeds
<1>1. /\ log' = log /\ bids' = bids /\ sendTo' = sendTo
      /\ watchers' = watchers /\ chan' = chan /\ reader' = reader /\ got' = got /\ joined' = joined
      /\ dropped' = dropped
  BY DEF watchVars
<1>2. \A w \in Watchers : Delivered(w)' = Delivered(w)
  BY <1>1 DEF Delivered
<1>3. \A w \in Watchers : ToSet(Delivered(w))' = ToSet(Delivered(w))
  BY <1>1 DEF Delivered, ToSet
<1>4. Logged'
  <2>1. Ids' = Ids
    BY <1>1 DEF Ids
  <2>2. \A i \in Items : Distinct(log[i])'
    BY <1>0, <1>1 DEF Logged, Distinct
  <2>3. \A i \in Items : ToSet(log[i])' = ToSet(log[i])
    BY <1>1 DEF ToSet
  <2>4. ASSUME NEW c \in Calls, pc'[c] \in {"snapshot", "send"}
        PROVE  log'[req'[c].item] # <<>> /\ event'[c] = Last(log'[req'[c].item])
    <3>1. pc[c] \in {"snapshot", "send"} /\ req'[c] = req[c] /\ event'[c] = event[c]
      BY <2>4
    <3> QED BY <1>0, <1>1, <3>1 DEF Logged
  <2> QED BY <1>0, <1>1, <2>1, <2>2, <2>3, <2>4 DEF Logged, Last
<1>5. ASSUME NEW c \in Calls, NEW w \in Watchers, Unsent(c, w)'
      PROVE  Unsent(c, w) /\ req'[c] = req[c] /\ event'[c] = event[c]
  <2>1. CASE pc'[c] = "snapshot"
    BY <1>1, <1>5, <2>1 DEF Unsent
  <2>2. CASE pc'[c] # "snapshot"
    <3>1. w \in sendTo[c]
      BY <1>1, <1>5, <2>2 DEF Unsent
    <3>2. pc'[c] = "send"
      BY <1>0, <3>1 DEF Watching
    <3> QED BY <3>1, <3>2 DEF Unsent
  <2> QED BY <2>1, <2>2
<1>6. Watching'
  <2>1. ASSUME NEW c \in Calls, pc'[c] # "send" PROVE sendTo'[c] = {}
    BY <1>0, <1>1, <2>1 DEF Watching
  <2>2. ASSUME NEW c \in Calls, NEW w \in sendTo'[c]
        PROVE  ItemOf[w] = req'[c].item /\ reader'[w] # "new"
    <3>1. pc[c] = "send" /\ pc'[c] = "send" /\ ItemOf[w] = req[c].item /\ reader'[w] # "new"
      BY <1>0, <1>1, <2>2 DEF Watching
    <3> QED BY <3>1
  <2>3. ASSUME NEW c \in Calls, NEW w \in Watchers, Unsent(c, w)' PROVE ~Hears(w, event[c])'
    <3>1. ~Hears(w, event[c]) /\ event'[c] = event[c]
      BY <1>0, <1>5, <2>3 DEF Watching
    <3> QED BY <1>3, <3>1 DEF Hears
  <2> QED BY <1>0, <1>1, <2>1, <2>2, <2>3 DEF Watching
<1>7. Complete'
  <2> SUFFICES ASSUME NEW w \in Watchers, NEW i \in Items,
                      ItemOf[w] = i, reader'[w] = "in", ~dropped'[w],
                      NEW k \in (joined'[w] + 1)..Len(log'[i])
               PROVE  \/ Hears(w, log[i][k])'
                      \/ k = Len(log'[i]) /\ \E c \in Calls : lock'[i] = c /\ Unsent(c, w)'
    BY DEF Complete
  <2>0. reader[w] = "in" /\ ~dropped[w] /\ k \in (joined[w] + 1)..Len(log[i])
    BY <1>1
  <2>1. CASE Hears(w, log[i][k])
    BY <1>1, <1>3, <2>1 DEF Hears
  <2>2. CASE k = Len(log[i]) /\ \E c \in Calls : lock[i] = c /\ Unsent(c, w)
    <3>1. PICK c \in Calls : lock[i] = c /\ Unsent(c, w)
      BY <2>2
    <3>2. lock'[i] = c
      BY <3>1 DEF Unsent
    <3>3. Unsent(c, w)'
      BY <1>1, <3>1 DEF Unsent
    <3> QED BY <1>1, <2>2, <3>2, <3>3
  <2>3. \/ Hears(w, log[i][k])
        \/ k = Len(log[i]) /\ \E c \in Calls : lock[i] = c /\ Unsent(c, w)
    BY <1>0, <2>0 DEF Complete
  <2> QED BY <2>1, <2>2, <2>3
<1>8. InOrder'
  BY <1>0, <1>1, <1>2 DEF InOrder, Ordered, ToSet, Position
<1> QED BY <1>4, <1>6, <1>7, <1>8 DEF Feeds

\* A call logs its event, which is new, and has yet to send it to everyone.
LEMMA FeedsAnnounce ==
  ASSUME TypeOK, Held, Feeds, NEW c \in Calls, NEW i \in Items, NEW e \in Event,
         i = req[c].item, lock[i] = c, pc[c] = "change",
         log' = [log EXCEPT ![i] = Append(@, e)], event' = [event EXCEPT ![c] = e],
         pc' = [pc EXCEPT ![c] = "snapshot"], UNCHANGED <<lock, req, sendTo, watchVars>>,
         \/ e.action = "placed" /\ e.bid \notin Ids
         \/ e.action = "retracted" /\ ~bids[e.bid].retracted
         \/ e.action = "ended" /\ status[i] # "ended",
         e.action \in {"placed", "retracted"} => e.bid \in Ids',
         e.action = "retracted" => bids'[e.bid].retracted,
         e.action = "ended" => status'[i] = "ended",
         \A x \in Ids : x \in Ids' /\ (bids[x].retracted => bids'[x].retracted),
         \A k \in Items : status[k] = "ended" => status'[k] = "ended"
  PROVE  Feeds'
<1>0. Logged /\ Watching /\ Complete /\ InOrder
  BY DEF Feeds
<1>1. /\ sendTo' = sendTo /\ lock' = lock /\ req' = req
      /\ watchers' = watchers /\ chan' = chan /\ reader' = reader /\ got' = got /\ joined' = joined
      /\ dropped' = dropped
  BY DEF watchVars
<1>2. /\ log \in [Items -> Seq(Event)] /\ log[i] \in Seq(Event)
      /\ pc \in [Calls -> {"idle", "lock", "validate", "change", "snapshot", "send"}]
      /\ event \in [Calls -> Event] /\ chan \in [Watchers -> Seq(Event)] /\ got \in [Watchers -> Seq(Event)]
      /\ reader \in [Watchers -> {"new", "in", "gone"}] /\ joined \in [Watchers -> Nat]
  BY DEF TypeOK
<1>3. \A w \in Watchers : /\ Delivered(w)' = Delivered(w)
                          /\ ToSet(Delivered(w))' = ToSet(Delivered(w)) /\ Delivered(w) \in Seq(Event)
  <2>1. ASSUME NEW w \in Watchers
        PROVE  /\ Delivered(w)' = Delivered(w)
               /\ ToSet(Delivered(w))' = ToSet(Delivered(w))
    BY <1>1 DEF Delivered, ToSet
  <2>2. ASSUME NEW w \in Watchers PROVE Delivered(w) \in Seq(Event)
    BY <1>2, ConcatProperties DEF Delivered
  <2> QED BY <2>1, <2>2
<1>4. e \notin ToSet(log[i])
  BY <1>0 DEF Logged
<1>5. Distinct(Append(log[i], e)) /\ ToSet(Append(log[i], e)) = ToSet(log[i]) \cup {e}
  BY <1>0, <1>2, <1>4, DistinctAppend DEF Logged
<1>6. /\ log'[i] = Append(log[i], e) /\ \A k \in Items : k # i => log'[k] = log[k]
      /\ pc'[c] = "snapshot" /\ event'[c] = e
      /\ \A d \in Calls : d # c => pc'[d] = pc[d] /\ event'[d] = event[d]
  BY <1>2
<1>7. /\ Len(log'[i]) = Len(log[i]) + 1 /\ Len(log[i]) \in Nat /\ log'[i][Len(log[i]) + 1] = e
      /\ \A k \in 1..Len(log[i]) : log'[i][k] = log[i][k]
  BY <1>2, <1>6
<1>8. Logged'
  <2>1. ASSUME NEW k \in Items PROVE Distinct(log[k])'
    <3>1. Distinct(log'[k])
      BY <1>0, <1>5, <1>6 DEF Logged
    <3> QED BY <3>1 DEF Distinct
  <2>2. ASSUME NEW k \in Items, NEW f \in ToSet(log[k])'
        PROVE  /\ f.action \in {"placed", "retracted"} => f.bid \in Ids'
               /\ f.action = "retracted" => bids'[f.bid].retracted
               /\ f.action = "ended" => status'[k] = "ended"
    <3>1. f \in ToSet(log'[k])
      BY <2>2 DEF ToSet
    <3>2. CASE f \in ToSet(log[k])
      BY <1>0, <3>2 DEF Logged
    <3>3. CASE k = i /\ f = e
      BY <3>3
    <3> QED BY <1>5, <1>6, <3>1, <3>2, <3>3
  <2>3. ASSUME NEW d \in Calls, pc'[d] \in {"snapshot", "send"}
        PROVE  log'[req'[d].item] # <<>> /\ event'[d] = Last(log'[req'[d].item])
    <3>1. CASE d = c
      <4>1. log'[i] # <<>> /\ Last(log'[i]) = e
        BY <1>7 DEF Last
      <4> QED BY <1>1, <1>6, <3>1, <4>1
    <3>2. CASE d # c
      <4>1. pc[d] \in {"snapshot", "send"} /\ event'[d] = event[d]
        BY <1>6, <2>3, <3>2
      <4>2. req[d].item \in Items /\ req[d].item # i
        BY <3>2, <4>1, Asked DEF Inside
      <4>3. log'[req[d].item] = log[req[d].item]
        BY <1>6, <4>2
      <4> QED BY <1>0, <1>1, <4>1, <4>3 DEF Logged
    <3> QED BY <3>1, <3>2
  <2> QED BY <2>1, <2>2, <2>3 DEF Logged, Last
<1>9. Watching'
  <2>1. ASSUME NEW d \in Calls, NEW w \in Watchers, Unsent(d, w)' PROVE ~Hears(w, event[d])'
    <3>1. CASE d = c
      <4>1. ItemOf[w] = i
        BY <1>0, <1>1, <1>6, <2>1, <3>1 DEF Unsent, Watching
      <4>2. e \notin ToSet(Delivered(w))
        BY <1>0, <1>4, <4>1 DEF InOrder, Ordered
      <4> QED BY <1>3, <1>6, <3>1, <4>2 DEF Hears
    <3>2. CASE d # c
      <4>1. Unsent(d, w)
        BY <1>1, <1>6, <2>1, <3>2 DEF Unsent
      <4>2. event[d] \notin ToSet(Delivered(w))
        BY <1>0, <4>1 DEF Watching, Hears
      <4> QED BY <1>3, <1>6, <3>2, <4>2 DEF Hears
    <3> QED BY <3>1, <3>2
  <2>2. ASSUME NEW d \in Calls, pc'[d] # "send" PROVE sendTo'[d] = {}
    BY <1>0, <1>1, <1>6, <2>2 DEF Watching
  <2> QED BY <1>0, <1>1, <2>1, <2>2 DEF Watching
<1>10. Complete'
  <2> SUFFICES ASSUME NEW w \in Watchers, NEW k \in Items,
                      ItemOf[w] = k, reader'[w] = "in", ~dropped'[w],
                      NEW n \in (joined'[w] + 1)..Len(log'[k])
               PROVE  \/ Hears(w, log[k][n])'
                      \/ n = Len(log'[k]) /\ \E d \in Calls : lock'[k] = d /\ Unsent(d, w)'
    BY DEF Complete
  <2>0. reader[w] = "in" /\ ~dropped[w]
    BY <1>1
  <2>1. CASE k = i
    <3>1. CASE n = Len(log[i]) + 1
      <4>1. Unsent(c, w)'
        BY <1>1, <1>6, <2>1 DEF Unsent
      <4> QED BY <1>1, <1>7, <2>1, <3>1, <4>1
    <3>2. CASE n # Len(log[i]) + 1
      <4>1. joined[w] \in Nat /\ joined'[w] = joined[w]
        BY <1>1, <1>2
      <4>2. n \in (joined[w] + 1)..Len(log[i]) /\ n \in 1..Len(log[i])
        BY <1>7, <2>1, <3>2, <4>1
      <4>3. ~Unsent(c, w)
        BY <1>0 DEF Unsent, Watching
      <4>4. Hears(w, log[i][n])
        BY <1>0, <2>0, <2>1, <4>2, <4>3 DEF Complete
      <4> QED BY <1>3, <1>7, <2>1, <4>2, <4>4 DEF Hears
    <3> QED BY <3>1, <3>2
  <2>2. CASE k # i
    <3>1. log'[k] = log[k]
      BY <1>6, <2>2
    <3>2. \/ Hears(w, log[k][n])
          \/ n = Len(log[k]) /\ \E d \in Calls : lock[k] = d /\ Unsent(d, w)
      BY <1>0, <1>1, <2>0, <3>1 DEF Complete
    <3>3. ASSUME NEW d \in Calls, lock[k] = d, Unsent(d, w) PROVE Unsent(d, w)'
      BY <1>1, <1>6, <3>3 DEF Unsent
    <3> QED BY <1>1, <1>3, <3>1, <3>2, <3>3 DEF Hears
  <2> QED BY <2>1, <2>2
<1>11. InOrder'
  <2>1. ASSUME NEW w \in Watchers PROVE Ordered(Delivered(w), log'[ItemOf[w]])
    <3>1. ItemOf[w] \in Items /\ Ordered(Delivered(w), log[ItemOf[w]])
      BY <1>0, AuctionConstants DEF InOrder
    <3>2. CASE ItemOf[w] = i
      <4>1. Ordered(Delivered(w), Append(log[i], e))
        BY <1>0, <1>2, <1>3, <1>4, <3>1, <3>2, OrderedLog DEF Logged
      <4> QED BY <1>6, <3>2, <4>1
    <3>3. CASE ItemOf[w] # i
      BY <1>6, <3>1, <3>3
    <3> QED BY <3>2, <3>3
  <2> QED BY <1>3, <2>1 DEF InOrder
<1> QED BY <1>8, <1>9, <1>10, <1>11 DEF Feeds

\* Everyone who watches the item is to be sent the event.
LEMMA FeedsSnapshot ==
  ASSUME TypeOK, Held, Feeds, NEW c \in Calls, Snapshot(c)
  PROVE  Feeds'
<1>0. Logged /\ Watching /\ Complete /\ InOrder
  BY DEF Feeds
<1>1. /\ log' = log /\ bids' = bids /\ lock' = lock /\ req' = req /\ event' = event /\ status' = status
      /\ watchers' = watchers /\ chan' = chan /\ reader' = reader /\ got' = got /\ joined' = joined
      /\ dropped' = dropped
      /\ pc[c] = "snapshot" /\ pc' = [pc EXCEPT ![c] = "send"]
      /\ sendTo' = [sendTo EXCEPT ![c] = watchers[req[c].item]]
  BY DEF Snapshot, watchVars, bookVars, Goto
<1>2. /\ pc \in [Calls -> {"idle", "lock", "validate", "change", "snapshot", "send"}]
      /\ sendTo \in [Calls -> SUBSET Watchers]
  BY DEF TypeOK
<1>3. \A w \in Watchers : ToSet(Delivered(w))' = ToSet(Delivered(w))
  BY <1>1 DEF Delivered, ToSet
<1>4. /\ pc'[c] = "send" /\ sendTo'[c] = watchers[req[c].item]
      /\ \A d \in Calls : d # c => pc'[d] = pc[d] /\ sendTo'[d] = sendTo[d]
  BY <1>1, <1>2
<1>5. req[c].item \in Items /\ \A w \in Watchers :
        w \in sendTo'[c] <=> ItemOf[w] = req[c].item /\ reader[w] = "in"
  <2>1. req[c].item \in Items
    BY <1>1, Asked DEF Inside
  <2> QED BY <1>0, <1>4, <2>1 DEF Watching
<1>6. Logged'
  <2>1. Ids' = Ids /\ \A i \in Items : Distinct(log[i])' /\ ToSet(log[i])' = ToSet(log[i])
    BY <1>0, <1>1 DEF Ids, Logged, Distinct, ToSet
  <2>2. ASSUME NEW d \in Calls, pc'[d] \in {"snapshot", "send"} PROVE pc[d] \in {"snapshot", "send"}
    BY <1>1, <1>4, <2>2
  <2> QED BY <1>0, <1>1, <2>1, <2>2 DEF Logged, Last
<1>7. \A d \in Calls, w \in Watchers : Unsent(d, w)' => Unsent(d, w)
  BY <1>1, <1>4, <1>5 DEF Unsent
<1>8. Watching'
  <2>1. ASSUME NEW d \in Calls, NEW w \in Watchers, Unsent(d, w)' PROVE ~Hears(w, event[d])'
    <3>1. ~Hears(w, event[d])
      BY <1>0, <1>7, <2>1 DEF Watching
    <3> QED BY <1>1, <1>3, <3>1 DEF Hears
  <2>2. ASSUME NEW d \in Calls, pc'[d] # "send" PROVE sendTo'[d] = {}
    BY <1>0, <1>4, <2>2 DEF Watching
  <2>3. ASSUME NEW d \in Calls, NEW w \in sendTo'[d]
        PROVE  ItemOf[w] = req'[d].item /\ reader'[w] # "new"
    <3>1. w \in Watchers
      BY <1>1, <1>2, <1>4, <1>5, <2>3 DEF Watching, TypeOK
    <3> QED BY <1>0, <1>1, <1>4, <1>5, <2>3, <3>1 DEF Watching
  <2> QED BY <1>0, <1>1, <2>1, <2>2, <2>3 DEF Watching
<1>9. Complete'
  <2> SUFFICES ASSUME NEW w \in Watchers, NEW i \in Items,
                      ItemOf[w] = i, reader'[w] = "in", ~dropped'[w],
                      NEW k \in (joined'[w] + 1)..Len(log'[i])
               PROVE  \/ Hears(w, log[i][k])'
                      \/ k = Len(log'[i]) /\ \E d \in Calls : lock'[i] = d /\ Unsent(d, w)'
    BY DEF Complete
  <2>1. \/ Hears(w, log[i][k])
        \/ k = Len(log[i]) /\ \E d \in Calls : lock[i] = d /\ Unsent(d, w)
    BY <1>0, <1>1 DEF Complete
  <2>2. ASSUME NEW d \in Calls, Unsent(d, w) PROVE Unsent(d, w)'
    <3>1. CASE d = c
      <4>1. ItemOf[w] = req[c].item
        BY <1>0, <2>2, <3>1 DEF Unsent, Watching
      <4> QED BY <1>1, <1>5, <3>1, <4>1 DEF Unsent
    <3>2. CASE d # c
      BY <1>1, <1>4, <2>2, <3>2 DEF Unsent
    <3> QED BY <3>1, <3>2
  <2> QED BY <1>1, <1>3, <2>1, <2>2 DEF Hears
<1>10. InOrder'
  <2>1. \A w \in Watchers : Delivered(w)' = Delivered(w)
    BY <1>1 DEF Delivered
  <2> QED BY <1>0, <1>1, <2>1 DEF InOrder
<1> QED BY <1>6, <1>8, <1>9, <1>10 DEF Feeds

\* What is behind the channel's last element is behind everything delivered.
LEMMA ConcatAppend ==
  ASSUME NEW S, NEW s \in Seq(S), NEW t \in Seq(S), NEW e \in S
  PROVE  s \o Append(t, e) = Append(s \o t, e)
<1>1. <<e>> \in Seq(S) /\ s \o t \in Seq(S)
  BY ConcatProperties
<1>2. (s \o t) \o <<e>> = s \o (t \o <<e>>)
  BY <1>1, ConcatAssociative
<1>3. Append(t, e) = t \o <<e>> /\ Append(s \o t, e) = (s \o t) \o <<e>>
  BY <1>1, AppendIsConcat
<1> QED BY <1>2, <1>3

\* Taking the channel's first element leaves what is delivered as it was.
LEMMA ConcatMove ==
  ASSUME NEW S, NEW s \in Seq(S), NEW t \in Seq(S), t # <<>>
  PROVE  Append(s, Head(t)) \o Tail(t) = s \o t
<1> DEFINE x == <<Head(t)>>
<1>1. Head(t) \in S /\ Tail(t) \in Seq(S) /\ x \in Seq(S)
  BY HeadTailProperties
<1>2. (s \o x) \o Tail(t) = s \o (x \o Tail(t))
  BY <1>1, ConcatAssociative
<1>3. Append(s, Head(t)) = s \o x
  BY <1>1, AppendIsConcat
<1>4. x \o Tail(t) = t
  OBVIOUS
<1> QED BY <1>2, <1>3, <1>4

\* The last event of the log is put behind what w has been sent, or dropped.
LEMMA FeedsSend ==
  ASSUME TypeOK, Held, Feeds, NEW c \in Calls, NEW w \in Watchers, Send(c, w)
  PROVE  Feeds'
<1>0. Logged /\ Watching /\ Complete /\ InOrder
  BY DEF Feeds
<1>1. /\ log' = log /\ bids' = bids /\ lock' = lock /\ req' = req /\ event' = event /\ status' = status
      /\ watchers' = watchers /\ reader' = reader /\ got' = got /\ joined' = joined
      /\ pc' = pc /\ pc[c] = "send" /\ w \in sendTo[c]
      /\ sendTo' = [sendTo EXCEPT ![c] = @ \ {w}]
      /\ \/ reader[w] = "gone" /\ chan' = chan /\ dropped' = dropped
         \/ reader[w] # "gone" /\ chan' = [chan EXCEPT ![w] = Append(@, event[c])] /\ dropped' = dropped
         \/ reader[w] # "gone" /\ chan' = chan /\ dropped' = [dropped EXCEPT ![w] = TRUE]
  BY DEF Send, bookVars
<1>2. /\ sendTo \in [Calls -> SUBSET Watchers] /\ chan \in [Watchers -> Seq(Event)]
      /\ got \in [Watchers -> Seq(Event)] /\ event[c] \in Event /\ log \in [Items -> Seq(Event)]
      /\ dropped \in [Watchers -> BOOLEAN] /\ reader \in [Watchers -> {"new", "in", "gone"}]
  BY DEF TypeOK
<1> DEFINE i == ItemOf[w]
<1>3. /\ i \in Items /\ i = req[c].item /\ lock[i] = c /\ event[c] = Last(log[i]) /\ log[i] # <<>>
      /\ event[c] \notin ToSet(Delivered(w))
  <2>1. req[c].item \in Items /\ lock[req[c].item] = c
    BY <1>1, Asked DEF Inside
  <2>2. i = req[c].item /\ ~Hears(w, event[c])
    BY <1>0, <1>1 DEF Watching, Unsent
  <2> QED BY <1>0, <1>1, <2>1, <2>2 DEF Logged, Hears
<1>4. \A v \in Watchers : v # w => Delivered(v)' = Delivered(v)
  <2>1. \A v \in Watchers : v # w => chan'[v] = chan[v]
    BY <1>1, <1>2
  <2> QED BY <1>1, <2>1 DEF Delivered
<1>5. /\ chan' = chan => Delivered(w)' = Delivered(w)
      /\ chan' = [chan EXCEPT ![w] = Append(@, event[c])] =>
           Delivered(w)' = Append(Delivered(w), event[c])
  <2>1. CASE chan' = chan
    <3>1. [chan EXCEPT ![w] = Append(@, event[c])] # chan
      <4>1. chan[w] \in Seq(Event) /\ Len(Append(chan[w], event[c])) # Len(chan[w])
        BY <1>2
      <4> QED BY <1>2, <4>1
    <3> QED BY <1>1, <2>1, <3>1 DEF Delivered
  <2>2. CASE chan' = [chan EXCEPT ![w] = Append(@, event[c])]
    <3>1. chan'[w] = Append(chan[w], event[c]) /\ chan[w] \in Seq(Event) /\ got[w] \in Seq(Event)
      BY <1>2, <2>2
    <3>2. got[w] \o Append(chan[w], event[c]) = Append(got[w] \o chan[w], event[c])
      BY <1>2, <3>1, ConcatAppend
    <3>3. chan' # chan
      <4>1. Len(Append(chan[w], event[c])) # Len(chan[w])
        BY <1>2, <3>1
      <4> QED BY <3>1, <4>1
    <3> QED BY <1>1, <3>1, <3>2, <3>3 DEF Delivered
  <2> QED BY <1>1, <2>1, <2>2
<1>6. /\ Ordered(Delivered(w), log[i]) /\ Distinct(log[i]) /\ log[i] \in Seq(Event)
      /\ Delivered(w) \in Seq(Event)
  <2>1. got[w] \in Seq(Event) /\ chan[w] \in Seq(Event)
    BY <1>2
  <2> QED BY <1>0, <1>2, <1>3, <2>1, ConcatProperties DEF InOrder, Logged, Delivered
<1>7. /\ Ordered(Append(Delivered(w), event[c]), log[i])
      /\ ToSet(Append(Delivered(w), event[c])) = ToSet(Delivered(w)) \cup {event[c]}
  <2> HIDE DEF i
  <2>1. /\ Last(log[i]) \notin ToSet(Delivered(w)) /\ log[i] # <<>> /\ event[c] = Last(log[i])
    BY <1>3
  <2> QED BY <1>6, <2>1, OrderedSend
<1>8. /\ \A v \in Watchers : ToSet(Delivered(v)) \subseteq ToSet(Delivered(v))'
      /\ \A v \in Watchers : v # w => ToSet(Delivered(v))' = ToSet(Delivered(v))
  <2>1. \A v \in Watchers : v # w => ToSet(Delivered(v)') = ToSet(Delivered(v))
    BY <1>4
  <2>2. ToSet(Delivered(w)) \subseteq ToSet(Delivered(w)')
    <3>1. Delivered(w)' = Delivered(w) \/ Delivered(w)' = Append(Delivered(w), event[c])
      BY <1>1, <1>5
    <3> QED BY <1>7, <3>1
  <2> QED BY <2>1, <2>2
<1>9. \A d \in Calls : /\ d # c => sendTo'[d] = sendTo[d]
                       /\ d = c => sendTo'[d] = sendTo[d] \ {w}
  BY <1>1, <1>2
<1>10. Logged'
  <2>1. Ids' = Ids /\ \A k \in Items : Distinct(log[k])' /\ ToSet(log[k])' = ToSet(log[k])
    BY <1>0, <1>1 DEF Ids, Logged, Distinct, ToSet
  <2> QED BY <1>0, <1>1, <2>1 DEF Logged, Last
<1>11. Watching'
  <2>1. ASSUME NEW d \in Calls, NEW v \in Watchers, Unsent(d, v)' PROVE ~Hears(v, event[d])'
    <3>1. Unsent(d, v)
      BY <1>1, <1>9, <2>1 DEF Unsent
    <3>2. ~Hears(v, event[d])
      BY <1>0, <3>1 DEF Watching
    <3>3. v # w
      <4>1. ASSUME v = w PROVE FALSE
        <5>1. d = c
          <6>1. pc[d] \in {"snapshot", "send"} /\ req[d].item = i
            BY <1>0, <3>1, <4>1 DEF Watching, Unsent
          <6>2. lock[req[d].item] = d
            BY <6>1, Asked DEF Inside
          <6> QED BY <1>3, <6>1, <6>2
        <5>2. ~Unsent(c, w)'
          BY <1>1, <1>9 DEF Unsent
        <5> QED BY <2>1, <4>1, <5>1, <5>2
      <4> QED BY <4>1
    <3> QED BY <1>1, <1>8, <3>2, <3>3 DEF Hears
  <2>2. ASSUME NEW v \in Watchers, reader'[v] # "in" PROVE got'[v] = <<>> /\ chan'[v] = <<>>
    <3>1. got[v] = <<>> /\ chan[v] = <<>>
      BY <1>0, <1>1, <2>2 DEF Watching
    <3>2. CASE v # w
      BY <1>1, <1>2, <3>1, <3>2
    <3>3. CASE v = w
      <4>1. reader[w] = "gone"
        BY <1>0, <1>1, <1>2, <2>2, <3>3 DEF Watching
      <4> QED BY <1>1, <3>1, <3>3, <4>1
    <3> QED BY <3>2, <3>3
  <2>3. ASSUME NEW d \in Calls, NEW v \in sendTo'[d]
        PROVE  ItemOf[v] = req'[d].item /\ reader'[v] # "new"
    BY <1>0, <1>1, <1>9, <2>3 DEF Watching
  <2>4. ASSUME NEW d \in Calls, pc'[d] # "send" PROVE sendTo'[d] = {}
    BY <1>0, <1>1, <1>9, <2>4 DEF Watching
  <2> QED BY <1>0, <1>1, <2>1, <2>2, <2>3, <2>4 DEF Watching
<1>12. Complete'
  <2> SUFFICES ASSUME NEW v \in Watchers, NEW j \in Items,
                      ItemOf[v] = j, reader'[v] = "in", ~dropped'[v],
                      NEW k \in (joined'[v] + 1)..Len(log'[j])
               PROVE  \/ Hears(v, log[j][k])'
                      \/ k = Len(log'[j]) /\ \E d \in Calls : lock'[j] = d /\ Unsent(d, v)'
    BY DEF Complete
  <2>0. ~dropped[v]
    BY <1>1, <1>2
  <2>1. \/ Hears(v, log[j][k])
        \/ k = Len(log[j]) /\ \E d \in Calls : lock[j] = d /\ Unsent(d, v)
    BY <1>0, <1>1, <2>0 DEF Complete
  <2>2. CASE Hears(v, log[j][k])
    BY <1>1, <1>8, <2>2 DEF Hears
  <2>3. CASE k = Len(log[j]) /\ \E d \in Calls : lock[j] = d /\ Unsent(d, v)
    <3>1. PICK d \in Calls : lock[j] = d /\ Unsent(d, v)
      BY <2>3
    <3>2. CASE v # w
      <4>1. Unsent(d, v)'
        BY <1>1, <1>9, <3>1, <3>2 DEF Unsent
      <4> QED BY <1>1, <2>3, <3>1, <4>1
    <3>3. CASE v = w
      <4>1. chan' = [chan EXCEPT ![w] = Append(@, event[c])]
        BY <1>1, <1>2, <3>3
      <4>2. Delivered(w)' = Append(Delivered(w), event[c])
        BY <1>5, <4>1
      <4>3. event[c] \in ToSet(Delivered(w)')
        BY <1>7, <4>2
      <4>4. log'[j][k] = event[c]
        BY <1>1, <1>3, <2>3, <3>3 DEF Last
      <4> QED BY <3>3, <4>3, <4>4 DEF Hears
    <3> QED BY <3>2, <3>3
  <2> QED BY <2>1, <2>2, <2>3
<1>13. InOrder'
  <2>1. ASSUME NEW v \in Watchers PROVE Ordered(Delivered(v)', log'[ItemOf[v]])
    <3>1. Ordered(Delivered(v), log[ItemOf[v]])
      BY <1>0 DEF InOrder
    <3> QED BY <1>1, <1>4, <1>5, <1>7, <3>1
  <2> QED BY <2>1 DEF InOrder
<1> QED BY <1>10, <1>11, <1>12, <1>13 DEF Feeds

\* A watcher comes, takes an event, or goes: the calls and the logs stay as they are.
LEMMA FeedsWatcher ==
  ASSUME TypeOK, Feeds, NEW w \in Watchers, Subscribe(w) \/ Receive(w) \/ Unsubscribe(w)
  PROVE  Feeds'
<1>0. Logged /\ Watching /\ Complete /\ InOrder
  BY DEF Feeds
<1>1. /\ log' = log /\ bids' = bids /\ lock' = lock /\ req' = req /\ event' = event /\ status' = status
      /\ pc' = pc /\ sendTo' = sendTo
  BY DEF Subscribe, Receive, Unsubscribe, bookVars, callVars
<1>2. /\ chan \in [Watchers -> Seq(Event)] /\ got \in [Watchers -> Seq(Event)]
      /\ reader \in [Watchers -> {"new", "in", "gone"}] /\ watchers \in [Items -> SUBSET Watchers]
      /\ joined \in [Watchers -> Nat] /\ dropped \in [Watchers -> BOOLEAN] /\ log \in [Items -> Seq(Event)]
      /\ ItemOf[w] \in Items
  BY AuctionConstants DEF TypeOK
<1>3. \A v \in Watchers : v # w =>
        /\ chan'[v] = chan[v] /\ got'[v] = got[v] /\ reader'[v] = reader[v] /\ joined'[v] = joined[v]
        /\ dropped'[v] = dropped[v]
  BY <1>2 DEF Subscribe, Receive, Unsubscribe
<1>4. \A v \in Watchers : v # w => Delivered(v)' = Delivered(v)
  BY <1>3 DEF Delivered
\* What w has been sent stays, unless it goes; only a new watcher becomes one.
<1>5. /\ Delivered(w)' = Delivered(w) \/ (Delivered(w)' = <<>> /\ reader'[w] = "gone")
      /\ reader'[w] # "in" => got'[w] = <<>> /\ chan'[w] = <<>>
      /\ reader'[w] # "new"
      /\ \A i \in Items : watchers'[i] = {v \in Watchers : ItemOf[v] = i /\ reader'[v] = "in"}
      /\ \/ reader'[w] = "gone"
         \/ reader'[w] = "in" /\ dropped'[w] = dropped[w] /\ reader[w] = "in" /\ joined'[w] = joined[w]
         \/ reader'[w] = "in" /\ joined'[w] = Len(log[ItemOf[w]])
  <2>0. \A i \in Items : watchers[i] = {v \in Watchers : ItemOf[v] = i /\ reader[v] = "in"}
    BY <1>0 DEF Watching
  <2>1. CASE Subscribe(w)
    <3>1. /\ reader'[w] = "in" /\ joined'[w] = Len(log[ItemOf[w]])
          /\ watchers' = [watchers EXCEPT ![ItemOf[w]] = @ \cup {w}]
          /\ chan' = chan /\ got' = got
      BY <1>2, <2>1 DEF Subscribe
    <3>2. \A i \in Items : watchers'[i] = {v \in Watchers : ItemOf[v] = i /\ reader'[v] = "in"}
      BY <1>2, <1>3, <2>0, <3>1
    <3>3. Delivered(w)' = Delivered(w)
      BY <3>1 DEF Delivered
    <3> QED BY <3>1, <3>2, <3>3
  <2>2. CASE Receive(w)
    <3>1. /\ reader[w] = "in" /\ reader' = reader /\ joined' = joined /\ dropped' = dropped
          /\ watchers' = watchers /\ chan[w] # <<>>
          /\ chan'[w] = Tail(chan[w]) /\ got'[w] = Append(got[w], Head(chan[w]))
      BY <1>2, <2>2 DEF Receive
    <3>2. chan[w] \in Seq(Event) /\ got[w] \in Seq(Event)
      BY <1>2
    <3>3. Delivered(w)' = Delivered(w)
      BY <3>1, <3>2, ConcatMove DEF Delivered
    <3> QED BY <2>0, <3>1, <3>3
  <2>3. CASE Unsubscribe(w)
    <3>1. /\ reader'[w] = "gone" /\ got'[w] = <<>> /\ chan'[w] = <<>>
          /\ watchers' = [watchers EXCEPT ![ItemOf[w]] = @ \ {w}]
      BY <1>2, <2>3 DEF Unsubscribe
    <3>2. \A i \in Items : watchers'[i] = {v \in Watchers : ItemOf[v] = i /\ reader'[v] = "in"}
      BY <1>2, <1>3, <2>0, <3>1
    <3>3. Delivered(w)' = <<>>
      BY <3>1 DEF Delivered
    <3> QED BY <3>1, <3>2, <3>3
  <2> QED BY <2>1, <2>2, <2>3
<1>6. ToSet(<<>>) = {} /\ \A s : Ordered(<<>>, s)
  BY DEF ToSet, Ordered
<1>7. \A v \in Watchers : /\ ToSet(Delivered(v))' \subseteq ToSet(Delivered(v))
                          /\ reader'[v] = "in" => ToSet(Delivered(v))' = ToSet(Delivered(v))
  <2>1. \A v \in Watchers : v # w => ToSet(Delivered(v)') = ToSet(Delivered(v))
    BY <1>4
  <2>2. ToSet(Delivered(w)') \subseteq ToSet(Delivered(w))
    BY <1>5, <1>6
  <2>3. reader'[w] = "in" => ToSet(Delivered(w)') = ToSet(Delivered(w))
    BY <1>5
  <2> QED BY <2>1, <2>2, <2>3
<1>8. Logged'
  <2>1. Ids' = Ids /\ \A k \in Items : Distinct(log[k])' /\ ToSet(log[k])' = ToSet(log[k])
    BY <1>0, <1>1 DEF Ids, Logged, Distinct, ToSet
  <2> QED BY <1>0, <1>1, <2>1 DEF Logged, Last
<1>9. Watching'
  <2>1. ASSUME NEW d \in Calls, NEW v \in Watchers, Unsent(d, v)' PROVE ~Hears(v, event[d])'
    <3>1. Unsent(d, v)
      BY <1>1, <2>1 DEF Unsent
    <3>2. ~Hears(v, event[d])
      BY <1>0, <3>1 DEF Watching
    <3> QED BY <1>1, <1>7, <3>2 DEF Hears
  <2>2. ASSUME NEW v \in Watchers, reader'[v] # "in" PROVE got'[v] = <<>> /\ chan'[v] = <<>>
    BY <1>0, <1>3, <1>5, <2>2 DEF Watching
  <2>3. ASSUME NEW d \in Calls, NEW v \in sendTo'[d]
        PROVE  ItemOf[v] = req'[d].item /\ reader'[v] # "new"
    <3>1. v \in Watchers /\ ItemOf[v] = req[d].item /\ reader[v] # "new"
      BY <1>0, <1>1, <2>3 DEF Watching, TypeOK
    <3> QED BY <1>1, <1>3, <1>5, <3>1
  <2> QED BY <1>0, <1>1, <1>5, <2>1, <2>2, <2>3 DEF Watching
<1>10. Complete'
  <2> SUFFICES ASSUME NEW v \in Watchers, NEW j \in Items,
                      ItemOf[v] = j, reader'[v] = "in", ~dropped'[v],
                      NEW k \in (joined'[v] + 1)..Len(log'[j])
               PROVE  \/ Hears(v, log[j][k])'
                      \/ k = Len(log'[j]) /\ \E d \in Calls : lock'[j] = d /\ Unsent(d, v)'
    BY DEF Complete
  <2>1. ASSUME reader[v] = "in", ~dropped[v], joined'[v] = joined[v]
        PROVE  \/ Hears(v, log[j][k])'
               \/ k = Len(log'[j]) /\ \E d \in Calls : lock'[j] = d /\ Unsent(d, v)'
    <3>1. \/ Hears(v, log[j][k])
          \/ k = Len(log[j]) /\ \E d \in Calls : lock[j] = d /\ Unsent(d, v)
      BY <1>0, <1>1, <2>1 DEF Complete
    <3>2. \A d \in Calls : Unsent(d, v) => Unsent(d, v)'
      BY <1>1 DEF Unsent
    <3> QED BY <1>1, <1>7, <3>1, <3>2 DEF Hears
  <2>2. CASE v # w
    BY <1>3, <2>1, <2>2
  <2>3. CASE v = w
    <3>1. ASSUME joined'[w] = Len(log[j]) PROVE FALSE
      <4>1. Len(log[j]) \in Nat /\ log' = log
        BY <1>1, <1>2
      <4> QED BY <2>3, <3>1, <4>1
    <3> QED BY <1>5, <2>1, <2>3, <3>1
  <2> QED BY <2>2, <2>3
<1>11. InOrder'
  <2>1. ASSUME NEW v \in Watchers PROVE Ordered(Delivered(v)', log'[ItemOf[v]])
    <3>1. Ordered(Delivered(v), log[ItemOf[v]])
      BY <1>0 DEF InOrder
    <3> QED BY <1>1, <1>4, <1>5, <1>6, <3>1
  <2> QED BY <2>1 DEF InOrder
<1> QED BY <1>8, <1>9, <1>10, <1>11 DEF Feeds

\* A call returns with nothing left to send.
LEMMA FeedsReturn ==
  ASSUME TypeOK, Held, Feeds, NEW c \in Calls, Inside(c), pc[c] # "snapshot", sendTo[c] = {},
         Return(c), UNCHANGED <<bids, log, watchVars, sendTo, status>>
  PROVE  Feeds'
<1>1. /\ pc' = [pc EXCEPT ![c] = "idle"] /\ pc'[c] = "idle"
      /\ req' = [req EXCEPT ![c] = NoRequest] /\ event' = [event EXCEPT ![c] = NoEvent]
      /\ \A i \in Items : i # req[c].item => lock'[i] = lock[i]
  BY ReturnFacts DEF Return
<1>2. lock[req[c].item] = c
  BY Asked
<1>3. \A d \in Calls : d # c => pc'[d] = pc[d] /\ req'[d] = req[d] /\ event'[d] = event[d]
  BY <1>1 DEF TypeOK
<1>4. \A d \in Calls : /\ pc[d] = "snapshot" <=> pc'[d] = "snapshot"
                       /\ pc'[d] = "send" => pc[d] = "send"
                       /\ pc[d] = "send" /\ pc'[d] # "send" => sendTo[d] = {}
                       /\ pc'[d] \in {"snapshot", "send"} => req'[d] = req[d] /\ event'[d] = event[d]
  BY <1>1, <1>3
<1>5. \A d \in Calls, i \in Items :
        lock[i] = d /\ lock'[i] # d => pc[d] # "snapshot" /\ sendTo[d] = {}
  BY <1>1, <1>2
<1> QED BY <1>4, <1>5, FeedsQuiet

LEMMA FeedsNext ==
  ASSUME TypeOK, Held, Books, Feeds, Next
  PROVE  Feeds'
<1>0. Watching
  BY DEF Feeds
<1>1. ASSUME NEW i \in Items, CreateItem(i) \/ TimePasses(i) PROVE Feeds'
  <2>1. UNCHANGED <<bids, log, watchVars, sendTo>> /\ UNCHANGED callVars
    BY <1>1 DEF CreateItem, TimePasses, bookVars, callVars
  <2>2. \A k \in Items : status[k] = "ended" => status'[k] = "ended"
    BY <1>1 DEF CreateItem, TimePasses, TypeOK
  <2> QED BY <2>1, <2>2, FeedsQuiet DEF callVars
<1>2. ASSUME NEW c \in Calls, \/ Call(c) \/ LockItem(c) \/ (Validate(c) /\ ~Return(c)) PROVE Feeds'
  <2>1. UNCHANGED <<bids, log, watchVars, sendTo, status, event>>
    BY <1>2 DEF Call, LockItem, Validate, bookVars
  <2>2. /\ \A d \in Calls : d # c => pc'[d] = pc[d] /\ req'[d] = req[d]
        /\ pc[c] \in {"idle", "lock", "validate"} /\ pc'[c] \in {"lock", "validate", "change"}
    <3>0. pc \in [Calls -> {"idle", "lock", "validate", "change", "snapshot", "send"}]
          /\ req \in [Calls -> Requests \cup {NoRequest} \cup [op : {"none"}, item : Items]]
      BY DEF TypeOK
    <3>1. CASE Call(c)
      BY <3>0, <3>1 DEF Call, Goto
    <3>2. CASE LockItem(c)
      <4>1. PICK r \in Requests : req' = [req EXCEPT ![c] = r]
              /\ pc' = [pc EXCEPT ![c] = IF r.op = "end" THEN "change" ELSE "validate"]
        BY <3>2 DEF LockItem, Admit, Goto
      <4> QED BY <3>0, <3>2, <4>1 DEF LockItem
    <3>3. CASE Validate(c) /\ ~Return(c)
      BY <3>0, <3>3 DEF Validate, Goto
    <3> QED BY <1>2, <3>1, <3>2, <3>3
  <2>3. \A i \in Items, d \in Calls : lock[i] = d => lock'[i] = d
    <3>1. CASE LockItem(c)
      BY <3>1, AuctionConstants DEF LockItem, TypeOK
    <3>2. CASE ~LockItem(c)
      BY <1>2, <3>2 DEF Call, Validate
    <3> QED BY <3>1, <3>2
  <2> QED BY <2>1, <2>2, <2>3, FeedsQuiet
<1>3. ASSUME NEW c \in Calls, Return(c), Validate(c) \/ NothingToRetract(c) \/ EndAuction(c) PROVE Feeds'
  <2>1. pc[c] \in {"validate", "change"} /\ sendTo[c] = {}
    BY <1>0, <1>3 DEF Validate, NothingToRetract, EndAuction, Watching
  <2>2. pc'[c] = "idle"
    BY <1>3, ReturnFacts
  <2>3. UNCHANGED <<bids, log, watchVars, sendTo, status>>
    <3>1. CASE Validate(c)
      BY <3>1 DEF Validate, bookVars
    <3>2. CASE NothingToRetract(c)
      BY <3>2 DEF NothingToRetract, bookVars
    <3>3. CASE EndAuction(c)
      <4>1. status[req[c].item] # "active"
        BY <2>2, <3>3 DEF EndAuction, Announce, Goto, TypeOK
      <4> QED BY <3>3, <4>1 DEF EndAuction
    <3> QED BY <1>3, <3>1, <3>2, <3>3
  <2> QED BY <1>3, <2>1, <2>3, FeedsReturn DEF Inside
<1>4. ASSUME NEW c \in Calls, Finish(c) PROVE Feeds'
  BY <1>4, FeedsReturn DEF Finish, Inside, bookVars
<1>a. ASSUME NEW c \in Calls, pc[c] = "change", NEW bid, NEW action \in {"placed", "retracted", "ended"},
             Announce(c, bid, action), UNCHANGED <<lock, req, sendTo, watchVars>>,
             \/ action = "placed" /\ bid \notin Ids
             \/ action = "retracted" /\ ~bids[bid].retracted
             \/ action = "ended" /\ status[req[c].item] # "ended",
             action \in {"placed", "retracted"} => bid \in Ids',
             action = "retracted" => bids'[bid].retracted,
             action = "ended" => status'[req[c].item] = "ended",
             \A x \in Ids : x \in Ids' /\ (bids[x].retracted => bids'[x].retracted),
             \A k \in Items : status[k] = "ended" => status'[k] = "ended"
      PROVE  Feeds'
  <2> DEFINE e == [bid |-> bid, action |-> action]
  <2>1. /\ log' = [log EXCEPT ![req[c].item] = Append(@, event'[c])]
        /\ event' = [event EXCEPT ![c] = e] /\ pc' = [pc EXCEPT ![c] = "snapshot"]
    BY <1>a DEF Announce, Goto
  <2>2. event'[c] = e
    BY <2>1 DEF TypeOK
  <2>3. e \in Event
    <3>1. event'[c] \in Event
      BY CallTypesNext DEF CallTypes
    <3> QED BY <2>2, <3>1
  <2>4. e.bid = bid /\ e.action = action
    OBVIOUS
  <2>5. PICK i \in Items : i = req[c].item /\ lock[i] = c
    BY <1>a, Asked DEF Inside
  <2> HIDE DEF e
  <2>6. log' = [log EXCEPT ![i] = Append(@, e)]
    BY <2>1, <2>2, <2>5
  <2> QED BY <1>a, <2>1, <2>3, <2>4, <2>5, <2>6, FeedsAnnounce
<1>5. ASSUME NEW c \in Calls, EnterBid(c) PROVE Feeds'
  <2>1. /\ pc[c] = "change" /\ UNCHANGED <<lock, req, sendTo, watchVars, status>>
        /\ Announce(c, Len(bids) + 1, "placed")
    BY <1>5 DEF EnterBid
  <2>2. /\ Len(bids) + 1 \notin Ids /\ Len(bids) + 1 \in Ids'
        /\ \A x \in Ids : x \in Ids' /\ bids'[x] = bids[x]
    BY <1>5, EnterFacts
  <2> QED BY <1>a, <2>1, <2>2
<1>6. ASSUME NEW c \in Calls, RetractBid(c) PROVE Feeds'
  <2> DEFINE id == Last(stack[req[c].user][req[c].item])
  <2>1. /\ pc[c] = "change" /\ UNCHANGED <<lock, req, sendTo, watchVars, status>>
        /\ Announce(c, id, "retracted")
    BY <1>6 DEF RetractBid
  <2>2. /\ id \in BidsOn(req[c].item) /\ id \in Ids /\ Ids' = Ids /\ bids'[id].retracted
        /\ \A x \in Ids : x # id => bids'[x] = bids[x]
    BY <1>6, RetractFacts
  <2>3. ~bids[id].retracted
    BY <2>2 DEF BidsOn
  <2> HIDE DEF id
  <2>4. \A x \in Ids : x \in Ids' /\ (bids[x].retracted => bids'[x].retracted)
    BY <2>2
  <2>5. id \in Ids'
    BY <2>2
  <2> QED BY <1>a, <2>1, <2>2, <2>3, <2>4, <2>5
<1>7. ASSUME NEW c \in Calls, EndAuction(c), ~Return(c) PROVE Feeds'
  <2>1. /\ pc[c] = "change" /\ bids' = bids /\ status[req[c].item] = "active"
        /\ status' = [status EXCEPT ![req[c].item] = "ended"]
        /\ Announce(c, current'[req[c].item], "ended") /\ UNCHANGED <<lock, req, sendTo, watchVars>>
    BY <1>7 DEF EndAuction
  <2>2. Ids' = Ids
    BY <2>1 DEF Ids
  <2>3. req[c].item \in Items
    BY <2>1, Asked DEF Inside
  <2>4. status'[req[c].item] = "ended" /\ \A k \in Items : status[k] = "ended" => status'[k] = "ended"
    BY <2>1, <2>3 DEF TypeOK
  <2> QED BY <1>a, <2>1, <2>2, <2>4
<1>8. ASSUME NEW c \in Calls, Validate(c) \/ NothingToRetract(c) \/ EndAuction(c) PROVE Feeds'
  <2>1. CASE Return(c)
    BY <1>3, <1>8, <2>1
  <2>2. CASE ~Return(c)
    BY <1>2, <1>7, <1>8, <2>2 DEF NothingToRetract
  <2> QED BY <2>1, <2>2
<1>9. ASSUME NEW c \in Calls, NEW w \in Watchers, Send(c, w) PROVE Feeds'
  BY <1>9, FeedsSend
<1>10. ASSUME NEW c \in Calls, Snapshot(c) PROVE Feeds'
  BY <1>10, FeedsSnapshot
<1>11. ASSUME NEW w \in Watchers, Subscribe(w) \/ Receive(w) \/ Unsubscribe(w) PROVE Feeds'
  BY <1>11, FeedsWatcher
<1> QED BY <1>1, <1>2, <1>4, <1>5, <1>6, <1>8, <1>9, <1>10, <1>11 DEF Next, Serve

\* Nobody watches and nothing has been logged.
LEMMA FeedsInitially ==
  ASSUME Init
  PROVE  Feeds
<1>1. ToSet(<<>>) = {} /\ Distinct(<<>>) /\ \A s : Ordered(<<>>, s)
  BY DEF ToSet, Distinct, Ordered
<1>2. /\ \A i \in Items : log[i] = <<>> /\ watchers[i] = {}
      /\ \A w \in Watchers : got[w] = <<>> /\ chan[w] = <<>> /\ reader[w] = "new"
      /\ \A c \in Calls : pc[c] = "idle" /\ sendTo[c] = {}
  BY DEF Init
<1>3. \A w \in Watchers : Delivered(w) = <<>>
  BY <1>2 DEF Delivered
<1>4. Logged
  BY <1>1, <1>2 DEF Logged
<1>5. Watching
  BY <1>2 DEF Watching, Unsent
<1>6. Complete
  BY <1>2 DEF Complete
<1>7. InOrder
  BY <1>1, <1>3 DEF InOrder
<1> QED BY <1>4, <1>5, <1>6, <1>7 DEF Feeds

LEMMA FeedsInOrder ==
  ASSUME TypeOK, Feeds
  PROVE  WatchersInOrder
<1> SUFFICES ASSUME NEW w \in Watchers
             PROVE  LET d == Delivered(w)
                        i == ItemOf[w]
                    IN  /\ ToSet(d) \subseteq ToSet(log[i])
                        /\ \A j, k \in DOMAIN d : j < k => Position(d[j], log[i]) < Position(d[k], log[i])
                        /\ reader[w] = "in" /\ ~dropped[w] /\ lock[i] = "free" =>
                             ToSet(SubSeq(log[i], joined[w] + 1, Len(log[i]))) \subseteq ToSet(d)
  BY DEF WatchersInOrder
<1> DEFINE d == Delivered(w)
           i == ItemOf[w]
           m == joined[w]
           n == Len(log[i])
<1>1. Ordered(d, log[i]) /\ i \in Items
  BY AuctionConstants DEF Feeds, InOrder
<1>2. m \in Nat /\ log[i] \in Seq(Event) /\ n \in Nat
  BY <1>1 DEF TypeOK
<1>3. ASSUME reader[w] = "in", ~dropped[w], lock[i] = "free"
      PROVE  ToSet(SubSeq(log[i], m + 1, n)) \subseteq ToSet(d)
  <2>1. \A k \in (m + 1)..n : log[i][k] \in ToSet(d)
    BY <1>1, <1>3, AuctionConstants DEF Feeds, Complete, Hears
  <2>2. ASSUME NEW x \in ToSet(SubSeq(log[i], m + 1, n))
        PROVE  \E k \in (m + 1)..n : x = log[i][k]
    <3> DEFINE part == SubSeq(log[i], m + 1, n)
    <3>1. \A k \in (m + 1)..n : log[i][k] \in Event
      BY <1>2
    <3> HIDE DEF m, n, i
    <3>2. /\ part \in Seq(Event)
          /\ Len(part) = IF m + 1 <= n THEN n - (m + 1) + 1 ELSE 0
          /\ \A k \in 1..(n - (m + 1) + 1) : part[k] = log[i][(m + 1) + k - 1]
      BY <1>2, <3>1, SubSeqProperties
    <3>3. PICK k \in 1..Len(part) : x = part[k]
      BY <2>2, <3>2 DEF ToSet
    <3>4. k \in 1..(n - (m + 1) + 1) /\ (m + 1) + k - 1 \in (m + 1)..n
      BY <1>2, <3>2, <3>3
    <3> QED BY <3>2, <3>3, <3>4
  <2> QED BY <2>1, <2>2
<1> QED BY <1>1, <1>3 DEF Ordered

\* A watcher is sent what happened to its item in the order it happened, nothing twice; and
\* while its channel has never been full, everything since it joined but what a call that
\* holds the mutex is about to send.
THEOREM WatchersServed == Spec => []WatchersInOrder
<1>1. Init => IInv /\ Feeds
  BY Initially, FeedsInitially
<1>2. IInv /\ Feeds /\ [Next]_vars => IInv' /\ Feeds'
  <2>1. ASSUME IInv, Feeds, UNCHANGED vars PROVE Feeds'
    BY <2>1, FeedsQuiet DEF IInv, vars, callVars, bookVars
  <2>2. ASSUME IInv, Feeds, Next PROVE Feeds'
    BY <2>2, FeedsNext DEF IInv
  <2> QED BY <2>1, <2>2, Inductive
<1>3. IInv /\ Feeds => WatchersInOrder
  BY FeedsInOrder DEF IInv
<1> QED BY <1>1, <1>2, <1>3, PTL DEF Spec
=============================================================================
