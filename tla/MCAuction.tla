------------------------------ MODULE MCAuction ------------------------------
(* TLC instance of Auction: one item, its seller and two bidders. *)
EXTENDS Auction, TLC

CONSTANTS u1, u2, s, i1, w1

MCSeller == [i \in Items |-> s]
MCStartPrice == [i \in Items |-> 1]
\* u1 cannot afford the highest amount.
MCBalance == [u \in Users |-> IF u = u1 THEN 2 ELSE 3]
MCItemOf == [w \in Watchers |-> i1]
\* Both bidders may bid and retract, the seller tries a bid.
MCRequests ==
  [op : {"place"}, user : {u1, u2}, item : Items, amount : {2, 3}]
  \cup [op : {"place"}, user : {s}, item : Items, amount : {2}]
  \cup [op : {"retract"}, user : {u1, u2}, item : Items]
  \cup [op : {"end"}, item : Items]

\* Calls run the same code.
CallSymmetry == Permutations(Calls)
=============================================================================
