SPECIFICATION Spec
CONSTANTS
  u1 = u1
  u2 = u2
  s = s
  i1 = i1
  w1 = w1
  Calls = {c1, c2}
  Users = {u1, u2, s}
  Items = {i1}
  Seller <- MCSeller
  StartPrice <- MCStartPrice
  Balance <- MCBalance
  Requests <- MCRequests
  Watchers = {w1}
  ItemOf <- MCItemOf
  ChanSize = 1
  MaxBids = 3
SYMMETRY CallSymmetry
INVARIANTS BooksAgree WatchersInOrder BiddingNeverBlocks
PROPERTIES PricesRiseUntilEnd
