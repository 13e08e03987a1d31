------------------------------- MODULE Catalog -------------------------------
(***************************************************************************)
(* The product catalog (12-day/catalog/internal/store/store.go): a map by  *)
(* ID and a B-tree by price, changed together under the store's mutex by   *)
(* the handlers of POST, PUT and DELETE.  A price group is a sequence of   *)
(* products; prices stand for floats in their order.                       *)
(***************************************************************************)
EXTENDS Naturals, Sequences, FiniteSets, SequencesExt

CONSTANTS
  MinDegree, \* t, of the B-tree
  Ids,
  Offers,    \* Offers[id]: the [price, category] that id may be given
  Queries    \* listings asked for: [lo, hi, category, size of a page]; "" is any category

ASSUME CatalogConstants ==
  /\ MinDegree \in Nat /\ MinDegree >= 2
  /\ \A p \in Ids : \A o \in Offers[p] : o.price \in Nat
  /\ \A q \in Queries : q.lo \in Nat /\ q.hi \in Nat /\ q.size \in Nat \ {0}

VARIABLES
  byID,      \* the products: [id -> [price, category]]
  byPrice    \* the tree: price -> sequence of [id, price, category]

vars == <<byID, byPrice>>

-----------------------------------------------------------------------------
(* btree/btree.go, as operators on trees.  A node is its keys, their values and its *)
(* children; a leaf is a node with none. *)

Node(keys, values, children) == [keys |-> keys, values |-> values, children |-> children]
IsLeaf(n) == n.children = <<>>
Full(n) == Len(n.keys) = 2 * MinDegree - 1

EmptyTree == [root |-> Node(<<>>, <<>>, <<>>), size |-> 0]

\* Where the search for k in n stops: at a key not below it, or past the last.
Slot(n, k) == 1 + Cardinality({i \in DOMAIN n.keys : n.keys[i] < k})
At(n, k) == Slot(n, k) \in DOMAIN n.keys /\ n.keys[Slot(n, k)] = k

RECURSIVE Search(_, _)
\* The values of key k below n: at most one.
Search(n, k) ==
  IF At(n, k) THEN <<n.values[Slot(n, k)]>>
  ELSE IF IsLeaf(n) THEN <<>> ELSE Search(n.children[Slot(n, k)], k)

RECURSIVE Replace(_, _, _)
\* update
Replace(n, k, v) ==
  IF At(n, k) THEN [n EXCEPT !.values[Slot(n, k)] = v]
  ELSE [n EXCEPT !.children[Slot(n, k)] = Replace(@, k, v)]

\* The first k of s, or all of it: a leaf has no children to divide.
Upto(s, k) == IF Len(s) <= k THEN s ELSE SubSeq(s, 1, k)

\* The child at i gives its middle key to p, and its upper half to a new sibling.
SplitChild(p, i) ==
  LET c == p.children[i]
      t == MinDegree
      n == Len(c.keys)
      left  == Node(SubSeq(c.keys, 1, t - 1), SubSeq(c.values, 1, t - 1),
                    Upto(c.children, t))
      right == Node(SubSeq(c.keys, t + 1, n), SubSeq(c.values, t + 1, n),
                    SubSeq(c.children, t + 1, Len(c.children)))
  IN  Node(InsertAt(p.keys, i, c.keys[t]), InsertAt(p.values, i, c.values[t]),
           InsertAt([p.children EXCEPT ![i] = left], i + 1, right))

RECURSIVE InsertNonFull(_, _, _)
InsertNonFull(n, k, v) ==
  LET i == Slot(n, k)
      s == IF Full(n.children[i]) THEN SplitChild(n, i) ELSE n
  IN  IF IsLeaf(n)
      THEN Node(InsertAt(n.keys, i, k), InsertAt(n.values, i, v), <<>>)
      ELSE [s EXCEPT !.children[Slot(s, k)] = InsertNonFull(@, k, v)]

\* A full root grows a level first.  A key that is there gets a new value.
Insert(tree, k, v) ==
  LET r == tree.root
      top == IF Full(r) THEN SplitChild(Node(<<>>, <<>>, <<r>>), 1) ELSE r
  IN  IF Search(r, k) # <<>> THEN [tree EXCEPT !.root = Replace(r, k, v)]
      ELSE [root |-> InsertNonFull(top, k, v), size |-> tree.size + 1]

RECURSIVE RangeQuery(_, _, _)
\* The values of the keys in lo..hi, in order: the walk visits every child up to
\* the one before the first key above hi.
RangeQuery(n, lo, hi) ==
  LET last == 1 + Cardinality({i \in DOMAIN n.keys : n.keys[i] <= hi})
      Piece(i) == (IF IsLeaf(n) THEN <<>> ELSE RangeQuery(n.children[i], lo, hi))
                  \o (IF i < last /\ n.keys[i] >= lo THEN <<n.values[i]>> ELSE <<>>)
  IN  FlattenSeq([i \in 1..last |-> Piece(i)])

RECURSIVE Entries(_)
\* collectEntries: pairs of key and value in order.
Entries(n) ==
  LET Piece(i) == (IF IsLeaf(n) THEN <<>> ELSE Entries(n.children[i]))
                  \o (IF i \in DOMAIN n.keys THEN <<<<n.keys[i], n.values[i]>>>> ELSE <<>>)
  IN  FlattenSeq([i \in 1..(Len(n.keys) + 1) |-> Piece(i)])

\* Delete rebuilds the tree from the other entries.
Delete(tree, k) ==
  IF Search(tree.root, k) = <<>> THEN tree
  ELSE FoldLeft(LAMBDA t, e : IF e[1] = k THEN t ELSE Insert(t, e[1], e[2]),
                EmptyTree, Entries(tree.root))

-----------------------------------------------------------------------------
(* store/store.go *)

Live == DOMAIN byID
Copy(p, o) == [id |-> p, price |-> o.price, category |-> o.category]

Init == byID = [p \in {} |-> <<>>] /\ byPrice = EmptyTree

Group(tree, price) == LET found == Search(tree.root, price)
                      IN  IF found = <<>> THEN <<>> ELSE found[1]

AddToPriceIndex(tree, x) == Insert(tree, x.price, Append(Group(tree, x.price), x))

\* An empty group goes away; the group is searched for the ID.
RemoveFromPriceIndex(tree, x) ==
  LET rest == SelectSeq(Group(tree, x.price), LAMBDA y : y.id # x.id) IN
  IF Search(tree.root, x.price) = <<>> THEN tree
  ELSE IF rest = <<>> THEN Delete(tree, x.price)
  ELSE Insert(tree, x.price, rest)

Create(p, o) ==
  /\ p \notin Live
  /\ byID' = [q \in Live \cup {p} |-> IF q = p THEN o ELSE byID[q]]
  /\ byPrice' = AddToPriceIndex(byPrice, Copy(p, o))

\* Broken variant: the product is taken out under its new price.
Update_NewPrice(p, o) ==
  /\ p \in Live
  /\ byID' = [byID EXCEPT ![p] = o]
  /\ byPrice' = AddToPriceIndex(RemoveFromPriceIndex(byPrice, Copy(p, o)), Copy(p, o))

Update(p, o) ==
  /\ p \in Live
  /\ byID' = [byID EXCEPT ![p] = o]
  /\ byPrice' = AddToPriceIndex(RemoveFromPriceIndex(byPrice, Copy(p, byID[p])), Copy(p, o))

DeleteProduct(p) ==
  /\ p \in Live
  /\ byID' = [q \in Live \ {p} |-> byID[q]]
  /\ byPrice' = RemoveFromPriceIndex(byPrice, Copy(p, byID[p]))

\* The groups of a price range one after the other, cheapest first.
Candidates(q) == FlattenSeq(RangeQuery(byPrice.root, q.lo, q.hi))
Filtered(products, category) ==
  SelectSeq(products, LAMBDA x : category \in {"", x.category})

\* Broken variant: a page begins with the last product of the page before it.
Page_SharedEdge(products, page, size) ==
  LET offset == (page - 1) * size
  IN  SubSeq(products, IF offset = 0 THEN 1 ELSE offset, Min({offset + size, Len(products)}))

Page(products, page, size) ==
  LET offset == (page - 1) * size
  IN  SubSeq(products, offset + 1, Min({offset + size, Len(products)}))

\* A request with a price range and the default order, which is the one the groups
\* come in: sort.Slice leaves a slice that is in order as it is.
List(q, page) == Page(Filtered(Candidates(q), q.category), page, q.size)

Next == \E p \in Ids : DeleteProduct(p) \/ \E o \in Offers[p] : Create(p, o) \/ Update(p, o)

Spec == Init /\ [][Next]_vars

-----------------------------------------------------------------------------
(* Properties *)

RECURSIVE Height(_)
Height(n) == IF IsLeaf(n) THEN 0 ELSE 1 + Height(n.children[1])

RECURSIVE Balanced(_, _)
\* n has its share of keys (the root may have fewer) and of children, all of one height.
Balanced(n, isRoot) ==
  /\ Len(n.keys) <= 2 * MinDegree - 1 /\ Len(n.values) = Len(n.keys)
  /\ ~isRoot => Len(n.keys) >= MinDegree - 1
  /\ ~IsLeaf(n) =>
       /\ Len(n.children) = Len(n.keys) + 1 /\ n.keys # <<>>
       /\ \A i \in DOMAIN n.children :
            Height(n.children[i]) = Height(n.children[1]) /\ Balanced(n.children[i], FALSE)

Products == {Copy(p, byID[p]) : p \in Live}
Prices == {x.price : x \in Products}

\* The price index holds exactly the products of the map, as they are now, each
\* once and under its price; no price is kept without products and the size is right.
\* After any insertions and deletions the tree is a B-tree: keys in order, nodes neither too
\* small nor too large, all leaves at one depth.
PriceIndexExact ==
  LET index == ToSet(Entries(byPrice.root)) IN
  /\ {e[1] : e \in index} = Prices
  /\ \A e \in index : /\ ToSet(e[2]) = {x \in Products : x.price = e[1]}
                     /\ IsInjective(e[2])
  /\ byPrice.size = Cardinality(Prices)
  /\ Balanced(byPrice.root, TRUE)
  /\ LET keys == Entries(byPrice.root) IN \A i, j \in DOMAIN keys : i < j => keys[i][1] < keys[j][1]

\* The pages of a listing by price, put one after the other, show every product of
\* the range and category exactly once, cheapest first: none is lost or shown twice
\* at a page's end, at a node's edge or in a group of equal prices.
PagesExact ==
  \A q \in Queries :
    LET shown == FlattenSeq([page \in 1..(Cardinality(Live) + 1) |-> List(q, page)])
    IN  /\ ToSet(shown) = {x \in Products : x.price \in q.lo..q.hi
                                            /\ q.category \in {"", x.category}}
        /\ IsInjective(shown)
        /\ \A i, j \in DOMAIN shown : i < j => shown[i].price <= shown[j].price
=============================================================================
