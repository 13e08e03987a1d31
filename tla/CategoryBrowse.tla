--------------------------- MODULE CategoryBrowse ---------------------------
(***************************************************************************)
(* The auction's category tree (13,14-day): CreateItem files an item under *)
(* the last category of its path, making the categories that are missing;  *)
(* BrowseCategory lists the items of a category and of those below it.     *)
(* Both run under store.mu.                                                *)
(***************************************************************************)
EXTENDS Naturals, Sequences, FiniteSets, SequencesExt

CONSTANTS
  Paths,     \* the paths of the requests: names of categories, blank ones and the root too
  MaxUsers,  \* bound on the users
  MaxItems   \* bound on the items

VARIABLES
  users,       \* IDs of usersByID
  tree,        \* categoryTree: the children of each category in it, in order
  category,    \* Item.Category by item ID
  created      \* history: the normalized path of each item

categoryVars == <<users, tree, category, created>>

Root == "ALL"
Blank == " "

Init == users = {} /\ tree = [c \in {Root} |-> <<>>] /\ category = <<>> /\ created = <<>>

normalizeCategoryPath(path) == SelectSeq(path, LAMBDA c : c # Blank)

\* Tree.Add: a category has one place.
Add(t, parent, child) ==
  [c \in DOMAIN t \cup {child} |->
     CASE c = child -> <<>> [] c = parent -> Append(t[c], child) [] OTHER -> t[c]]

RECURSIVE Ensured(_, _, _)
\* ensureCategoryPathLocked: a category that exists stays where it is, whatever the path says.
Ensured(t, parent, path) ==
  IF path = <<>> THEN t
  ELSE Ensured(IF Head(path) \in DOMAIN t THEN t ELSE Add(t, parent, Head(path)), Head(path), Tail(path))

CreateUser ==
  /\ Cardinality(users) < MaxUsers
  /\ users' = users \cup {Cardinality(users) + 1}
  /\ UNCHANGED <<tree, category, created>>

\* A name, price or time that is refused changes nothing, as an empty path or an unknown seller.
CreateItem ==
  /\ Len(category) < MaxItems
  /\ \E request \in Paths, seller \in users :
       LET path == normalizeCategoryPath(request)
       IN  /\ path # <<>>
           /\ tree' = Ensured(tree, Root, path)
           /\ category' = Append(category, path[Len(path)])
           /\ created' = Append(created, path)
  /\ UNCHANGED users

Next == CreateUser \/ CreateItem

Spec == Init /\ [][Next]_categoryVars

-----------------------------------------------------------------------------

RECURSIVE SubtreeValues(_, _)
\* The categories reached from those in the queue, breadth first.
SubtreeValues(t, queue) ==
  IF queue = <<>> THEN <<>> ELSE <<Head(queue)>> \o SubtreeValues(t, Tail(queue) \o t[Head(queue)])

ItemsIn(c) == {i \in DOMAIN category : category[i] = c}

BrowseCategory(c) == UNION {ItemsIn(d) : d \in ToSet(SubtreeValues(tree, <<c>>))}

(* The categories as the items' paths define them: a category belongs below the one before it in
   the first path that names it. *)

FirstNaming(c) == CHOOSE i \in DOMAIN created : c \in ToSet(created[i]) /\ \A j \in 1..(i - 1) : c \notin ToSet(created[j])

ParentOf(c) ==
  LET path == created[FirstNaming(c)]
      place == CHOOSE k \in DOMAIN path : path[k] = c /\ \A j \in 1..(k - 1) : path[j] # c
  IN  IF place = 1 THEN Root ELSE path[place - 1]

RECURSIVE Above(_)
Above(c) == IF c = Root THEN {Root} ELSE {c} \cup Above(ParentOf(c))

\* BrowseExact: a category lists exactly the items filed under it or below, each category of a
\* path where the first item that named it put it, and all of them under the root; no category
\* is reached twice.
BrowseExact ==
  /\ DOMAIN tree = {Root} \cup UNION {ToSet(created[i]) : i \in DOMAIN created}
  /\ \A c \in DOMAIN tree :
       /\ BrowseCategory(c) = {i \in DOMAIN category : c \in Above(category[i])}
       /\ IsInjective(SubtreeValues(tree, <<c>>))
=============================================================================
