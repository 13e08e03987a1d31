--------------------------- MODULE DocumentHistory --------------------------
(***************************************************************************)
(* What an editor with undo promises: the documents left behind can be     *)
(* gone back to in reverse order, the documents gone back from can be      *)
(* returned to, and a new edit gives up the latter.                        *)
(***************************************************************************)
EXTENDS Naturals, Sequences

VARIABLES
  doc,     \* the document
  past,    \* the documents before it, oldest first
  future,  \* the documents undone, nearest first
  count    \* the edits remembered

historyVars == <<doc, past, future, count>>

Init == past = <<>> /\ future = <<>> /\ count = 0

Edit == past' = Append(past, doc) /\ future' = <<>>

Undo ==
  /\ past # <<>>
  /\ doc' = past[Len(past)]
  /\ past' = SubSeq(past, 1, Len(past) - 1) /\ future' = <<doc>> \o future

Redo ==
  /\ future # <<>>
  /\ doc' = Head(future)
  /\ past' = Append(past, doc) /\ future' = Tail(future)

Next == (Edit \/ Undo \/ Redo) /\ count' = Len(past') + Len(future')

HistorySpec == Init /\ [][Next]_historyVars
=============================================================================
