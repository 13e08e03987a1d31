----------------------------- MODULE TextEditor -----------------------------
(***************************************************************************)
(* The text editor (03-day/project): a document, the operations applied to *)
(* it, and a doubly linked list of them with a cursor that undo and redo   *)
(* move.  Formats are kept beside the text and not moved by later edits.   *)
(***************************************************************************)
EXTENDS Integers, Sequences, FiniteSets

CONSTANTS
  Alphabet,
  Texts,    \* the texts a user types, the empty one too
  Styles,   \* the pairs of bold and italic
  MaxText,  \* bound: the longest document
  MaxOps    \* bound: the longest history; nodes are numbered 1..MaxOps

ASSUME EditorConstants ==
  Texts \subseteq Seq(Alphabet) /\ MaxText \in Nat /\ MaxOps \in Nat

VARIABLES
  doc,      \* Editor.Doc: [text, formats]
  history,  \* Editor.History: [head, tail, size, nodes]
  cursor    \* Editor.Current: a node or Nil

editorVars == <<doc, history, cursor>>

Nil == 0
ListNodes == 1..MaxOps
NoNode == [op |-> <<>>, prev |-> Nil, next |-> Nil]

EmptyList == [head |-> Nil, tail |-> Nil, size |-> 0, nodes |-> [n \in ListNodes |-> NoNode]]

EditorInit ==
  /\ doc = [text |-> <<>>, formats |-> <<>>]
  /\ history = EmptyList /\ cursor = Nil

-----------------------------------------------------------------------------
(* container.DoublyLinkedList.  A node out of reach is free again. *)

\* Append to list h in node n.
ListAppend(h, n, op) ==
  [head |-> IF h.tail = Nil THEN n ELSE h.head,
   tail |-> n,
   size |-> h.size + 1,
   nodes |-> [m \in ListNodes |->
     IF m = n THEN [op |-> op, prev |-> h.tail, next |-> Nil]
     ELSE IF m = h.tail THEN [h.nodes[m] EXCEPT !.next = n] ELSE h.nodes[m]]]

\* The nodes that follow node n one after the other, then Nil.
Following(h, n) ==
  LET node[i \in 0..MaxOps] ==
        IF i = 0 THEN n ELSE IF node[i - 1] = Nil THEN Nil ELSE h.nodes[node[i - 1]].next
  IN  [i \in 1..MaxOps |-> node[i]]

\* List h without the nodes after n, which is the tail now.
CutAfter(h, n) ==
  LET after == Following(h, n)
      gone == {i \in 1..MaxOps : after[i] # Nil}
  IN  [head |-> h.head, tail |-> n, size |-> h.size - Cardinality(gone),
       nodes |-> [m \in ListNodes |->
         IF m = n THEN [h.nodes[m] EXCEPT !.next = Nil]
         ELSE IF \E i \in gone : after[i] = m THEN NoNode ELSE h.nodes[m]]]

\* Broken variant: without a node nothing is removed.
RemoveAfter_NilIgnored(h, n) == IF n = Nil THEN h ELSE CutAfter(h, n)

RemoveAfter(h, n) == IF n = Nil THEN EmptyList ELSE CutAfter(h, n)

-----------------------------------------------------------------------------
(* EditOperation.  Positions are counted from 0 as in the code. *)

\* The text with len letters from position pos on replaced by new.
Splice(text, pos, len, new) ==
  SubSeq(text, 1, pos) \o new \o SubSeq(text, pos + len + 1, Len(text))

Substring(text, pos, len) == SubSeq(text, pos + 1, pos + len)

InText(text, pos, len) == pos \in 0..Len(text) /\ pos + len \in 0..Len(text)

InsertOperation(pos, text) == [kind |-> "insert", pos |-> pos, text |-> text]
DeleteOperation(pos, len) == [kind |-> "delete", pos |-> pos, len |-> len, deleted |-> <<>>]
ReplaceOperation(pos, old, new) == [kind |-> "replace", pos |-> pos, old |-> old, new |-> new]
FormatOperation(pos, len, style) == [kind |-> "format", pos |-> pos, len |-> len, style |-> style]

\* Apply finds no error.
CanApply(op, d) ==
  CASE op.kind = "insert" -> op.pos \in 0..Len(d.text)
    [] op.kind = "delete" -> op.len > 0 /\ InText(d.text, op.pos, op.len)
    [] op.kind = "replace" ->
         /\ op.old # <<>> /\ InText(d.text, op.pos, Len(op.old))
         /\ Substring(d.text, op.pos, Len(op.old)) = op.old
    [] OTHER -> op.len > 0 /\ InText(d.text, op.pos, op.len)

\* What Apply makes of the document.
Applied(op, d) ==
  CASE op.kind = "insert" -> [d EXCEPT !.text = Splice(@, op.pos, 0, op.text)]
    [] op.kind = "delete" -> [d EXCEPT !.text = Splice(@, op.pos, op.len, <<>>)]
    [] op.kind = "replace" -> [d EXCEPT !.text = Splice(@, op.pos, Len(op.old), op.new)]
    [] OTHER -> [d EXCEPT !.formats = Append(@, [pos |-> op.pos, len |-> op.len, style |-> op.style])]

\* What Apply makes of the operation: a deletion keeps what it deleted.
Remembering(op, d) == IF op.kind = "delete" THEN [op EXCEPT !.deleted = Substring(d.text, op.pos, op.len)] ELSE op

CanReverse(op, d) ==
  CASE op.kind = "insert" -> op.pos >= 0 /\ op.pos + Len(op.text) <= Len(d.text)
    [] op.kind = "delete" -> op.pos \in 0..Len(d.text)
    [] op.kind = "replace" -> InText(d.text, op.pos, Len(op.new)) /\ Substring(d.text, op.pos, Len(op.new)) = op.new
    [] OTHER -> TRUE

\* The formats without the last that equals the operation's, if there is one.
WithoutLast(formats, format) ==
  LET same == {i \in DOMAIN formats : formats[i] = format}
      last == CHOOSE i \in same : \A j \in same : j <= i
  IN  IF same = {} THEN formats
      ELSE SubSeq(formats, 1, last - 1) \o SubSeq(formats, last + 1, Len(formats))

Reversed(op, d) ==
  CASE op.kind = "insert" -> [d EXCEPT !.text = Splice(@, op.pos, Len(op.text), <<>>)]
    [] op.kind = "delete" -> [d EXCEPT !.text = Splice(@, op.pos, 0, op.deleted)]
    [] op.kind = "replace" -> [d EXCEPT !.text = Splice(@, op.pos, Len(op.new), op.old)]
    [] OTHER -> [d EXCEPT !.formats = WithoutLast(@, [pos |-> op.pos, len |-> op.len, style |-> op.style])]

-----------------------------------------------------------------------------
(* The editor's commands.  One that finds an error changes nothing. *)

Free(h) == {n \in ListNodes : h.nodes[n] = NoNode}

\* A new edit gives up the operations undone.
ApplyOperation(op) ==
  /\ CanApply(op, doc)
  /\ doc' = Applied(op, doc) /\ Len(doc'.text) <= MaxText
  /\ LET h == IF cursor # history.tail THEN RemoveAfter(history, cursor) ELSE history
     IN  /\ Free(h) # {}
         /\ LET n == CHOOSE n \in Free(h) : \A m \in Free(h) : n <= m
            IN  history' = ListAppend(h, n, Remembering(op, doc)) /\ cursor' = n

Undo ==
  /\ cursor # Nil
  /\ LET node == history.nodes[cursor]
     IN  /\ CanReverse(node.op, doc)
         /\ doc' = Reversed(node.op, doc) /\ cursor' = node.prev
  /\ UNCHANGED history

\* The node of list h to redo after node n, which may be Nil.
NextNode(h, n) == IF n = Nil THEN h.head ELSE h.nodes[n].next

Redo ==
  LET next == NextNode(history, cursor)
  IN  /\ next # Nil /\ CanApply(history.nodes[next].op, doc)
      /\ doc' = Applied(history.nodes[next].op, doc)
      /\ history' = [history EXCEPT !.nodes[next].op = Remembering(@, doc)]
      /\ cursor' = next

handleInsert == \E pos \in -1..(MaxText + 1), text \in Texts : ApplyOperation(InsertOperation(pos, text))
handleDelete == \E pos \in -1..(MaxText + 1), len \in -1..(MaxText + 1) : ApplyOperation(DeleteOperation(pos, len))
\* An empty new text is refused by parseReplaceInput, an empty old one by Apply.
handleReplace ==
  \E pos \in -1..(MaxText + 1), old \in Texts, new \in Texts \ {<<>>} : ApplyOperation(ReplaceOperation(pos, old, new))
handleFormat ==
  \E pos \in -1..(MaxText + 1), len \in -1..(MaxText + 1), style \in Styles : ApplyOperation(FormatOperation(pos, len, style))

EditorNext == handleInsert \/ handleDelete \/ handleReplace \/ handleFormat \/ Undo \/ Redo

EditorSpec == EditorInit /\ [][EditorNext]_editorVars

-----------------------------------------------------------------------------
(* The documents the list stands for: those reversing the operations behind the cursor goes
   through, and those applying the ones ahead of it would. *)

\* A way along list h: the document and the node it has come to, and the documents met.
StepBack(h, way) ==
  IF way.node = Nil THEN way
  ELSE LET before == Reversed(h.nodes[way.node].op, way.doc)
       IN  [doc |-> before, node |-> h.nodes[way.node].prev, docs |-> <<before>> \o way.docs]

StepOn(h, way) ==
  IF way.node = Nil THEN way
  ELSE LET after == Applied(h.nodes[way.node].op, way.doc)
       IN  [doc |-> after, node |-> h.nodes[way.node].next, docs |-> Append(way.docs, after)]

WayFrom(n, d) == [doc |-> d, node |-> n, docs |-> <<>>]

\* From node n and document d back to the list's head, and on to its tail.
Past(h, n, d) ==
  LET way[i \in 0..MaxOps] == IF i = 0 THEN WayFrom(n, d) ELSE StepBack(h, way[i - 1])
  IN  way[MaxOps].docs

Future(h, n, d) ==
  LET way[i \in 0..MaxOps] == IF i = 0 THEN WayFrom(n, d) ELSE StepOn(h, way[i - 1])
  IN  way[MaxOps].docs

History == INSTANCE DocumentHistory WITH
  past <- Past(history, cursor, doc), future <- Future(history, NextNode(history, cursor), doc), count <- history.size

\* ImplementsHistory: undo gives back exactly the document before the operation, redo the one
\* after it, whatever edits, undos and redos came before; a new edit discards the branch.
ImplementsHistory == History!HistorySpec
=============================================================================
