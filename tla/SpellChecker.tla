---------------------------- MODULE SpellChecker ----------------------------
(***************************************************************************)
(* The spell checker (11-day/spellchecker): the dictionary's trie and word *)
(* list, the misspelled words of a text, completions of a prefix and       *)
(* suggestions ranked in a binary search tree.  A word is a sequence of    *)
(* letters, a node of the trie the prefix that leads to it.                *)
(***************************************************************************)
EXTENDS Integers, Sequences, FiniteSets, SequencesExt

CONSTANTS
  DictLines,  \* lines of a dictionary
  Texts,      \* texts to check
  MaxLines,   \* bound on the dictionary
  Limit       \* suggestions asked for

VARIABLES
  trie,       \* by prefix: [isWord, frequency]
  dictWords,  \* the dictionary's words in order
  counted     \* history: how often each word has been inserted since it was last deleted

spellVars == <<trie, dictWords, counted>>

Letters == {"a", "b"}
Lower(c) == CASE c = "A" -> "a" [] c = "B" -> "b" [] OTHER -> c
Rank(c) == IF c = "a" THEN 1 ELSE 2

NewNode == [isWord |-> FALSE, frequency |-> 0]

Init == trie = [p \in {<<>>} |-> NewNode] /\ dictWords = <<>> /\ counted = [w \in {} |-> 0]

-----------------------------------------------------------------------------
(* Trie *)

Insert(t, w) ==
  LET grown == [p \in DOMAIN t \cup Prefixes(w) |-> IF p \in DOMAIN t THEN t[p] ELSE NewNode]
  IN  [grown EXCEPT ![w].isWord = TRUE, ![w].frequency = @ + 1]

Search(t, w) == w # <<>> /\ w \in DOMAIN t /\ t[w].isWord

Frequency(t, w) == IF Search(t, w) THEN t[w].frequency ELSE 0

Children(t, p) == {q \in DOMAIN t : Len(q) = Len(p) + 1 /\ IsPrefix(p, q)}

RECURSIVE Pruned(_, _), Pruned_KeepsBranch(_, _)
\* Broken variant: only the word's own node goes.
Pruned_KeepsBranch(t, p) == IF Children(t, p) = {} THEN [q \in DOMAIN t \ {p} |-> t[q]] ELSE t

\* The nodes no word needs any more go, from the end of the word up.
Pruned(t, p) ==
  IF p = <<>> \/ t[p].isWord \/ Children(t, p) # {} THEN t
  ELSE Pruned([q \in DOMAIN t \ {p} |-> t[q]], Front(p))

DeleteWord(t, w) == IF Search(t, w) THEN Pruned([t EXCEPT ![w] = NewNode], w) ELSE t

RECURSIVE WordLess(_, _)
WordLess(v, w) ==
  IF v = <<>> \/ w = <<>> THEN v = <<>> /\ w # <<>>
  ELSE IF v[1] # w[1] THEN Rank(v[1]) < Rank(w[1]) ELSE WordLess(Tail(v), Tail(w))

betterSuggestion(l, r) == IF l.frequency = r.frequency THEN WordLess(l.word, r.word) ELSE l.frequency > r.frequency

insertTopSuggestion(list, candidate) ==
  LET behind == {i \in DOMAIN list : betterSuggestion(candidate, list[i])}
      at == IF behind = {} THEN Len(list) + 1 ELSE CHOOSE i \in behind : \A j \in behind : i <= j
      longer == InsertAt(list, at, candidate)
  IN  IF Len(longer) > Limit THEN SubSeq(longer, 1, Limit) ELSE longer

RECURSIVE Walks(_, _), Joined(_, _)
\* The orders in which the words from node p on may be visited: a map's keys come in any order.
Walks(t, p) ==
  LET self == IF t[p].isWord THEN <<[word |-> p, frequency |-> t[p].frequency]>> ELSE <<>>
  IN  UNION {{self \o walk : walk \in Joined(t, order)} : order \in SetToSeqs(Children(t, p))}
Joined(t, nodes) ==
  IF nodes = <<>> THEN {<<>>}
  ELSE {first \o rest : first \in Walks(t, Head(nodes)), rest \in Joined(t, Tail(nodes))}

\* What AutoComplete may answer.
AutoComplete(t, prefix) ==
  IF prefix = <<>> \/ prefix \notin DOMAIN t THEN {<<>>}
  ELSE {FoldLeft(insertTopSuggestion, <<>>, walk) : walk \in Walks(t, prefix)}

-----------------------------------------------------------------------------
(* Checking a text *)

RECURSIVE Tokenize(_, _)
\* The words of a text after those found: runs of letters, in lower case.
Tokenize(text, current) ==
  LET flushed == IF current = <<>> THEN <<>> ELSE <<current>>
  IN  IF text = <<>> THEN flushed
      ELSE IF Lower(Head(text)) \in Letters THEN Tokenize(Tail(text), Append(current, Lower(Head(text))))
      ELSE flushed \o Tokenize(Tail(text), <<>>)

\* The words not in the dictionary, each once.
MisspelledWords(t, text) ==
  LET words == Tokenize(text, <<>>)
  IN  SelectSeq([i \in DOMAIN words |-> <<i, words[i]>>],
                LAMBDA x : ~Search(t, x[2]) /\ \A j \in 1..(x[1] - 1) : words[j] # x[2])

Min3(a, b, c) == IF a <= b /\ a <= c THEN a ELSE IF b <= c THEN b ELSE c

Levenshtein(v, w) ==
  LET dp[i \in 0..Len(v), j \in 0..Len(w)] ==
        IF i = 0 THEN j ELSE IF j = 0 THEN i
        ELSE Min3(dp[i - 1, j] + 1, dp[i, j - 1] + 1, dp[i - 1, j - 1] + (IF v[i] = w[j] THEN 0 ELSE 1))
  IN  dp[Len(v), Len(w)]

(* ranking.BST *)
Less(l, r) ==
  IF l.distance # r.distance THEN l.distance < r.distance
  ELSE IF l.frequency # r.frequency THEN l.frequency > r.frequency
  ELSE WordLess(l.word, r.word)

NoTree == [nil |-> TRUE]

RECURSIVE InsertNode(_, _), InOrder(_, _)
InsertNode(tree, s) ==
  IF tree = NoTree THEN [nil |-> FALSE, suggestion |-> s, left |-> NoTree, right |-> NoTree]
  ELSE IF Less(s, tree.suggestion) THEN [tree EXCEPT !.left = InsertNode(@, s)]
  ELSE [tree EXCEPT !.right = InsertNode(@, s)]

\* The suggestions found, then those of the tree in order, up to the limit.
InOrder(tree, found) ==
  IF tree = NoTree \/ Len(found) >= Limit THEN found
  ELSE LET left == InOrder(tree.left, found)
       IN  IF Len(left) >= Limit THEN left ELSE InOrder(tree.right, Append(left, tree.suggestion))

DidYouMean(t, words, word) ==
  LET place(i) == \A j \in 1..(i - 1) : words[j] # words[i]
      near(i) == place(i) /\ Levenshtein(word, words[i]) <= 2
      rank(tree, i) ==
        IF near(i)
        THEN InsertNode(tree, [word |-> words[i], distance |-> Levenshtein(word, words[i]),
                               frequency |-> Frequency(t, words[i])])
        ELSE tree
  IN  InOrder(FoldLeft(rank, NoTree, [i \in DOMAIN words |-> i]), <<>>)

-----------------------------------------------------------------------------

\* Blanks around the word are cut off; an empty line and a comment are skipped.
normalizeWord(l) == LET kept == SelectSeq(l, LAMBDA c : c # " ") IN [i \in DOMAIN kept |-> Lower(kept[i])]

LoadLine ==
  /\ Len(dictWords) < MaxLines
  /\ \E l \in DictLines :
       LET word == normalizeWord(l)
       IN  /\ word # <<>> /\ word[1] # "#"
           /\ trie' = Insert(trie, word) /\ dictWords' = Append(dictWords, word)
           /\ counted' = [w \in DOMAIN counted \cup {word} |->
                            (IF w \in DOMAIN counted THEN counted[w] ELSE 0) + (IF w = word THEN 1 ELSE 0)]

Delete ==
  \E word \in DOMAIN counted :
    /\ trie' = DeleteWord(trie, word) /\ counted' = [counted EXCEPT ![word] = 0]
    /\ UNCHANGED dictWords

Next == LoadLine \/ Delete

Spec == Init /\ [][Next]_spellVars

-----------------------------------------------------------------------------
(* What the answers should be. *)

Known == {w \in DOMAIN counted : counted[w] > 0}

Edits(w) ==
  {SubSeq(w, 1, i) \o <<c>> \o SubSeq(w, i + 1, Len(w)) : i \in 0..Len(w), c \in Letters}
  \cup {SubSeq(w, 1, i - 1) \o x \o SubSeq(w, i + 1, Len(w)) : i \in DOMAIN w, x \in {<<>>} \cup {<<c>> : c \in Letters}}

EditDistance(v, w) ==
  IF v = w THEN 0 ELSE IF w \in Edits(v) THEN 1 ELSE IF w \in UNION {Edits(u) : u \in Edits(v)} THEN 2 ELSE 3

FirstOf(s) == IF Len(s) > Limit THEN SubSeq(s, 1, Limit) ELSE s

\* The trie holds the words inserted, as often as they were, and no branch without a word.
TrieExact ==
  /\ \A p \in DOMAIN trie :
       /\ Search(trie, p) <=> p \in Known
       /\ p # <<>> => Prefixes(p) \subseteq DOMAIN trie /\ \E w \in Known : IsPrefix(p, w)
  /\ \A w \in Known : Frequency(trie, w) = counted[w]

\* Completions are the most frequent words with the prefix, whatever the order of the visits.
CompletionsExact ==
  \A p \in DOMAIN trie \ {<<>>} :
    AutoComplete(trie, p) =
      {FirstOf(SetToSortSeq({[word |-> w, frequency |-> counted[w]] : w \in {v \in Known : IsPrefix(p, v)}},
                            betterSuggestion))}

\* A text's misspelled words come once each, with the nearest words of the dictionary.
CorrectionsExact ==
  \A text \in Texts :
    LET wrong == MisspelledWords(trie, text)
        all == Tokenize(text, <<>>)
    IN  /\ {wrong[i][2] : i \in DOMAIN wrong} = ToSet(all) \ Known
        /\ Len(wrong) = Cardinality(ToSet(all) \ Known)
        /\ \A i \in DOMAIN wrong :
             DidYouMean(trie, dictWords, wrong[i][2]) =
               FirstOf(SetToSortSeq(
                 {[word |-> w, distance |-> EditDistance(wrong[i][2], w), frequency |-> Frequency(trie, w)] :
                   w \in {v \in ToSet(dictWords) : EditDistance(wrong[i][2], v) <= 2}}, Less))

\* SpellcheckRight: whatever lines are loaded and words deleted in whatever order.
SpellcheckRight == TrieExact /\ CompletionsExact /\ CorrectionsExact
=============================================================================
