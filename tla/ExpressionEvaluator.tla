------------------------- MODULE ExpressionEvaluator ------------------------
(***************************************************************************)
(* The expression evaluator (08-day/exp-evaluator): Tokenize, the shunting *)
(* yard of InfixToPostfix and EvaluatePostFix, token by token.  A value is *)
(* the operation that gives it, and a number the place it starts at, so    *)
(* that which operands meet shows, whatever the arithmetic.  What is not   *)
(* known of a quotient's divisor, a zero, is left open.                    *)
(***************************************************************************)
EXTENDS Naturals, Sequences, FiniteSets

CONSTANT Inputs  \* lines: sequences of "1" (a digit), ".", " ", the operators, "(", ")" and "x"

VARIABLES
  phase,   \* "tokenize", "parse", "drain", "evaluate" or "done"
  line,    \* expr
  tokens,  \* tokens still to read
  stack,   \* of operators and parentheses, then of values
  output,  \* the postfix tokens so far
  result   \* [kind, value]

evaluatorVars == <<phase, line, tokens, stack, output, result>>

Pending == [kind |-> "pending", value |-> <<>>]
Error(kind) == [kind |-> kind, value |-> <<>>]

Operators == {"+", "-", "*", "/", "^"}
OpPrecedence(op) == CASE op \in {"+", "-"} -> 1 [] op \in {"*", "/"} -> 2 [] OTHER -> 3
LeftAssoc(op) == op # "^"

Init ==
  /\ line \in Inputs /\ phase = "tokenize"
  /\ tokens = <<>> /\ stack = <<>> /\ output = <<>> /\ result = Pending

Fail(kind) == phase' = "done" /\ result' = Error(kind) /\ UNCHANGED <<line, tokens, stack, output>>

-----------------------------------------------------------------------------
(* Tokenize *)

Count(s, c) == Cardinality({k \in DOMAIN s : s[k] = c})

\* How far the digits and points from position i on go.
NumberEnd(s, i) == CHOOSE j \in i..Len(s) :
  /\ \A k \in i..j : s[k] \in {"1", "."}
  /\ j = Len(s) \/ s[j + 1] \notin {"1", "."}

RECURSIVE Tokens(_, _)
\* The tokens from position i on; one that is bad is "bad".
Tokens(s, i) ==
  IF i > Len(s) THEN <<>>
  ELSE CASE s[i] = " " -> Tokens(s, i + 1)
         [] s[i] \in {"1", "."} ->
              LET j == NumberEnd(s, i)
                  digits == SubSeq(s, i, j)
              IN  <<[type |-> IF Count(digits, ".") > 1 \/ Count(digits, "1") = 0 THEN "bad" ELSE "number",
                     pos |-> i]>> \o Tokens(s, j + 1)
         [] s[i] \in Operators \cup {"(", ")"} -> <<[type |-> s[i], pos |-> i]>> \o Tokens(s, i + 1)
         [] OTHER -> <<[type |-> "bad", pos |-> i]>>

Tokenize ==
  /\ phase = "tokenize"
  /\ LET all == Tokens(line, 1)
     IN  IF all = <<>> THEN Fail("empty")
         ELSE IF \E k \in DOMAIN all : all[k].type = "bad" THEN Fail("syntax")
         ELSE tokens' = all /\ phase' = "parse" /\ UNCHANGED <<line, stack, output, result>>

-----------------------------------------------------------------------------
(* InfixToPostfix *)

Top(s) == s[Len(s)]
Popped(s) == SubSeq(s, 1, Len(s) - 1)

ShouldPop(top, op) ==
  /\ top.type \in Operators
  /\ \/ OpPrecedence(top.type) > OpPrecedence(op)
     \/ OpPrecedence(top.type) = OpPrecedence(op) /\ LeftAssoc(op)

\* The top of the stack goes to the output.
MoveTop == output' = Append(output, Top(stack)) /\ stack' = Popped(stack)

\* One turn of the loop over the tokens, or of a loop inside it.
ParseToken ==
  /\ phase = "parse" /\ tokens # <<>>
  /\ LET t == Head(tokens)
     IN  CASE t.type = "number" -> output' = Append(output, t) /\ tokens' = Tail(tokens) /\ UNCHANGED stack
           [] t.type = "(" -> stack' = Append(stack, t) /\ tokens' = Tail(tokens) /\ UNCHANGED output
           [] t.type \in Operators /\ stack # <<>> /\ ShouldPop(Top(stack), t.type) -> MoveTop /\ UNCHANGED tokens
           [] t.type \in Operators /\ ~(stack # <<>> /\ ShouldPop(Top(stack), t.type)) ->
                stack' = Append(stack, t) /\ tokens' = Tail(tokens) /\ UNCHANGED output
           [] t.type = ")" /\ stack # <<>> /\ Top(stack).type = "(" ->
                stack' = Popped(stack) /\ tokens' = Tail(tokens) /\ UNCHANGED output
           [] t.type = ")" /\ stack # <<>> /\ Top(stack).type # "(" -> MoveTop /\ UNCHANGED tokens
           [] OTHER -> FALSE
  /\ UNCHANGED <<phase, line, result>>

Unopened == phase = "parse" /\ tokens # <<>> /\ Head(tokens).type = ")" /\ stack = <<>> /\ Fail("mismatch")

\* The tokens are read: what is left on the stack goes to the output.
Drain ==
  /\ phase = "parse" /\ tokens = <<>> /\ stack # <<>>
  /\ IF Top(stack).type = "(" THEN Fail("mismatch")
     ELSE MoveTop /\ UNCHANGED <<phase, line, tokens, result>>

StartEvaluation ==
  /\ phase = "parse" /\ tokens = <<>> /\ stack = <<>>
  /\ phase' = "evaluate" /\ tokens' = output /\ output' = <<>>
  /\ UNCHANGED <<line, stack, result>>

-----------------------------------------------------------------------------
(* EvaluatePostFix *)

PushNumber ==
  /\ phase = "evaluate" /\ tokens # <<>> /\ Head(tokens).type = "number"
  /\ stack' = Append(stack, <<Head(tokens).pos>>) /\ tokens' = Tail(tokens)
  /\ UNCHANGED <<phase, line, output, result>>

Operate ==
  /\ phase = "evaluate" /\ tokens # <<>> /\ Head(tokens).type \in Operators
  /\ IF Len(stack) < 2 THEN Fail("missing operand")
     ELSE LET op == Head(tokens).type
              right == Top(stack)
              left == Top(Popped(stack))
          IN  \/ /\ stack' = Append(Popped(Popped(stack)), <<op, left, right>>) /\ tokens' = Tail(tokens)
                 /\ UNCHANGED <<phase, line, output, result>>
              \/ op = "/" /\ Fail("division by zero")

Finish ==
  /\ phase = "evaluate" /\ tokens = <<>>
  /\ IF Len(stack) # 1 THEN Fail("missing operator")
     ELSE phase' = "done" /\ result' = [kind |-> "value", value |-> Top(stack)] /\ UNCHANGED <<line, tokens, stack, output>>

Next == Tokenize \/ ParseToken \/ Unopened \/ Drain \/ StartEvaluation \/ PushNumber \/ Operate \/ Finish

Spec == Init /\ [][Next]_evaluatorVars

-----------------------------------------------------------------------------
(* The value of an expression by its grammar: split where the operator that binds least is, the
   last of those that associate to the left, the first of those that do to the right. *)

NoValue == <<>>

Depth(t, k) == Cardinality({j \in 1..k : t[j].type = "("}) - Cardinality({j \in 1..k : t[j].type = ")"})
Outer(t) == {k \in DOMAIN t : t[k].type \in Operators /\ Depth(t, k) = 0}

Balanced(t) ==
  /\ Count([k \in DOMAIN t |-> t[k].type], "(") = Count([k \in DOMAIN t |-> t[k].type], ")")
  /\ \A k \in DOMAIN t : Cardinality({j \in 1..k : t[j].type = ")"}) <= Cardinality({j \in 1..k : t[j].type = "("})

Split(t) ==
  LET least == {k \in Outer(t) : \A j \in Outer(t) : OpPrecedence(t[k].type) <= OpPrecedence(t[j].type)}
  IN  CHOOSE k \in least : \A j \in least : IF LeftAssoc(t[k].type) THEN j <= k ELSE k <= j

RECURSIVE Meaning(_)
Meaning(t) ==
  IF t = <<>> THEN NoValue
  ELSE IF Len(t) = 1 THEN IF t[1].type = "number" THEN <<t[1].pos>> ELSE NoValue
  ELSE IF Outer(t) # {}
  THEN LET k == Split(t)
           left == Meaning(SubSeq(t, 1, k - 1))
           right == Meaning(SubSeq(t, k + 1, Len(t)))
       IN  IF left = NoValue \/ right = NoValue THEN NoValue ELSE <<t[k].type, left, right>>
  ELSE IF t[1].type = "(" /\ Top(t).type = ")" THEN Meaning(SubSeq(t, 2, Len(t) - 1))
  ELSE NoValue

RECURSIVE Numbers(_)
Numbers(value) == IF Len(value) = 1 THEN value ELSE Numbers(value[2]) \o Numbers(value[3])

\* EvaluatesRight: a well-formed expression has the value of its grammar (or divides by zero), a
\* line with unbalanced parentheses none, and what is evaluated at all uses every number once, in
\* order.  (More is evaluated than the grammar allows: 1 1 + is.)
EvaluatesRight ==
  phase = "done" =>
    LET all == Tokens(line, 1)
        good == all # <<>> /\ \A k \in DOMAIN all : all[k].type # "bad"
        given == SelectSeq(all, LAMBDA t : t.type = "number")
    IN  /\ good /\ Balanced(all) /\ Meaning(all) # NoValue =>
             \/ result = [kind |-> "value", value |-> Meaning(all)]
             \/ result = Error("division by zero") /\ \E k \in DOMAIN all : all[k].type = "/"
        /\ ~(good /\ Balanced(all)) => result.kind # "value"
        /\ result.kind = "value" => Numbers(result.value) = [k \in DOMAIN given |-> given[k].pos]
=============================================================================
