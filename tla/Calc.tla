-------------------------------- MODULE Calc --------------------------------
(* The calculator that the model may call (kpack-calc): what an expression
   means. The tokens are parsed by binding powers, a subexpression at a time;
   what they mean is said here once more by the rules of writing: the last of
   the weakest signs is applied last, powers group to the right, a sign comes
   before the power it stands at, and "deg" comes after what it converts. An
   expression's meaning is a tree, whatever numbers are at its leaves. *)
EXTENDS Integers, Sequences, SequencesExt

CONSTANTS Expressions,  \* sequences of tokens
          FnNames,   \* the names that apply_fn knows
          MaxNesting,     \* MAX_DEPTH
          MaxExprLen    \* MAX_EXPR_LEN, in tokens
Signs == {"+", "-", "*", "/", "^"}
Leaves == {"num", "pi"}
CalcToken == Signs \cup Leaves \cup FnNames \cup {"(", ")", "deg", ",", "name"}
ASSUME CalcAssumption ==
  /\ \A s \in Expressions : Range(s) \subseteq CalcToken
  /\ MaxNesting \in Nat /\ MaxExprLen \in Nat

VARIABLES asked, meant   \* the expression, and the tree or the error
calcvars == <<asked, meant>>

Unasked == [tree |-> <<>>, at |-> 0, err |-> "unasked"]
CalcInit == asked \in Expressions /\ meant = Unasked

-----------------------------------------------------------------------------
(* The parser *)

Parsed(tree, p) == [tree |-> tree, at |-> p, err |-> "none"]
CalcRefuse(why) == [tree |-> <<>>, at |-> 0, err |-> why]
TokenAt(s, p) == IF p \in DOMAIN s THEN s[p] ELSE "end"

BindingPower(op) == CASE op \in {"+", "-"} -> 1 [] op \in {"*", "/"} -> 2 [] OTHER -> 4
\* The power that the right operand is read at: a power is its own right operand.
\* Mutant: powers group to the left.
NextMin_Left(op) == BindingPower(op) + 1
NextMin(op) == IF op = "^" THEN BindingPower(op) ELSE BindingPower(op) + 1

RECURSIVE Expr(_, _, _, _), Operations(_, _, _, _)

\* What is between parentheses, up to the closing one
Enclosed(s, p, depth) ==
  LET inner == Expr(s, p, 0, depth)
  IN IF inner.err # "none" THEN inner
     ELSE IF TokenAt(s, inner.at) = ")" THEN Parsed(inner.tree, inner.at + 1)
     ELSE CalcRefuse("syntax")

PrimaryExpr(s, p, depth) ==
  LET t == TokenAt(s, p)
  IN IF t \in Leaves THEN Parsed(<<t>>, p + 1)
     ELSE IF t = "(" THEN Enclosed(s, p + 1, depth)
     ELSE IF t \notin FnNames \cup {"name"} THEN CalcRefuse("syntax")
     ELSE IF TokenAt(s, p + 1) # "(" THEN CalcRefuse("unknown_name")
     ELSE LET arg == Enclosed(s, p + 2, depth)
          IN IF arg.err # "none" THEN arg
             ELSE IF t = "name" THEN CalcRefuse("unknown_name")
             ELSE Parsed(<<t, arg.tree>>, arg.at)

\* A sign's operand is read at the level of the powers.
UnaryExpr(s, p, depth) ==
  IF TokenAt(s, p) # "-" THEN PrimaryExpr(s, p, depth)
  ELSE LET operand == Expr(s, p + 1, 3, depth)
       IN IF operand.err # "none" THEN operand
          ELSE Parsed(<<"neg", operand.tree>>, operand.at)

Operations(s, lhs, power, depth) ==
  LET op == TokenAt(s, lhs.at)
  IN IF op \notin Signs \/ BindingPower(op) < power THEN lhs
     ELSE LET rhs == Expr(s, lhs.at + 1, NextMin(op), depth)
          IN IF rhs.err # "none" THEN rhs
             ELSE Operations(s, Parsed(<<op, lhs.tree, rhs.tree>>, rhs.at), power, depth)

Expr(s, p, power, outer) ==
  IF outer + 1 > MaxNesting THEN CalcRefuse("too_deep")
  ELSE LET lhs == UnaryExpr(s, p, outer + 1)
       IN IF lhs.err # "none" THEN lhs
          ELSE IF TokenAt(s, lhs.at) = "deg"
          THEN Operations(s, Parsed(<<"deg", lhs.tree>>, lhs.at + 1), power, outer + 1)
          ELSE Operations(s, lhs, power, outer + 1)

\* evaluate; the digits' separator ends the lexing before anything is parsed
Evaluate(s) ==
  IF Len(s) > MaxExprLen THEN CalcRefuse("too_long")
  ELSE IF "," \in Range(s) THEN CalcRefuse("thousands_sep")
  ELSE LET v == Expr(s, 1, 0, 0)
       IN IF v.err = "none" /\ v.at # Len(s) + 1 THEN CalcRefuse("syntax") ELSE v

Calculate == /\ meant = Unasked /\ meant' = Evaluate(asked) /\ UNCHANGED asked

-----------------------------------------------------------------------------
(* The rules of writing *)

OpenAt(s, n) == Cardinality({m \in 1..(n - 1) : s[m] = "("})
                - Cardinality({m \in 1..(n - 1) : s[m] = ")"})
\* A sign between two operands, outside all parentheses
SignsIn(s, ops) ==
  {n \in 2..(Len(s) - 1) : /\ s[n] \in ops /\ OpenAt(s, n) = 0
                           /\ s[n - 1] \in Leaves \cup {")", "deg"}}
Wrong == <<"wrong">>
Apply2(op, a, b) == IF Wrong \in {a, b} THEN Wrong ELSE <<op, a, b>>
Apply1(op, a) == IF a = Wrong THEN Wrong ELSE <<op, a>>

RECURSIVE Means(_)
SplitAt(s, n) == Apply2(s[n], Means(SubSeq(s, 1, n - 1)), Means(SubSeq(s, n + 1, Len(s))))
ClosesAt(s, n) == \E m \in DOMAIN s : m = Len(s) /\ s[m] = ")"
                  /\ \A k \in (n + 1)..m : OpenAt(s, k) > OpenAt(s, n)
Means(s) ==
  IF s = <<>> THEN Wrong
  ELSE IF SignsIn(s, {"+", "-"}) # {} THEN SplitAt(s, Max(SignsIn(s, {"+", "-"})))
  ELSE IF SignsIn(s, {"*", "/"}) # {} THEN SplitAt(s, Max(SignsIn(s, {"*", "/"})))
  ELSE IF s[1] = "-" THEN Apply1("neg", Means(Tail(s)))
  ELSE IF SignsIn(s, {"^"}) # {} THEN SplitAt(s, Min(SignsIn(s, {"^"})))
  ELSE IF Last(s) = "deg"
  THEN IF Len(s) > 1 /\ s[Len(s) - 1] = "deg" THEN Wrong ELSE Apply1("deg", Means(Front(s)))
  ELSE IF s[1] = "(" /\ ClosesAt(s, 1) THEN Means(SubSeq(s, 2, Len(s) - 1))
  ELSE IF Len(s) > 1 /\ s[1] \in FnNames /\ s[2] = "(" /\ ClosesAt(s, 2)
  THEN Apply1(s[1], Means(SubSeq(s, 3, Len(s) - 1)))
  ELSE IF Len(s) = 1 /\ s[1] \in Leaves THEN s ELSE Wrong

\* An expression is given the one meaning that the rules give it, and none if
\* they give it none; one that is too long or nested too deeply is refused.
CalcMeansIt ==
  meant.err \notin {"unasked", "too_long", "too_deep"} =>
    IF meant.err = "none" THEN meant.tree = Means(asked) ELSE Means(asked) = Wrong
=============================================================================
