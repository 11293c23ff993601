-------------------------- MODULE ExpressionParser --------------------------
(* The parser and the operators of expressions, src/src/eval.cc, and the     *)
(* reference they are held against.                                          *)
(*                                                                           *)
(* The grammar is a PEG: a rule that fails gives back its input, but what    *)
(* the actions of its parts have pushed stays.  A text is the sequence of    *)
(* its characters; a name and a number are one character.                    *)
EXTENDS Expression, FiniteSets, SequencesExt, TLC

CONSTANTS
    Literals, \* function: characters that are numbers -> the number
    MaxInt    \* the largest value of ExpressionType

ASSUME MaxIntAssumption == MaxInt \in Nat \ {0}

-----------------------------------------------------------------------------
(* The operators.                                                            *)

Operator(name, chars) == [name |-> name, chars |-> chars]

\* The binary operators, the loosest first; in one level, in the order in
\* which the grammar tries them.
Levels ==
    << <<Operator("||", <<"|", "|">>)>>,
       <<Operator("&&", <<"&", "&">>)>>,
       <<Operator("|", <<"|">>)>>,
       <<Operator("^", <<"^">>)>>,
       <<Operator("&", <<"&">>)>>,
       <<Operator("==", <<"=", "=">>), Operator("!=", <<"!", "=">>)>>,
       <<Operator("<=", <<"<", "=">>), Operator(">=", <<">", "=">>),
         Operator("<", <<"<">>), Operator(">", <<">">>)>>,
       <<Operator("+", <<"+">>), Operator("-", <<"-">>)>>,
       <<Operator("*", <<"*">>), Operator("/", <<"/">>), Operator("%", <<"%">>)>> >>

UnaryOperators == ("!" :> "Not") @@ ("~" :> "Invert") @@ ("+" :> "UAdd") @@ ("-" :> "UMinus")

\* A parser keeps its input and a stack of stacks of trees, the top last.
EmptyParser(x) == [input |-> x, stacks |-> << <<>> >>, symbols |-> {}, fault |-> FALSE]

PushExpr(st, tree) ==
    [st EXCEPT !.stacks = Append(Front(@), Append(Last(@), tree))]

\* ParserStack::push of an operator that takes n operands.  The top of an empty
\* stack is undefined, and nothing is said of the parser after that.
PushOperator(st, op, n) ==
    LET top == Last(st.stacks)
        rest == SubSeq(top, 1, Len(top) - n)
    IN  IF Len(top) < n THEN [st EXCEPT !.fault = TRUE]
        ELSE [st EXCEPT !.stacks =
                  Append(Front(@), Append(rest, Node(op, SubSeq(top, Len(rest) + 1, Len(top)))))]

Open(st) == [st EXCEPT !.stacks = Append(@, <<>>)]

Root(st) == IF Len(Last(st.stacks)) = 1 THEN Last(st.stacks)[1] ELSE Null

Close(st) == PushExpr([st EXCEPT !.stacks = Front(@)], Root(st))

-----------------------------------------------------------------------------
(* The rules of the grammar.  A result tells whether the rule matched, where *)
(* the input goes on, and what the parser has become in either case.         *)

At(st, pos) == IF pos <= Len(st.input) THEN st.input[pos] ELSE "eof"
Matched(pos, st) == [ok |-> TRUE, pos |-> pos, st |-> st]
Failed(pos, st) == [ok |-> FALSE, pos |-> pos, st |-> st]

RECURSIVE Skip(_, _)
Skip(st, pos) == IF At(st, pos) = " " THEN Skip(st, pos + 1) ELSE pos

\* The first operator of a level that the input starts with, 0 if there is none.
OperatorAt(k, st, pos) ==
    SelectInSeq(Levels[k], LAMBDA o : IsPrefix(o.chars, SubSeq(st.input, pos, Len(st.input))))

RECURSIVE BinaryRule(_, _, _), StarRule(_, _, _), UnaryRule(_, _)

\* value: a number, a variable, or an expression in brackets, with spaces around.
ValueRule(start, st) ==
    LET pos == Skip(st, start)
        c == At(st, pos)
    IN  IF c \in DOMAIN Literals
        THEN Matched(Skip(st, pos + 1), PushExpr(st, Leaf("number", c)))
        ELSE IF c \in Names
        THEN Matched(Skip(st, pos + 1),
                     [PushExpr(st, Leaf("symbol", c)) EXCEPT !.symbols = @ \cup {c}])
        ELSE IF c # "(" THEN Failed(start, st)
        ELSE LET r == BinaryRule(1, Skip(st, pos + 1), Open(st))
             IN  IF r.ok /\ At(st, Skip(st, r.pos)) = ")"
                 THEN Matched(Skip(st, Skip(st, r.pos) + 1), Close(r.st))
                 ELSE Failed(start, r.st)

\* unary_expression: a value, or an operator before a value or before another
\* unary expression.
UnaryRule(start, st) ==
    LET v == ValueRule(start, st)
        pos == Skip(st, start)
    IN  IF v.ok THEN v
        ELSE IF At(st, pos) \notin DOMAIN UnaryOperators THEN Failed(start, v.st)
        ELSE LET v2 == ValueRule(pos + 1, v.st)
                 r == IF v2.ok THEN v2 ELSE UnaryRule(pos + 1, v2.st)
             IN  IF r.ok THEN Matched(Skip(st, r.pos), PushOperator(r.st, UnaryOperators[At(st, pos)], 1))
                 ELSE Failed(start, r.st)

BinaryRule(k, pos, st) ==
    IF k > Len(Levels) THEN UnaryRule(pos, st)
    ELSE LET r == BinaryRule(k + 1, pos, st)
         IN  IF r.ok THEN StarRule(k, r.pos, r.st) ELSE r

\* The repetition of an operator of level k and its right operand ends, and
\* succeeds, at the first one that does not match.
StarRule_RightFirst(k, pos, st) ==
    LET i == OperatorAt(k, st, pos)
        r == BinaryRule(k, pos + Len(Levels[k][i].chars), st)
    IN  IF i = 0 THEN Matched(pos, st)
        ELSE IF r.ok THEN Matched(r.pos, PushOperator(r.st, Levels[k][i].name, 2))
        ELSE Matched(pos, r.st)
StarRule(k, pos, st) ==
    LET i == OperatorAt(k, st, pos)
        r == BinaryRule(k + 1, pos + Len(Levels[k][i].chars), st)
    IN  IF i = 0 THEN Matched(pos, st)
        ELSE IF r.ok THEN StarRule(k, r.pos, PushOperator(r.st, Levels[k][i].name, 2))
        ELSE Matched(pos, r.st)

\* grammar: an expression and the end of the input.  A text that does not match
\* has no tree, but the symbols that were found in it.
Grammar(x) ==
    LET r == BinaryRule(1, 1, EmptyParser(x))
        ok == r.ok /\ r.pos > Len(x)
    IN  [ok |-> ok, root |-> IF ok THEN Root(r.st) ELSE Null,
         symbols |-> r.st.symbols, fault |-> r.st.fault]

-----------------------------------------------------------------------------
(* Evaluation in two's complement.  Trap is what the division instruction    *)
(* raises; overflow of the other operations wraps in the build.              *)

Trap == 2 * MaxInt + 2

Wrap(x) == ((x + MaxInt + 1) % (2 * MaxInt + 2)) - MaxInt - 1

Truth(b) == IF b THEN 1 ELSE 0

\* C++ division truncates towards zero.
Quotient(x, y) ==
    LET Abs(n) == IF n < 0 THEN -n ELSE n
        q == Abs(x) \div Abs(y)
    IN  IF (x < 0) # (y < 0) THEN -q ELSE q

\* Bits of a value, the sign bit included; MaxInt is one less than a power of 2.
RECURSIVE BitOp(_, _, _, _)
BitOp(F(_, _), x, y, n) ==
    IF n = 0 THEN 0
    ELSE F(x % 2, y % 2) + 2 * BitOp(F, x \div 2, y \div 2, n \div 2)

Bits(F(_, _), x, y) ==
    LET Word(v) == v % (2 * MaxInt + 2)
    IN  Wrap(BitOp(F, Word(x), Word(y), 2 * MaxInt + 1))

\* The operators whose operands are both evaluated.
Strict(op, x, y) ==
    CASE op = "+" -> Wrap(x + y)
      [] op = "-" -> Wrap(x - y)
      [] op = "*" -> Wrap(x * y)
      [] op = "/" -> IF y = 0 \/ (x = -MaxInt - 1 /\ y = -1) THEN Trap ELSE Quotient(x, y)
      [] op = "%" -> IF y = 0 \/ (x = -MaxInt - 1 /\ y = -1) THEN Trap
                     ELSE x - y * Quotient(x, y)
      [] op = "==" -> Truth(x = y)
      [] op = "!=" -> Truth(x # y)
      [] op = "<" -> Truth(x < y)
      [] op = ">" -> Truth(x > y)
      [] op = "<=" -> Truth(x <= y)
      [] op = ">=" -> Truth(x >= y)
      [] op = "&" -> Bits(LAMBDA a, b : a * b, x, y)
      [] op = "|" -> Bits(LAMBDA a, b : Truth(a + b > 0), x, y)
      [] op = "^" -> Bits(LAMBDA a, b : Truth(a # b), x, y)

Unary(op, x) ==
    CASE op = "UAdd" -> x
      [] op = "UMinus" -> Wrap(-x)
      [] op = "Not" -> Truth(x = 0)
      [] op = "Invert" -> -x - 1

\* A number that does not fit reads as the largest value.
Number(c) == IF Literals[c] > MaxInt THEN MaxInt ELSE Literals[c]

\* Expr::eval, with the values of the symbols in env.  && and || evaluate their
\* right operand only when the left one does not decide.
RECURSIVE Eval(_, _)
Eval_Eager(t, env) ==
    LET Arg(i) == Eval(t.args[i], env)
    IN  CASE t.op = "number" -> Number(t.of)
          [] t.op = "symbol" -> env[t.of]
          [] Len(t.args) = 1 -> IF Arg(1) = Trap THEN Trap ELSE Unary(t.op, Arg(1))
          [] OTHER -> IF Trap \in {Arg(1), Arg(2)} THEN Trap
                      ELSE IF t.op = "&&" THEN Truth(Arg(1) # 0 /\ Arg(2) # 0)
                      ELSE IF t.op = "||" THEN Truth(Arg(1) # 0 \/ Arg(2) # 0)
                      ELSE Strict(t.op, Arg(1), Arg(2))
Eval(t, env) ==
    LET Arg(i) == Eval(t.args[i], env)
        Decide(v) == IF v = Trap THEN Trap ELSE Truth(v # 0)
    IN  CASE t.op = "number" -> Number(t.of)
          [] t.op = "symbol" -> env[t.of]
          [] Len(t.args) = 1 -> IF Arg(1) = Trap THEN Trap ELSE Unary(t.op, Arg(1))
          [] t.op = "&&" -> IF Decide(Arg(1)) \in {Trap, 0} THEN Decide(Arg(1)) ELSE Decide(Arg(2))
          [] t.op = "||" -> IF Decide(Arg(1)) \in {Trap, 1} THEN Decide(Arg(1)) ELSE Decide(Arg(2))
          [] OTHER -> IF Trap \in {Arg(1), Arg(2)} THEN Trap ELSE Strict(t.op, Arg(1), Arg(2))

-----------------------------------------------------------------------------
(* The reference: the longest operators are cut off first, and an expression *)
(* is split at the last of its loosest operators that is outside brackets.   *)

Operators == UNION {ToSet(Levels[k]) : k \in DOMAIN Levels}
LevelOf(name) == CHOOSE k \in DOMAIN Levels : \E o \in ToSet(Levels[k]) : o.name = name

RECURSIVE Tokens(_)
Tokens(chars) ==
    LET two == {o.name : o \in {x \in Operators :
                    Len(x.chars) = 2 /\ IsPrefix(x.chars, chars)}}
    IN  IF chars = <<>> THEN <<>>
        ELSE IF chars[1] = " " THEN Tokens(Tail(chars))
        ELSE IF two # {} THEN <<CHOOSE n \in two : TRUE>> \o Tokens(SubSeq(chars, 3, Len(chars)))
        ELSE <<chars[1]>> \o Tokens(Tail(chars))

OperandEnd(t) == t \in Names \cup DOMAIN Literals \cup {")"}

RECURSIVE Reference(_)
Reference(ts) ==
    LET Depth(i) == Cardinality({j \in 1 .. i : ts[j] = "("})
                        - Cardinality({j \in 1 .. i : ts[j] = ")"})
        splits == {i \in 2 .. Len(ts) :
                      /\ ts[i] \in {o.name : o \in Operators}
                      /\ Depth(i) = 0 /\ OperandEnd(ts[i - 1])}
        Strong(i, args) == IF Null \in ToSet(args) THEN Null ELSE Node(i, args)
    IN  IF Len(ts) = 1 /\ ts[1] \in Names THEN Leaf("symbol", ts[1])
        ELSE IF Len(ts) = 1 /\ ts[1] \in DOMAIN Literals THEN Leaf("number", ts[1])
        ELSE IF splits # {}
        THEN LET i == CHOOSE i \in splits : \A j \in splits \ {i} :
                          \/ LevelOf(ts[i]) < LevelOf(ts[j])
                          \/ LevelOf(ts[i]) = LevelOf(ts[j]) /\ i > j
             IN  Strong(ts[i], <<Reference(SubSeq(ts, 1, i - 1)),
                                 Reference(SubSeq(ts, i + 1, Len(ts)))>>)
        ELSE IF Len(ts) > 1 /\ ts[1] \in DOMAIN UnaryOperators
        THEN Strong(UnaryOperators[ts[1]], <<Reference(Tail(ts))>>)
        ELSE IF Len(ts) > 2 /\ ts[1] = "(" /\ Last(ts) = ")"
        THEN Reference(SubSeq(ts, 2, Len(ts) - 1))
        ELSE Null

ReferenceTree(x) == Reference(Tokens(x))

\* The parser's actions are not undone when a rule fails and another one is
\* tried (eval.cc:81, :91): the tree of every text that is accepted is still the
\* one that precedence and associativity demand, and every other text is refused.
\* An action finds too few operands only in a text with an unclosed bracket.
ParsesAsReference ==
    LET Count(c) == Cardinality({i \in DOMAIN text : text[i] = c})
    IN  phase \in {"parsed", "validate"} /\ ns = 1 =>
            \/ Grammar(text).fault /\ Count("(") > Count(")")
            \/ ~Grammar(text).fault /\ expr.root = ReferenceTree(text)

\* A division of leaves, tested before it is done.
Guarded(t) ==
    /\ t.op = "&&" /\ t.args[2].op \in {"/", "%"} /\ t.args[1] = t.args[2].args[2]
    /\ \A i \in 1 .. 2 : t.args[2].args[i].args = <<>>

\* A condition that tests a divisor before it divides raises the fault that ends
\* the simulation (eval.cc:394, :406) for no divisor but -1, and then only when the
\* dividend is the smallest value, whose quotient does not fit.
GuardedDivision ==
    LET Read(i) == Eval(expr.root.args[2].args[i], Environment)
    IN  phase = "ready" /\ Guarded(expr.root) /\ result = Trap =>
            Read(1) = -MaxInt - 1 /\ Read(2) = -1
=============================================================================
