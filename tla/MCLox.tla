------------------------------- MODULE MCLox --------------------------------
(***************************************************************************)
(* Small instances of Lox.  Programs are syntax trees, combined from a few *)
(* expressions and statements, and other lines are sequences of lexemes.   *)
(***************************************************************************)
EXTENDS LoxMeaning, Syntax

T(word) == [type   |-> CASE word \in {"a", "b", "c"} -> "identifier"
                         [] word \in {"0", "1"} -> "number"
                         [] word \in {"'s'"} -> "string"
                         [] OTHER -> word,
            lexeme |-> IF word = "'s'" THEN "s" ELSE word]
L(words) == [i \in 1 .. Len(words) |-> T(words[i])]

MCNumbers    == {"0", "1"}
Pairs        == MCNumbers \X MCNumbers

\* Which pairs each operator takes to "1".
Ones         == <<{<<"0", "1">>, <<"1", "0">>}, {<<"1", "0">>}, {<<"1", "1">>},
                  {<<"1", "0">>, <<"1", "1">>}>>
MCArithmetic == [op \in {13, 14, 15, 16} |->
                   [p \in Pairs |-> IF p \in Ones[op - 12] THEN "1" ELSE "0"]]
MCLess       == [p \in Pairs |-> p = <<"0", "1">>]
MCMinus      == [x \in MCNumbers |-> x]
MCStrings    == {"", "a", "b", "c", "s"}
MCConcat     == [p \in MCStrings \X MCStrings |-> IF p[1] = "" THEN p[2] ELSE p[1]]
MCHash       == [k \in MCStrings |-> 1]
MCValues     == {"null", "nil", "true", "false"} \union MCNumbers \union MCStrings

\* Scripts: a block with a local, then statements that use it, nested twice.
\* Some fail: an undefined variable, the negation of nil, a sum of unlike types; and
\* some swallow an error: a loop that makes nil of a goes on to "1 - a" or "b <= a".
A == Variable("a")
Nil_ == Keyword("nil")
One  == Numeral("1")
Exprs  == {A, Variable("c"), Unary("-", Nil_), Assign("a", Numeral("0")), Binary(A, "+", One),
           Binary(One, "-", A), Binary(A, "and", Variable("b")), Binary(Variable("b"), "!=", A),
           Binary(Variable("b"), "<=", A)}
NoVar  == {Evaluate(e) : e \in Exprs} \union {Display(e) : e \in Exprs}
Simple == NoVar \union {Var("b", e) : e \in Exprs}
Nested == {Block(<<s, r>>) : s \in Simple, r \in NoVar}
            \union {If(e, s, Display(r)) : e \in Exprs, s \in NoVar, r \in Exprs}
            \union {While(e, Evaluate(Assign("a", Nil_))) : e \in Exprs}
            \union {For(Var("b", One), e, Assign("a", Nil_), s) : e \in Exprs, s \in NoVar}
Scripts == {<<Block(<<Var("a", One), n, Display(A)>>)>> : n \in Nested}

\* Every operator on numbers, and on operands that are none, above a local.
Operators == {"+", "-", "*", "/", "<", "<=", ">", ">=", "==", "!="}
Sums      == {<<Display(Binary(Numeral(p[1]), op, Numeral(p[2])))>> : op \in Operators, p \in Pairs}
Unlike    == {<<Block(<<Var("a", One), Display(A), Evaluate(Binary(A, op, Nil_)), Display(A)>>)>> :
                op \in Operators}
Operations == Sums \union Unlike

\* n locals, each in a block of its own, then a sum: two more values.
Deep[n \in Nat] ==
  IF n = 0 THEN <<Display(Binary(Numeral("0"), "+", One))>>
           ELSE <<Block(<<Var("a", Nil_)>> \o Deep[n - 1])>>
DeepScripts == {Deep[n] : n \in U8 - 3 .. U8 + 1}

\* Lines for the REPL that fail at run time, some while a local is on the stack,
\* and lines that are refused.
ReplPrograms ==
  {<<s>> : s \in {Var("a", One), Display(A), Evaluate(Assign("a", Nil_)), Evaluate(Binary(One, "+", Nil_)),
                  Block(<<Var("b", One), Evaluate(Assign("c", Variable("b")))>>),
                  Block(<<Var("b", Nil_), Evaluate(Assign("b", A))>>)}}
Mistakes == {L(<<"var", "=", "1", ";">>), L(<<"print", "1">>), L(<<"{", "print", "1", ";">>),
             L(<<"print", "1", "or", "1", ";">>)}

ScriptLines == {Program(p) : p \in Scripts \union Operations}
DeepLines   == {Program(p) : p \in DeepScripts}
ReplLines   == {Program(p) : p \in ReplPrograms} \union Mistakes
Parsed      == {[text |-> Program(p), statements |-> p] : p \in Scripts \union Operations \union DeepScripts \union ReplPrograms}
MCTrees     == Parsed

\* A subtraction that fails above a local, and a line that fails before one that
\* has a local.
SwallowedLines == {L(<<"{", "var", "a", "=", "1", "-", "nil", ";", "print", "a", ";", "}">>)}
FailingLines   == {L(<<"1", "+", "nil", ";">>), L(<<"{", "var", "a", "=", "1", ";", "print", "a", ";", "}">>)}

File(lines) == [interactive |-> FALSE, lines |-> lines, maxLines |-> 1, tops |-> {0}]
MCSessions == [file |-> File(ScriptLines),
               deep |-> File(DeepLines),
               repl |-> [interactive |-> TRUE, lines |-> ReplLines, maxLines |-> 4, tops |-> InitialTops]]
SwallowedSessions == [file |-> File(SwallowedLines)]
FailingSessions   == [repl |-> [interactive |-> TRUE, lines |-> FailingLines, maxLines |-> 2, tops |-> {0}]]
=============================================================================
