------------------------------ MODULE Meaning -------------------------------
(***************************************************************************)
(* What programs mean: an evaluator of syntax trees with variables by name *)
(* in scopes, a reference for compiler and VM together, with none of their *)
(* bytes, slots, jumps, stacks or tables.                                  *)
(*                                                                         *)
(* A machine m has env, the scopes from the globals inwards, each a        *)
(* function from names to values; the value of the last expression; what   *)
(* was printed; and whether a runtime error has stopped it.                *)
(***************************************************************************)
EXTENDS Bytecode, Objects, SequencesExt

Fail(m) == [m EXCEPT !.failed = TRUE]

\* The innermost scope that has the name, 0 if there is none.
ScopeOf(m, name) == LET scopes == {b \in 1 .. Len(m.env) : name \in DOMAIN m.env[b]}
                    IN  IF scopes = {} THEN 0 ELSE CHOOSE b \in scopes : \A c \in scopes : c <= b

\* The tokens of module Syntax.
ValueOf(token) == CASE token.type = "nil"   -> Nil
                    [] token.type = "true"  -> True
                    [] token.type = "false" -> False
                    [] OTHER -> token.lexeme

Fits(op, x, y) ==
  \/ op \in {"==", "!="}
  \/ {x, y} \subseteq Numbers
  \/ op = "+" /\ {x, y} \subseteq Keys

\* The value of a binary operator.
Apply(op, x, y) ==
  CASE op = "==" -> Bool(x = y)
    [] op = "!=" -> Bool(x # y)
    [] op = "<"  -> Bool(Less[x, y])
    [] op = ">"  -> Bool(Less[y, x])
    [] op = ">=" -> Bool(~Less[x, y])
    [] op = "<=" -> Bool(~Less[y, x])
    [] op = "+"  -> IF x \in Keys THEN Concat[x, y] ELSE Arithmetic[OP_ADD][x, y]
    [] op = "-"  -> Arithmetic[OP_SUBTRACT][x, y]
    [] op = "*"  -> Arithmetic[OP_MULTIPLY][x, y]
    [] op = "/"  -> Arithmetic[OP_DIVIDE][x, y]

RECURSIVE Eval(_, _)

Unary(op, m) ==
  IF m.failed THEN m ELSE
  CASE op = "!" -> [m EXCEPT !.value = Bool(m.value \in Falsey)]
    [] op = "-" -> IF m.value \in Numbers THEN [m EXCEPT !.value = Minus[m.value]] ELSE Fail(m)

\* Both operands, from left to right, each once; of "and" the right one only if
\* the left one is true.
Binary(op, left, right, m) ==
  LET l == Eval(left, m)
      r == Eval(right, l)
  IN  IF l.failed THEN l
      ELSE IF op = "and" THEN (IF l.value \in Falsey THEN l ELSE r)
      ELSE IF r.failed \/ ~Fits(op, l.value, r.value) THEN Fail(r)
      ELSE [r EXCEPT !.value = Apply(op, l.value, r.value)]

Assign(name, m) ==
  IF m.failed THEN m
  ELSE IF ScopeOf(m, name) = 0 THEN Fail(m)
  ELSE [m EXCEPT !.env[ScopeOf(m, name)][name] = m.value]

Eval(e, m) ==
  IF m.failed THEN m ELSE
  CASE e.is = "literal"   -> [m EXCEPT !.value = ValueOf(e.token)]
    [] e.is = "variable"  -> IF ScopeOf(m, e.name) = 0 THEN Fail(m)
                             ELSE [m EXCEPT !.value = m.env[ScopeOf(m, e.name)][e.name]]
    [] e.is = "assign"    -> Assign(e.name, Eval(e.right, m))
    [] e.is = "unary"     -> Unary(e.op, Eval(e.right, m))
    [] e.is = "binary"    -> Binary(e.op, e.left, e.right, m)

-----------------------------------------------------------------------------
\* A name is declared after its value is known.
Declare(name, m) ==
  IF m.failed THEN m ELSE [m EXCEPT !.env[Len(m.env)] = (name :> m.value) @@ @]

Show(m)  == IF m.failed THEN m ELSE [m EXCEPT !.printed = Append(@, m.value)]
Open(m)  == [m EXCEPT !.env = Append(@, <<>>)]
Close(m) == IF m.failed THEN m ELSE [m EXCEPT !.env = Front(@)]

RECURSIVE Exec(_, _), Loop(_, _, _, _)

NoStep == [is |-> "literal", token |-> [type |-> "nil", lexeme |-> "nil"]]

\* As long as the condition is true, the body and then the step.
Loop(condition, step, body, m) ==
  LET c == Eval(condition, m)
  IN  IF c.failed \/ c.value \in Falsey THEN c
      ELSE Loop(condition, step, body, Eval(step, Exec(body, c)))

ExecAll(statements, m) == FoldLeft(LAMBDA k, s : Exec(s, k), m, statements)

Exec(s, m) ==
  IF m.failed THEN m ELSE
  CASE s.is = "evaluate"  -> Eval(s.right, m)
    [] s.is = "display"   -> Show(Eval(s.right, m))
    [] s.is = "var"       -> Declare(s.name, Eval(s.right, m))
    [] s.is = "block"     -> Close(ExecAll(s.statements, Open(m)))
    [] s.is = "if"        -> LET c == Eval(s.condition, m)
                             IN  Exec(IF c.value \in Falsey THEN s.else ELSE s.then, c)
    [] s.is = "while"     -> Loop(s.condition, NoStep, s.body, m)
    [] s.is = "for"       -> Close(Loop(s.condition, s.step, s.body, Exec(s.init, Open(m))))

\* What a sequence of statements does when the globals are those given.
Meaning(statements, globals) ==
  ExecAll(statements, [env |-> <<globals>>, value |-> Nil, printed |-> <<>>, failed |-> FALSE])
=============================================================================
