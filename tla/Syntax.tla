------------------------------- MODULE Syntax -------------------------------
(***************************************************************************)
(* Syntax trees.  Each carries its text, the tokens it is written with,    *)
(* with parentheses around every operand that is not a single token.       *)
(***************************************************************************)
EXTENDS Integers, Sequences, SequencesExt

Token(type, lexeme) == [type |-> type, lexeme |-> lexeme]
Sign(word) == <<Token(word, word)>>
Name(name) == <<Token("identifier", name)>>
Enclosed(open, tokens, close) == Sign(open) \o tokens \o Sign(close)
Operand(e) == IF Len(e.text) = 1 THEN e.text ELSE Enclosed("(", e.text, ")")

Literal(token) == [is |-> "literal", token |-> token, text |-> <<token>>]
Keyword(word)  == Literal(Token(word, word))
Numeral(x)     == Literal(Token("number", x))
Text(s)        == Literal(Token("string", s))
Variable(name) == [is |-> "variable", name |-> name, text |-> Name(name)]
Assign(name, e) ==
  [is |-> "assign", name |-> name, right |-> e, text |-> Name(name) \o Sign("=") \o e.text]
Unary(op, e) == [is |-> "unary", op |-> op, right |-> e, text |-> Sign(op) \o Operand(e)]
Binary(left, op, right) ==
  [is |-> "binary", op |-> op, left |-> left, right |-> right,
   text |-> Operand(left) \o Sign(op) \o Operand(right)]

-----------------------------------------------------------------------------
Program(statements) ==
  LET upTo[n \in 0 .. Len(statements)] ==
        IF n = 0 THEN <<>> ELSE upTo[n - 1] \o statements[n].text
  IN  upTo[Len(statements)]

Evaluate(e) == [is |-> "evaluate", right |-> e, text |-> e.text \o Sign(";")]
Display(e)  == [is |-> "display", right |-> e, text |-> Enclosed("print", e.text, ";")]

\* A variable that starts as nil is declared without a value.
Var(name, e) ==
  [is |-> "var", name |-> name, right |-> e,
   text |-> Sign("var") \o Name(name)
              \o (IF e = Keyword("nil") THEN <<>> ELSE Sign("=") \o e.text) \o Sign(";")]
Block(statements) ==
  [is |-> "block", statements |-> statements, text |-> Enclosed("{", Program(statements), "}")]
If(c, then, else) ==
  [is |-> "if", condition |-> c, then |-> then, else |-> else,
   text |-> Sign("if") \o Enclosed("(", c.text, ")") \o then.text \o Sign("else") \o else.text]
While(c, body) ==
  [is |-> "while", condition |-> c, body |-> body,
   text |-> Sign("while") \o Enclosed("(", c.text, ")") \o body.text]
For(init, c, step, body) ==
  [is |-> "for", init |-> init, condition |-> c, step |-> step, body |-> body,
   text |-> Sign("for") \o Enclosed("(", init.text \o c.text \o Sign(";") \o step.text, ")") \o body.text]
=============================================================================
