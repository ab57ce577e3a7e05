----------------------------- MODULE MCCompiler -----------------------------
(***************************************************************************)
(* Small instances of Compiler.  A kind of source has the keywords,        *)
(* operators, punctuation and names that the question is about, all others *)
(* left out, so that every text of them up to some length can be compiled. *)
(***************************************************************************)
EXTENDS Translation

T(word) == [type   |-> CASE word \in {"a", "b"} -> "identifier"
                         [] word = "1" -> "number"
                         [] OTHER -> word,
            lexeme |-> word]

\* Sources that end at their first error.
Of(words, length) == [tokens |-> {T(w) : w \in words}, length |-> length,
                      scanErrors |-> {FALSE}, goesOn |-> FALSE]

Control     == Of({"if", "else", "while", "(", ")", ";", "1"}, 12)
For         == Of({"for", "var", "(", ")", ";", "a"}, 11)
Scopes      == Of({"{", "}", "var", "=", ";", "a", "b"}, 8)
Assignments == Of({"{", "}", "var", "=", ";", "a"}, 9)
Shadowing   == Of({"{", "}", "var", ";", "a"}, 12)
Expressions == Of({";", "=", "<=", "+", "*", "(", ")", "and", "a", "1"}, 6)
Operators   == Of({"print", ";", "==", "!=", "<", "<=", ">", ">=", "+", "-", "*", "/", "!",
                   "nil", "true", "false", "1"}, 5)
GoingOn     == [Of({";", "=", "-", "(", ")", "a"}, 6) EXCEPT !.goesOn = TRUE]
Or          == [Of({"or", "print", ";", "1"}, 5) EXCEPT !.goesOn = TRUE]

\* Branches and loops alone, with names that take up constants.
Jumps == Of({"if", "while", "and", "(", ")", ";", "1", "a"}, 8)

\* One more local than there are slots.
Slots == Of({"{", "var", ";", "a"}, 15)

\* Errors of the scanner and of the parser, and what follows them.
Broken == [Of({"for", "(", ";", "{", "}", "var", "a"}, 5)
             EXCEPT !.scanErrors = BOOLEAN, !.goesOn = TRUE]

GrammarSources  == {Control, For, Scopes, Assignments, Shadowing, Expressions, Operators, GoingOn}
LimitSources    == {Jumps, Slots, Broken}
DepthSources    == {Slots}
BareForSources  == {For}
OrSources       == {Or}
=============================================================================
