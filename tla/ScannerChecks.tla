---------------------------- MODULE ScannerChecks ----------------------------
(***************************************************************************)
(* What scanner::Scanner promises the compiler: the tokens of the text, in *)
(* order and with their lines.  History variables record where a call      *)
(* began and how many newlines were taken for tokens.                      *)
(***************************************************************************)
EXTENDS Scanner, FiniteSets

VARIABLES
  from, \* m_current when scan_token was called
  lost  \* newlines that were returned as unexpected characters

hvars == <<vars, from, lost>>

HInit == Init /\ from = 0 /\ lost = 0
HNext ==
  /\ Next
  /\ from' = IF at = "idle" THEN current ELSE from
  /\ lost' = IF at = "token" /\ Peek = Newline THEN lost + 1 ELSE lost
HSpec == HInit /\ [][HNext]_hvars

\* Nothing makes the compiler ask for a token, but scan_token runs by itself.
HFairSpec == HSpec /\ WF_hvars(at # "idle" /\ HNext)

-----------------------------------------------------------------------------
\* Positions stay inside the source and in order, and at is a place in the code.
TypeOK ==
  /\ text \in Texts
  /\ start \in 0 .. Len(text) /\ current \in start .. Len(text) /\ from \in 0 .. current
  /\ line \in Nat \ {0} /\ lost \in Nat
  /\ token.type \in TokenTypes /\ token.line \in 1 .. line
  /\ at \in {"idle", "skip", "comment", "token", "identifier", "number", "fraction", "string", "aborted"}

\* Each call returns the longest lexeme after the next gap, no character of the
\* source is skipped or read twice on the way, and a number, a keyword, a
\* string or an operator is never cut short by what follows it; but a newline
\* after a comment is not part of the gap (run Scanner_comment).
position == IF at = "idle" THEN current ELSE from
scanned  == Token(token.type, token.lexeme)
L == INSTANCE Lexical WITH CommentEndsGap <- TRUE, position <- position, token <- scanned
ImplementsLexical == L!Spec

\* Every token but the end of the file takes a character of the source, error
\* tokens too, and after the end of the file comes nothing else, however often
\* the compiler goes on to ask.
S == INSTANCE TokenStream WITH left <- Len(text) - position, type <- token.type
TokensRunOut == S!Spec

\* m_line counts every newline behind m_current, those inside of strings
\* included, except the ones after comments, so that from there on all errors
\* are reported on too small a line.
LinesCounted ==
  line + lost = 1 + Cardinality({p \in 1 .. current : text[p] = Newline})

\* The lookahead of peek_next stays inside of every source but one: a single
\* slash, for which the bound of peek_next wraps.
ThrowsOnlyOnSlash == at = "aborted" => text = <<"/">>

\* Every call of scan_token comes back.
CallsReturn == at = "skip" ~> at \in {"idle", "aborted"}

\* Comments may be followed by another line: test_files/logic_exprs.lox:1 has
\* one, and "() // hi this is a comment" (tests/test_scanner.cpp:23) is two
\* tokens and no error.
Intended == INSTANCE Lexical WITH CommentEndsGap <- FALSE, position <- position, token <- scanned
ImplementsIntended == Intended!Spec
=============================================================================
