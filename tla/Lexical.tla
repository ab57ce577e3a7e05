------------------------------ MODULE Lexical -------------------------------
(***************************************************************************)
(* What scanning means: a text falls into gaps, of blanks and comments,    *)
(* and lexemes, each as long as it can be.  Scanner implements it.         *)
(*                                                                         *)
(* Positions count the characters before them: the piece from i to j is    *)
(* text[i + 1] .. text[j].                                                 *)
(***************************************************************************)
EXTENDS Tokens

CONSTANTS
  Texts,
  CommentEndsGap  \* FALSE: after a comment the gap goes on, as the sample
                  \* programs expect.  TRUE: it ends there, so that the newline
                  \* is an unexpected character, as the code has it.

VARIABLES
  text,
  position, \* end of the last lexeme
  token     \* the last token

vars == <<text, position, token>>

Init ==
  /\ text \in Texts
  /\ position = 0
  /\ token = EndOfFile

\* Between i and p, p included, a comment has begun and not ended.
InComment(i, p) ==
  \E q \in (i + 1) .. p :
    /\ q < Len(text) /\ text[q] = "/" /\ text[q + 1] = "/"
    /\ \A r \in q .. p : text[r] # Newline

Skipped(i, p) ==
  \/ text[p] \in Blanks
  \/ text[p] = Newline /\ ~(CommentEndsGap /\ InComment(i, p - 1))
  \/ InComment(i, p)

Gap(i, k) == \A p \in (i + 1) .. k : Skipped(i, p)
WholeGap(i, k) == Gap(i, k) /\ (k < Len(text) => ~Skipped(i, k + 1))

\* The lexemes of the language.
Word(i, j) == text[i + 1] \in Alphas /\ \A p \in (i + 1) .. j : text[p] \in Alphas \union Numerals
Digits(i, j) == \A p \in (i + 1) .. j : text[p] \in Numerals
Number(i, j) ==
  \/ Digits(i, j)
  \/ \E dot \in (i + 2) .. (j - 1) : text[dot] = "." /\ Digits(i, dot - 1) /\ Digits(dot, j)
String(i, j) ==
  /\ i + 1 < j
  /\ text[i + 1] = Quote /\ text[j] = Quote
  /\ \A p \in (i + 2) .. (j - 1) : text[p] # Quote
Single(i, j) == j = i + 1 /\ text[j] \in Singles \union DOMAIN Paired
Double(i, j) == j = i + 2 /\ text[i + 1] \in DOMAIN Paired /\ text[j] = "="

Lexeme(i, j) == Word(i, j) \/ Number(i, j) \/ String(i, j) \/ Single(i, j) \/ Double(i, j)
Longest(i, j) == Lexeme(i, j) /\ \A m \in (j + 1) .. Len(text) : ~Lexeme(i, m)

Type(i, j) ==
  CASE Word(i, j)   -> WordType(SubSeq(text, i + 1, j))
    [] Number(i, j) -> "number"
    [] String(i, j) -> "string"
    [] Single(i, j) -> text[j]
    [] OTHER        -> Paired[text[i + 1]]

\* The next token: the end, the longest lexeme, or what cannot begin one.
Take ==
  \E k \in position .. Len(text) :
    /\ WholeGap(position, k)
    /\ \/ k = Len(text) /\ position' = k /\ token' = EndOfFile
       \/ \E j \in (k + 1) .. Len(text) :
            /\ Longest(k, j)
            /\ position' = j
            /\ token' = Token(Type(k, j), SubSeq(text, k + 1, j))
       \/ /\ k < Len(text)
          /\ \A j \in (k + 1) .. Len(text) : ~Lexeme(k, j)
          /\ IF text[k + 1] = Quote
               THEN position' = Len(text) /\ token' = Unterminated
               ELSE position' = k + 1 /\ token' = Unexpected
    /\ UNCHANGED text

Spec == Init /\ [][Take]_vars
=============================================================================
