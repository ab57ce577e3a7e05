------------------------------ MODULE Scanner -------------------------------
(***************************************************************************)
(* scanner::Scanner (src/src/scanner.cpp): scan_token, one round of a loop *)
(* per action.  at is the function whose loop is running, "idle" between   *)
(* two calls, "token" when skip_whitespace has returned, and "aborted"     *)
(* after the std::out_of_range of a string::at, which nothing catches.     *)
(***************************************************************************)
EXTENDS Tokens

CONSTANTS
  Texts,      \* the sources
  UsizeCount  \* 2^64: usize wraps

ASSUME TextsAssumption ==
  UsizeCount \in Nat /\ \A t \in Texts : t \in Seq(STRING) /\ Len(t) < UsizeCount

VARIABLES
  text,                 \* m_source
  start, current, line, \* m_start, m_current, m_line
  at,
  token                 \* the last one that scan_token returned

vars == <<text, start, current, line, at, token>>

\* Scanner(source), or Scanner() and load_source.
Init ==
  /\ text \in Texts
  /\ start = 0 /\ current = 0 /\ line = 1
  /\ at = "idle"
  /\ token = [type |-> "eof", lexeme |-> <<>>, line |-> 1]

IsAtEnd == current >= Len(text)
Peek    == IF IsAtEnd THEN Nul ELSE text[current + 1]

\* Mutant: the last character is taken to have a next one.
PastLastLate == current > Len(text) - 1

\* peek_next: the size less two is an usize.
PastLast == current > (Len(text) - 2) % UsizeCount
PeekNext == IF PastLast THEN Nul ELSE text[current + 2]
Throws   == ~PastLast /\ current + 1 >= Len(text)

Advance == current' = current + 1 /\ UNCHANGED <<text, start, token>>
Goto(f) == at' = f /\ UNCHANGED <<text, start, current, line, token>>

\* scan_token returns t, having read up to position end.
Return(t, end) ==
  /\ token' = [type |-> t.type, lexeme |-> t.lexeme, line |-> line]
  /\ current' = end
  /\ at' = "idle"
  /\ UNCHANGED <<text, line>>

\* make_token, after m_start was set.
Lexeme(end) == SubSeq(text, start' + 1, end)

Call == at = "idle" /\ Goto("skip")

LooksAhead == (at = "skip" /\ Peek = "/") \/ (at = "number" /\ Peek = ".")
Abort == LooksAhead /\ Throws /\ Goto("aborted")

-----------------------------------------------------------------------------
(* skip_whitespace.                                                        *)

SkipBlank ==
  /\ at = "skip" /\ Peek \in Blanks
  /\ Advance
  /\ UNCHANGED <<line, at>>

SkipNewline ==
  /\ at = "skip" /\ Peek = Newline
  /\ line' = line + 1
  /\ Advance
  /\ UNCHANGED at

Slash ==
  /\ at = "skip" /\ Peek = "/" /\ ~Throws
  /\ Goto(IF PeekNext = "/" THEN "comment" ELSE "token")

\* Mutant: the end of the source is not looked for.
CommentToNewline ==
  /\ at = "comment"
  /\ IF Peek # Newline THEN Advance /\ UNCHANGED <<line, at>> ELSE Goto("token")

\* After a comment the case falls through to the return of the default.
Comment ==
  /\ at = "comment"
  /\ IF ~IsAtEnd /\ Peek # Newline THEN Advance /\ UNCHANGED <<line, at>>
                                   ELSE Goto("token")

EndSkip ==
  /\ at = "skip" /\ Peek \notin Blanks \union {Newline, "/"}
  /\ Goto("token")

-----------------------------------------------------------------------------
(* The rest of scan_token: m_start = m_current, then by the character.     *)

EndOfText ==
  /\ at = "token" /\ IsAtEnd
  /\ start' = current
  /\ Return(EndOfFile, current)

\* identifier, number and string have loops of their own.
Enter(f, chars) ==
  /\ at = "token" /\ Peek \in chars
  /\ start' = current
  /\ current' = current + 1
  /\ at' = f
  /\ UNCHANGED <<text, line, token>>

OneCharacter ==
  /\ at = "token" /\ Peek \in Singles
  /\ start' = current
  /\ Return(Token(Peek, Lexeme(current + 1)), current + 1)

\* match('=').
OneOrTwo ==
  /\ at = "token" /\ Peek \in DOMAIN Paired
  /\ start' = current
  /\ IF current + 1 < Len(text) /\ text[current + 2] = "="
       THEN Return(Token(Paired[Peek], Lexeme(current + 2)), current + 2)
       ELSE Return(Token(Peek, Lexeme(current + 1)), current + 1)

\* Mutant: the character is left for the next call.
UnexpectedStays ==
  /\ at = "token" /\ ~IsAtEnd
  /\ Peek \notin Alphas \union Numerals \union Singles \union DOMAIN Paired \union {Quote}
  /\ start' = current
  /\ Return(Unexpected, current)

UnexpectedCharacter ==
  /\ at = "token" /\ ~IsAtEnd
  /\ Peek \notin Alphas \union Numerals \union Singles \union DOMAIN Paired \union {Quote}
  /\ start' = current
  /\ Return(Unexpected, current + 1)

Identifier ==
  /\ at = "identifier"
  /\ IF Peek \in Alphas \union Numerals
       THEN Advance /\ UNCHANGED <<line, at>>
       ELSE UNCHANGED start /\ Return(Token(WordType(Lexeme(current)), Lexeme(current)), current)

\* Mutant: a point belongs to the number before it.
NumeralAnyPoint ==
  /\ at = "number"
  /\ IF Peek \in Numerals THEN Advance /\ UNCHANGED <<line, at>>
     ELSE IF Peek = "." THEN at' = "fraction" /\ Advance /\ UNCHANGED line
     ELSE UNCHANGED start /\ Return(Token("number", Lexeme(current)), current)

\* The digits before the point, and the point, if a digit follows it.
Numeral ==
  /\ at = "number" /\ ~(LooksAhead /\ Throws)
  /\ IF Peek \in Numerals THEN Advance /\ UNCHANGED <<line, at>>
     ELSE IF Peek = "." /\ PeekNext \in Numerals THEN at' = "fraction" /\ Advance /\ UNCHANGED line
     ELSE UNCHANGED start /\ Return(Token("number", Lexeme(current)), current)

Fraction ==
  /\ at = "fraction"
  /\ IF Peek \in Numerals
       THEN Advance /\ UNCHANGED <<line, at>>
       ELSE UNCHANGED start /\ Return(Token("number", Lexeme(current)), current)

\* Mutant: a string is taken to be on one line.
StringLineOnce ==
  /\ at = "string"
  /\ IF IsAtEnd THEN UNCHANGED start /\ Return(Unterminated, current)
     ELSE IF Peek = Quote
       THEN UNCHANGED start /\ Return(Token("string", Lexeme(current + 1)), current + 1)
     ELSE Advance /\ UNCHANGED <<line, at>>

\* Mutant: the end of the source is not looked for.
StringToQuote ==
  /\ at = "string"
  /\ IF Peek = Quote
       THEN UNCHANGED start /\ Return(Token("string", Lexeme(current + 1)), current + 1)
       ELSE /\ current' = (IF IsAtEnd THEN current ELSE current + 1)
            /\ line' = line + (IF Peek = Newline THEN 1 ELSE 0)
            /\ UNCHANGED <<text, start, token, at>>

String ==
  /\ at = "string"
  /\ IF IsAtEnd THEN UNCHANGED start /\ Return(Unterminated, current)
     ELSE IF Peek = Quote
       THEN UNCHANGED start /\ Return(Token("string", Lexeme(current + 1)), current + 1)
     ELSE Advance /\ line' = line + (IF Peek = Newline THEN 1 ELSE 0) /\ UNCHANGED at

Skip == SkipBlank \/ SkipNewline \/ Slash \/ Comment \/ EndSkip
Scan ==
  \/ EndOfText \/ OneCharacter \/ OneOrTwo \/ UnexpectedCharacter
  \/ Enter("identifier", Alphas) \/ Enter("number", Numerals) \/ Enter("string", {Quote})
  \/ Identifier \/ Numeral \/ Fraction \/ String

Next == Call \/ Abort \/ Skip \/ Scan
Spec == Init /\ [][Next]_vars
=============================================================================
