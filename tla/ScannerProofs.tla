---------------------------- MODULE ScannerProofs ----------------------------
(***************************************************************************)
(* Proofs about Scanner, for every text.  The invariant says, for each     *)
(* loop of scan_token, what the characters that it has passed are: a gap,  *)
(* a comment that goes on, a word, the digits of a number.  When a loop    *)
(* ends these are a lexeme, and the next character shows that no longer    *)
(* one begins there, which is the step that module Lexical takes at once.  *)
(***************************************************************************)
EXTENDS ScannerChecks, FiniteSetTheorems, TLAPS

\* A comment has begun at or before the next character, and not ended.
Commenting ==
  \E q \in (from + 1) .. (current + 1) :
    /\ q < Len(text) /\ text[q] = "/" /\ text[q + 1] = "/"
    /\ \A r \in q .. current : text[r] # Newline

PointPassed ==
  \E dot \in (start + 2) .. current :
    /\ text[dot] = "." /\ L!Digits(start, dot - 1) /\ L!Digits(dot, current)
    /\ dot = current => dot < Len(text) /\ text[dot + 1] \in Numerals

Passed ==
  /\ at = "skip" => L!Gap(from, current) /\ ~L!InComment(from, current)
  /\ at = "comment" => L!Gap(from, current) /\ Commenting
  /\ at = "token" => L!WholeGap(from, current)
  /\ at \in {"identifier", "number", "fraction", "string"} =>
       from <= start /\ start < current /\ L!WholeGap(from, start)
  /\ at = "identifier" => L!Word(start, current)
  /\ at = "number" => L!Digits(start, current)
  /\ at = "fraction" => PointPassed
  /\ at = "string" => text[start + 1] = Quote /\ \A p \in (start + 2) .. current : text[p] # Quote

IInv == TypeOK /\ Passed /\ ThrowsOnlyOnSlash

\* The bound of peek_next wraps for a source of one character only.
LEMMA Lookahead ==
  ASSUME TypeOK, ~IsAtEnd
  PROVE  /\ Throws => Len(text) = 1 /\ current = 0
         /\ ~Throws => PastLast = (current + 1 = Len(text))
<1>1. Len(text) \in Nat /\ Len(text) < UsizeCount /\ UsizeCount \in Nat
  BY TextsAssumption DEF TypeOK
<1>2. current \in Nat /\ current < Len(text)
  BY <1>1 DEF TypeOK, IsAtEnd
<1>3. CASE Len(text) = 1
  <2>1. (Len(text) - 2) % UsizeCount = UsizeCount - 1
    BY <1>1, <1>3
  <2>2. QED
    BY <1>1, <1>2, <1>3, <2>1 DEF Throws, PastLast
<1>4. CASE Len(text) > 1
  <2>1. (Len(text) - 2) % UsizeCount = Len(text) - 2
    BY <1>1, <1>4
  <2>2. QED
    BY <1>1, <1>2, <1>4, <2>1 DEF Throws, PastLast
<1>5. Len(text) = 1 \/ Len(text) > 1
  <2> DEFINE n == Len(text)
  <2>1. n \in Nat /\ current \in Nat /\ current < n
    BY <1>1, <1>2
  <2> HIDE DEF n
  <2>2. n = 1 \/ n > 1
    BY <2>1
  <2>3. QED
    BY <2>2 DEF n
<1>6. QED
  BY <1>3, <1>4, <1>5

-----------------------------------------------------------------------------
(***************************************************************************)
(* A lexeme that the next character does not prolong is the longest.       *)
(***************************************************************************)

\* Scanner and Lexical speak of the same characters.
LEMMA SameCharacters ==
  /\ L!Newline = Newline /\ L!Quote = Quote /\ L!Blanks = Blanks
  /\ L!Singles = Singles /\ L!Paired = Paired /\ DOMAIN L!Paired = DOMAIN Paired
  /\ \A w : L!WordType(w) = WordType(w)
  /\ L!EndOfFile = EndOfFile /\ L!Unexpected = Unexpected /\ L!Unterminated = Unterminated
BY DEF L!Newline, Newline, L!Quote, Quote, L!Blanks, Blanks, L!Singles, Singles, L!Paired, Paired,
   L!WordType, WordType, L!Keywords, Keywords, L!Spelling, Spelling, L!EndOfFile, EndOfFile, L!Unexpected, Unexpected,
   L!Unterminated, Unterminated, L!Token, Token

\* What the first character of a lexeme tells of its kind.
LEMMA FirstCharacter ==
  ASSUME TypeOK, NEW i \in Nat, NEW j \in Nat, i < j, j <= Len(text)
  PROVE  /\ L!Word(i, j) => text[i + 1] \in Alphas
         /\ L!Number(i, j) => text[i + 1] \in Numerals
         /\ L!String(i, j) => text[i + 1] = Quote
         /\ L!Single(i, j) => text[i + 1] \in Singles \union DOMAIN Paired
         /\ L!Double(i, j) => text[i + 1] \in DOMAIN Paired
<1>1. i + 1 \in (i + 1) .. j
  OBVIOUS
<1>2. ASSUME L!Number(i, j) PROVE text[i + 1] \in Numerals
  <2>1. CASE L!Digits(i, j)
    BY <1>1, <2>1 DEF L!Digits
  <2>2. ASSUME NEW dot \in (i + 2) .. (j - 1), L!Digits(i, dot - 1) PROVE text[i + 1] \in Numerals
    <3>1. i + 1 \in (i + 1) .. (dot - 1)
      OBVIOUS
    <3>2. QED
      BY <2>2, <3>1 DEF L!Digits
  <2>3. QED
    BY <1>2, <2>1, <2>2 DEF L!Number
<1>3. QED
  BY <1>2, SameCharacters DEF L!Word, L!String, L!Single, L!Double

\* So that the kinds exclude one another.
LEMMA OneKind ==
  ASSUME TypeOK, NEW i \in Nat, NEW j \in Nat, i < j, j <= Len(text)
  PROVE  /\ L!Word(i, j) => L!Type(i, j) = WordType(SubSeq(text, i + 1, j))
         /\ L!Number(i, j) => L!Type(i, j) = "number"
         /\ L!String(i, j) => L!Type(i, j) = "string"
         /\ L!Single(i, j) => L!Type(i, j) = text[j]
         /\ L!Double(i, j) => L!Type(i, j) = Paired[text[i + 1]]
<1>1. L!Word(i, j) => ~L!Number(i, j) /\ ~L!String(i, j) /\ ~L!Single(i, j) /\ ~L!Double(i, j)
  BY FirstCharacter, CharactersAssumption
<1>2. L!Number(i, j) => ~L!Word(i, j) /\ ~L!String(i, j) /\ ~L!Single(i, j) /\ ~L!Double(i, j)
  BY FirstCharacter, CharactersAssumption
<1>3. Quote \notin Singles \union DOMAIN Paired
  BY DEF Quote, Singles, Paired
<1>4. L!String(i, j) => ~L!Single(i, j) /\ ~L!Double(i, j)
  BY <1>3, FirstCharacter
<1>5. L!Single(i, j) => ~L!Double(i, j)
  BY DEF L!Single, L!Double
<1>6. QED
  BY <1>1, <1>2, <1>4, <1>5, SameCharacters DEF L!Type

\* A word that ends before another character, or with the text.
LEMMA LongestWord ==
  ASSUME TypeOK, NEW i \in Nat, NEW j \in Nat, i < j, j <= Len(text),
         L!Word(i, j), j < Len(text) => text[j + 1] \notin Alphas \union Numerals
  PROVE  L!Longest(i, j)
<1>1. text[i + 1] \in Alphas
  BY DEF L!Word
<1>2. ASSUME NEW m \in (j + 1) .. Len(text) PROVE ~L!Lexeme(i, m)
  <2>1. m \in Nat /\ i < m /\ m <= Len(text) /\ j + 1 \in (i + 1) .. m /\ j < Len(text)
    BY DEF TypeOK
  <2>2. ~L!Word(i, m)
    BY <2>1 DEF L!Word
  <2>3. ~L!Number(i, m) /\ ~L!String(i, m) /\ ~L!Single(i, m) /\ ~L!Double(i, m)
    BY <1>1, <2>1, FirstCharacter, CharactersAssumption
  <2>4. QED
    BY <2>2, <2>3 DEF L!Lexeme
<1>3. QED
  BY <1>2 DEF L!Longest, L!Lexeme

\* The lexemes that begin with a digit are numbers.
LEMMA OnlyNumbers ==
  ASSUME TypeOK, NEW i \in Nat, NEW m \in Nat, i < m, m <= Len(text),
         text[i + 1] \in Numerals, L!Lexeme(i, m)
  PROVE  L!Number(i, m)
BY FirstCharacter, CharactersAssumption DEF L!Lexeme

\* Digits before anything but a digit, or a point that a digit follows.
LEMMA LongestInteger ==
  ASSUME TypeOK, NEW i \in Nat, NEW j \in Nat, i < j, j <= Len(text), L!Digits(i, j),
         j < Len(text) => text[j + 1] \notin Numerals,
         j + 1 < Len(text) => text[j + 1] # "." \/ text[j + 2] \notin Numerals
  PROVE  L!Longest(i, j) /\ L!Number(i, j)
<1>1. text[i + 1] \in Numerals
  BY DEF L!Digits
<1>2. ASSUME NEW m \in (j + 1) .. Len(text), L!Lexeme(i, m) PROVE FALSE
  <2>1. m \in Nat /\ i < m /\ m <= Len(text) /\ j < Len(text) /\ Len(text) \in Nat
    BY DEF TypeOK
  <2>2. L!Number(i, m)
    BY <1>1, <1>2, <2>1, OnlyNumbers
  <2>3. ~L!Digits(i, m)
    BY <2>1 DEF L!Digits
  <2>4. PICK dot \in (i + 2) .. (m - 1) : text[dot] = "." /\ L!Digits(i, dot - 1) /\ L!Digits(dot, m)
    BY <2>2, <2>3 DEF L!Number
  <2>5. dot = j + 1
    <3>1. CASE dot <= j
      <4>1. text[dot] \in Numerals
        BY <3>1 DEF L!Digits
      <4>2. QED
        BY <2>4, <4>1, CharactersAssumption DEF Singles
    <3>2. CASE dot > j + 1
      <4>1. j + 1 \in (i + 1) .. (dot - 1)
        BY <3>2
      <4>2. QED
        BY <2>1, <2>4, <4>1 DEF L!Digits
    <3>3. QED
      BY <3>1, <3>2
  <2>6. j + 2 \in (dot + 1) .. m /\ j + 1 < Len(text)
    BY <2>1, <2>5
  <2>7. QED
    BY <2>4, <2>5, <2>6 DEF L!Digits
<1>3. QED
  BY <1>2 DEF L!Longest, L!Lexeme, L!Number

\* Digits with a point inside, before anything but a digit.
LEMMA LongestFraction ==
  ASSUME TypeOK, NEW i \in Nat, NEW j \in Nat, i < j, j <= Len(text),
         NEW dot \in (i + 2) .. (j - 1), text[dot] = ".", L!Digits(i, dot - 1), L!Digits(dot, j),
         j < Len(text) => text[j + 1] \notin Numerals
  PROVE  L!Longest(i, j) /\ L!Number(i, j)
<1>1. text[i + 1] \in Numerals /\ text[dot] \notin Numerals
  <2>1. i + 1 \in (i + 1) .. (dot - 1)
    OBVIOUS
  <2>2. QED
    BY <2>1, CharactersAssumption DEF L!Digits, Singles
<1>2. ASSUME NEW m \in (j + 1) .. Len(text), L!Lexeme(i, m) PROVE FALSE
  <2>1. m \in Nat /\ i < m /\ m <= Len(text) /\ j < Len(text) /\ Len(text) \in Nat
    BY DEF TypeOK
  <2>2. L!Number(i, m)
    BY <1>1, <1>2, <2>1, OnlyNumbers
  <2>3. ~L!Digits(i, m)
    BY <2>1 DEF L!Digits
  <2>4. PICK point \in (i + 2) .. (m - 1) :
          text[point] = "." /\ L!Digits(i, point - 1) /\ L!Digits(point, m)
    BY <2>2, <2>3 DEF L!Number
  <2>5. point < j + 1
    <3>1. ASSUME point >= j + 1 PROVE FALSE
      <4>1. dot \in (i + 1) .. (point - 1)
        BY <3>1
      <4>2. QED
        BY <1>1, <2>4, <4>1 DEF L!Digits
    <3>2. QED
      BY <3>1
  <2>6. j + 1 \in (point + 1) .. m
    BY <2>1, <2>5
  <2>7. QED
    BY <2>1, <2>4, <2>6 DEF L!Digits
<1>3. QED
  BY <1>2 DEF L!Longest, L!Lexeme, L!Number

\* A string ends at its first quote.
LEMMA LongestString ==
  ASSUME TypeOK, NEW i \in Nat, NEW j \in Nat, i < j, j <= Len(text), L!String(i, j)
  PROVE  L!Longest(i, j)
<1>1. text[i + 1] = Quote /\ text[j] = Quote
  BY SameCharacters DEF L!String
<1>2. Quote \notin Alphas \union Numerals \union Singles \union DOMAIN Paired
  BY CharactersAssumption DEF Quote, Singles, Paired
<1>3. ASSUME NEW m \in (j + 1) .. Len(text), L!Lexeme(i, m) PROVE FALSE
  <2>1. m \in Nat /\ i < m /\ m <= Len(text) /\ Len(text) \in Nat
    BY DEF TypeOK
  <2>2. L!String(i, m)
    BY <1>1, <1>2, <1>3, <2>1, FirstCharacter DEF L!Lexeme
  <2>3. j \in (i + 2) .. (m - 1)
    BY <2>1 DEF L!String
  <2>4. QED
    BY <1>1, <2>2, <2>3, SameCharacters DEF L!String
<1>4. QED
  BY <1>3 DEF L!Longest, L!Lexeme
-----------------------------------------------------------------------------
(***************************************************************************)
(* Gaps: what skip_whitespace has passed, and where it stops.              *)
(***************************************************************************)

\* The next character as Peek gives it; Nul is no character of the language.
LEMMA PeekIsNext ==
  ASSUME TypeOK
  PROVE  /\ Peek # Nul => ~IsAtEnd
         /\ ~IsAtEnd => Peek = text[current + 1] /\ current + 1 \in 1 .. Len(text)
         /\ Nul \notin Alphas \union Numerals \union Singles \union DOMAIN Paired \union {Quote}
         /\ Nul \notin Blanks \union {Newline, "/"}
<1>1. Nul \notin Singles \union DOMAIN Paired \union {Quote} \union Blanks \union {Newline, "/"}
  BY DEF Nul, Singles, Paired, Quote, Blanks, Newline
<1>2. Nul \notin Alphas \union Numerals
  BY CharactersAssumption
<1>3. ~IsAtEnd => Peek = text[current + 1] /\ current + 1 \in 1 .. Len(text)
  BY DEF TypeOK, IsAtEnd, Peek
<1>4. QED
  BY <1>1, <1>2, <1>3 DEF Peek

\* One more character.
LEMMA GapGrows ==
  ASSUME TypeOK, ~IsAtEnd, L!Gap(from, current), L!Skipped(from, current + 1)
  PROVE  L!Gap(from, current + 1)
BY DEF TypeOK, L!Gap

\* A comment that begins before the next character was there before, unless
\* the next character is its first.
LEMMA CommentsBefore ==
  ASSUME TypeOK, ~IsAtEnd, L!InComment(from, current + 1)
  PROVE  /\ text[current + 1] # Newline
         /\ \/ L!InComment(from, current)
            \/ text[current + 1] = "/" /\ current + 1 < Len(text) /\ text[current + 2] = "/"
<1>1. PICK q \in (from + 1) .. (current + 1) :
        /\ q < Len(text) /\ text[q] = "/" /\ text[q + 1] = "/"
        /\ \A r \in q .. (current + 1) : text[r] # Newline
  BY SameCharacters DEF L!InComment
<1>2. text[current + 1] # Newline
  BY <1>1 DEF TypeOK
<1>3. CASE q = current + 1
  BY <1>1, <1>2, <1>3 DEF TypeOK
<1>4. CASE q \in (from + 1) .. current
  <2>1. L!InComment(from, current)
    BY <1>1, <1>4, SameCharacters DEF TypeOK, L!InComment
  <2>2. QED
    BY <1>2, <2>1
<1>5. QED
  BY <1>3, <1>4 DEF TypeOK

\* skip_whitespace stops in front of what no gap goes on with.
LEMMA GapStops ==
  ASSUME TypeOK, L!Gap(from, current), ~L!InComment(from, current),
         Peek \notin Blanks \union {Newline},
         Peek = "/" => current + 1 = Len(text) \/ text[current + 2] # "/"
  PROVE  L!WholeGap(from, current)
<1>1. ASSUME current < Len(text) PROVE ~L!Skipped(from, current + 1)
  <2>1. ~IsAtEnd /\ Peek = text[current + 1]
    BY <1>1, PeekIsNext DEF TypeOK, IsAtEnd
  <2>2. ~L!InComment(from, current + 1)
    BY <2>1, CommentsBefore DEF TypeOK
  <2>3. QED
    BY <2>1, <2>2, SameCharacters DEF L!Skipped
<1>2. QED
  BY <1>1 DEF L!WholeGap

-----------------------------------------------------------------------------
(***************************************************************************)
(* Each action keeps the invariant.                                        *)
(***************************************************************************)

\* A call begins with an empty gap.
LEMMA CallKeeps == ASSUME IInv, HNext, Call PROVE IInv'
<1>1. at' = "skip" /\ from' = current /\ lost' = lost
  BY DEF HNext, Call, Goto
<1>2. UNCHANGED <<text, start, current, line, token>>
  BY DEF Call, Goto
<1>3. TypeOK'
  BY <1>1, <1>2 DEF IInv, TypeOK
<1>4. L!Gap(from, current)' /\ ~L!InComment(from, current)'
  BY <1>1, <1>2 DEF IInv, TypeOK, L!Gap, L!InComment
<1>5. Passed' /\ ThrowsOnlyOnSlash'
  BY <1>1, <1>4 DEF Passed, ThrowsOnlyOnSlash
<1>6. QED
  BY <1>3, <1>5 DEF IInv

\* string::at throws for a source of one slash.
LEMMA AbortKeeps == ASSUME IInv, HNext, Abort PROVE IInv'
<1>1. at' = "aborted" /\ from' = from /\ UNCHANGED <<text, start, current, line, token>>
  BY DEF HNext, Abort, Goto, LooksAhead
<1>2. TypeOK'
  BY <1>1 DEF HNext, IInv, TypeOK
<1>3. Peek # Nul /\ ~IsAtEnd
  <2>1. "." \in Singles /\ "/" \in Singles
    BY DEF Singles
  <2>2. QED
    BY <2>1, PeekIsNext DEF IInv, Abort, LooksAhead
<1>4. Len(text) = 1 /\ current = 0
  BY <1>3, Lookahead DEF IInv, Abort
<1>5. at = "skip" /\ text[1] = "/"
  <2>1. at # "number"
    BY <1>4 DEF IInv, TypeOK, Passed
  <2>2. QED
    BY <1>3, <1>4, <2>1, PeekIsNext DEF IInv, Abort, LooksAhead
<1>6. text = <<"/">>
  BY <1>4, <1>5, TextsAssumption DEF IInv, TypeOK
<1>7. Passed' /\ ThrowsOnlyOnSlash'
  BY <1>1, <1>6 DEF Passed, ThrowsOnlyOnSlash
<1>8. QED
  BY <1>2, <1>7 DEF IInv

\* A blank or a newline makes the gap longer.
LEMMA SpaceKeeps == ASSUME IInv, HNext, SkipBlank \/ SkipNewline PROVE IInv'
<1>1. /\ at = "skip" /\ at' = "skip" /\ from' = from /\ lost' = lost
      /\ current' = current + 1 /\ UNCHANGED <<text, start, token>> /\ line' \in {line, line + 1}
  BY DEF HNext, SkipBlank, SkipNewline, Advance
<1>2. Peek \in Blanks \union {Newline} /\ ~IsAtEnd /\ Peek = text[current + 1]
  BY PeekIsNext DEF SkipBlank, SkipNewline, IInv
<1>3. TypeOK'
  BY <1>1, <1>2 DEF IInv, TypeOK, IsAtEnd
<1>4. L!Gap(from, current) /\ ~L!InComment(from, current)
  BY <1>1 DEF IInv, Passed
<1>5. L!Skipped(from, current + 1)
  <2>1. (current + 1) - 1 = current
    BY DEF IInv, TypeOK
  <2>2. ~L!InComment(from, (current + 1) - 1)
    BY <1>4, <2>1
  <2>3. QED
    BY <1>2, <2>2, SameCharacters DEF L!Skipped
<1>6. ~L!InComment(from, current + 1)
  <2>1. "/" \notin Blanks \union {Newline}
    BY DEF Blanks, Newline
  <2>2. QED
    BY <1>2, <1>4, <2>1, CommentsBefore DEF IInv
<1>7. L!Gap(from, current)' /\ ~L!InComment(from, current)'
  <2>1. L!Gap(from, current + 1)
    BY <1>2, <1>4, <1>5, GapGrows DEF IInv
  <2>2. QED
    BY <1>1, <1>6, <2>1 DEF L!Gap, L!Skipped, L!InComment
<1>8. Passed' /\ ThrowsOnlyOnSlash'
  BY <1>1, <1>7 DEF Passed, ThrowsOnlyOnSlash
<1>9. QED
  BY <1>3, <1>8 DEF IInv
\* A slash begins a comment, or is one of what follows the gap.
LEMMA SlashKeeps == ASSUME IInv, HNext, Slash PROVE IInv'
<1>1. /\ at = "skip" /\ at' \in {"comment", "token"} /\ from' = from /\ lost' = lost
      /\ UNCHANGED <<text, start, current, line, token>>
  BY DEF HNext, Slash, Goto
<1>2. TypeOK'
  BY <1>1 DEF IInv, TypeOK
<1>3. Peek = "/" /\ ~IsAtEnd /\ text[current + 1] = "/"
  BY PeekIsNext DEF Slash, IInv
<1>4. ~Throws /\ PastLast = (current + 1 = Len(text))
  BY <1>3, Lookahead DEF IInv, Slash
<1>5. L!Gap(from, current) /\ ~L!InComment(from, current)
  BY <1>1 DEF IInv, Passed
<1>6. CASE PeekNext = "/"
  <2>1. ~PastLast /\ text[current + 2] = "/"
    BY <1>6 DEF PeekNext, Nul
  <2>2. current + 1 < Len(text)
    <3>1. current \in Nat /\ Len(text) \in Nat /\ current < Len(text)
      BY <1>3, TextsAssumption DEF IInv, TypeOK, IsAtEnd
    <3>2. current + 1 # Len(text)
      BY <1>4, <2>1
    <3>3. QED
      BY <3>1, <3>2
  <2>3. current + 1 \in (from + 1) .. (current + 1) /\ current + 1 + 1 = current + 2
    BY DEF IInv, TypeOK
  <2>4. Commenting
    BY <1>3, <2>1, <2>2, <2>3 DEF IInv, TypeOK, Commenting
  <2>5. at' = "comment"
    BY <1>6 DEF Slash, Goto
  <2>6. (L!Gap(from, current) /\ Commenting)'
    BY <1>1, <1>5, <2>4 DEF L!Gap, L!Skipped, L!InComment, Commenting
  <2>7. Passed' /\ ThrowsOnlyOnSlash'
    BY <2>5, <2>6 DEF Passed, ThrowsOnlyOnSlash
  <2>8. QED
    BY <1>2, <2>7 DEF IInv
<1>7. CASE PeekNext # "/"
  <2>1. current + 1 = Len(text) \/ text[current + 2] # "/"
    BY <1>4, <1>7 DEF PeekNext
  <2>2. "/" \notin Blanks \union {Newline}
    BY DEF Blanks, Newline
  <2>3. L!WholeGap(from, current)
    BY <1>3, <1>5, <2>1, <2>2, GapStops DEF IInv
  <2>4. at' = "token"
    BY <1>7 DEF Slash, Goto
  <2>5. L!WholeGap(from, current)'
    BY <1>1, <2>3 DEF L!WholeGap, L!Gap, L!Skipped, L!InComment
  <2>6. Passed' /\ ThrowsOnlyOnSlash'
    BY <2>4, <2>5 DEF Passed, ThrowsOnlyOnSlash
  <2>7. QED
    BY <1>2, <2>6 DEF IInv
<1>8. QED
  BY <1>6, <1>7

\* A comment goes on to the newline, which does not belong to the gap.
LEMMA CommentKeeps == ASSUME IInv, HNext, Comment PROVE IInv'
<1>1. at = "comment" /\ from' = from /\ lost' = lost /\ UNCHANGED <<text, start, line, token>>
  BY DEF HNext, Comment, Goto, Advance
<1>2. PICK q \in (from + 1) .. (current + 1) :
        /\ q < Len(text) /\ text[q] = "/" /\ text[q + 1] = "/"
        /\ \A r \in q .. current : text[r] # Newline
  BY <1>1 DEF IInv, Passed, Commenting
<1>3. L!Gap(from, current)
  BY <1>1 DEF IInv, Passed
<1>4. CASE ~IsAtEnd /\ Peek # Newline
  <2>1. at' = "comment" /\ current' = current + 1
    BY <1>1, <1>4 DEF Comment, Advance
  <2>2. text[current + 1] # Newline
    BY <1>4, PeekIsNext DEF IInv
  <2>3. \A r \in q .. (current + 1) : text[r] # Newline
    BY <1>2, <2>2 DEF IInv, TypeOK
  <2>4. L!InComment(from, current + 1)
    BY <1>2, <2>3, SameCharacters DEF L!InComment
  <2>5. L!Gap(from, current + 1)
    BY <1>3, <1>4, <2>4, GapGrows DEF IInv, L!Skipped
  <2>6. q \in (from + 1) .. (current + 1 + 1)
    BY DEF IInv, TypeOK
  <2>7. (L!Gap(from, current) /\ Commenting)'
    BY <1>1, <1>2, <2>1, <2>3, <2>5, <2>6 DEF L!Gap, L!Skipped, L!InComment, Commenting
  <2>8. TypeOK'
    BY <1>1, <1>4, <2>1 DEF IInv, TypeOK, IsAtEnd
  <2>9. Passed' /\ ThrowsOnlyOnSlash'
    BY <2>1, <2>7 DEF Passed, ThrowsOnlyOnSlash
  <2>10. QED
    BY <2>8, <2>9 DEF IInv
<1>5. CASE ~(~IsAtEnd /\ Peek # Newline)
  <2>1. at' = "token" /\ current' = current
    BY <1>1, <1>5 DEF Comment, Goto
  <2>2. ASSUME current < Len(text) PROVE ~L!Skipped(from, current + 1)
    <3>1. ~IsAtEnd /\ text[current + 1] = Newline
      BY <1>5, <2>2, PeekIsNext DEF IInv, TypeOK, IsAtEnd
    <3>2. q # current + 1
      BY <1>2, <3>1 DEF Newline
    <3>3. q \in (from + 1) .. current /\ (current + 1) - 1 = current
      BY <3>2 DEF IInv, TypeOK
    <3>4. L!InComment(from, current)
      BY <1>2, <3>3, SameCharacters DEF L!InComment
    <3>5. ~L!InComment(from, current + 1)
      BY <3>1, CommentsBefore DEF IInv
    <3>6. Newline \notin Blanks
      BY DEF Newline, Blanks
    <3>7. L!InComment(from, (current + 1) - 1)
      BY <3>3, <3>4
    <3>8. QED
      BY <3>1, <3>5, <3>6, <3>7, SameCharacters DEF L!Skipped
  <2>3. L!WholeGap(from, current)'
    BY <1>1, <1>3, <2>1, <2>2 DEF L!WholeGap, L!Gap, L!Skipped, L!InComment
  <2>4. TypeOK'
    BY <1>1, <2>1 DEF IInv, TypeOK
  <2>5. Passed' /\ ThrowsOnlyOnSlash'
    BY <2>1, <2>3 DEF Passed, ThrowsOnlyOnSlash
  <2>6. QED
    BY <2>4, <2>5 DEF IInv
<1>6. QED
  BY <1>4, <1>5

\* Whatever else comes ends the gap.
LEMMA EndSkipKeeps == ASSUME IInv, HNext, EndSkip PROVE IInv'
<1>1. /\ at = "skip" /\ at' = "token" /\ from' = from /\ lost' = lost
      /\ UNCHANGED <<text, start, current, line, token>>
  BY DEF HNext, EndSkip, Goto
<1>2. TypeOK'
  BY <1>1 DEF IInv, TypeOK
<1>3. L!WholeGap(from, current)
  BY <1>1, GapStops DEF IInv, Passed, EndSkip
<1>4. L!WholeGap(from, current)'
  BY <1>1, <1>3 DEF L!WholeGap, L!Gap, L!Skipped, L!InComment
<1>5. Passed' /\ ThrowsOnlyOnSlash'
  BY <1>1, <1>4 DEF Passed, ThrowsOnlyOnSlash
<1>6. QED
  BY <1>2, <1>5 DEF IInv
-----------------------------------------------------------------------------
(***************************************************************************)
(* The token after the gap.                                                *)
(***************************************************************************)

\* The first character of a word, a number or a string.
LEMMA EnterKeeps ==
  ASSUME IInv, HNext,
         Enter("identifier", Alphas) \/ Enter("number", Numerals) \/ Enter("string", {Quote})
  PROVE  IInv'
<1>1. /\ at = "token" /\ from' = from /\ lost' \in Nat
      /\ start' = current /\ current' = current + 1 /\ UNCHANGED <<text, line, token>>
  BY DEF HNext, Enter, IInv, TypeOK
<1>2. ~IsAtEnd /\ text[current + 1] = Peek
  BY PeekIsNext DEF Enter, IInv
<1>3. TypeOK'
  BY <1>1, <1>2 DEF IInv, TypeOK, IsAtEnd, Enter
<1>4. (from <= start /\ start < current)'
  BY <1>1 DEF IInv, TypeOK
<1>5. L!WholeGap(from, start)'
  <2>1. L!WholeGap(from, current)
    BY <1>1 DEF IInv, Passed
  <2>2. QED
    BY <1>1, <2>1 DEF L!WholeGap, L!Gap, L!Skipped, L!InComment
<1>6. \/ at' = "identifier" /\ L!Word(start, current)'
      \/ at' = "number" /\ L!Digits(start, current)'
      \/ at' = "string" /\ (text[start + 1] = Quote
                            /\ \A p \in (start + 2) .. current : text[p] # Quote)'
  BY <1>1, <1>2 DEF Enter, IInv, TypeOK, L!Word, L!Digits
<1>7. Passed' /\ ThrowsOnlyOnSlash'
  BY <1>4, <1>5, <1>6 DEF Passed, ThrowsOnlyOnSlash
<1>8. QED
  BY <1>3, <1>7 DEF IInv

\* One more character of a word.
LEMMA WordKeeps ==
  ASSUME IInv, HNext, Identifier, Peek \in Alphas \union Numerals PROVE IInv'
<1>1. /\ at = "identifier" /\ at' = at /\ from' = from /\ lost' = lost
      /\ current' = current + 1 /\ UNCHANGED <<text, start, line, token>>
  BY DEF HNext, Identifier, Advance
<1>2. ~IsAtEnd /\ text[current + 1] = Peek
  BY PeekIsNext DEF IInv
<1>3. TypeOK'
  BY <1>1, <1>2 DEF IInv, TypeOK, IsAtEnd
<1>4. from <= start /\ start < current /\ L!WholeGap(from, start) /\ L!Word(start, current)
  BY <1>1 DEF IInv, Passed
<1>5. L!WholeGap(from, start)'
  BY <1>1, <1>4 DEF L!WholeGap, L!Gap, L!Skipped, L!InComment
<1>6. L!Word(start, current)'
  BY <1>1, <1>2, <1>4 DEF IInv, TypeOK, L!Word
<1>7. Passed' /\ ThrowsOnlyOnSlash'
  BY <1>1, <1>4, <1>5, <1>6 DEF IInv, TypeOK, Passed, ThrowsOnlyOnSlash
<1>8. QED
  BY <1>3, <1>7 DEF IInv

\* One more digit before the point, or the point and a digit to come.
LEMMA NumeralKeeps ==
  ASSUME IInv, HNext, Numeral, Peek \in Numerals \/ (Peek = "." /\ PeekNext \in Numerals)
  PROVE  IInv'
<1>1. /\ at = "number" /\ from' = from /\ lost' = lost
      /\ current' = current + 1 /\ UNCHANGED <<text, start, line, token>>
  BY DEF HNext, Numeral, Advance
<1>2. Peek # Nul /\ ~IsAtEnd /\ text[current + 1] = Peek
  <2>1. "." # Nul
    BY DEF Nul
  <2>2. QED
    BY <2>1, PeekIsNext DEF IInv
<1>3. at' = (IF Peek \in Numerals THEN "number" ELSE "fraction")
  BY <1>1 DEF Numeral
<1>4. TypeOK'
  BY <1>1, <1>2, <1>3 DEF IInv, TypeOK, IsAtEnd
<1>5. from <= start /\ start < current /\ L!WholeGap(from, start) /\ L!Digits(start, current)
  BY <1>1 DEF IInv, Passed
<1>6. (from <= start /\ start < current /\ L!WholeGap(from, start))'
  BY <1>1, <1>5 DEF IInv, TypeOK, L!WholeGap, L!Gap, L!Skipped, L!InComment
<1>7. CASE Peek \in Numerals
  <2>1. L!Digits(start, current)'
    BY <1>1, <1>2, <1>5, <1>7 DEF IInv, TypeOK, L!Digits
  <2>2. Passed' /\ ThrowsOnlyOnSlash'
    BY <1>3, <1>6, <1>7, <2>1 DEF Passed, ThrowsOnlyOnSlash
  <2>3. QED
    BY <1>4, <2>2 DEF IInv
<1>8. CASE Peek \notin Numerals
  <2>1. Peek = "." /\ PeekNext \in Numerals
    BY <1>8
  <2>2. ~PastLast /\ text[current + 2] \in Numerals
    BY <2>1, PeekIsNext DEF PeekNext, IInv
  <2>3. current + 1 < Len(text)
    <3>1. current \in Nat /\ Len(text) \in Nat /\ current < Len(text)
      BY <1>2, TextsAssumption DEF IInv, TypeOK, IsAtEnd
    <3>2. ~Throws
      BY <1>1, <2>1 DEF Numeral, LooksAhead
    <3>3. current + 1 # Len(text)
      BY <1>2, <2>2, <3>2, Lookahead DEF IInv
    <3>4. QED
      BY <3>1, <3>3
  <2>4. PointPassed'
    <3>1. current + 1 \in (start + 2) .. (current + 1)
      BY <1>5 DEF IInv, TypeOK
    <3>2. (current + 1) - 1 = current /\ (current + 1) + 1 = current + 2
      BY DEF IInv, TypeOK
    <3>3. L!Digits(start, (current + 1) - 1) /\ L!Digits(current + 1, current + 1)
      BY <1>5, <3>2 DEF IInv, TypeOK, L!Digits
    <3>4. QED
      BY <1>1, <1>2, <2>1, <2>2, <2>3, <3>1, <3>2, <3>3 DEF PointPassed, L!Digits
  <2>5. Passed' /\ ThrowsOnlyOnSlash'
    BY <1>3, <1>6, <1>8, <2>4 DEF Passed, ThrowsOnlyOnSlash
  <2>6. QED
    BY <1>4, <2>5 DEF IInv
<1>9. QED
  BY <1>7, <1>8
\* One more digit after the point.
LEMMA FractionKeeps ==
  ASSUME IInv, HNext, Fraction, Peek \in Numerals PROVE IInv'
<1>1. /\ at = "fraction" /\ at' = at /\ from' = from /\ lost' = lost
      /\ current' = current + 1 /\ UNCHANGED <<text, start, line, token>>
  BY DEF HNext, Fraction, Advance
<1>2. ~IsAtEnd /\ text[current + 1] = Peek
  BY PeekIsNext DEF IInv
<1>3. TypeOK'
  BY <1>1, <1>2 DEF IInv, TypeOK, IsAtEnd
<1>4. from <= start /\ start < current /\ L!WholeGap(from, start) /\ PointPassed
  BY <1>1 DEF IInv, Passed
<1>5. (from <= start /\ start < current /\ L!WholeGap(from, start))'
  BY <1>1, <1>4 DEF IInv, TypeOK, L!WholeGap, L!Gap, L!Skipped, L!InComment
<1>6. PICK dot \in (start + 2) .. current :
        text[dot] = "." /\ L!Digits(start, dot - 1) /\ L!Digits(dot, current)
  BY <1>4 DEF PointPassed
<1>7. L!Digits(dot, current + 1) /\ dot \in (start + 2) .. (current + 1) /\ dot # current + 1
  BY <1>2, <1>6 DEF IInv, TypeOK, L!Digits
<1>8. PointPassed'
  BY <1>1, <1>6, <1>7 DEF PointPassed, L!Digits
<1>9. Passed' /\ ThrowsOnlyOnSlash'
  BY <1>1, <1>5, <1>8 DEF Passed, ThrowsOnlyOnSlash
<1>10. QED
  BY <1>3, <1>9 DEF IInv

\* One more character of a string, newlines counted.
LEMMA StringKeeps ==
  ASSUME IInv, HNext, String, ~IsAtEnd, Peek # Quote PROVE IInv'
<1>1. /\ at = "string" /\ at' = at /\ from' = from /\ lost' = lost /\ line' \in {line, line + 1}
      /\ current' = current + 1 /\ UNCHANGED <<text, start, token>>
  BY DEF HNext, String, Advance, IInv, TypeOK
<1>2. text[current + 1] = Peek
  BY PeekIsNext DEF IInv
<1>3. TypeOK'
  BY <1>1, <1>2 DEF IInv, TypeOK, IsAtEnd
<1>4. /\ from <= start /\ start < current /\ L!WholeGap(from, start)
      /\ text[start + 1] = Quote /\ \A p \in (start + 2) .. current : text[p] # Quote
  BY <1>1 DEF IInv, Passed
<1>5. (from <= start /\ start < current /\ L!WholeGap(from, start))'
  BY <1>1, <1>4 DEF IInv, TypeOK, L!WholeGap, L!Gap, L!Skipped, L!InComment
<1>6. (text[start + 1] = Quote /\ \A p \in (start + 2) .. current : text[p] # Quote)'
  BY <1>1, <1>2, <1>4 DEF IInv, TypeOK
<1>7. Passed' /\ ThrowsOnlyOnSlash'
  BY <1>1, <1>5, <1>6 DEF Passed, ThrowsOnlyOnSlash
<1>8. QED
  BY <1>3, <1>7 DEF IInv

-----------------------------------------------------------------------------
(***************************************************************************)
(* What a call returns is what Lexical takes.                              *)
(***************************************************************************)

\* A character that nothing prolongs.
LEMMA LongestSingle ==
  ASSUME TypeOK, NEW i \in Nat, i < Len(text),
         \/ text[i + 1] \in Singles
         \/ text[i + 1] \in DOMAIN Paired /\ ~(i + 1 < Len(text) /\ text[i + 2] = "=")
  PROVE  L!Longest(i, i + 1) /\ L!Single(i, i + 1)
<1>1. L!Single(i, i + 1)
  BY SameCharacters DEF L!Single
<1>2. Quote \notin Singles \union DOMAIN Paired /\ Singles \intersect DOMAIN Paired = {}
  BY DEF Quote, Singles, Paired
<1>3. ASSUME NEW m \in (i + 2) .. Len(text), L!Lexeme(i, m) PROVE FALSE
  <2>1. m \in Nat /\ i < m /\ m <= Len(text) /\ i + 1 < Len(text)
    BY DEF TypeOK
  <2>2. ~L!Word(i, m) /\ ~L!Number(i, m) /\ ~L!String(i, m)
    BY <1>2, <2>1, FirstCharacter, CharactersAssumption
  <2>3. ~L!Single(i, m)
    BY DEF L!Single
  <2>4. L!Double(i, m)
    BY <1>3, <2>2, <2>3 DEF L!Lexeme
  <2>5. QED
    BY <1>2, <2>1, <2>4, SameCharacters DEF L!Double
<1>4. QED
  BY <1>1, <1>3 DEF L!Longest, L!Lexeme

\* The operators that end in "=".
LEMMA LongestDouble ==
  ASSUME TypeOK, NEW i \in Nat, i + 1 < Len(text), text[i + 1] \in DOMAIN Paired, text[i + 2] = "="
  PROVE  L!Longest(i, i + 2) /\ L!Double(i, i + 2)
<1>1. L!Double(i, i + 2)
  BY SameCharacters DEF L!Double
<1>2. Quote \notin Singles \union DOMAIN Paired
  BY DEF Quote, Singles, Paired
<1>3. ASSUME NEW m \in (i + 3) .. Len(text), L!Lexeme(i, m) PROVE FALSE
  <2>1. m \in Nat /\ i < m /\ m <= Len(text)
    BY DEF TypeOK
  <2>2. ~L!Word(i, m) /\ ~L!Number(i, m) /\ ~L!String(i, m)
    BY <1>2, <2>1, FirstCharacter, CharactersAssumption
  <2>3. ~L!Single(i, m) /\ ~L!Double(i, m)
    BY DEF L!Single, L!Double
  <2>4. QED
    BY <1>3, <2>2, <2>3 DEF L!Lexeme
<1>4. QED
  BY <1>1, <1>3 DEF L!Longest, L!Lexeme

\* No lexeme begins with any other character.
LEMMA NoLexeme ==
  ASSUME TypeOK, NEW i \in Nat, i < Len(text),
         text[i + 1] \notin Alphas \union Numerals \union Singles \union DOMAIN Paired \union {Quote}
  PROVE  \A j \in (i + 1) .. Len(text) : ~L!Lexeme(i, j)
<1>1. SUFFICES ASSUME NEW j \in (i + 1) .. Len(text), L!Lexeme(i, j) PROVE FALSE
  OBVIOUS
<1>2. j \in Nat /\ i < j /\ j <= Len(text)
  BY DEF TypeOK
<1>3. QED
  BY <1>1, <1>2, FirstCharacter DEF L!Lexeme

\* Nor with a quote that is the last one.
LEMMA NoStringEnd ==
  ASSUME TypeOK, NEW i \in Nat, i < Len(text), text[i + 1] = Quote,
         \A p \in (i + 2) .. Len(text) : text[p] # Quote
  PROVE  \A j \in (i + 1) .. Len(text) : ~L!Lexeme(i, j)
<1>1. SUFFICES ASSUME NEW j \in (i + 1) .. Len(text), L!Lexeme(i, j) PROVE FALSE
  OBVIOUS
<1>2. j \in Nat /\ i < j /\ j <= Len(text)
  BY DEF TypeOK
<1>3. Quote \notin Alphas \union Numerals \union Singles \union DOMAIN Paired
  BY CharactersAssumption DEF Quote, Singles, Paired
<1>4. L!String(i, j)
  BY <1>1, <1>2, <1>3, FirstCharacter DEF L!Lexeme
<1>5. j \in (i + 2) .. Len(text) /\ text[j] = Quote
  BY <1>2, <1>4, SameCharacters DEF L!String
<1>6. QED
  BY <1>5
\* Every token has a type.
LEMMA TypesOfTokens ==
  /\ \A w : WordType(w) \in TokenTypes
  /\ \A c \in Singles \union DOMAIN Paired : c \in TokenTypes
  /\ \A c \in DOMAIN Paired : Paired[c] \in TokenTypes
  /\ {"number", "string", "error", "eof"} \subseteq TokenTypes
<1>1. ASSUME NEW w PROVE WordType(w) \in TokenTypes
  <2>1. CASE \E k \in Keywords : Spelling[k] = w
    BY <2>1 DEF WordType, TokenTypes
  <2>2. CASE ~ \E k \in Keywords : Spelling[k] = w
    BY <2>2 DEF WordType, TokenTypes
  <2>3. QED
    BY <2>1, <2>2
<1>2. \A c \in DOMAIN Paired : Paired[c] \in {"!=", "==", "<=", ">="}
  BY DEF Paired
<1>3. QED
  BY <1>1, <1>2 DEF TokenTypes

\* After a return the scanner is idle, behind the token.
LEMMA ReturnKeeps ==
  ASSUME IInv, HNext, at # "idle", NEW t, NEW end \in current .. Len(text), Return(t, end),
         t.type \in TokenTypes, start' \in 0 .. end
  PROVE  IInv'
<1>1. /\ at' = "idle" /\ current' = end /\ from' = from /\ lost' \in Nat /\ UNCHANGED <<text, line>>
      /\ token' = [type |-> t.type, lexeme |-> t.lexeme, line |-> line]
  BY DEF HNext, Return, IInv, TypeOK
<1>2. TypeOK'
  BY <1>1 DEF IInv, TypeOK
<1>3. Passed' /\ ThrowsOnlyOnSlash'
  BY <1>1 DEF Passed, ThrowsOnlyOnSlash
<1>4. QED
  BY <1>2, <1>3 DEF IInv

\* The token is the longest lexeme after the gap.
LEMMA TakesLexeme ==
  ASSUME IInv, HNext, at # "idle", NEW k \in from .. Len(text), L!WholeGap(from, k),
         NEW j \in (k + 1) .. Len(text), j >= current, L!Longest(k, j), start' = k, NEW type \in TokenTypes,
         type = L!Type(k, j), Return(Token(type, Lexeme(j)), j)
  PROVE  IInv' /\ L!Take
<1>1. k \in Nat /\ j \in Nat /\ from \in Nat
  BY DEF IInv, TypeOK
<1>2. Lexeme(j) = SubSeq(text, k + 1, j)
  BY DEF Lexeme
<1>3. IInv'
  <2>1. j \in current .. Len(text) /\ start' \in 0 .. j
    BY <1>1 DEF IInv, TypeOK
  <2>2. Token(type, Lexeme(j)).type \in TokenTypes
    BY DEF Token
  <2>3. QED
    BY <2>1, <2>2, ReturnKeeps
<1>4. position = from /\ position' = j /\ scanned' = L!Token(type, Lexeme(j)) /\ text' = text
  BY DEF Return, position, scanned, Token, L!Token
<1>5. QED
  BY <1>2, <1>3, <1>4 DEF L!Take

\* Where no lexeme begins, the token is an error or the end of the text.
LEMMA TakesNoLexeme ==
  ASSUME IInv, HNext, at # "idle", NEW k \in from .. Len(text), L!WholeGap(from, k),
         NEW t, NEW end \in current .. Len(text), start' \in 0 .. end, Return(t, end),
         \/ k = Len(text) /\ end = k /\ t = EndOfFile
         \/ /\ k < Len(text) /\ \A j \in (k + 1) .. Len(text) : ~L!Lexeme(k, j)
            /\ \/ text[k + 1] = Quote /\ end = Len(text) /\ t = Unterminated
               \/ text[k + 1] # Quote /\ end = k + 1 /\ t = Unexpected
  PROVE  IInv' /\ L!Take
<1>1. t \in {EndOfFile, Unterminated, Unexpected}
  OBVIOUS
<1>2. t.type \in TokenTypes
  <2>1. \A type, lexeme : Token(type, lexeme).type = type
    BY DEF Token
  <2>2. t.type \in {"eof", "error"}
    BY <1>1, <2>1, Zenon DEF EndOfFile, Unterminated, Unexpected
  <2>3. QED
    BY <2>2, TypesOfTokens
<1>3. IInv'
  BY <1>2, ReturnKeeps
<1>4. Token(t.type, t.lexeme) = t
  BY <1>1 DEF EndOfFile, Unterminated, Unexpected, Token
<1>5. position = from /\ position' = end /\ scanned' = t /\ text' = text
  BY <1>4 DEF Return, position, scanned, Token
<1>6. QED
  BY <1>3, <1>5, SameCharacters DEF L!Take
\* EndOfText, OneCharacter, OneOrTwo and UnexpectedCharacter return at once.
LEMMA AtOnceTakes ==
  ASSUME IInv, HNext, EndOfText \/ OneCharacter \/ OneOrTwo \/ UnexpectedCharacter
  PROVE  IInv' /\ L!Take
<1>1. at = "token" /\ start' = current /\ from <= current
  BY DEF EndOfText, OneCharacter, OneOrTwo, UnexpectedCharacter, IInv, TypeOK
<1>2. /\ L!WholeGap(from, current) /\ current \in from .. Len(text) /\ current \in Nat
      /\ Len(text) \in Nat
  BY <1>1, TextsAssumption DEF IInv, Passed, TypeOK
<1>3. CASE EndOfText
  <2>1. current = Len(text)
    BY <1>2, <1>3 DEF EndOfText, IsAtEnd
  <2>2. QED
    BY <1>1, <1>2, <1>3, <2>1, TakesNoLexeme DEF EndOfText
<1>4. CASE OneCharacter
  <2>1. ~IsAtEnd /\ text[current + 1] = Peek /\ current < Len(text)
    BY <1>2, <1>4, PeekIsNext DEF OneCharacter, IInv, IsAtEnd
  <2>2. L!Longest(current, current + 1) /\ L!Single(current, current + 1)
    BY <1>2, <1>4, <2>1, LongestSingle DEF OneCharacter, IInv
  <2>3. L!Type(current, current + 1) = Peek
    BY <1>2, <2>1, <2>2, OneKind DEF IInv
  <2>4. Peek \in TokenTypes
    BY <1>4, TypesOfTokens DEF OneCharacter
  <2>5. Return(Token(Peek, Lexeme(current + 1)), current + 1)
    BY <1>4 DEF OneCharacter
  <2>6. current + 1 \in (current + 1) .. Len(text) /\ current + 1 >= current
    BY <1>2, <2>1
  <2>7. QED
    BY <1>1, <1>2, <2>2, <2>3, <2>4, <2>5, <2>6, TakesLexeme
<1>5. CASE OneOrTwo
  <2>1. ~IsAtEnd /\ text[current + 1] = Peek /\ current < Len(text) /\ Peek \in DOMAIN Paired
    BY <1>2, <1>5, PeekIsNext DEF OneOrTwo, IInv, IsAtEnd
  <2>2. CASE current + 1 < Len(text) /\ text[current + 2] = "="
    <3>1. L!Longest(current, current + 2) /\ L!Double(current, current + 2)
      BY <1>2, <2>1, <2>2, LongestDouble DEF IInv
    <3>2. L!Type(current, current + 2) = Paired[Peek]
      BY <1>2, <2>1, <2>2, <3>1, OneKind DEF IInv
    <3>3. Paired[Peek] \in TokenTypes
      BY <2>1, TypesOfTokens
    <3>4. Return(Token(Paired[Peek], Lexeme(current + 2)), current + 2)
      BY <1>5, <2>2 DEF OneOrTwo
    <3>5. current + 2 \in (current + 1) .. Len(text) /\ current + 2 >= current
      BY <1>2, <2>2
    <3>6. QED
      BY <1>1, <1>2, <3>1, <3>2, <3>3, <3>4, <3>5, TakesLexeme
  <2>3. CASE ~(current + 1 < Len(text) /\ text[current + 2] = "=")
    <3>1. L!Longest(current, current + 1) /\ L!Single(current, current + 1)
      BY <1>2, <2>1, <2>3, LongestSingle DEF IInv
    <3>2. L!Type(current, current + 1) = Peek
      BY <1>2, <2>1, <3>1, OneKind DEF IInv
    <3>3. Peek \in TokenTypes
      BY <2>1, TypesOfTokens
    <3>4. Return(Token(Peek, Lexeme(current + 1)), current + 1)
      BY <1>5, <2>3 DEF OneOrTwo
    <3>5. current + 1 \in (current + 1) .. Len(text) /\ current + 1 >= current
      BY <1>2, <2>1
    <3>6. QED
      BY <1>1, <1>2, <3>1, <3>2, <3>3, <3>4, <3>5, TakesLexeme
  <2>4. QED
    BY <2>2, <2>3
<1>6. CASE UnexpectedCharacter
  <2>1. current < Len(text) /\ text[current + 1] = Peek
    BY <1>2, <1>6, PeekIsNext DEF UnexpectedCharacter, IInv, IsAtEnd
  <2>2. /\ \A j \in (current + 1) .. Len(text) : ~L!Lexeme(current, j)
        /\ text[current + 1] # Quote
    BY <1>2, <1>6, <2>1, NoLexeme DEF UnexpectedCharacter, IInv
  <2>3. current + 1 \in current .. Len(text) /\ current \in 0 .. (current + 1)
    BY <1>2, <2>1
  <2>4. Return(Unexpected, current + 1)
    BY <1>6 DEF UnexpectedCharacter
  <2>5. QED
    BY <1>1, <1>2, <2>1, <2>2, <2>3, <2>4, TakesNoLexeme
<1>7. QED
  BY <1>3, <1>4, <1>5, <1>6
\* The loops of identifier, number and string return what they passed.
LEMMA LoopTakes ==
  ASSUME IInv, HNext, at \in {"identifier", "number", "fraction", "string"}, at' = "idle",
         Identifier \/ Numeral \/ Fraction \/ String
  PROVE  IInv' /\ L!Take
<1>1. /\ start \in from .. Len(text) /\ L!WholeGap(from, start) /\ start \in Nat /\ current \in Nat
      /\ start < current /\ current <= Len(text) /\ Len(text) \in Nat /\ at # "idle"
  BY TextsAssumption DEF IInv, Passed, TypeOK
<1>2. current < Len(text) => ~IsAtEnd /\ text[current + 1] = Peek
  BY <1>1, PeekIsNext DEF IInv, IsAtEnd
<1>3. current \in (start + 1) .. Len(text) /\ current >= current
  BY <1>1
<1>4. CASE at = "identifier"
  <2>1. /\ start' = start /\ Peek \notin Alphas \union Numerals
        /\ Return(Token(WordType(Lexeme(current)), Lexeme(current)), current)
    BY <1>4 DEF Identifier, Numeral, Fraction, String
  <2>2. L!Word(start, current)
    BY <1>4 DEF IInv, Passed
  <2>3. L!Longest(start, current)
    BY <1>1, <1>2, <2>1, <2>2, LongestWord DEF IInv
  <2>4. Lexeme(current) = SubSeq(text, start + 1, current)
    BY <2>1 DEF Lexeme
  <2>5. WordType(Lexeme(current)) = L!Type(start, current)
    BY <1>1, <2>2, <2>4, OneKind DEF IInv
  <2>6. WordType(Lexeme(current)) \in TokenTypes
    BY TypesOfTokens
  <2>7. QED
    BY <1>1, <1>3, <2>1, <2>3, <2>5, <2>6, TakesLexeme
<1>5. CASE at = "number"
  <2>1. /\ start' = start /\ Peek \notin Numerals /\ ~(Peek = "." /\ PeekNext \in Numerals)
        /\ Return(Token("number", Lexeme(current)), current)
    BY <1>5 DEF Identifier, Numeral, Fraction, String
  <2>2. L!Digits(start, current)
    BY <1>5 DEF IInv, Passed
  <2>3. ASSUME current + 1 < Len(text), Peek = "." PROVE text[current + 2] \notin Numerals
    <3>1. ~IsAtEnd /\ current + 1 # Len(text)
      BY <1>1, <2>3 DEF IsAtEnd
    <3>2. ~Throws
      BY <1>5, <2>3 DEF Identifier, Numeral, Fraction, String, LooksAhead
    <3>3. ~PastLast
      BY <3>1, <3>2, Lookahead DEF IInv
    <3>4. QED
      BY <2>1, <2>3, <3>3 DEF PeekNext
  <2>4. /\ current < Len(text) => text[current + 1] \notin Numerals
        /\ current + 1 < Len(text) => text[current + 1] # "." \/ text[current + 2] \notin Numerals
    BY <1>1, <1>2, <2>1, <2>3
  <2>5. L!Longest(start, current) /\ L!Number(start, current)
    BY <1>1, <2>2, <2>4, LongestInteger DEF IInv
  <2>6. "number" = L!Type(start, current)
    BY <1>1, <2>5, OneKind DEF IInv
  <2>7. QED
    BY <1>1, <1>3, <2>1, <2>5, <2>6, TypesOfTokens, TakesLexeme
<1>6. CASE at = "fraction"
  <2>1. /\ start' = start /\ Peek \notin Numerals
        /\ Return(Token("number", Lexeme(current)), current)
    BY <1>6 DEF Identifier, Numeral, Fraction, String
  <2>2. PICK dot \in (start + 2) .. current :
          /\ text[dot] = "." /\ L!Digits(start, dot - 1) /\ L!Digits(dot, current)
          /\ dot = current => dot < Len(text) /\ text[dot + 1] \in Numerals
    BY <1>6 DEF IInv, Passed, PointPassed
  <2>3. dot \in (start + 2) .. (current - 1)
    BY <1>1, <1>2, <2>1, <2>2
  <2>4. L!Longest(start, current) /\ L!Number(start, current)
    BY <1>1, <1>2, <2>1, <2>2, <2>3, LongestFraction DEF IInv
  <2>5. "number" = L!Type(start, current)
    BY <1>1, <2>4, OneKind DEF IInv
  <2>6. QED
    BY <1>1, <1>3, <2>1, <2>4, <2>5, TypesOfTokens, TakesLexeme
<1>7. CASE at = "string"
  <2>1. text[start + 1] = Quote /\ \A p \in (start + 2) .. current : text[p] # Quote
    BY <1>7 DEF IInv, Passed
  <2>2. CASE IsAtEnd
    <3>1. start' = start /\ Return(Unterminated, current) /\ current = Len(text)
      BY <1>1, <1>7, <2>2 DEF Identifier, Numeral, Fraction, String, IsAtEnd
    <3>2. \A j \in (start + 1) .. Len(text) : ~L!Lexeme(start, j)
      BY <1>1, <2>1, <3>1, NoStringEnd DEF IInv
    <3>3. current \in current .. Len(text) /\ start \in 0 .. current /\ start < Len(text)
      BY <1>1
    <3>4. QED
      BY <1>1, <2>1, <3>1, <3>2, <3>3, TakesNoLexeme
  <2>3. CASE ~IsAtEnd
    <3>1. /\ start' = start /\ Peek = Quote
          /\ Return(Token("string", Lexeme(current + 1)), current + 1)
      BY <1>7, <2>3 DEF Identifier, Numeral, Fraction, String
    <3>2. current < Len(text) /\ text[current + 1] = Quote
      BY <1>1, <1>2, <2>3, <3>1 DEF IsAtEnd
    <3>3. L!String(start, current + 1)
      BY <1>1, <2>1, <3>2, SameCharacters DEF L!String
    <3>4. current + 1 \in (start + 1) .. Len(text) /\ current + 1 >= current /\ current + 1 \in Nat
      BY <1>1, <3>2
    <3>5. L!Longest(start, current + 1)
      BY <1>1, <3>3, <3>4, LongestString DEF IInv
    <3>6. "string" = L!Type(start, current + 1)
      BY <1>1, <3>3, <3>4, OneKind DEF IInv
    <3>7. QED
      BY <1>1, <3>1, <3>4, <3>5, <3>6, TypesOfTokens, TakesLexeme
  <2>4. QED
    BY <2>2, <2>3
<1>8. QED
  BY <1>4, <1>5, <1>6, <1>7

-----------------------------------------------------------------------------
(***************************************************************************)
(* The theorems.                                                           *)
(***************************************************************************)

\* The invariant holds at the start.
LEMMA InitInv == ASSUME HInit PROVE IInv
<1>1. TypeOK
  BY TextsAssumption, TypesOfTokens DEF HInit, Init, TypeOK
<1>2. Passed /\ ThrowsOnlyOnSlash
  BY DEF HInit, Init, Passed, ThrowsOnlyOnSlash
<1>3. QED
  BY <1>1, <1>2 DEF IInv

\* Every step keeps it; and a step either is a call's return, which Lexical
\* takes, or changes nothing that Lexical sees.
LEMMA StepInv ==
  ASSUME IInv, HNext PROVE IInv' /\ (L!Take \/ UNCHANGED <<text, position, scanned>>)
<1>1. ASSUME Call \/ Abort \/ Skip PROVE IInv' /\ UNCHANGED <<text, position, scanned>>
  <2>1. IInv'
    BY <1>1, CallKeeps, AbortKeeps, SpaceKeeps, SlashKeeps, CommentKeeps, EndSkipKeeps DEF Skip
  <2>2. UNCHANGED <<text, token>> /\ at' # "idle"
    BY <1>1 DEF Call, Abort, Skip, SkipBlank, SkipNewline, Slash, Comment, EndSkip, Goto, Advance
  <2>3. position' = position
    BY <1>1, <2>2 DEF HNext, position
  <2>4. QED
    BY <2>1, <2>2, <2>3 DEF scanned
<1>2. CASE EndOfText \/ OneCharacter \/ OneOrTwo \/ UnexpectedCharacter
  BY <1>2, AtOnceTakes
<1>3. CASE Enter("identifier", Alphas) \/ Enter("number", Numerals) \/ Enter("string", {Quote})
  <2>1. IInv'
    BY <1>3, EnterKeeps
  <2>2. UNCHANGED <<text, token>> /\ at # "idle" /\ at' # "idle"
    BY <1>3 DEF Enter
  <2>3. position' = position
    BY <2>2 DEF HNext, position
  <2>4. QED
    BY <2>1, <2>2, <2>3 DEF scanned
<1>4. CASE Identifier \/ Numeral \/ Fraction \/ String
  <2>1. at \in {"identifier", "number", "fraction", "string"}
    BY <1>4 DEF Identifier, Numeral, Fraction, String
  <2>2. CASE at' = "idle"
    BY <1>4, <2>1, <2>2, LoopTakes
  <2>3. CASE at' # "idle"
    <3>1. \/ Identifier /\ Peek \in Alphas \union Numerals
          \/ Numeral /\ (Peek \in Numerals \/ (Peek = "." /\ PeekNext \in Numerals))
          \/ Fraction /\ Peek \in Numerals
          \/ String /\ ~IsAtEnd /\ Peek # Quote
      BY <1>4, <2>3 DEF Identifier, Numeral, Fraction, String, Return
    <3>2. IInv'
      BY <3>1, WordKeeps, NumeralKeeps, FractionKeeps, StringKeeps
    <3>3. UNCHANGED <<text, token>>
      BY <1>4, <2>3 DEF Identifier, Numeral, Fraction, String, Return, Advance
    <3>4. position' = position
      BY <2>1, <2>3 DEF HNext, position
    <3>5. QED
      BY <3>2, <3>3, <3>4 DEF scanned
  <2>4. QED
    BY <2>2, <2>3
<1>5. QED
  BY <1>1, <1>2, <1>3, <1>4 DEF HNext, Next, Scan

\* A stuttering step.
LEMMA StutterInv ==
  ASSUME IInv, UNCHANGED hvars PROVE IInv' /\ UNCHANGED <<text, position, scanned>>
<1>1. UNCHANGED <<text, start, current, line, at, token, from, lost>>
  BY DEF hvars, vars
<1>2. TypeOK' /\ ThrowsOnlyOnSlash' /\ UNCHANGED <<text, position, scanned>>
  BY <1>1 DEF IInv, TypeOK, ThrowsOnlyOnSlash, position, scanned
<1>3. Passed'
  BY <1>1 DEF IInv, Passed, Commenting, PointPassed, L!WholeGap, L!Gap, L!Skipped, L!InComment,
              L!Word, L!Digits
<1>4. QED
  BY <1>2, <1>3 DEF IInv

\* The invariant, for every set of sources.
LEMMA Invariance == HSpec => []IInv
<1>1. HInit => IInv
  BY InitInv
<1>2. IInv /\ [HNext]_hvars => IInv'
  BY StepInv, StutterInv
<1>3. QED
  BY <1>1, <1>2, PTL DEF HSpec

\* The members of Scanner keep their types and the positions their order, in
\* particular m_start <= m_current <= m_source.size(), whatever the source.
THEOREM ScannerTypeCorrect == HSpec => []TypeOK
<1>1. IInv => TypeOK
  BY DEF IInv
<1>2. QED
  BY <1>1, Invariance, PTL

\* For every source but a single slash, no string::at of the scanner throws,
\* although peek_next subtracts two from a size that may be one.
THEOREM LookaheadIsSafe == HSpec => []ThrowsOnlyOnSlash
<1>1. IInv => ThrowsOnlyOnSlash
  BY DEF IInv
<1>2. QED
  BY <1>1, Invariance, PTL

\* The loops of scan_token, one character at a time, take the gaps and the
\* longest lexemes that module Lexical defines: for every source, of any length
\* and over any characters.
THEOREM ScannerIsLexical == HSpec => ImplementsLexical
<1>1. HInit => L!Init
  BY DEF HInit, Init, L!Init, position, scanned, Token, L!EndOfFile, L!Token
<1>2. IInv /\ [HNext]_hvars => [L!Take]_(L!vars)
  BY StepInv, StutterInv DEF L!vars
<1>3. QED
  BY <1>1, <1>2, Invariance, PTL DEF HSpec, ImplementsLexical, L!Spec
\* What Lexical takes runs out.
LEMMA TakesRunOut == ASSUME IInv, L!Take PROVE S!Next
<1>1. PICK k \in position .. Len(text) :
        \/ k = Len(text) /\ position' = k /\ scanned' = L!EndOfFile
        \/ \E j \in (k + 1) .. Len(text) :
             /\ L!Longest(k, j) /\ position' = j
             /\ scanned' = L!Token(L!Type(k, j), SubSeq(text, k + 1, j))
        \/ /\ k < Len(text)
           /\ \/ position' = Len(text) /\ scanned' = L!Unterminated
              \/ position' = k + 1 /\ scanned' = L!Unexpected
  BY DEF L!Take
<1>2. /\ Len(text) \in Nat /\ position \in 0 .. Len(text) /\ text' = text
      /\ token'.type = scanned'.type
  BY TextsAssumption DEF IInv, TypeOK, position, scanned, Token, L!Take
<1>3. CASE k = Len(text) /\ position' = k /\ scanned' = L!EndOfFile
  BY <1>2, <1>3 DEF S!Next, L!EndOfFile, L!Token
<1>4. ASSUME NEW j \in (k + 1) .. Len(text), L!Longest(k, j), position' = j,
             scanned' = L!Token(L!Type(k, j), SubSeq(text, k + 1, j))
      PROVE  S!Next
  <2>1. k \in Nat /\ j \in Nat /\ k < j /\ j <= Len(text)
    BY <1>2
  <2>2. token'.type = L!Type(k, j)
    BY <1>2, <1>4 DEF L!Token
  <2>3. L!Lexeme(k, j)
    BY <1>4 DEF L!Longest
  <2>4. \A w : WordType(w) # "eof"
    BY DEF WordType, Keywords
  <2>5. \A c \in Singles \union DOMAIN Paired : c # "eof"
    BY DEF Singles, Paired
  <2>6. \A c \in DOMAIN Paired : Paired[c] # "eof"
    BY DEF Paired
  <2>7. L!Type(k, j) # "eof"
    BY <2>1, <2>3, <2>4, <2>5, <2>6, OneKind, SameCharacters
       DEF IInv, L!Lexeme, L!Single, L!Double
  <2>8. Len(text') - position' \in 0 .. (Len(text) - position - 1) /\ Len(text) - position > 0
    BY <1>2, <1>4, <2>1
  <2>9. QED
    BY <2>2, <2>7, <2>8 DEF S!Next
<1>5. CASE /\ k < Len(text)
           /\ \/ position' = Len(text) /\ scanned' = L!Unterminated
              \/ position' = k + 1 /\ scanned' = L!Unexpected
  <2>t. \A t, l : L!Token(t, l).type = t
    BY DEF L!Token
  <2>u. L!Unterminated.type = "error" /\ L!Unexpected.type = "error"
    BY <2>t, Zenon DEF L!Unterminated, L!Unexpected
  <2>1. token'.type = "error"
    BY <1>2, <1>5, <2>u
  <2>2. Len(text') - position' \in 0 .. (Len(text) - position - 1) /\ Len(text) - position > 0
    BY <1>2, <1>5
  <2>3. QED
    BY <2>1, <2>2 DEF S!Next
<1>6. QED
  BY <1>1, <1>3, <1>4, <1>5

\* No source makes the scanner return tokens for ever: error tokens and lost
\* newlines included, there are at most as many as there are characters.
THEOREM ScannerRunsOut == HSpec => TokensRunOut
<1>1. HInit => S!Init
  BY TextsAssumption DEF HInit, Init, S!Init, position
<1>2. IInv /\ [HNext]_hvars => [S!Next]_(S!vars)
  <2>1. ASSUME UNCHANGED <<text, position, scanned>> PROVE UNCHANGED S!vars
    BY <2>1 DEF S!vars, scanned, Token
  <2>2. QED
    BY <2>1, StepInv, StutterInv, TakesRunOut
<1>3. QED
  BY <1>1, <1>2, Invariance, PTL DEF HSpec, TokensRunOut, S!Spec

-----------------------------------------------------------------------------
(***************************************************************************)
(* Lines.                                                                  *)
(***************************************************************************)

Newlines(end) == {p \in 1 .. end : text[p] = Newline}

\* The newlines before one more character.
LEMMA NewlinesGrow ==
  ASSUME NEW end \in Nat
  PROVE  /\ IsFiniteSet(Newlines(end)) /\ Cardinality(Newlines(end)) \in Nat
         /\ Cardinality(Newlines(end + 1)) =
              Cardinality(Newlines(end)) + (IF text[end + 1] = Newline THEN 1 ELSE 0)
<1>1. IsFiniteSet(Newlines(end)) /\ Cardinality(Newlines(end)) \in Nat
  <2>1. IsFiniteSet(1 .. end)
    BY FS_Interval
  <2>2. QED
    BY <2>1, FS_Subset, FS_CardinalityType DEF Newlines
<1>2. CASE text[end + 1] = Newline
  <2>1. Newlines(end + 1) = Newlines(end) \union {end + 1} /\ end + 1 \notin Newlines(end)
    BY <1>2 DEF Newlines
  <2>2. Cardinality(Newlines(end) \union {end + 1}) = Cardinality(Newlines(end)) + 1
    BY <1>1, <2>1, FS_AddElement
  <2>3. QED
    BY <1>1, <1>2, <2>1, <2>2
<1>3. CASE text[end + 1] # Newline
  <2>1. Newlines(end + 1) = Newlines(end)
    BY <1>3 DEF Newlines
  <2>2. QED
    BY <1>1, <1>3, <2>1
<1>4. QED
  BY <1>2, <1>3

\* A step takes no character, or one, which it counts if it is a newline, or
\* two that are none.
LEMMA StepCounts ==
  ASSUME IInv, HNext
  PROVE  /\ text' = text
         /\ \/ current' = current /\ line' = line /\ lost' = lost
            \/ /\ current' = current + 1
               /\ line' + lost' = line + lost + (IF text[current + 1] = Newline THEN 1 ELSE 0)
            \/ /\ current' = current + 2 /\ line' = line /\ lost' = lost
               /\ text[current + 1] # Newline /\ text[current + 2] # Newline
<1>1. /\ Newline \notin Blanks \union Singles \union DOMAIN Paired \union {Nul, Quote, ".", "="}
      /\ Newline \notin Alphas \union Numerals
  BY CharactersAssumption DEF Newline, Blanks, Singles, Paired, Nul, Quote
<1>2. ~IsAtEnd => Peek = text[current + 1]
  BY PeekIsNext DEF IInv
<1>3. lost' = lost + (IF at = "token" /\ Peek = Newline THEN 1 ELSE 0) /\ line \in Nat /\ lost \in Nat
  BY DEF HNext, IInv, TypeOK
<1>4. Peek # Nul => ~IsAtEnd
  BY PeekIsNext DEF IInv
<1>5. CASE Call \/ Abort \/ Slash \/ EndSkip
  BY <1>3, <1>5 DEF Call, Abort, LooksAhead, Slash, EndSkip, Goto
<1>6. CASE SkipBlank \/ SkipNewline \/ Comment
  <2>1. Newline # Nul /\ Nul \notin Blanks
    BY <1>1, PeekIsNext DEF IInv
  <2>2. QED
    BY <1>1, <1>2, <1>3, <1>4, <1>6, <2>1 DEF SkipBlank, SkipNewline, Comment, Goto, Advance
<1>7. CASE EndOfText
  <2>1. Peek # Newline
    BY <1>1, <1>7 DEF EndOfText, Peek
  <2>2. QED
    BY <1>3, <1>7, <2>1 DEF EndOfText, Return
<1>8. CASE OneCharacter \/ UnexpectedCharacter
  <2>1. ~IsAtEnd
    BY <1>8, PeekIsNext DEF OneCharacter, UnexpectedCharacter, IInv
  <2>2. at = "token" /\ current' = current + 1 /\ UNCHANGED <<text, line>>
    BY <1>8 DEF OneCharacter, UnexpectedCharacter, Return
  <2>3. QED
    BY <1>2, <1>3, <2>1, <2>2
<1>9. CASE OneOrTwo
  <2>1. Peek # Newline /\ ~IsAtEnd /\ at = "token" /\ "=" # Newline
    BY <1>1, <1>9, PeekIsNext DEF OneOrTwo, IInv
  <2>2. \/ current' = current + 2 /\ text[current + 2] = "="
        \/ current' = current + 1
    BY <1>9 DEF OneOrTwo, Return
  <2>3. UNCHANGED <<text, line>>
    BY <1>9 DEF OneOrTwo, Return
  <2>4. QED
    BY <1>2, <1>3, <2>1, <2>2, <2>3
<1>10. CASE Enter("identifier", Alphas) \/ Enter("number", Numerals) \/ Enter("string", {Quote})
  <2>1. Peek # Newline /\ ~IsAtEnd
    BY <1>1, <1>10, PeekIsNext DEF Enter, IInv
  <2>2. current' = current + 1 /\ UNCHANGED <<text, line>>
    BY <1>10 DEF Enter
  <2>3. QED
    BY <1>2, <1>3, <2>1, <2>2
<1>11. CASE Identifier \/ Numeral \/ Fraction
  <2>1. lost' = lost /\ UNCHANGED <<text, line>>
    BY <1>3, <1>11 DEF Identifier, Numeral, Fraction, Advance, Return
  <2>2. \/ current' = current
        \/ current' = current + 1 /\ Peek \in Alphas \union Numerals \union {"."}
    BY <1>11 DEF Identifier, Numeral, Fraction, Advance, Return
  <2>3. Nul \notin Alphas \union Numerals \union {"."}
    BY PeekIsNext DEF IInv, Nul
  <2>4. QED
    BY <1>1, <1>2, <1>3, <1>4, <2>1, <2>2, <2>3
<1>12. CASE String
  <2>1. lost' = lost /\ text' = text
    BY <1>3, <1>12 DEF String, Advance, Return
  <2>2. \/ current' = current /\ line' = line
        \/ ~IsAtEnd /\ Peek = Quote /\ current' = current + 1 /\ line' = line
        \/ ~IsAtEnd /\ current' = current + 1 /\ line' = line + (IF Peek = Newline THEN 1 ELSE 0)
    BY <1>12 DEF String, Advance, Return
  <2>3. QED
    BY <1>1, <1>2, <1>3, <2>1, <2>2
<1>13. QED
  BY <1>5, <1>6, <1>7, <1>8, <1>9, <1>10, <1>11, <1>12 DEF HNext, Next, Skip, Scan

\* So the line number is kept.
LEMMA LinesKept == ASSUME IInv, LinesCounted, HNext PROVE LinesCounted'
<1>1. current \in Nat /\ line \in Nat /\ lost \in Nat /\ text' = text
  BY StepCounts DEF IInv, TypeOK
<1>2. line + lost = 1 + Cardinality(Newlines(current))
  BY DEF LinesCounted, Newlines
<1>3. line' \in Nat /\ lost' \in Nat
  BY StepInv DEF IInv, TypeOK
<1>4. line' + lost' = 1 + Cardinality(Newlines(current'))
  <2>1. CASE current' = current /\ line' = line /\ lost' = lost
    BY <1>2, <2>1
  <2>2. CASE /\ current' = current + 1
             /\ line' + lost' = line + lost + (IF text[current + 1] = Newline THEN 1 ELSE 0)
    <3> DEFINE more == IF text[current + 1] = Newline THEN 1 ELSE 0
    <3>1. Cardinality(Newlines(current)) \in Nat
      BY <1>1, NewlinesGrow
    <3>2. Cardinality(Newlines(current + 1)) = Cardinality(Newlines(current)) + more
      BY <1>1, NewlinesGrow
    <3>3. line' + lost' = line + lost + more /\ Newlines(current') = Newlines(current + 1) /\ more \in {0, 1}
      BY <2>2
    <3>4. Cardinality(Newlines(current')) = Cardinality(Newlines(current)) + more
      BY <3>2, <3>3
    <3> HIDE DEF more
    <3>5. line' + lost' = (1 + Cardinality(Newlines(current))) + more /\ more \in Nat
      BY <1>2, <3>3
    <3>6. (1 + Cardinality(Newlines(current))) + more = 1 + (Cardinality(Newlines(current)) + more)
      BY <3>1, <3>5
    <3>7. QED
      BY <3>4, <3>5, <3>6
  <2>3. CASE /\ current' = current + 2 /\ line' = line /\ lost' = lost
             /\ text[current + 1] # Newline /\ text[current + 2] # Newline
    <3>1. current + 1 \in Nat /\ (current + 1) + 1 = current + 2
      BY <1>1
    <3>2. Cardinality(Newlines((current + 1) + 1)) = Cardinality(Newlines(current + 1))
      BY <2>3, <3>1, NewlinesGrow
    <3>3. Cardinality(Newlines(current + 1)) = Cardinality(Newlines(current))
      BY <1>1, <2>3, NewlinesGrow
    <3>4. QED
      BY <1>2, <2>3, <3>1, <3>2, <3>3
  <2>4. QED
    BY <2>1, <2>2, <2>3, StepCounts
<1>5. Newlines(current') = {p \in 1 .. current : text[p] = Newline}'
  BY <1>1 DEF Newlines
<1>6. QED
  BY <1>4, <1>5 DEF LinesCounted

\* The line of every error is right, inside of strings over several lines and
\* everywhere else, but for the newlines after comments.
THEOREM LinesAreCounted == HSpec => []LinesCounted
<1>1. HInit => LinesCounted
  <2>1. ASSUME HInit PROVE {p \in 1 .. current : text[p] = Newline} = {}
    BY <2>1 DEF HInit, Init
  <2>2. QED
    BY <2>1, FS_EmptySet DEF HInit, Init, LinesCounted
<1>2. IInv /\ LinesCounted /\ [HNext]_hvars => LinesCounted'
  <2>1. ASSUME LinesCounted, UNCHANGED hvars PROVE LinesCounted'
    BY <2>1 DEF hvars, vars, LinesCounted
  <2>2. QED
    BY <2>1, LinesKept
<1>3. QED
  BY <1>1, <1>2, Invariance, PTL DEF HSpec
=============================================================================
