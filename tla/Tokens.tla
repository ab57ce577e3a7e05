------------------------------- MODULE Tokens -------------------------------
(***************************************************************************)
(* Characters and tokens (src/src/token.h, the tables of                   *)
(* src/src/scanner.cpp).  A character is a string of length one, a word a  *)
(* sequence of characters, and a TokenType is named by what it stands for, *)
(* as in module Compiler.                                                  *)
(***************************************************************************)
EXTENDS Integers, Sequences

CONSTANTS
  Alphas,  \* is_alpha: the letters and the underscore
  Numerals \* is_digit

Nul     == "\\0"  \* what peek and peek_next give when there is no character
Newline == "\n"
Quote   == "\""
Blanks  == {" ", "\r", "\t"}

\* Tokens of one character, whatever follows, and those that "=" prolongs.
Singles == {"(", ")", "{", "}", ";", ",", ".", "-", "+", "/", "*"}
Paired  == [c \in {"!", "=", "<", ">"} |->
              CASE c = "!" -> "!=" [] c = "=" -> "==" [] c = "<" -> "<=" [] c = ">" -> ">="]

ASSUME CharactersAssumption ==
  /\ Alphas \intersect Numerals = {}
  /\ (Alphas \union Numerals) \intersect
       (Blanks \union Singles \union DOMAIN Paired \union {Nul, Newline, Quote}) = {}

\* token_mapping: the keywords and how they are spelled.
Keywords == {"and", "class", "else", "if", "nil", "or", "print", "return", "super", "var",
             "while", "false", "for", "fun", "this", "true"}
Spelling == [k \in Keywords |->
  CASE k = "and"   -> <<"a", "n", "d">>           [] k = "class"  -> <<"c", "l", "a", "s", "s">>
    [] k = "else"  -> <<"e", "l", "s", "e">>      [] k = "if"     -> <<"i", "f">>
    [] k = "nil"   -> <<"n", "i", "l">>           [] k = "or"     -> <<"o", "r">>
    [] k = "print" -> <<"p", "r", "i", "n", "t">> [] k = "return" -> <<"r", "e", "t", "u", "r", "n">>
    [] k = "super" -> <<"s", "u", "p", "e", "r">> [] k = "var"    -> <<"v", "a", "r">>
    [] k = "while" -> <<"w", "h", "i", "l", "e">> [] k = "false"  -> <<"f", "a", "l", "s", "e">>
    [] k = "for"   -> <<"f", "o", "r">>           [] k = "fun"    -> <<"f", "u", "n">>
    [] k = "this"  -> <<"t", "h", "i", "s">>      [] k = "true"   -> <<"t", "r", "u", "e">>]

WordType(word) ==
  IF \E k \in Keywords : Spelling[k] = word
    THEN CHOOSE k \in Keywords : Spelling[k] = word
    ELSE "identifier"

\* TokenType.
TokenTypes == Singles \union DOMAIN Paired \union {"!=", "==", "<=", ">="} \union Keywords
                \union {"identifier", "string", "number", "error", "eof"}

\* Tokens without their line.  The lexeme of an error token is its message.
Token(type, lexeme) == [type |-> type, lexeme |-> lexeme]
EndOfFile    == Token("eof", <<>>)
Unexpected   == Token("error", <<"Unexpected character.">>)
Unterminated == Token("error", <<"Unterminated string.">>)
=============================================================================
