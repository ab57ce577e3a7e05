------------------------------ MODULE MCScanner ------------------------------
(***************************************************************************)
(* Small instances of Scanner: every text up to some length over the       *)
(* characters that one part of scan_token is about.                        *)
(***************************************************************************)
EXTENDS ScannerChecks

MCAlphas   == {"f", "o", "r", "_"}
MCNumerals == {"1"}

Over(chars, length) == UNION {[1 .. n -> chars] : n \in 0 .. length}

\* Keywords that begin one another's names, identifiers that begin with them.
Words     == Over({"f", "o", "r", "1", " "}, 5)
Numbers   == Over({"1", ".", "-", "o", "/"}, 5)
Strings   == Over({Quote, "o", "/", Newline, " "}, 5)
Comments  == Over({"/", Newline, "o", "\t", Quote}, 6)
Operators == Over({"!", "=", "<", "(", "@", "_"}, 5)

MCTexts == Words \union Numbers \union Strings \union Comments \union Operators

\* A comment, and a line after it.
CommentTexts == Over({"/", Newline, "o"}, 4)
=============================================================================
