----------------------------- MODULE TokenStream -----------------------------
(***************************************************************************)
(* What a parser may rely on, whatever the tokens are: they run out, and   *)
(* from then on each one is the end of the file.  Scanner implements it;   *)
(* Advance of module Compiler reads such a stream, with left as remaining, *)
(* and that compile ends rests on it.                                      *)
(***************************************************************************)
EXTENDS Integers

VARIABLES
  left, \* bound on the number of tokens before the end of the file
  type  \* of the last token

vars == <<left, type>>

Init == left \in Nat /\ type = "eof"

Next ==
  \/ left' = 0 /\ type' = "eof"
  \/ left > 0 /\ left' \in 0 .. (left - 1) /\ type' # "eof"

Spec == Init /\ [][Next]_vars
=============================================================================
