---------------------------- MODULE Translation -----------------------------
(***************************************************************************)
(* The compiler against the grammar: what compiler::Compiler emits in one  *)
(* pass, by precedences, is what a translation that follows the grammar    *)
(* rule by rule gives.                                                     *)
(***************************************************************************)
EXTENDS CompilerChecks

G == INSTANCE Grammar

\* The compiler accepts exactly the programs of the README's grammar, and the
\* bytes and constants it emits in one pass are a translation of the source by
\* that grammar: precedence, nesting, slots and every patched distance.  Of a source
\* with a for statement without a condition the code is not compared (run
\* Compiler_bare_for).
TranslatesGrammar ==
  Compiled =>
    LET programs == G!Programs(text)
    IN  IF hadError THEN programs = {}
        ELSE \E p \in programs : bareFor \/ (p.code = code /\ p.consts = constants)
=============================================================================
