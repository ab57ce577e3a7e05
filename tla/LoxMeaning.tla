----------------------------- MODULE LoxMeaning -----------------------------
(***************************************************************************)
(* What a line does, against modules Meaning and Grammar, which say what   *)
(* it should do.                                                           *)
(***************************************************************************)
EXTENDS LoxChecks

CONSTANT Trees  \* syntax trees of lines that are programs: [text, statements]

\* The locals and temporaries together leave a slot free: the compiler accepts as
\* many locals as there are slots (compiler.cpp:117).
StackSuffices(bytes) == \A r \in Heights(bytes) : r[2] < U8

\* A program that the compiler accepts and counts, and that starts on an empty
\* stack, does what its syntax tree means, with variables looked up by name in their
\* scopes: it prints the same values in the same order, fails exactly when that
\* fails, and leaves the same globals to the next line.  An operator that swallows
\* its error (vm.cpp:147) does so only where the meaning fails: what was printed till
\* then is as meant, and what the program does after that means nothing.
M == INSTANCE Meaning
RunsAsMeant ==
  phase = "run" /\ status = "idle" /\ base = 0 /\ counted /\ StackSuffices(code) =>
    \A tree \in {t \in Trees : t.text = line} :
      LET meant == M!Meaning(tree.statements, before)
      IN  IF swallowed
            THEN meant.failed /\ IsPrefix(meant.printed, printed)
            ELSE /\ printed = meant.printed
                 /\ (result = "INTERPRET_RUNTIME_ERROR") = meant.failed
                 /\ Globals = meant.env[1]

\* Programs that a chunk can surely hold: the index of a constant is a byte, the
\* distance of a jump two, and a local needs a slot.
G == INSTANCE Grammar
Encodable(p) == Len(p.consts) <= U8 /\ Len(p.code) < U8 * U8 /\ StackSuffices(p.code)

\* Whatever the lines before did, a line is run exactly if it is a program of the
\* README's grammar: never part of one that has an error, and no program is refused,
\* but for one that is too large for a chunk, has a scope too deep for a u8 (run
\* Compiler_depth) or uses "or" (run Compiler_or).
ExactlyProgramsRun ==
  [][phase = "compile" /\ phase' # "compile" =>
       LET programs == G!Programs(line)
       IN  IF phase' = "run" THEN programs # {}
           ELSE \/ ~\E p \in programs : Encodable(p)
                \/ deepest >= U8
                \/ \E i \in DOMAIN line : line[i].type = "or"]_vars
=============================================================================
