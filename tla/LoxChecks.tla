----------------------------- MODULE LoxChecks ------------------------------
(***************************************************************************)
(* What the parts of the interpreter promise one another: the compiler     *)
(* gives out stack slots that the VM must find, line after line.           *)
(***************************************************************************)
EXTENDS Lox, CodeShape

VARIABLES
  text, bareFor, opened, deepest,  \* those of CompilerChecks, for the line being compiled
  base,    \* stackTop when the chunk was loaded
  before,  \* the globals then
  printed, \* what it has printed
  counted, \* the heights that the compiler counts hold for the chunk
  swallowed, \* an operator of the chunk has swallowed its error
  sound    \* all lines have been counted, none has swallowed an error, each found the
           \* stack empty, and no push filled it

compiling == <<text, bareFor, opened, deepest>>
running   == <<base, before, printed>>
hvars     == <<vars, compiling, running, counted, swallowed, sound>>

CC == INSTANCE CompilerChecks WITH code <- newCode, constants <- newConstants,
        source <- Source(line), Sources <- {}

\* The globals as a function from names to values.
Globals ==
  LET slots == {s \in DOMAIN globals : globals[s].key # Null}
  IN  [name \in {globals[s].key : s \in slots} |->
         globals[CHOOSE s \in slots : globals[s].key = name].value]

\* An operator on numbers whose operands are not numbers goes on without a result
\* (run Lox_swallowed_error).
Swallows == V!Executing(NumberOps) /\ ~V!BothNumbers

\* No for statement without a condition (run Compiler_bare_for), and no scope too
\* deep for a u8 (run Compiler_depth), in the line just compiled.
Counted == ~bareFor /\ deepest < U8 /\ Len(newCode) < UsizeCount

\* A push into the last slot: m_stack_top wraps to 0, as for an empty stack.  The
\* compiler accepts as many locals as there are slots (compiler.cpp:117).
Overflows == V!Running /\ stackTop = U8 - 1 /\ Effect(V!Op) = 1

HInit ==
  /\ Init
  /\ text = <<>> /\ bareFor = FALSE /\ opened = <<>> /\ deepest = 0
  /\ base = 0 /\ before = <<>> /\ printed = <<>>
  /\ counted = FALSE /\ swallowed = FALSE /\ sound = (stackTop = 0)

\* What is noted of the compiler, from line to line.
NoteCompiling ==
  IF phase = "compile" /\ phase' = "compile"
    THEN CC!Note
    ELSE text' = <<>> /\ bareFor' = FALSE /\ opened' = <<>> /\ deepest' = 0

\* What is noted of a chunk is forgotten when it has run.
NoteRunning ==
  IF phase' # "run" THEN base' = 0 /\ before' = <<>> /\ printed' = <<>>
  ELSE IF phase # "run" THEN base' = stackTop /\ before' = Globals /\ printed' = <<>>
  ELSE /\ printed' = IF V!Executing({OP_PRINT}) THEN Append(printed, V!Top) ELSE printed
       /\ UNCHANGED <<base, before>>

NoteHeights ==
  IF phase' # "run" THEN counted' = FALSE /\ swallowed' = FALSE /\ UNCHANGED sound
  ELSE IF phase # "run" THEN /\ counted' = Counted /\ swallowed' = FALSE
                             /\ sound' = (sound /\ stackTop = 0 /\ Counted)
  ELSE /\ UNCHANGED counted /\ swallowed' = (swallowed \/ Swallows)
       /\ sound' = (sound /\ ~Swallows /\ ~Overflows)

\* The stack is where the compiler counted it.
OnCount == counted /\ ~swallowed

HNext == Next /\ NoteCompiling /\ NoteRunning /\ NoteHeights
HSpec == HInit /\ [][HNext]_hvars

\* The prompt waits for the user; all else runs by itself.
HFairSpec == HSpec /\ WF_hvars(phase # "prompt" /\ HNext)

-----------------------------------------------------------------------------
\* "compiler and vm local var stacks match" (vm.cpp:80): when an instruction
\* of a compiled chunk is run the stack is as high as the compiler counted.
StacksMatch ==
  phase = "run" /\ V!Running => <<ip, stackTop>> \in Heights(code)

\* What is true of that whatever the lines before left on the stack, and
\* however full it is: as long as the chunk is counted and no operator has
\* swallowed its error, the stack has grown by what the compiler counted, modulo
\* the byte that m_stack_top is.
HeightsMatch ==
  phase = "run" /\ OnCount /\ V!Running =>
    \E r \in Heights(code) : r[1] = ip /\ stackTop = (base + r[2]) % U8

\* Compiled code that finds the stack empty, line after line, never makes the VM
\* read outside its stack or its chunk, call a null pointer, use a constant as a
\* name that is none, or throw.
NeverUndefined == sound => status \notin {"aborted", "undefined"}

\* A line that is counted and runs without an error, reported or swallowed, leaves
\* the stack as it found it, even if it found values that an earlier line had left
\* there.
LineLeavesStack ==
  phase = "run" /\ OnCount /\ status = "idle" /\ result = "INTERPRET_OK" => stackTop = base

\* Whatever is typed, compiled or not, run to its end or not, the user gets the
\* prompt back.  No line that a session types has a loop that goes on for ever, or an
\* operator that swallows its error, after which the stack may be read outside.
EveryLineEnds ==
  phase = "compile" /\ Sessions[session].interactive ~> phase \in {"prompt", "exit"}
=============================================================================
