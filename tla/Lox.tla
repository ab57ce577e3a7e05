-------------------------------- MODULE Lox ---------------------------------
(***************************************************************************)
(* The interpreter (src/src/lox.cpp): interpret scans and compiles a       *)
(* source with a new Compiler and Chunk and runs the chunk on the one      *)
(* VirtualMachine, which keeps its globals, strings and stack from one     *)
(* line of the REPL to the next.  Composes modules Compiler and VM.        *)
(*                                                                         *)
(* Here the scanner delivers the tokens of the line that was typed.        *)
(***************************************************************************)
EXTENDS Locals, Objects

CONSTANTS
  Sessions,    \* the ways to start the interpreter: a function from names to records
               \*   interactive: repl or run_file
               \*   lines: what may be typed, or is in the file: sequences of tokens
               \*   maxLines: bound on the number of lines typed
               \*   tops: where the stack may start, of InitialTops
  InitialTops, \* as in module VM
  UsizeCount

\* What the scanner delivers; the lexeme of a literal stands for its value.
IsToken(t) ==
  /\ DOMAIN t = {"type", "lexeme"} /\ t.type # "eof"
  /\ t.type \in {"identifier", "string"} => t.lexeme \in Keys
  /\ t.type = "number" => t.lexeme \in Numbers

ASSUME SessionsAssumption ==
  \A s \in DOMAIN Sessions :
    /\ Sessions[s].interactive \in BOOLEAN
    /\ Sessions[s].maxLines \in Nat
    /\ Sessions[s].tops \subseteq InitialTops
    /\ \A l \in Sessions[s].lines :
         l \in Seq({l[i] : i \in DOMAIN l}) /\ \A i \in DOMAIN l : IsToken(l[i])

ASSUME LoxAssumption ==
  /\ InitialTops \subseteq 0 .. (U8 - 1)
  /\ UsizeCount \in Nat \ {0}
  /\ Arithmetic \in [{OP_ADD, OP_SUBTRACT, OP_MULTIPLY, OP_DIVIDE}
                       -> [Numbers \X Numbers -> Numbers]]

VARIABLES
  session, \* what startup chose by argc, and what its user does: a name
  phase,  \* "prompt", "compile", "run", "exit"
  line,   \* source
  typed,  \* how many lines have been read
  exit,   \* the exit status of run_file
  remaining, current, previous, hadError, panicMode, locals, scopeDepth, todo,
  newCode, newConstants,  \* the chunk that the compiler writes
  code, constants, ip, stack, stackTop, globals, strings, status, result

compilerVars == <<remaining, current, previous, hadError, panicMode, locals, scopeDepth, todo,
                  newCode, newConstants>>
vmVars       == <<code, constants, ip, stack, stackTop, globals, strings, status, result>>
driverVars   == <<session, phase, line, typed, exit>>
vars         == <<driverVars, compilerVars, vmVars>>

\* A line as a source: the tokens are those of the line, none of them an error.
Source(l) == [tokens |-> {l[i] : i \in 1 .. Len(l)}, length |-> Len(l),
              scanErrors |-> {FALSE}, goesOn |-> TRUE]

C == INSTANCE Compiler WITH code <- newCode, constants <- newConstants,
       source <- Source(line), Sources <- {}
V == INSTANCE VM WITH Chunks <- {}

\* A new Compiler on a new Chunk.
FreshCompiler ==
  /\ remaining' = Len(line')
  /\ current' = C!EOF /\ previous' = C!EOF
  /\ hadError' = FALSE /\ panicMode' = FALSE
  /\ locals' = <<>> /\ scopeDepth' = 0
  /\ newCode' = <<>> /\ newConstants' = <<>>
  /\ todo' = <<C!Call("advance"), C!Call("compile")>>

Init ==
  /\ session \in DOMAIN Sessions
  /\ phase = "prompt" /\ line = <<>> /\ typed = 0 /\ exit = 0
  /\ C!NewCompiler
  /\ V!Init /\ stackTop \in Sessions[session].tops

\* repl reads a line, or run_file the file; interpret makes a Compiler.
Read ==
  /\ phase = "prompt"
  /\ typed < Sessions[session].maxLines
  /\ line' \in Sessions[session].lines
  /\ typed' = typed + 1
  /\ phase' = "compile"
  /\ FreshCompiler
  /\ UNCHANGED <<session, exit, vmVars>>

\* An empty line ends the REPL.
Quit ==
  /\ phase = "prompt"
  /\ Sessions[session].interactive
  /\ phase' = "exit"
  /\ UNCHANGED <<session, line, typed, exit, compilerVars, vmVars>>

\* A token taken from the scanner is the next one of the line.
FromLine ==
  remaining' # remaining =>
    LET read == Len(line) - remaining
    IN  current' = IF read < Len(line) THEN line[read + 1] ELSE C!EOF

Compile ==
  /\ phase = "compile"
  /\ UNCHANGED <<driverVars, vmVars>>
  /\ C!CompileStep
  /\ FromLine

\* interpret, after compile: only a chunk without errors is loaded.
Leave(status_) ==
  IF Sessions[session].interactive
    THEN phase' = "prompt" /\ UNCHANGED exit
    ELSE phase' = "exit" /\ exit' = status_

Reject ==
  /\ phase = "compile" /\ C!Compiled /\ hadError
  /\ Leave(65)
  /\ UNCHANGED <<session, line, typed, compilerVars, vmVars>>

\* Mutant: interpret does not look at what compile returned.
LoadAnyway ==
  /\ phase = "compile" /\ C!Compiled
  /\ V!LoadNewChunk([code |-> newCode, constants |-> newConstants])
  /\ phase' = "run"
  /\ UNCHANGED <<session, line, typed, exit, compilerVars>>

Load ==
  /\ phase = "compile" /\ C!Compiled /\ ~hadError
  /\ V!LoadNewChunk([code |-> newCode, constants |-> newConstants])
  /\ phase' = "run"
  /\ UNCHANGED <<session, line, typed, exit, compilerVars>>

Run ==
  /\ phase = "run"
  /\ V!RunStep
  /\ UNCHANGED <<driverVars, compilerVars>>

\* run has returned to interpret.
Finish ==
  /\ phase = "run" /\ status = "idle"
  /\ Leave(IF result = "INTERPRET_RUNTIME_ERROR" THEN 70 ELSE 0)
  /\ UNCHANGED <<session, line, typed, compilerVars, vmVars>>

Next == Read \/ Quit \/ Compile \/ Reject \/ Load \/ Run \/ Finish
Spec == Init /\ [][Next]_vars
=============================================================================
