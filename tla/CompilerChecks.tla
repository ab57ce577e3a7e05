--------------------------- MODULE CompilerChecks ---------------------------
(***************************************************************************)
(* What compiler::Compiler promises of the chunks it accepts, and that it  *)
(* comes to an end on every source.  History variables record the source   *)
(* that was scanned, whether it has a for statement without a condition,   *)
(* whose code is not balanced (run Compiler_bare_for), how many locals     *)
(* there were when each of the open scopes was opened, and how deep the    *)
(* scopes ever were.                                                       *)
(***************************************************************************)
EXTENDS Compiler, CodeShape, Disassembler

VARIABLES
  text,    \* the tokens scanned
  bareFor, \* the source has a for statement without a condition
  opened,  \* Len(locals) at each begin_scope whose end_scope is to come
  deepest  \* the largest scopeDepth so far

hvars == <<vars, text, bareFor, opened, deepest>>

HInit == Init /\ text = <<>> /\ bareFor = FALSE /\ opened = <<>> /\ deepest = 0
Note ==
  /\ text' = IF remaining' = remaining \/ current' = EOF THEN text ELSE Append(text, current')
  /\ bareFor' = (bareFor \/ (At("for_condition") /\ Sees(";")))
  /\ opened' = CASE scopeDepth' > scopeDepth -> Append(opened, Len(locals))
                 [] scopeDepth' < scopeDepth -> Front(opened)
                 [] OTHER -> opened
  /\ deepest' = IF scopeDepth' > deepest THEN scopeDepth' ELSE deepest
HNext == Next /\ Note
HSpec == HInit /\ [][HNext]_hvars

\* The compiler runs alone and waits for nothing.
HFairSpec == HSpec /\ WF_hvars(~Compiled /\ HNext)

-----------------------------------------------------------------------------
\* The variables hold what the members of Compiler can hold; todo is left to
\* the actions, whose guards select on it.
TypeOK ==
  /\ source \in Sources
  /\ remaining \in 0 .. source.length
  /\ {current, previous} \subseteq source.tokens \union {EOF}
  /\ hadError \in BOOLEAN /\ panicMode \in BOOLEAN
  /\ \A i \in 1 .. Len(locals) : locals[i].depth \in {NoDepth} \union 0 .. (U8 - 1)
  /\ Len(locals) <= U8
  /\ scopeDepth \in Nat
  /\ \A i \in 1 .. Len(code) : code[i] \in OpCodes \union 0 .. (U8 - 1)

\* The chunk that interpret hands to the VM.
Accepted == Compiled /\ ~hadError

\* Every jump of an accepted chunk was patched or computed to land on an
\* instruction of the chunk, however the functions that emit and patch it nest.
JumpsPatched == Accepted => JumpsLand(code)

\* Every path through an accepted chunk leaves the stack as it found it, and no
\* instruction takes a value or uses a local that is not there, whichever way
\* control flow and scopes nest; for statements without a condition and scopes
\* too deep for the depth of a local, a u8, excepted (run Compiler_depth).
CodeBalanced == Accepted /\ ~bareFor /\ deepest < U8 => StackBalanced(code) /\ LocalsThere(code)

\* "compiler and vm local var stacks match" (vm.cpp:80): in an accepted chunk
\* the slot that the compiler gives a local is on the stack when it is used.
LocalSlotsMatch == Accepted => LocalsThere(code)

\* The operands of constant instructions name constants of the chunk, and of the
\* right kind: instructions on globals the name of one, which the VM casts to a
\* string without looking, and OP_CONSTANT the value of a literal.
Lexemes(types) == {t.lexeme : t \in {s \in source.tokens : s.type \in types}}
Nameable(op) == Lexemes(IF op = OP_CONSTANT THEN Constants ELSE {"identifier"})
ConstantsThere ==
  Accepted => \A r \in Heights(code) :
    LET op  == code[r[1] + 1]
        arg == code[r[1] + 2]
    IN  op \in ConstantOps => arg < Len(constants) /\ constants[arg + 1] \in Nameable(op)

\* What a debug build prints of an accepted chunk is that chunk: the table of
\* instruction lengths in debug.cpp agrees with what the compiler emits and the
\* VM reads, so that no operand is taken for an opcode, every constant printed
\* is there, and a jump is shown to where it goes.
ListingIsProgram ==
  Accepted =>
    LET listing == Listing(code, constants)
    IN  /\ ~listing.threw
        /\ {l.offset : l \in ToSet(listing.lines)} = Boundaries(code) \ {Len(code)}
        /\ \A l \in ToSet(listing.lines) :
             code[l.offset + 1] \in JumpOps =>
               l.shows[1] = "jump" /\ l.shows[2] \in Successors(code, l.offset)

\* "if a variable has a depth lower than the current, it is owned by the
\* preceeding scope" (compiler.cpp:136): until an error, the depth of a local is
\* the number of scopes that were open when it was declared.  Below 256 open scopes, that is:
\* the depth of a local is a u8 (run Compiler_depth).
DepthIsScope ==
  ~hadError => \A i \in 1 .. Len(locals) :
    locals[i].depth \in {NoDepth, Cardinality({k \in 1 .. Len(opened) : opened[k] < i})}

\* At the end no scope is open and no local is left: begin_scope and end_scope
\* pair up, and end_scope drops what was declared since, even after errors, as
\* long as the depth of a local, a u8, did not wrap (run Compiler_depth).
ScopesClosed == Compiled => scopeDepth = 0 /\ (deepest < U8 => locals = <<>>)

\* An error is reported once per panic: while in panic mode the source counts
\* as wrong, and recovery never makes it right again.
ErrorsKept == [][(hadError => hadError') /\ (panicMode' => hadError')]_vars

\* compile ends on every source: each round of each loop, error recovery
\* included, takes a token.
CompileEnds == <>Compiled
=============================================================================
