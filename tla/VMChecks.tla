------------------------------ MODULE VMChecks ------------------------------
(***************************************************************************)
(* What vm::VirtualMachine promises of the chunks it runs.  The VM checks  *)
(* no byte: the properties say what the bytes must be like for the run to  *)
(* be safe, and what holds whatever they are.  A family is a set of chunks,   *)
(* with a bound on how many are loaded one after the other, as the REPL    *)
(* does.                                                                   *)
(***************************************************************************)
EXTENDS VM, CodeShape

CONSTANT Families  \* from names to records [chunks, loads]

ASSUME FamiliesAssumption ==
  \A f \in DOMAIN Families : Families[f].chunks \subseteq Chunks /\ Families[f].loads \in Nat

VARIABLES
  family, \* the name of the one that the chunks come from
  loads,  \* chunks loaded
  sound   \* the stack was empty at first and at each load, each chunk verified, and
          \* no operator has swallowed its error and no push filled the stack

hvars == <<vars, family, loads, sound>>

\* A chunk whose jumps land, whose constants are there and of the right kind,
\* and whose stack is balanced.
Verified(c) ==
  LET heights == Heights(c.code)
      op(r)   == c.code[r[1] + 1]
  IN  /\ StackBalanced(c.code)
      /\ JumpsLand(c.code)
      /\ LocalsThere(c.code)
      /\ \A r \in heights :
           /\ op(r) \in ConstantOps => c.code[r[1] + 2] < Len(c.constants)
           /\ op(r) \in NameOps => c.constants[c.code[r[1] + 2] + 1] \in Keys
           /\ op(r) = OP_CONSTANT => c.constants[c.code[r[1] + 2] + 1] # Null

\* An operator on numbers goes on after its error with one value less on the
\* stack than the compiler counted (run Lox_swallowed_error).
Swallows == Executing(NumberOps) /\ ~BothNumbers

\* A push into the last slot: m_stack_top wraps to 0, as for an empty stack.
Overflows == Running /\ stackTop = U8 - 1 /\ Effect(Op) = 1

HInit == Init /\ family \in DOMAIN Families /\ loads = 0 /\ sound = (stackTop = 0)
Load ==
  /\ loads < Families[family].loads
  /\ \E c \in Families[family].chunks :
       /\ LoadNewChunk(c)
       /\ sound' = (sound /\ stackTop = 0 /\ Verified(c))
  /\ loads' = loads + 1
  /\ UNCHANGED family
Run   == RunStep /\ sound' = (sound /\ ~Swallows /\ ~Overflows) /\ UNCHANGED <<family, loads>>
HNext == Load \/ Run
HSpec == HInit /\ [][HNext]_hvars

-----------------------------------------------------------------------------
\* Whatever the bytes of a chunk are, the members of VirtualMachine hold what
\* they can hold.
TypeOK ==
  /\ code \in Seq(Nat) /\ constants \in Seq(Values)
  /\ ip \in Nat
  /\ stack \in [0 .. (U8 - 1) -> Values]
  /\ stackTop \in 0 .. (U8 - 1)
  /\ globals \in [Slots -> Entry] /\ strings \in [Slots -> Entry]
  /\ status \in {"idle", "running", "hung", "aborted", "undefined"}
  /\ result \in {"INTERPRET_OK", "INTERPRET_RUNTIME_ERROR"}

\* Verified chunks that start on an empty stack never make the VM read outside
\* its stack or its chunk, call a null pointer or throw, one after the other,
\* runtime errors included, until an operator swallows one or the stack is full.
\* It takes all of them: a global that an unverified chunk defined from below the
\* stack is a null pointer for the ones after it.
VerifiedIsSafe == sound => status \notin {"aborted", "undefined"}

\* And the height of the stack is at every instruction the one that the bytes
\* alone determine: "compiler and vm local var stacks match" (vm.cpp:80).
StackIsStatic == sound /\ Running => <<ip, stackTop>> \in Heights(code)

\* The map that a table stands for.
Contents(tab) == {<<tab[s].key, tab[s].value>> : s \in {t \in Slots : tab[t].key # Null}}

\* A runtime error defines, undefines and changes no global: the value that an
\* assignment to an undefined name has already stored is taken back ("delete
\* old value for continuous use in repl", vm.cpp:110).
ErrorsKeepGlobals ==
  [][result' = "INTERPRET_RUNTIME_ERROR" => Contents(globals') = Contents(globals)]_vars

\* A global, once defined, stays defined for all later chunks, and every
\* interned string stays interned.
NamesStay ==
  [][/\ \A g \in Contents(globals) : \E h \in Contents(globals') : h[1] = g[1]
     /\ Contents(strings) \subseteq Contents(strings')]_vars

\* No name has two slots in a table, whatever deletions left behind.
NoNameTwice ==
  \A tab \in {globals, strings} : \A s, t \in Slots :
    tab[s].key # Null /\ tab[s].key = tab[t].key => s = t
=============================================================================
