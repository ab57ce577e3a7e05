--------------------------------- MODULE VM ---------------------------------
(***************************************************************************)
(* vm::VirtualMachine (src/src/vm.h, src/src/vm.cpp): run, one instruction *)
(* of run_step per action, with the value stack, the globals and the       *)
(* interned strings, which outlive the chunk when the REPL loads the next. *)
(*                                                                         *)
(* Three ways to stop that are no InterpretResult are states of their own: *)
(* "hung" (a probe loop of Table that never returns), "aborted" (an        *)
(* uncaught std::out_of_range of vector::at) and "undefined" (a null       *)
(* dereference or an access outside m_stack: anything may follow).         *)
(***************************************************************************)
EXTENDS Bytecode, Objects

CONSTANTS
  Chunks,       \* the chunks that may be loaded: [code, constants]
  InitialTops,  \* {0} for the constructor that takes a chunk; the default
                \* constructor of lox.cpp leaves m_stack_top uninitialised
  UsizeCount    \* 2^64: m_ip wraps

ASSUME VMAssumption ==
  /\ Chunks \subseteq [code : Seq(Nat), constants : Seq(Values)]
  /\ InitialTops \subseteq 0 .. (U8 - 1)
  /\ UsizeCount \in Nat \ {0}
  /\ \A c \in Chunks : Len(c.code) < UsizeCount
  /\ Arithmetic \in [{OP_ADD, OP_SUBTRACT, OP_MULTIPLY, OP_DIVIDE}
                       -> [Numbers \X Numbers -> Numbers]]

VARIABLES
  code, constants,  \* m_chunk
  ip,               \* m_ip
  stack, stackTop,  \* m_stack, m_stack_top
  globals,          \* m_globals.m_entries
  strings,          \* m_strings.m_entries
  status,           \* what run is doing
  result            \* the InterpretResult of the last instruction

chunkVars == <<code, constants>>
stackVars == <<stack, stackTop>>
tables    == <<globals, strings>>
vars      == <<chunkVars, ip, stackVars, tables, status, result>>

EmptyStack == [s \in 0 .. (U8 - 1) |-> Null]

Init ==
  /\ code = <<>> /\ constants = <<>>
  /\ ip = 0
  /\ stack = EmptyStack
  /\ stackTop \in InitialTops
  /\ globals = EmptyTable
  /\ strings = EmptyTable
  /\ status = "idle"
  /\ result = "INTERPRET_OK"

\* load_new_chunk and the entry of run.  The stack keeps what is on it.
LoadNewChunk(c) ==
  /\ status = "idle"
  /\ code' = c.code /\ constants' = c.constants
  /\ ip' = 0
  /\ status' = "running"
  /\ result' = "INTERPRET_RUNTIME_ERROR"
  /\ UNCHANGED <<stackVars, tables>>

-----------------------------------------------------------------------------
(* What an instruction reads.                                              *)

Running == status = "running" /\ ip < Len(code)
Op      == code[ip + 1]
NextIp  == ip + Length(Op)
Operand == code[ip + 2]
Constant == constants[Operand + 1]

\* The operands of the instruction are inside the chunk: vector::at is not out
\* of range for the bytes, and for the constant they name.
InRange ==
  /\ NextIp <= Len(code)
  /\ Op \in ConstantOps => Operand < Len(constants)

\* Slot n from the top, as peek(n) and the n+1st pop see it: pop counts in u8.
Below(n) == stack[(stackTop - 1 - n) % U8]
Top      == Below(0)

Needs(op) == CASE op \in {OP_SET_LOCAL, OP_DEFINE_GLOBAL, OP_SET_GLOBAL, OP_NEGATE,
                          OP_JUMP_IF_FALSE} -> 1
               [] op = OP_ADD -> 2
               [] OTHER -> 0

\* peek below slot 0 (in usize, so far outside m_stack); a call on a null
\* pointer; a constant cast to the string that it is not.
IsUndefined ==
  \/ stackTop < Needs(Op)
  \/ Op \in {OP_NOT, OP_PRINT, OP_NEGATE, OP_JUMP_IF_FALSE} /\ Top = Null
  \/ Op = OP_EQUAL /\ Null \in {Top, Below(1)}
  \/ Op \in NameOps /\ Constant \notin Keys

Executing(ops) == Running /\ Op \in ops /\ InRange /\ ~IsUndefined

(* What it leaves.                                                         *)

\* Mutant: the stack pointer is wider than a byte.
ReplaceWide(n, v) ==
  /\ stack' = [stack EXCEPT ![(stackTop - n) % U8] = v]
  /\ stackTop' = stackTop - n + 1

\* Mutant: push stores the value and does not count it.
ReplaceUncounted(n, v) ==
  /\ stack' = [stack EXCEPT ![(stackTop - n) % U8] = v]
  /\ stackTop' = (stackTop - n) % U8

\* Pop n values and push v.  Freed slots keep their values.
Replace(n, v) ==
  LET top == (stackTop - n) % U8
  IN  /\ stack' = [stack EXCEPT ![top] = v]
      /\ stackTop' = (top + 1) % U8

\* Mutant: pop peeks.
DropPeeks(n) == UNCHANGED <<stack, stackTop>>

Drop(n) == stackTop' = (stackTop - n) % U8 /\ UNCHANGED stack

Proceed ==
  /\ ip' = NextIp
  /\ result' = "INTERPRET_OK"
  /\ UNCHANGED <<chunkVars, status>>

\* runtime_error reads the line of the byte after the instruction, and throws
\* when there is none.
Fail ==
  /\ ip' = NextIp
  /\ result' = "INTERPRET_RUNTIME_ERROR"
  /\ status' = IF NextIp < Len(code) THEN "idle" ELSE "aborted"
  /\ UNCHANGED chunkVars

Stop(how) == status' = how /\ UNCHANGED <<chunkVars, ip, stackVars, tables, result>>

-----------------------------------------------------------------------------
(* run_step.                                                               *)

\* OP_CONSTANT, OP_NIL, OP_TRUE, OP_FALSE, OP_GET_LOCAL.
PushValue ==
  /\ Executing({OP_CONSTANT, OP_NIL, OP_TRUE, OP_FALSE, OP_GET_LOCAL})
  /\ Replace(0, CASE Op = OP_CONSTANT -> Constant
                  [] Op = OP_NIL      -> Nil
                  [] Op = OP_TRUE     -> True
                  [] Op = OP_FALSE    -> False
                  [] OTHER            -> stack[Operand % U8])
  /\ Proceed
  /\ UNCHANGED tables

\* OP_POP, OP_PRINT.
PopValue ==
  /\ Executing({OP_POP, OP_PRINT})
  /\ Drop(1)
  /\ Proceed
  /\ UNCHANGED tables

SetLocal ==
  /\ Executing({OP_SET_LOCAL})
  /\ stack' = [stack EXCEPT ![Operand % U8] = Top]
  /\ Proceed
  /\ UNCHANGED <<stackTop, tables>>

GetGlobal ==
  /\ Executing({OP_GET_GLOBAL})
  /\ LET slot == FindEntry(globals, Constant)
     IN  /\ slot # NoSlot
         /\ IF globals[slot].key # Null
              THEN Replace(0, globals[slot].value) /\ Proceed
              ELSE UNCHANGED stackVars /\ Fail
  /\ UNCHANGED tables

DefineGlobal ==
  /\ Executing({OP_DEFINE_GLOBAL})
  /\ LET slot == FindEntry(globals, Constant)
     IN  slot # NoSlot /\ globals' = Store(globals, slot, Constant, Top)
  /\ Drop(1)
  /\ Proceed
  /\ UNCHANGED strings

\* set tells that the name was not defined only after it has stored the value,
\* so the value is deleted again, which leaves a tombstone.
SetGlobal ==
  /\ Executing({OP_SET_GLOBAL})
  /\ LET slot   == FindEntry(globals, Constant)
         stored == Store(globals, slot, Constant, Top)
     IN  /\ slot # NoSlot
         /\ IF globals[slot].key # Null
              THEN globals' = stored /\ Proceed
              ELSE globals' = Erase(stored, FindEntry(stored, Constant)) /\ Fail
  /\ UNCHANGED <<stackVars, strings>>

Equal ==
  /\ Executing({OP_EQUAL})
  /\ Replace(2, Bool(Below(1) = Top))
  /\ Proceed
  /\ UNCHANGED tables

BothNumbers == {Top, Below(1)} \subseteq Numbers

\* Mutant: the first value popped is the left operand.
ComputedSwapped(op) ==
  LET x == Top
      y == Below(1)
  IN  CASE op = OP_LESS    -> Bool(Less[x, y])
        [] op = OP_GREATER -> Bool(Less[y, x])
        [] OTHER           -> Arithmetic[op][x, y]

Computed(op) ==
  LET x == Below(1)
      y == Top
  IN  CASE op = OP_LESS    -> Bool(Less[x, y])
        [] op = OP_GREATER -> Bool(Less[y, x])
        [] OTHER           -> Arithmetic[op][x, y]

\* The five operators that take numbers only.  run_step ignores what they
\* return, so that on other operands two values are popped, nothing is pushed
\* and the run goes on (unless the line of the message is missing).
NumberOp ==
  /\ Executing(NumberOps)
  /\ IF BothNumbers
       THEN Replace(2, Computed(Op)) /\ Proceed
       ELSE /\ Drop(2)
            /\ IF Null \notin {Top, Below(1)} /\ NextIp >= Len(code) THEN Fail ELSE Proceed
  /\ UNCHANGED tables

AddNumbers ==
  /\ Executing({OP_ADD})
  /\ BothNumbers
  /\ Replace(2, Computed(OP_ADD))
  /\ Proceed
  /\ UNCHANGED tables

\* make_obj_string_interned: an unknown string is entered into m_strings with a
\* null value.
Intern(s) ==
  LET found == FindString(strings, s)
  IN  /\ found # NoSlot
      /\ IF strings[found].key # Null
           THEN UNCHANGED strings
           ELSE strings' = Store(strings, FindEntry(strings, s), s, Null)

Concatenate ==
  /\ Executing({OP_ADD})
  /\ {Top, Below(1)} \subseteq Keys
  /\ LET s == Concat[Below(1), Top]
     IN  Intern(s) /\ Replace(2, s)
  /\ Proceed
  /\ UNCHANGED globals

AddFails ==
  /\ Executing({OP_ADD})
  /\ ~BothNumbers
  /\ ~({Top, Below(1)} \subseteq Keys)
  /\ Fail
  /\ UNCHANGED <<stackVars, tables>>

Not ==
  /\ Executing({OP_NOT})
  /\ Replace(1, Bool(Top \in Falsey))
  /\ Proceed
  /\ UNCHANGED tables

Negate ==
  /\ Executing({OP_NEGATE})
  /\ IF Top \in Numbers THEN Replace(1, Minus[Top]) /\ Proceed
                        ELSE UNCHANGED stackVars /\ Fail
  /\ UNCHANGED tables

Jump ==
  /\ Executing(JumpOps)
  /\ LET distance == Short(code, ip + 1)
     IN  ip' = CASE Op = OP_LOOP -> (NextIp - distance) % UsizeCount
                 [] Op = OP_JUMP_IF_FALSE /\ Top \notin Falsey -> NextIp
                 [] OTHER -> NextIp + distance
  /\ result' = "INTERPRET_OK"
  /\ UNCHANGED <<chunkVars, stackVars, tables, status>>

Return ==
  /\ Executing({OP_RETURN})
  /\ Proceed
  /\ UNCHANGED <<stackVars, tables>>

\* The default of the switch.
BadOpCode ==
  /\ Running
  /\ Op \notin OpCodes
  /\ ip' = NextIp
  /\ result' = "INTERPRET_RUNTIME_ERROR"
  /\ status' = "idle"
  /\ UNCHANGED <<chunkVars, stackVars, tables>>

\* The loop of run ends: OP_RETURN itself does not end it.
EndRun ==
  /\ status = "running"
  /\ ip >= Len(code)
  /\ status' = "idle"
  /\ UNCHANGED <<chunkVars, ip, stackVars, tables, result>>

Abort == Running /\ Op \in OpCodes /\ ~InRange /\ Stop("aborted")

Misbehave == Running /\ Op \in OpCodes /\ InRange /\ IsUndefined /\ Stop("undefined")

\* A probe loop of find_entry or find_string that finds no end.
Hang ==
  /\ \/ Executing(NameOps) /\ FindEntry(globals, Constant) = NoSlot
     \/ /\ Executing({OP_ADD})
        /\ {Top, Below(1)} \subseteq Keys
        /\ FindString(strings, Concat[Below(1), Top]) = NoSlot
  /\ Stop("hung")

RunStep ==
  \/ PushValue \/ PopValue \/ SetLocal \/ GetGlobal \/ DefineGlobal \/ SetGlobal
  \/ Equal \/ NumberOp \/ AddNumbers \/ Concatenate \/ AddFails \/ Not \/ Negate
  \/ Jump \/ Return \/ BadOpCode \/ EndRun
  \/ Abort \/ Misbehave \/ Hang

Next == (\E c \in Chunks : LoadNewChunk(c)) \/ RunStep
Spec == Init /\ [][Next]_vars
=============================================================================
