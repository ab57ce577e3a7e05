---------------------------- MODULE Disassembler ----------------------------
(***************************************************************************)
(* disassemble_chunk (src/src/debug.cpp), which debug builds print every   *)
(* accepted chunk with.  It has a table of its own of how long the         *)
(* instructions are, next to the compiler's emit functions and the VM's    *)
(* run_step; the names of the opcodes and the lines of source are left out.*)
(***************************************************************************)
EXTENDS Bytecode, SequencesExt

\* The opcodes that each of the helpers is called for.  All others, those that
\* the switch does not know included, are one byte long.
ConstantInstructions == {OP_CONSTANT, OP_SET_GLOBAL, OP_GET_GLOBAL, OP_DEFINE_GLOBAL}
ByteInstructions     == {OP_GET_LOCAL, OP_SET_LOCAL}
JumpInstructions     == {OP_JUMP, OP_JUMP_IF_FALSE, OP_LOOP}

\* Mutant: an opcode was added and the switch forgotten.
SizeNotOfSetGlobal(op) ==
  CASE op \in ConstantInstructions \ {OP_SET_GLOBAL} -> 2
    [] op \in ByteInstructions -> 2
    [] op \in JumpInstructions -> 3
    [] OTHER -> 1

\* How far disassemble_instruction moves the offset.
Size(op) ==
  CASE op \in ConstantInstructions \union ByteInstructions -> 2
    [] op \in JumpInstructions -> 3
    [] OTHER -> 1

\* Every at that reads the instruction at offset i, and its constant, finds
\* something; otherwise it throws, and nothing catches that.
Readable(code, constants, i) ==
  LET op == code[i + 1]
  IN  i + Size(op) <= Len(code) /\ (op \in ConstantInstructions => code[i + 2] < Len(constants))

\* What is printed for it: a constant, a slot, or where a jump goes.
Shown(code, constants, i) ==
  LET op   == code[i + 1]
      jump == Short(code, i + 1)
  IN  [offset |-> i,
       shows  |-> CASE op \in ConstantInstructions -> <<"constant", constants[code[i + 2] + 1]>>
                    [] op \in ByteInstructions     -> <<"slot", code[i + 2]>>
                    [] op = OP_LOOP                -> <<"jump", (i + 3) - jump>>
                    [] op \in JumpInstructions \ {OP_LOOP} -> <<"jump", i + 3 + jump>>
                    [] OTHER                       -> <<"nothing">>]

\* The loop of disassemble_chunk: the lines printed until it is past the code,
\* or throws.  Round n + 1 is the one at offset n, if there is one.
Printed(code, constants, n, l) ==
  IF l.threw \/ l.offset # n THEN l
  ELSE IF Readable(code, constants, n)
    THEN [l EXCEPT !.lines = Append(@, Shown(code, constants, n)), !.offset = @ + Size(code[n + 1])]
    ELSE [l EXCEPT !.threw = TRUE]
Listings(code, constants) ==
  LET listing[n \in Nat] == IF n = 0 THEN [lines |-> <<>>, offset |-> 0, threw |-> FALSE]
                                     ELSE Printed(code, constants, n - 1, listing[n - 1])
  IN  listing
Listing(code, constants) == Listings(code, constants)[Len(code)]
=============================================================================
