------------------------------ MODULE Bytecode ------------------------------
(***************************************************************************)
(* The instruction set of src/src/chunk.h and the shape of its encoding:   *)
(* an instruction is an opcode byte and one operand byte (a constant index *)
(* or a stack slot) or two (a jump distance, high digit first).            *)
(*                                                                         *)
(* U8 is UINT8_COUNT.  It is the base of a jump distance, the bound on     *)
(* constant indexes and local slots and the size of the value stack, and   *)
(* is 256 in the code.  A small U8 makes each of these limits reachable;   *)
(* opcodes are labels and are not bounded by it.                           *)
(***************************************************************************)
EXTENDS Integers, Sequences

CONSTANT U8

ASSUME U8Assumption == U8 \in Nat \ {0, 1}

OP_CONSTANT      == 0
OP_NIL           == 1
OP_TRUE          == 2
OP_FALSE         == 3
OP_POP           == 4
OP_GET_LOCAL     == 5
OP_SET_LOCAL     == 6
OP_GET_GLOBAL    == 7
OP_DEFINE_GLOBAL == 8
OP_SET_GLOBAL    == 9
OP_EQUAL         == 10
OP_GREATER       == 11
OP_LESS          == 12
OP_ADD           == 13
OP_SUBTRACT      == 14
OP_MULTIPLY      == 15
OP_DIVIDE        == 16
OP_NOT           == 17
OP_NEGATE        == 18
OP_PRINT         == 19
OP_JUMP          == 20
OP_JUMP_IF_FALSE == 21
OP_LOOP          == 22
OP_RETURN        == 23

OpCodes == OP_CONSTANT .. OP_RETURN

ConstantOps == {OP_CONSTANT, OP_GET_GLOBAL, OP_DEFINE_GLOBAL, OP_SET_GLOBAL}
NameOps     == ConstantOps \ {OP_CONSTANT}
LocalOps    == {OP_GET_LOCAL, OP_SET_LOCAL}
JumpOps     == {OP_JUMP, OP_JUMP_IF_FALSE, OP_LOOP}
NumberOps   == {OP_GREATER, OP_LESS, OP_SUBTRACT, OP_MULTIPLY, OP_DIVIDE}

\* Opcode and operand bytes of an instruction.
Length(op) == IF op \in JumpOps THEN 3 ELSE IF op \in ConstantOps \union LocalOps THEN 2 ELSE 1

\* Mutant: no jump is too long.
U16MaxNoLimit == U8 * U8 * U8

\* read_short: the distance stored at byte offset i (from 0), and its largest.
Short(code, i) == code[i + 1] * U8 + code[i + 2]
U16Max         == U8 * U8 - 1
=============================================================================
