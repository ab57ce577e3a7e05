----------------------------- MODULE CodeShape ------------------------------
(***************************************************************************)
(* What it means for a chunk to be well formed: a reading of the bytes     *)
(* that the VM trusts and never checks.  Nothing here is code of the       *)
(* repository; the operators state what compiler and VM must agree on.     *)
(***************************************************************************)
EXTENDS Bytecode, SequencesExt

\* The change of the stack height by an instruction that the VM completes, and
\* the values it takes from the stack, popped or not.
Effect(op) ==
  CASE op \in {OP_CONSTANT, OP_NIL, OP_TRUE, OP_FALSE, OP_GET_LOCAL, OP_GET_GLOBAL} -> 1
    [] op \in NumberOps \union {OP_EQUAL, OP_ADD, OP_POP, OP_PRINT, OP_DEFINE_GLOBAL} -> -1
    [] OTHER -> 0
Takes(op) ==
  CASE op \in NumberOps \union {OP_EQUAL, OP_ADD} -> 2
    [] op \in {OP_POP, OP_PRINT, OP_DEFINE_GLOBAL, OP_SET_GLOBAL, OP_SET_LOCAL,
               OP_NOT, OP_NEGATE, OP_JUMP_IF_FALSE} -> 1
    [] OTHER -> 0

\* The offsets that the instruction at offset i may continue at.
Successors(code, i) ==
  LET op   == code[i + 1]
      next == i + Length(op)
      far  == Short(code, i + 1)
  IN  CASE op = OP_JUMP          -> {next + far}
        [] op = OP_LOOP          -> {next - far}
        [] op = OP_JUMP_IF_FALSE -> {next, next + far}
        [] op = OP_RETURN        -> {}
        [] OTHER                 -> {next}

Whole(code, i) ==
  /\ i \in 0 .. (Len(code) - 1)
  /\ code[i + 1] \in OpCodes
  /\ i + Length(code[i + 1]) <= Len(code)

(***************************************************************************)
(* The pairs <<offset, height>> of the instructions that a run from offset *)
(* 0 on an empty stack reaches, with the stack heights before them.  A     *)
(* round adds the pairs that the newest ones lead to.  As long as no       *)
(* instruction has two heights there are at most Len(code) pairs, so that  *)
(* Len(code) rounds find them all, or two heights of the same instruction. *)
(***************************************************************************)
Onward(code, r) ==
  IF Whole(code, r[1]) THEN {<<j, r[2] + Effect(code[r[1] + 1])>> : j \in Successors(code, r[1])}
                       ELSE {}
Further(code, found) ==
  LET next == (UNION {Onward(code, r) : r \in found.new}) \ found.all
  IN  [all |-> found.all \union next, new |-> next]
Rounds(code) ==
  LET found[n \in Nat] == IF n = 0 THEN [all |-> {<<0, 0>>}, new |-> {<<0, 0>>}]
                                   ELSE Further(code, found[n - 1])
  IN  found
Heights(code) == Rounds(code)[Len(code)].all

\* Offsets where an instruction starts, read one after the other: those up to
\* offset n are in Starts(code)[n].
StartsAfter(code, n, starts) ==
  IF n \in starts /\ Whole(code, n) THEN starts \union {n + Length(code[n + 1])} ELSE starts
Starts(code) ==
  LET starts[n \in Nat] == IF n = 0 THEN {0} ELSE StartsAfter(code, n - 1, starts[n - 1])
  IN  starts
Boundaries(code) == Starts(code)[Len(code)]

\* Every jump lands on an instruction, inside the code, and the run can only
\* end at an OP_RETURN that is the last byte: OP_RETURN itself ends nothing.
JumpsLand(code) ==
  LET starts == Boundaries(code) \ {Len(code)}
  IN  \A r \in Heights(code) :
        /\ Whole(code, r[1]) /\ Successors(code, r[1]) \subseteq starts
        /\ code[r[1] + 1] = OP_RETURN => r[1] = Len(code) - 1

\* However an instruction is reached, the stack has the same height, enough
\* values for it, and none left at the end; and these are all the ways to reach
\* one.
StackBalanced(code) ==
  LET heights == Heights(code)
  IN  /\ <<0, 0>> \in heights
      /\ \A r, q \in heights : r[1] = q[1] => r[2] = q[2]
      /\ \A r \in heights :
           /\ Whole(code, r[1])
           /\ r[2] \in Nat /\ r[2] >= Takes(code[r[1] + 1])
           /\ code[r[1] + 1] = OP_RETURN => r[2] = 0
           /\ \A j \in Successors(code, r[1]) : <<j, r[2] + Effect(code[r[1] + 1])>> \in heights

\* The slot of a local is below the top of the stack: the local is there.
LocalsThere(code) ==
  \A r \in Heights(code) : Whole(code, r[1]) /\ code[r[1] + 1] \in LocalOps => code[r[1] + 2] < r[2]
=============================================================================
