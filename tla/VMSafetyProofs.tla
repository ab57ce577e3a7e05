--------------------------- MODULE VMSafetyProofs ---------------------------
(***************************************************************************)
(* Proofs, for every chunk and size, that the bytes the VM trusts and      *)
(* never checks are enough: verified chunks, run one after the other from  *)
(* an empty stack, neither leave m_stack and their code nor call a null    *)
(* pointer, and have at each instruction the stack that the bytes say, as  *)
(* long as no operator swallows its error; and on any other stack it grows *)
(* by what the bytes say.                                                  *)
(***************************************************************************)
EXTENDS VMProofs

Loaded == [code |-> code, constants |-> constants]

(***************************************************************************)
(* The invariant, as long as all chunks were verified: no null pointer is  *)
(* on the stack or in a global, and a running chunk is at one of the pairs *)
(* of offset and height that its bytes determine.                          *)
(***************************************************************************)
StackHasValues   == \A s \in 0 .. (U8 - 1) : s < stackTop => stack[s] # Null
GlobalsHaveValues(tab) == \A s \in Slots : tab[s].key # Null => tab[s].value # Null
OnTrack ==
  status = "running" => Verified(Loaded) /\ (ip < Len(code) => <<ip, stackTop>> \in Heights(code))
Safe == StackHasValues /\ GlobalsHaveValues(globals) /\ OnTrack
        /\ status \notin {"aborted", "undefined"}
SInv == sound => Safe /\ Len(code) < UsizeCount

\* What Safe and IInv say at an instruction that does not fill the stack.
AtInstruction == IInv /\ Running /\ Safe /\ Len(code) < UsizeCount /\ ~Overflows

-----------------------------------------------------------------------------
(***************************************************************************)
(* What verification says of the instruction at ip.                        *)
(***************************************************************************)

\* Opcodes by what they take from the stack and how they change its height.
LEMMA Shapes ==
  ASSUME NEW op
  PROVE  /\ op \in {OP_CONSTANT, OP_NIL, OP_TRUE, OP_FALSE, OP_GET_LOCAL, OP_GET_GLOBAL} => Effect(op) = 1
         /\ op \in {OP_POP, OP_PRINT, OP_DEFINE_GLOBAL} => Takes(op) = 1 /\ Effect(op) = -1
         /\ op \in {OP_SET_LOCAL, OP_SET_GLOBAL, OP_NOT, OP_NEGATE} => Takes(op) = 1 /\ Effect(op) = 0
         /\ op \in NumberOps \union {OP_EQUAL, OP_ADD} => Takes(op) = 2 /\ Effect(op) = -1
         /\ op = OP_JUMP_IF_FALSE => Takes(op) = 1
         /\ op \in JumpOps => Effect(op) = 0
         /\ Takes(op) \in {0, 1, 2} /\ Effect(op) \in {-1, 0, 1}
         /\ Needs(op) \in {0, 1, 2} /\ Needs(op) <= Takes(op)
<1>1. /\ Takes(op) \in {0, 1, 2} /\ Effect(op) \in {-1, 0, 1} /\ Needs(op) \in {0, 1, 2}
  BY DEF Takes, Effect, Needs
<1>2. QED
  BY <1>1 DEF Takes, Effect, Needs, NumberOps, JumpOps,
    OP_CONSTANT, OP_NIL, OP_TRUE, OP_FALSE, OP_POP, OP_GET_LOCAL, OP_SET_LOCAL, OP_GET_GLOBAL,
    OP_DEFINE_GLOBAL, OP_SET_GLOBAL, OP_EQUAL, OP_GREATER, OP_LESS, OP_ADD, OP_SUBTRACT,
    OP_MULTIPLY, OP_DIVIDE, OP_NOT, OP_NEGATE, OP_PRINT, OP_JUMP, OP_JUMP_IF_FALSE, OP_LOOP,
    OP_RETURN

\* The instruction is whole and has the values, the constant or the local that
\* it needs.
LEMMA Fetched ==
  ASSUME AtInstruction
  PROVE  /\ Op \in OpCodes /\ InRange
         /\ stackTop >= Takes(Op)
         /\ Op = OP_RETURN => ip = Len(code) - 1
         /\ Op \in LocalOps => Operand < stackTop
         /\ Op \in NameOps => Constant \in Keys
         /\ Op = OP_CONSTANT => Constant # Null
<1> DEFINE r == <<ip, stackTop>>
<1>1. r \in Heights(code) /\ Verified(Loaded)
  BY DEF AtInstruction, Safe, OnTrack, Running
<1>2. StackBalanced(code) /\ JumpsLand(code) /\ LocalsThere(code)
  BY <1>1 DEF Verified, Loaded
<1>3. Whole(code, ip) /\ stackTop >= Takes(Op) /\ (Op = OP_RETURN => ip = Len(code) - 1)
  BY <1>1, <1>2 DEF StackBalanced, JumpsLand, Op
<1>4. Op \in LocalOps => Operand < stackTop
  BY <1>1, <1>2, <1>3 DEF LocalsThere, Op, Operand
<1>5. /\ Op \in ConstantOps => Operand < Len(constants)
      /\ Op \in NameOps => Constant \in Keys
      /\ Op = OP_CONSTANT => Constant # Null
  BY <1>1 DEF Verified, Loaded, Op, Operand, Constant
<1>6. Op \in OpCodes /\ InRange
  BY <1>3, <1>5 DEF Whole, Op, NextIp, InRange
<1>7. QED
  BY <1>3, <1>4, <1>5, <1>6

\* Where the run goes on there is an instruction, and its height is one that
\* m_stack can have.
LEMMA Arrives ==
  ASSUME AtInstruction, NEW j \in Successors(code, ip)
  PROVE  /\ j \in Nat /\ j < Len(code)
         /\ <<j, stackTop + Effect(Op)>> \in Heights(code)
         /\ stackTop + Effect(Op) \in 0 .. (U8 - 1)
<1> DEFINE h == stackTop + Effect(Op)
           q == <<j, h>>
<1>1. <<ip, stackTop>> \in Heights(code) /\ Verified(Loaded)
  BY DEF AtInstruction, Safe, OnTrack, Running
<1>2. StackBalanced(code)
  BY <1>1 DEF Verified, Loaded
<1>3. q \in Heights(code)
  BY <1>1, <1>2 DEF StackBalanced, Op
<1>4. Whole(code, j) /\ h >= Takes(code[j + 1])
  BY <1>2, <1>3 DEF StackBalanced
<1>5. stackTop \in 0 .. (U8 - 1) /\ U8 \in Nat /\ Effect(Op) \in {-1, 0, 1}
  BY U8Assumption, Shapes DEF AtInstruction, IInv, TypeOK
<1>6. h \in Int /\ h < U8
  BY <1>5 DEF AtInstruction, Overflows
<1>7. Takes(code[j + 1]) \in {0, 1, 2}
  BY Shapes
<1>8. j \in Nat /\ j < Len(code)
  BY <1>4 DEF Whole, AtInstruction, IInv, TypeOK
<1>9. QED
  BY <1>3, <1>4, <1>5, <1>6, <1>7, <1>8

\* All but jumps and OP_RETURN go on at the next instruction, which is there.
LEMMA GoesOn ==
  ASSUME AtInstruction, Op \notin {OP_JUMP, OP_LOOP, OP_RETURN}
  PROVE  NextIp \in Successors(code, ip) /\ NextIp < Len(code)
<1>1. NextIp \in Successors(code, ip)
  BY DEF Successors, NextIp, Op, OP_JUMP, OP_LOOP, OP_RETURN, OP_JUMP_IF_FALSE
<1>2. QED
  BY <1>1, Arrives

\* The values it takes are there.
LEMMA HasValues ==
  ASSUME AtInstruction
  PROVE  /\ stackTop >= 1 => Top = stack[stackTop - 1] /\ Top # Null
         /\ stackTop >= 2 => Below(1) # Null
<1>1. stackTop \in 0 .. (U8 - 1) /\ U8 \in Nat /\ StackHasValues
  BY U8Assumption DEF AtInstruction, IInv, TypeOK, Safe
<1>2. ASSUME NEW n \in {0, 1}, stackTop > n
      PROVE  Below(n) = stack[stackTop - 1 - n] /\ Below(n) # Null
  <2>1. stackTop - 1 - n \in 0 .. (U8 - 1) /\ (stackTop - 1 - n) % U8 = stackTop - 1 - n
    BY <1>1, <1>2
  <2>2. QED
    BY <1>1, <1>2, <2>1 DEF Below, StackHasValues
<1>3. QED
  BY <1>1, <1>2 DEF Top

\* So that nothing the VM does then is undefined.
LEMMA Defined ==
  ASSUME AtInstruction
  PROVE  ~IsUndefined
<1>1. stackTop >= Takes(Op) /\ stackTop \in Nat /\ (Op \in NameOps => Constant \in Keys)
  BY Fetched, U8Assumption DEF AtInstruction, IInv, TypeOK
<1>2. ~(stackTop < Needs(Op))
  <2>1. Needs(Op) \in {0, 1, 2} /\ Takes(Op) \in {0, 1, 2} /\ Needs(Op) <= Takes(Op)
    BY Shapes
  <2>2. QED
    BY <1>1, <2>1
<1>3. ASSUME Op \in {OP_NOT, OP_PRINT, OP_NEGATE, OP_JUMP_IF_FALSE} PROVE Top # Null
  BY <1>1, <1>3, Shapes, HasValues
<1>4. ASSUME Op = OP_EQUAL PROVE Null \notin {Top, Below(1)}
  BY <1>1, <1>4, Shapes, HasValues
<1>5. QED
  BY <1>1, <1>2, <1>3, <1>4 DEF IsUndefined

-----------------------------------------------------------------------------
(***************************************************************************)
(* What an instruction leaves.                                             *)
(***************************************************************************)

\* As many pops as the instruction takes values, and a push.
LEMMA Replaced ==
  ASSUME AtInstruction, Op \notin {OP_JUMP, OP_LOOP, OP_RETURN},
         NEW n \in {0, 1, 2}, NEW v, v # Null,
         stackTop >= n, Effect(Op) = 1 - n, Replace(n, v)
  PROVE  StackHasValues' /\ stackTop' = stackTop + Effect(Op)
<1>1. stackTop \in 0 .. (U8 - 1) /\ U8 \in Nat /\ StackHasValues /\ stack \in [0 .. (U8 - 1) -> Values]
  BY U8Assumption DEF AtInstruction, IInv, TypeOK, Safe
<1>2. stackTop + 1 - n \in 0 .. (U8 - 1)
  <2>1. stackTop + Effect(Op) \in 0 .. (U8 - 1)
    BY GoesOn, Arrives
  <2>2. QED
    BY <1>1, <2>1
<1>3. stackTop - n \in 0 .. (U8 - 1) /\ (stackTop - n) % U8 = stackTop - n
  BY <1>1
<1>4. (stackTop - n + 1) % U8 = stackTop - n + 1
  BY <1>1, <1>2
<1>5. stack' = [stack EXCEPT ![stackTop - n] = v] /\ stackTop' = stackTop - n + 1
  BY <1>3, <1>4 DEF Replace
<1>6. StackHasValues'
  BY <1>1, <1>3, <1>5 DEF StackHasValues
<1>7. QED
  BY <1>1, <1>5, <1>6

\* A pop.
LEMMA Dropped ==
  ASSUME AtInstruction, stackTop >= 1, Effect(Op) = -1, Drop(1)
  PROVE  StackHasValues' /\ stackTop' = stackTop + Effect(Op)
<1>1. stackTop \in 0 .. (U8 - 1) /\ U8 \in Nat /\ StackHasValues
  BY U8Assumption DEF AtInstruction, IInv, TypeOK, Safe
<1>2. (stackTop - 1) % U8 = stackTop - 1
  BY <1>1
<1>3. stackTop' = stackTop - 1 /\ stack' = stack
  BY <1>2 DEF Drop
<1>4. QED
  BY <1>1, <1>3 DEF StackHasValues

\* The stack as it was.
LEMMA Kept ==
  ASSUME AtInstruction, UNCHANGED stackVars
  PROVE  StackHasValues'
  BY DEF AtInstruction, Safe, StackHasValues, stackVars

\* The run arrives at a successor.
LEMMA Continues ==
  ASSUME AtInstruction, ip' \in Successors(code, ip), stackTop' = stackTop + Effect(Op),
         UNCHANGED chunkVars, UNCHANGED status, StackHasValues', GlobalsHaveValues(globals')
  PROVE  Safe'
<1>1. <<ip', stackTop'>> \in Heights(code)
  BY Arrives
<1>2. Verified(Loaded) /\ status \notin {"aborted", "undefined"}
  BY DEF AtInstruction, Safe, OnTrack, Running
<1>3. Loaded' = Loaded /\ code' = code
  BY DEF Loaded, chunkVars
<1>4. OnTrack'
  BY <1>1, <1>2, <1>3 DEF OnTrack
<1>5. QED
  BY <1>2, <1>4 DEF Safe

\* The next instruction, for all but jumps and OP_RETURN.
LEMMA ProceedsSafely ==
  ASSUME AtInstruction, Op \notin {OP_JUMP, OP_LOOP, OP_RETURN}, Proceed,
         stackTop' = stackTop + Effect(Op), StackHasValues', GlobalsHaveValues(globals')
  PROVE  Safe'
  BY GoesOn, Continues DEF Proceed

\* runtime_error finds the line of the next byte.
LEMMA FailsSafely ==
  ASSUME AtInstruction, Op \notin {OP_JUMP, OP_LOOP, OP_RETURN}, Fail,
         StackHasValues', GlobalsHaveValues(globals')
  PROVE  Safe'
<1>1. status' = "idle"
  BY GoesOn DEF Fail
<1>2. QED
  BY <1>1 DEF Safe, OnTrack

\* Booleans, numbers and strings are no null pointers.
LEMMA Results ==
  /\ \A b : Bool(b) # Null
  /\ Nil # Null
  /\ \A v \in Numbers \union Keys : v # Null
  BY ObjectsAssumption, NullAssumption DEF Bool

\* A slot that is stored to keeps globals without null pointers.
LEMMA StoresValue ==
  ASSUME NEW k \in Keys, NEW v, v # Null, NEW slot \in Slots, globals \in [Slots -> Entry],
         GlobalsHaveValues(globals)
  PROVE  GlobalsHaveValues(Store(globals, slot, k, v))
  BY DEF GlobalsHaveValues, Store

-----------------------------------------------------------------------------
(***************************************************************************)
(* Every instruction.                                                      *)
(***************************************************************************)

\* Constants, literals and locals.
LEMMA PushIsSafe ==
  ASSUME AtInstruction, PushValue
  PROVE  Safe'
<1>1. /\ Op \in {OP_CONSTANT, OP_NIL, OP_TRUE, OP_FALSE, OP_GET_LOCAL}
      /\ Proceed /\ globals' = globals /\ GlobalsHaveValues(globals)
      /\ stackTop \in 0 .. (U8 - 1) /\ U8 \in Nat /\ StackHasValues
  BY U8Assumption DEF PushValue, Executing, tables, AtInstruction, Safe, IInv, TypeOK
<1>2. Op \notin {OP_JUMP, OP_LOOP, OP_RETURN} /\ Effect(Op) = 1
  <2>1. Effect(Op) = 1
    BY <1>1, Shapes
  <2>2. QED
    BY <1>1, <2>1 DEF OP_CONSTANT, OP_NIL, OP_TRUE, OP_FALSE, OP_GET_LOCAL, OP_JUMP, OP_LOOP, OP_RETURN
<1>3. PICK v : v # Null /\ Replace(0, v)
  <2>1. CASE Op = OP_CONSTANT
    <3>1. Replace(0, Constant)
      BY <2>1 DEF PushValue, OP_CONSTANT, OP_NIL, OP_TRUE, OP_FALSE
    <3>2. Constant # Null
      BY <2>1, Fetched
    <3>3. QED
      BY <3>1, <3>2
  <2>2. CASE Op \in {OP_NIL, OP_TRUE, OP_FALSE}
    <3>1. Nil # Null /\ True # Null /\ False # Null
      BY ObjectsAssumption, NullAssumption
    <3>2. QED
      BY <2>2, <3>1 DEF PushValue, OP_CONSTANT, OP_NIL, OP_TRUE, OP_FALSE
  <2>3. CASE Op = OP_GET_LOCAL
    <3>1. Operand \in Nat /\ Operand < stackTop
      <4>1. Op \in LocalOps
        BY <2>3 DEF LocalOps
      <4>2. QED
        BY <4>1, Fetched, OperandTypes DEF AtInstruction, IInv
    <3>2. Operand % U8 = Operand /\ Operand \in 0 .. (U8 - 1)
      BY <1>1, <3>1
    <3>3. stack[Operand % U8] # Null
      BY <1>1, <3>1, <3>2 DEF StackHasValues
    <3>4. Replace(0, stack[Operand % U8])
      BY <2>3 DEF PushValue, OP_CONSTANT, OP_NIL, OP_TRUE, OP_FALSE, OP_GET_LOCAL
    <3>5. QED
      BY <3>3, <3>4
  <2>4. QED
    BY <1>1, <2>1, <2>2, <2>3
<1>4. StackHasValues' /\ stackTop' = stackTop + Effect(Op)
  <2>1. stackTop >= 0 /\ Effect(Op) = 1 - 0
    BY <1>1, <1>2
  <2>2. QED
    BY <1>2, <1>3, <2>1, Replaced
<1>5. QED
  BY <1>1, <1>2, <1>4, ProceedsSafely

\* OP_POP and OP_PRINT.
LEMMA PopIsSafe ==
  ASSUME AtInstruction, PopValue
  PROVE  Safe'
<1>1. Op \in {OP_POP, OP_PRINT} /\ Drop(1) /\ Proceed /\ globals' = globals /\ GlobalsHaveValues(globals)
  BY DEF PopValue, Executing, tables, AtInstruction, Safe
<1>2. Op \notin {OP_JUMP, OP_LOOP, OP_RETURN}
  BY <1>1 DEF OP_POP, OP_PRINT, OP_JUMP, OP_LOOP, OP_RETURN
<1>3. stackTop >= 1 /\ Effect(Op) = -1
  BY <1>1, Shapes, Fetched
<1>4. QED
  BY <1>1, <1>2, <1>3, Dropped, ProceedsSafely

\* Assignment to a local.
LEMMA SetLocalIsSafe ==
  ASSUME AtInstruction, SetLocal
  PROVE  Safe'
<1>1. /\ Op = OP_SET_LOCAL /\ Proceed /\ globals' = globals /\ GlobalsHaveValues(globals)
      /\ stackTop' = stackTop /\ stack' = [stack EXCEPT ![Operand % U8] = Top]
      /\ stackTop \in 0 .. (U8 - 1) /\ U8 \in Nat /\ StackHasValues
      /\ stack \in [0 .. (U8 - 1) -> Values]
  BY U8Assumption DEF SetLocal, Executing, tables, AtInstruction, Safe, IInv, TypeOK
<1>2. Op \notin {OP_JUMP, OP_LOOP, OP_RETURN}
  BY <1>1 DEF OP_SET_LOCAL, OP_JUMP, OP_LOOP, OP_RETURN
<1>3. stackTop >= 1 /\ Effect(Op) = 0 /\ Top # Null
  BY <1>1, Shapes, Fetched, HasValues
<1>4. StackHasValues'
  BY <1>1, <1>3 DEF StackHasValues
<1>5. stackTop' = stackTop + Effect(Op)
  BY <1>1, <1>3
<1>6. QED
  BY <1>1, <1>2, <1>4, <1>5, ProceedsSafely

\* What is computed of two numbers is a number or a boolean.
LEMMA ComputedResults ==
  ASSUME BothNumbers, NEW op \in NumberOps \union {OP_ADD}
  PROVE  Computed(op) # Null
<1>1. <<Below(1), Top>> \in Numbers \X Numbers
  BY DEF BothNumbers
<1>2. CASE op \in {OP_LESS, OP_GREATER}
  <2>1. op = OP_LESS \/ op = OP_GREATER
    BY <1>2
  <2>2. QED
    BY <2>1, Results, Zenon DEF Computed
<1>3. CASE op \notin {OP_LESS, OP_GREATER}
  <2>1. Computed(op) = Arithmetic[op][Below(1), Top]
    BY <1>3 DEF Computed
  <2>2. op \in {OP_ADD, OP_SUBTRACT, OP_MULTIPLY, OP_DIVIDE}
    BY <1>3 DEF NumberOps
  <2>3. Arithmetic[op] \in [Numbers \X Numbers -> Numbers]
    BY <2>2, VMAssumption
  <2>4. Computed(op) \in Numbers
    BY <1>1, <2>1, <2>3, Zenon
  <2>5. QED
    BY <2>4, Results
<1>4. QED
  BY <1>2, <1>3

\* Operators that leave a result, or fail.
LEMMA OperatorsAreSafe ==
  ASSUME AtInstruction, ~Swallows,
         Equal \/ NumberOp \/ AddNumbers \/ Concatenate \/ AddFails \/ Not \/ Negate
  PROVE  Safe'
<1>1. /\ Op \in NumberOps \union {OP_EQUAL, OP_ADD, OP_NOT, OP_NEGATE} /\ globals' = globals
      /\ GlobalsHaveValues(globals)
  BY DEF Equal, NumberOp, AddNumbers, Concatenate, AddFails, Not, Negate, Executing, tables, AtInstruction, Safe
<1>2. Op \notin {OP_JUMP, OP_LOOP, OP_RETURN}
  BY <1>1 DEF NumberOps, OP_EQUAL, OP_GREATER, OP_LESS, OP_ADD, OP_SUBTRACT, OP_MULTIPLY, OP_DIVIDE, OP_NOT, OP_NEGATE,
     OP_JUMP, OP_LOOP, OP_RETURN
<1>3. ASSUME NEW n \in {1, 2}, NEW v, v # Null, Replace(n, v), Proceed,
             n = 2 => Op \in NumberOps \union {OP_EQUAL, OP_ADD}, n = 1 => Op \in {OP_NOT, OP_NEGATE}
      PROVE  Safe'
  <2>1. stackTop >= n /\ Effect(Op) = 1 - n
    BY <1>3, Shapes, Fetched
  <2>2. StackHasValues' /\ stackTop' = stackTop + Effect(Op)
    BY <1>2, <1>3, <2>1, Replaced
  <2>3. QED
    BY <1>1, <1>2, <1>3, <2>2, ProceedsSafely
<1>4. ASSUME Fail, UNCHANGED stackVars PROVE Safe'
  BY <1>1, <1>2, <1>4, Kept, FailsSafely
<1>5. CASE Equal
  BY <1>3, <1>5, Results DEF Equal, Executing
<1>6. CASE Not
  BY <1>3, <1>6, Results DEF Not, Executing
<1>7. CASE Negate
  <2>1. CASE Top \in Numbers
    <3>1. Minus[Top] # Null
      BY <2>1, Results, ObjectsAssumption
    <3>2. QED
      BY <1>3, <1>7, <2>1, <3>1 DEF Negate, Executing
  <2>2. CASE Top \notin Numbers
    BY <1>4, <1>7, <2>2 DEF Negate
  <2>3. QED
    BY <2>1, <2>2
<1>8. CASE AddNumbers
  BY <1>3, <1>8, ComputedResults DEF AddNumbers, Executing
<1>9. CASE Concatenate
  <2>1. PICK k \in Keys : Replace(2, k)
    BY <1>9, ConcatenateStores DEF AtInstruction
  <2>2. Proceed /\ Op = OP_ADD
    BY <1>9 DEF Concatenate, Executing
  <2>3. k # Null
    BY Results
  <2>4. QED
    BY <1>3, <2>1, <2>2, <2>3
<1>10. CASE AddFails
  BY <1>4, <1>10 DEF AddFails
<1>11. CASE NumberOp
  <2>1. BothNumbers /\ Op \in NumberOps
    BY <1>11 DEF NumberOp, Swallows, Executing
  <2>2. Replace(2, Computed(Op)) /\ Proceed
    BY <1>11, <2>1 DEF NumberOp
  <2>3. QED
    BY <1>3, <2>1, <2>2, ComputedResults
<1>12. QED
  BY <1>5, <1>6, <1>7, <1>8, <1>9, <1>10, <1>11

\* Reading a global.
LEMMA GetGlobalIsSafe ==
  ASSUME AtInstruction, GetGlobal
  PROVE  Safe'
<1> DEFINE slot == FindEntry(globals, Constant)
<1>1. Op = OP_GET_GLOBAL /\ globals' = globals /\ GlobalsHaveValues(globals) /\ slot # NoSlot
  BY DEF GetGlobal, Executing, tables, AtInstruction, Safe
<1>2. Op \notin {OP_JUMP, OP_LOOP, OP_RETURN} /\ Op \in NameOps
  BY <1>1 DEF OP_GET_GLOBAL, OP_JUMP, OP_LOOP, OP_RETURN, NameOps, ConstantOps, OP_CONSTANT
<1>3. slot \in Slots
  BY <1>1, <1>2, Fetched, FoundSlot DEF AtInstruction, IInv, TablesOK
<1>4. CASE globals[slot].key # Null
  <2>1. globals[slot].value # Null /\ Replace(0, globals[slot].value) /\ Proceed
    BY <1>1, <1>3, <1>4 DEF GetGlobal, GlobalsHaveValues
  <2>2. Effect(Op) = 1 - 0 /\ stackTop >= 0
    <3>1. Effect(Op) = 1
      BY <1>1, Shapes
    <3>2. QED
      BY <3>1, U8Assumption DEF AtInstruction, IInv, TypeOK
  <2>3. StackHasValues' /\ stackTop' = stackTop + Effect(Op)
    BY <1>2, <2>1, <2>2, Replaced
  <2>4. QED
    BY <1>1, <1>2, <2>1, <2>3, ProceedsSafely
<1>5. CASE globals[slot].key = Null
  BY <1>1, <1>2, <1>5, Kept, FailsSafely DEF GetGlobal
<1>6. QED
  BY <1>4, <1>5

\* Defining one.
LEMMA DefineGlobalIsSafe ==
  ASSUME AtInstruction, DefineGlobal
  PROVE  Safe'
<1>1. Op = OP_DEFINE_GLOBAL /\ Drop(1) /\ Proceed /\ GlobalsHaveValues(globals) /\ IsTable(globals)
  BY DEF DefineGlobal, Executing, AtInstruction, Safe, IInv, TablesOK
<1>2. Op \notin {OP_JUMP, OP_LOOP, OP_RETURN}
  BY <1>1 DEF OP_DEFINE_GLOBAL, OP_JUMP, OP_LOOP, OP_RETURN
<1>3. stackTop >= 1 /\ Effect(Op) = -1 /\ Top # Null
  BY <1>1, Shapes, Fetched, HasValues
<1>4. PICK k \in Keys : /\ FindEntry(globals, k) # NoSlot
                        /\ globals' = Store(globals, FindEntry(globals, k), k, Top)
  BY DefineGlobalStores DEF AtInstruction
<1>5. GlobalsHaveValues(globals')
  BY <1>1, <1>3, <1>4, FoundSlot, StoresValue DEF IsTable
<1>6. QED
  BY <1>1, <1>2, <1>3, <1>5, Dropped, ProceedsSafely

\* Assigning to one, which may fail.
LEMMA SetGlobalIsSafe ==
  ASSUME AtInstruction, SetGlobal
  PROVE  Safe'
<1>1. Op = OP_SET_GLOBAL /\ UNCHANGED stackVars /\ GlobalsHaveValues(globals) /\ IsTable(globals)
  BY DEF SetGlobal, Executing, AtInstruction, Safe, IInv, TablesOK
<1>2. Op \notin {OP_JUMP, OP_LOOP, OP_RETURN}
  BY <1>1 DEF OP_SET_GLOBAL, OP_JUMP, OP_LOOP, OP_RETURN
<1>3. Effect(Op) = 0 /\ Top # Null
  BY <1>1, Shapes, Fetched, HasValues
<1>4. StackHasValues' /\ stackTop' = stackTop + Effect(Op)
  BY <1>1, <1>3, Kept, U8Assumption DEF stackVars, AtInstruction, IInv, TypeOK
<1>5. PICK k \in Keys :
        /\ FindEntry(globals, k) # NoSlot
        /\ \/ globals' = Store(globals, FindEntry(globals, k), k, Top) /\ Proceed
           \/ /\ globals' = [globals EXCEPT ![FindEntry(globals, k)] = [key |-> Null, value |-> True]]
              /\ Fail
  BY SetGlobalStores DEF AtInstruction
<1>6. FindEntry(globals, k) \in Slots /\ globals \in [Slots -> Entry]
  BY <1>1, <1>5, FoundSlot DEF IsTable
<1>7. CASE globals' = Store(globals, FindEntry(globals, k), k, Top) /\ Proceed
  <2>1. GlobalsHaveValues(globals')
    BY <1>1, <1>3, <1>6, <1>7, StoresValue
  <2>2. QED
    BY <1>2, <1>4, <1>7, <2>1, ProceedsSafely
<1>8. CASE /\ globals' = [globals EXCEPT ![FindEntry(globals, k)] = [key |-> Null, value |-> True]]
           /\ Fail
  <2>1. GlobalsHaveValues(globals')
    BY <1>1, <1>6, <1>8 DEF GlobalsHaveValues
  <2>2. QED
    BY <1>2, <1>4, <1>8, <2>1, FailsSafely
<1>9. QED
  BY <1>5, <1>7, <1>8

\* A jump arrives at a successor.
LEMMA JumpArrives ==
  ASSUME IInv, Jump, Len(code) < UsizeCount,
         \A j \in Successors(code, ip) : j \in Nat /\ j < Len(code)
  PROVE  ip' \in Successors(code, ip)
<1> DEFINE distance == Short(code, ip + 1)
<1>1. Op \in JumpOps
  BY DEF Jump, Executing
<1>2. /\ Op = OP_JUMP => Successors(code, ip) = {NextIp + distance}
      /\ Op = OP_LOOP => Successors(code, ip) = {NextIp - distance}
      /\ Op = OP_JUMP_IF_FALSE => Successors(code, ip) = {NextIp, NextIp + distance}
  <2>1. /\ OP_JUMP # OP_LOOP /\ OP_JUMP # OP_JUMP_IF_FALSE /\ OP_LOOP # OP_JUMP_IF_FALSE
        /\ OP_RETURN \notin {OP_JUMP, OP_LOOP, OP_JUMP_IF_FALSE}
    BY DEF OP_JUMP, OP_LOOP, OP_JUMP_IF_FALSE, OP_RETURN
  <2>2. QED
    BY <2>1, Zenon DEF Successors, Op, NextIp
<1> HIDE DEF distance
<1>3. CASE Op = OP_JUMP
  <2>1. ip' = NextIp + distance
    BY <1>3 DEF Jump, distance, OP_JUMP, OP_LOOP, OP_JUMP_IF_FALSE
  <2>2. QED
    BY <1>2, <1>3, <2>1
<1>4. CASE Op = OP_JUMP_IF_FALSE
  <2>1. ip' \in {NextIp, NextIp + distance}
    BY <1>4 DEF Jump, distance, OP_JUMP_IF_FALSE, OP_LOOP
  <2>2. QED
    BY <1>2, <1>4, <2>1
<1>5. CASE Op = OP_LOOP
  <2>1. NextIp - distance \in Successors(code, ip)
    BY <1>2, <1>5
  <2>2. NextIp - distance \in Nat /\ NextIp - distance < Len(code)
    BY <2>1
  <2>3. (NextIp - distance) % UsizeCount = NextIp - distance
    <3>1. Len(code) \in Nat /\ UsizeCount \in Nat
      BY VMAssumption DEF IInv, TypeOK
    <3>2. QED
      BY <2>2, <3>1
  <2>4. ip' = NextIp - distance
    BY <1>5, <2>3 DEF Jump, distance, OP_LOOP, OP_JUMP_IF_FALSE
  <2>5. QED
    BY <2>1, <2>4
<1>6. QED
  BY <1>1, <1>3, <1>4, <1>5 DEF JumpOps

\* Jumps.
LEMMA JumpIsSafe ==
  ASSUME AtInstruction, Jump
  PROVE  Safe'
<1>1. /\ Op \in JumpOps /\ globals' = globals /\ GlobalsHaveValues(globals)
      /\ UNCHANGED stackVars /\ UNCHANGED chunkVars /\ UNCHANGED status
  BY DEF Jump, Executing, tables, AtInstruction, Safe
<1>2. ip' \in Successors(code, ip)
  <2>1. \A j \in Successors(code, ip) : j \in Nat /\ j < Len(code)
    BY Arrives
  <2>2. QED
    BY <2>1, JumpArrives DEF AtInstruction
<1>3. StackHasValues' /\ stackTop' = stackTop + Effect(Op)
  <2>1. Effect(Op) = 0
    BY <1>1, Shapes
  <2>2. QED
    BY <1>1, <2>1, Kept, U8Assumption DEF stackVars, AtInstruction, IInv, TypeOK
<1>4. QED
  BY <1>1, <1>2, <1>3, Continues

\* OP_RETURN is the last byte, so that the run ends after it.
LEMMA ReturnIsSafe ==
  ASSUME AtInstruction, Return
  PROVE  Safe'
<1>1. /\ Op = OP_RETURN /\ Proceed /\ UNCHANGED stackVars /\ globals' = globals
      /\ GlobalsHaveValues(globals)
  BY DEF Return, Executing, tables, AtInstruction, Safe
<1>2. ip' = Len(code)
  <2>1. ip = Len(code) - 1 /\ Length(Op) = 1
    BY <1>1, Fetched DEF Length, OP_RETURN, JumpOps, ConstantOps, LocalOps, OP_JUMP, OP_JUMP_IF_FALSE,
       OP_LOOP, OP_CONSTANT, OP_GET_GLOBAL, OP_DEFINE_GLOBAL, OP_SET_GLOBAL, OP_GET_LOCAL, OP_SET_LOCAL
  <2>2. QED
    BY <1>1, <2>1 DEF Proceed, NextIp, AtInstruction, IInv, TypeOK
<1>3. Verified(Loaded) /\ status \notin {"aborted", "undefined"}
  BY DEF AtInstruction, Safe, OnTrack, Running
<1>4. Loaded' = Loaded /\ code' = code /\ status' = status
  BY <1>1 DEF Loaded, Proceed, chunkVars
<1>5. OnTrack'
  <2>1. ~(ip' < Len(code'))
    BY <1>2, <1>4 DEF AtInstruction, IInv, TypeOK
  <2>2. QED
    BY <1>3, <1>4, <2>1 DEF OnTrack
<1>6. QED
  BY <1>1, <1>3, <1>4, <1>5, Kept DEF Safe

-----------------------------------------------------------------------------
\* Nothing that a run of safe chunks does leaves Safe, unless it swallows an error
\* or fills the stack.
LEMMA StepIsSafe ==
  ASSUME IInv, SInv, sound, ~Swallows, ~Overflows, RunStep
  PROVE  Safe'
<1>1. Safe /\ Len(code) < UsizeCount
  BY DEF SInv
<1>2. CASE EndRun
  <2>1. status' = "idle" /\ stack' = stack /\ stackTop' = stackTop /\ globals' = globals
    BY <1>2 DEF EndRun, stackVars, tables
  <2>2. QED
    BY <1>1, <2>1 DEF Safe, StackHasValues, OnTrack
<1>3. ASSUME Running PROVE AtInstruction
  BY <1>1, <1>3 DEF AtInstruction
<1>4. CASE BadOpCode \/ Abort \/ Misbehave
  <2>1. Running
    BY <1>4 DEF BadOpCode, Abort, Misbehave
  <2>2. Op \in OpCodes /\ InRange /\ ~IsUndefined
    BY <1>3, <2>1, Fetched, Defined
  <2>3. QED
    BY <1>4, <2>2 DEF BadOpCode, Abort, Misbehave
<1>5. CASE Hang
  <2>1. status' = "hung" /\ stack' = stack /\ stackTop' = stackTop /\ globals' = globals
    BY <1>5 DEF Hang, Stop, stackVars, tables
  <2>2. QED
    BY <1>1, <2>1 DEF Safe, StackHasValues, OnTrack
<1>6. CASE PushValue
  BY <1>3, <1>6, PushIsSafe DEF PushValue, Executing
<1>7. CASE PopValue
  BY <1>3, <1>7, PopIsSafe DEF PopValue, Executing
<1>8. CASE SetLocal
  BY <1>3, <1>8, SetLocalIsSafe DEF SetLocal, Executing
<1>9. CASE Equal \/ NumberOp \/ AddNumbers \/ Concatenate \/ AddFails \/ Not \/ Negate
  <2>1. AtInstruction
    BY <1>3, <1>9 DEF Equal, NumberOp, AddNumbers, Concatenate, AddFails, Not, Negate, Executing
  <2>2. QED
    BY <1>9, <2>1, OperatorsAreSafe
<1>10. CASE GetGlobal
  BY <1>3, <1>10, GetGlobalIsSafe DEF GetGlobal, Executing
<1>11. CASE DefineGlobal
  BY <1>3, <1>11, DefineGlobalIsSafe DEF DefineGlobal, Executing
<1>12. CASE SetGlobal
  BY <1>3, <1>12, SetGlobalIsSafe DEF SetGlobal, Executing
<1>13. CASE Jump
  BY <1>3, <1>13, JumpIsSafe DEF Jump, Executing
<1>14. CASE Return
  BY <1>3, <1>14, ReturnIsSafe DEF Return, Executing
<1>15. QED
  BY <1>2, <1>4, <1>5, <1>6, <1>7, <1>8, <1>9, <1>10, <1>11, <1>12, <1>13, <1>14 DEF RunStep

\* A verified chunk that is loaded on an empty stack starts at height 0.
LEMMA LoadsSafely ==
  ASSUME Safe, stackTop = 0, Verified(Loaded)', ip' = 0, status' = "running", UNCHANGED <<stackVars, tables>>
  PROVE  Safe'
<1>1. stack' = stack /\ stackTop' = stackTop /\ globals' = globals
  BY DEF stackVars, tables
<1>2. <<0, 0>> \in Heights(code')
  BY DEF Verified, StackBalanced, Loaded
<1>3. OnTrack'
  BY <1>1, <1>2 DEF OnTrack
<1>4. QED
  BY <1>1, <1>3 DEF Safe, StackHasValues

LEMMA LoadIsSafe ==
  ASSUME IInv, SInv, FamilyOK, Load
  PROVE  SInv'
<1>1. PICK c \in Families[family].chunks :
        LoadNewChunk(c) /\ sound' = (sound /\ stackTop = 0 /\ Verified(c))
  BY DEF Load
<1>2. c \in Chunks
  BY <1>1, FamiliesAssumption DEF FamilyOK
<1>3. Len(code') < UsizeCount
  BY <1>1, <1>2, VMAssumption DEF LoadNewChunk
<1>4. ASSUME sound' PROVE Safe'
  <2>1. Safe /\ stackTop = 0 /\ Verified(c)
    BY <1>1, <1>4 DEF SInv
  <2>2. /\ code' = c.code /\ constants' = c.constants /\ ip' = 0 /\ status' = "running"
        /\ UNCHANGED <<stackVars, tables>>
    BY <1>1 DEF LoadNewChunk
  <2>3. Verified(Loaded)'
    BY <2>1, <2>2 DEF Verified, Loaded
  <2>4. QED
    BY <2>1, <2>2, <2>3, LoadsSafely
<1>5. QED
  BY <1>3, <1>4 DEF SInv

\* Both invariants hold in every reachable state.
LEMMA SafeInvariance == HSpec => [](IInv /\ SInv)
<1>1. HInit => IInv /\ FamilyOK /\ SInv
  <2> SUFFICES ASSUME HInit PROVE IInv /\ FamilyOK /\ SInv
    OBVIOUS
  <2>1. IInv /\ FamilyOK
    BY InvInit DEF HInit, FamilyOK
  <2>2. Len(code) < UsizeCount
    BY VMAssumption DEF HInit, Init
  <2>3. ASSUME sound PROVE Safe
    <3>0. stackTop = 0
      BY <2>3, Zenon DEF HInit
    <3>1. StackHasValues
      BY <3>0, U8Assumption DEF StackHasValues
    <3>2. GlobalsHaveValues(globals)
      BY DEF HInit, Init, GlobalsHaveValues, EmptyTable
    <3>3. QED
      BY <3>1, <3>2 DEF HInit, Init, Safe, OnTrack
  <2>4. QED
    BY <2>1, <2>2, <2>3 DEF SInv
<1>2. IInv /\ FamilyOK /\ SInv /\ [HNext]_hvars => IInv' /\ FamilyOK' /\ SInv'
  <2> SUFFICES ASSUME IInv, FamilyOK, SInv, [HNext]_hvars PROVE IInv' /\ FamilyOK' /\ SInv'
    OBVIOUS
  <2>1. IInv' /\ FamilyOK'
    BY InvStep
  <2>2. CASE Load
    BY <2>1, <2>2, LoadIsSafe
  <2>3. CASE Run
    <3>1. RunStep /\ (sound' <=> sound /\ ~Swallows /\ ~Overflows)
      BY <2>3 DEF Run
    <3>2. code' = code
      BY <3>1 DEF RunStep, PushValue, PopValue, SetLocal, GetGlobal, DefineGlobal, SetGlobal,
              Equal, NumberOp, AddNumbers, Concatenate, AddFails, Not, Negate, Jump, Return,
              BadOpCode, EndRun, Abort, Misbehave, Hang, Stop, Proceed, Fail, chunkVars
    <3>3. QED
      BY <2>1, <3>1, <3>2, StepIsSafe DEF SInv
  <2>4. CASE UNCHANGED hvars
    <3>1. UNCHANGED <<code, constants, ip, stack, stackTop, globals, status, sound>>
      BY <2>4 DEF hvars, vars, chunkVars, stackVars, tables
    <3>2. SInv'
      BY <3>1 DEF SInv, Safe, StackHasValues, OnTrack, Loaded
    <3>3. QED
      BY <2>1, <3>2
  <2>5. QED
    BY <2>2, <2>3, <2>4 DEF HNext
<1>3. QED
  BY <1>1, <1>2, PTL DEF HSpec

-----------------------------------------------------------------------------
(***************************************************************************)
(* On a stack of any height, which need not have the values that a chunk   *)
(* takes: the run follows the heights all the same, counted from where the *)
(* stack was and modulo the byte that m_stack_top is.                      *)
(***************************************************************************)

\* The stack has grown from b by what the bytes say, and is back there at the end.
Counts(b) ==
  /\ status = "running" =>
       IF ip < Len(code) THEN \E r \in Heights(code) : r[1] = ip /\ stackTop = (b + r[2]) % U8
                         ELSE stackTop = b
  /\ status = "idle" /\ result = "INTERPRET_OK" => stackTop = b

\* What a step of a balanced chunk does to the height.
LEMMA HeightSteps ==
  ASSUME IInv, Running, Op \in OpCodes, ~Swallows, Len(code) < UsizeCount, RunStep, status' = "running",
         \A j \in Successors(code, ip) : j \in Nat /\ j < Len(code)
  PROVE  /\ stackTop' = (stackTop + Effect(Op)) % U8 /\ code' = code
         /\ Op # OP_RETURN => ip' \in Successors(code, ip)
         /\ Op = OP_RETURN => ip' = NextIp
<1>1. stackTop \in 0 .. (U8 - 1) /\ U8 \in Nat \ {0} /\ status = "running"
  BY U8Assumption DEF IInv, TypeOK, Running
<1>2. ASSUME NEW n \in {0, 1, 2}, NEW v, Replace(n, v), Effect(Op) = 1 - n
      PROVE  stackTop' = (stackTop + Effect(Op)) % U8
  <2>1. stackTop' = (((stackTop - n) % U8) + 1) % U8
    BY <1>2 DEF Replace
  <2>2. (((stackTop - n) % U8) + 1) % U8 = (stackTop - n + 1) % U8
    BY <1>1
  <2>3. QED
    BY <1>1, <1>2, <2>1, <2>2
<1>3. ASSUME UNCHANGED stackTop, Effect(Op) = 0
      PROVE  stackTop' = (stackTop + Effect(Op)) % U8
  BY <1>1, <1>3
<1>4. ASSUME Proceed, Op \notin JumpOps
      PROVE  /\ code' = code /\ ip' = NextIp
             /\ Op # OP_RETURN => ip' \in Successors(code, ip)
  BY <1>4, Zenon DEF Proceed, chunkVars, JumpOps, Successors, Op, NextIp
<1>5. ~Fail /\ \A how \in {"idle", "aborted", "undefined", "hung"} : ~Stop(how)
  BY DEF Fail, Stop
<1>6. /\ OP_RETURN \notin JumpOps /\ Effect(OP_RETURN) = 0
      /\ \A op \in NumberOps \union {OP_CONSTANT, OP_NIL, OP_TRUE, OP_FALSE, OP_GET_LOCAL, OP_SET_LOCAL, OP_POP, OP_PRINT,
                OP_GET_GLOBAL, OP_DEFINE_GLOBAL, OP_SET_GLOBAL, OP_EQUAL, OP_ADD, OP_NOT, OP_NEGATE} :
           op \notin JumpOps /\ op # OP_RETURN
  BY DEF JumpOps, Effect, NumberOps,
    OP_CONSTANT, OP_NIL, OP_TRUE, OP_FALSE, OP_POP, OP_GET_LOCAL, OP_SET_LOCAL, OP_GET_GLOBAL,
    OP_DEFINE_GLOBAL, OP_SET_GLOBAL, OP_EQUAL, OP_GREATER, OP_LESS, OP_ADD, OP_SUBTRACT,
    OP_MULTIPLY, OP_DIVIDE, OP_NOT, OP_NEGATE, OP_PRINT, OP_JUMP, OP_JUMP_IF_FALSE, OP_LOOP,
    OP_RETURN
<1>7. CASE PushValue
  <2>1. Op \in {OP_CONSTANT, OP_NIL, OP_TRUE, OP_FALSE, OP_GET_LOCAL} /\ Proceed /\ \E v : Replace(0, v)
    BY <1>7 DEF PushValue, Executing
  <2>2. QED
    BY <1>2, <1>4, <1>6, <2>1, Shapes
<1>8. CASE PopValue \/ DefineGlobal
  <2>1. Op \in {OP_POP, OP_PRINT, OP_DEFINE_GLOBAL} /\ Proceed /\ Drop(1)
    BY <1>8 DEF PopValue, DefineGlobal, Executing
  <2>2. Effect(Op) = -1
    BY <2>1, Shapes
  <2>3. stackTop' = (stackTop + Effect(Op)) % U8
    BY <1>1, <2>1, <2>2 DEF Drop
  <2>4. QED
    BY <1>4, <1>6, <2>1, <2>3
<1>9. CASE SetLocal \/ SetGlobal
  <2>1. Op \in {OP_SET_LOCAL, OP_SET_GLOBAL} /\ Proceed /\ UNCHANGED stackTop
    BY <1>5, <1>9 DEF SetLocal, SetGlobal, Executing, stackVars
  <2>2. QED
    BY <1>3, <1>4, <1>6, <2>1, Shapes
<1>10. CASE GetGlobal
  <2>1. Op = OP_GET_GLOBAL /\ Proceed /\ \E v : Replace(0, v)
    BY <1>5, <1>10 DEF GetGlobal, Executing
  <2>2. QED
    BY <1>2, <1>4, <1>6, <2>1, Shapes
<1>11. CASE Equal \/ NumberOp \/ AddNumbers \/ Concatenate
  <2>1. Op \in NumberOps \union {OP_EQUAL, OP_ADD}
    BY <1>11 DEF Equal, NumberOp, AddNumbers, Concatenate, Executing
  <2>2. Proceed /\ \E v : Replace(2, v)
    <3>1. CASE NumberOp
      <4>1. BothNumbers
        BY <3>1 DEF NumberOp, Swallows
      <4>2. QED
        BY <3>1, <4>1 DEF NumberOp
    <3>2. CASE Equal \/ AddNumbers \/ Concatenate
      BY <3>2 DEF Equal, AddNumbers, Concatenate
    <3>3. QED
      BY <1>11, <3>1, <3>2
  <2>3. QED
    BY <1>2, <1>4, <1>6, <2>1, <2>2, Shapes
<1>12. CASE AddFails
  BY <1>5, <1>12 DEF AddFails
<1>13. CASE Not \/ Negate
  <2>1. Op \in {OP_NOT, OP_NEGATE} /\ Proceed /\ \E v : Replace(1, v)
    BY <1>5, <1>13 DEF Not, Negate, Executing
  <2>2. QED
    BY <1>2, <1>4, <1>6, <2>1, Shapes
<1>14. CASE Jump
  <2>1. Op \in JumpOps /\ UNCHANGED stackTop /\ code' = code
    BY <1>14 DEF Jump, Executing, stackVars, chunkVars
  <2>2. ip' \in Successors(code, ip)
    BY <1>14, JumpArrives
  <2>3. QED
    BY <1>3, <1>6, <2>1, <2>2, Shapes
<1>15. CASE Return
  <2>1. Op = OP_RETURN /\ UNCHANGED stackTop /\ Proceed
    BY <1>15 DEF Return, Executing, stackVars
  <2>2. QED
    BY <1>3, <1>4, <1>6, <2>1
<1>16. ~BadOpCode /\ ~EndRun /\ ~Abort /\ ~Misbehave /\ ~Hang
  BY <1>1, <1>5 DEF BadOpCode, EndRun, Abort, Misbehave, Hang, Running, IInv, TypeOK
<1>17. QED
  BY <1>7, <1>8, <1>9, <1>10, <1>11, <1>12, <1>13, <1>14, <1>15, <1>16 DEF RunStep

\* What is left after the whole multiples of m.
LEMMA Remainder ==
  ASSUME NEW m \in Nat \ {0}, NEW q \in Int, NEW r \in 0 .. (m - 1)
  PROVE  (m * q + r) % m = r
<1> DEFINE y == m * q + r
           d == y \div m
           s == y % m
<1>1. y = m * d + s /\ s \in 0 .. (m - 1) /\ d \in Int
  OBVIOUS
<1>2. m * (q - d) = s - r
  BY <1>1
<1>3. ASSUME q - d >= 1 PROVE FALSE
  <2>1. m * (q - d) >= m * 1
    BY <1>1, <1>3
  <2>2. QED
    BY <1>1, <1>2, <2>1
<1>4. ASSUME q - d <= -1 PROVE FALSE
  <2>1. m * (d - q) >= m * 1
    BY <1>1, <1>4
  <2>2. m * (d - q) = r - s
    BY <1>1
  <2>3. QED
    BY <1>1, <2>1, <2>2
<1>5. q = d
  BY <1>1, <1>3, <1>4
<1>6. s = r
  BY <1>1, <1>2, <1>5
<1>7. QED
  BY <1>6

\* Going on from a wrapped number is going on from the number and wrapping then.
LEMMA WrapsOnce ==
  ASSUME NEW m \in Nat \ {0}, NEW x \in Int, NEW e \in Int
  PROVE  ((x % m) + e) % m = (x + e) % m
<1> DEFINE r == x % m
           q == x \div m
           d == (x + e) \div m
           s == (x + e) % m
<1>1. x = m * q + r /\ r \in Int /\ q \in Int /\ x + e = m * d + s /\ s \in 0 .. (m - 1) /\ d \in Int
  OBVIOUS
<1>2. r + e = m * (d - q) + s
  <2>1. m * (d - q) = m * d - m * q
    BY <1>1
  <2>2. QED
    BY <1>1, <2>1
<1>3. (m * (d - q) + s) % m = s
  <2>1. d - q \in Int /\ s \in 0 .. (m - 1)
    BY <1>1
  <2> HIDE DEF q, d, s
  <2>2. QED
    BY <2>1, Remainder
<1>4. QED
  BY <1>2, <1>3

\* The heights stay right until the run ends, and then the stack is as it was.
LEMMA StepCounts ==
  ASSUME IInv, StackBalanced(code), JumpsLand(code), Len(code) < UsizeCount, ~Swallows, RunStep
  PROVE  \A b \in 0 .. (U8 - 1) : Counts(b) => Counts(b)'
<1> SUFFICES ASSUME NEW b \in 0 .. (U8 - 1), Counts(b)
             PROVE  Counts(b)'
  OBVIOUS
<1>1. U8 \in Nat \ {0} /\ stackTop \in 0 .. (U8 - 1) /\ ip \in Nat /\ Len(code) \in Nat
  BY U8Assumption DEF IInv, TypeOK
<1>2. CASE EndRun
  BY <1>1, <1>2 DEF EndRun, Counts, stackVars
<1>3. CASE ~EndRun /\ ~Running
  BY <1>1, <1>3 DEF RunStep, PushValue, PopValue, SetLocal, GetGlobal, DefineGlobal, SetGlobal,
     Equal, NumberOp, AddNumbers, Concatenate, AddFails, Not, Negate, Jump, Return,
     BadOpCode, Abort, Misbehave, Hang, Executing
<1>4. CASE Running
  <2>1. PICK r \in Heights(code) : r[1] = ip /\ stackTop = (b + r[2]) % U8
    BY <1>4 DEF Counts, Running
  <2>2. /\ Whole(code, ip) /\ \A j \in Successors(code, ip) : <<j, r[2] + Effect(Op)>> \in Heights(code)
        /\ Op = OP_RETURN => r[2] = 0 /\ ip = Len(code) - 1
    BY <2>1 DEF StackBalanced, JumpsLand, Op
  <2>3. r[2] \in Int
    BY <2>1 DEF StackBalanced
  <2>4. Op \in OpCodes /\ Effect(Op) \in {-1, 0, 1}
    BY <2>2, Shapes DEF Whole, Op
  <2>5. \A j \in Successors(code, ip) : j \in Nat /\ j < Len(code)
    <3>1. \A q \in Heights(code) : Whole(code, q[1])
      BY DEF StackBalanced
    <3>2. ASSUME NEW j \in Successors(code, ip) PROVE j \in Nat /\ j < Len(code)
      <4>1. PICK q \in Heights(code) : q = <<j, r[2] + Effect(Op)>>
        BY <2>2
      <4>2. Whole(code, j)
        BY <3>1, <4>1
      <4>3. QED
        BY <1>1, <4>2 DEF Whole
    <3>3. QED
      BY <3>2
  <2>6. CASE status' = "running"
    <3>1. /\ stackTop' = (stackTop + Effect(Op)) % U8 /\ code' = code
          /\ Op # OP_RETURN => ip' \in Successors(code, ip)
          /\ Op = OP_RETURN => ip' = NextIp
      BY <1>4, <2>4, <2>5, <2>6, HeightSteps
    <3>2. stackTop' = (b + (r[2] + Effect(Op))) % U8
      <4>1. (((b + r[2]) % U8) + Effect(Op)) % U8 = ((b + r[2]) + Effect(Op)) % U8
        <5>1. U8 \in Nat \ {0} /\ b + r[2] \in Int /\ Effect(Op) \in Int
          BY <1>1, <2>3, <2>4
        <5>2. QED
          BY <5>1, WrapsOnce
      <4>2. (b + r[2]) + Effect(Op) = b + (r[2] + Effect(Op))
        BY <2>3, <2>4
      <4>3. QED
        BY <2>1, <3>1, <4>1, <4>2
    <3>3. CASE Op # OP_RETURN
      <4>1. PICK q \in Heights(code) : q = <<ip', r[2] + Effect(Op)>>
        BY <2>2, <3>1, <3>3
      <4>2. q[1] = ip' /\ stackTop' = (b + q[2]) % U8
        BY <3>2, <4>1
      <4>3. ip' < Len(code')
        BY <2>5, <3>1, <3>3
      <4>4. QED
        BY <2>6, <3>1, <4>2, <4>3 DEF Counts
    <3>4. CASE Op = OP_RETURN
      <4>1. Effect(Op) = 0 /\ Length(Op) = 1
        BY <3>4 DEF Effect, NumberOps, Length, OP_RETURN, JumpOps, ConstantOps, LocalOps, OP_JUMP, OP_JUMP_IF_FALSE,
           OP_LOOP, OP_CONSTANT, OP_GET_GLOBAL, OP_DEFINE_GLOBAL, OP_SET_GLOBAL, OP_GET_LOCAL, OP_SET_LOCAL,
           OP_NIL, OP_TRUE, OP_FALSE, OP_POP, OP_PRINT, OP_EQUAL, OP_ADD, OP_GREATER, OP_LESS, OP_SUBTRACT,
           OP_MULTIPLY, OP_DIVIDE
      <4>2. ~(ip' < Len(code'))
        BY <1>1, <2>2, <3>1, <3>4, <4>1 DEF NextIp
      <4>3. stackTop' = b
        BY <1>1, <2>2, <3>2, <3>4, <4>1
      <4>4. QED
        BY <2>6, <4>2, <4>3 DEF Counts
    <3>5. QED
      BY <3>3, <3>4
  <2>7. CASE status' # "running"
    <3>1. ~(status' = "idle" /\ result' = "INTERPRET_OK")
      <4>1. status = "running"
        BY <1>4 DEF Running
      <4>2. ~EndRun
        BY <1>1, <1>4 DEF EndRun, Running
      <4>3. ASSUME Proceed PROVE status' = "running"
        BY <4>1, <4>3 DEF Proceed
      <4>4. ASSUME Fail PROVE result' # "INTERPRET_OK"
        BY <4>4 DEF Fail
      <4>5. QED
        BY <2>7, <4>1, <4>2, <4>3, <4>4
           DEF RunStep, PushValue, PopValue, SetLocal, GetGlobal, DefineGlobal, SetGlobal, Equal, NumberOp, AddNumbers,
               Concatenate, AddFails, Not, Negate, Jump, Return, BadOpCode, Abort, Misbehave, Hang, Stop
    <3>2. QED
      BY <2>7, <3>1 DEF Counts
  <2>8. QED
    BY <2>6, <2>7
<1>5. QED
  BY <1>2, <1>3, <1>4

-----------------------------------------------------------------------------
\* Verified chunks never make the VM leave its stack or its code, call a null
\* pointer or throw, in whatever order they are loaded, runtime errors included.
THEOREM VerifiedChunksAreSafe == HSpec => []VerifiedIsSafe
<1>1. SInv => VerifiedIsSafe
  BY DEF SInv, Safe, VerifiedIsSafe
<1>2. QED
  BY <1>1, SafeInvariance, PTL

\* The height of the stack at an instruction of a verified chunk is the one that
\* its bytes determine, whichever way the run came there.
THEOREM HeightsAreStatic == HSpec => []StackIsStatic
<1>1. SInv => StackIsStatic
  BY DEF SInv, Safe, OnTrack, Running, StackIsStatic
<1>2. QED
  BY <1>1, SafeInvariance, PTL
=============================================================================
