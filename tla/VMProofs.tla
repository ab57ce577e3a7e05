------------------------------ MODULE VMProofs ------------------------------
(***************************************************************************)
(* Proofs about VM for every chunk, stack size, table capacity, hash and   *)
(* set of values: whatever bytes are run, the members of VirtualMachine    *)
(* keep their types, and its tables their names.                           *)
(***************************************************************************)
EXTENDS VMChecks, TableProofs

USE CapacityAssumption, HashAssumption, NullAssumption, NoSlotAssumption

-----------------------------------------------------------------------------
(***************************************************************************)
(* What an instruction reads is of the right type.                         *)
(***************************************************************************)

\* The byte at ip, and the offset after its operands.
LEMMA FetchTypes ==
  ASSUME TypeOK, Running
  PROVE  Op \in Nat /\ NextIp \in Nat /\ NextIp > ip
<1>1. ip + 1 \in 1 .. Len(code)
  BY DEF TypeOK, Running
<1>2. Op \in Nat
  BY <1>1 DEF TypeOK, Op
<1>3. Length(Op) \in {1, 2, 3}
  BY DEF Length
<1>4. QED
  BY <1>2, <1>3 DEF NextIp, TypeOK

\* The operand byte of a constant or of a local.
LEMMA OperandTypes ==
  ASSUME TypeOK, Running, InRange, Op \in ConstantOps \union LocalOps
  PROVE  Operand \in Nat
<1>1. Length(Op) = 2
  BY DEF Length, ConstantOps, LocalOps, JumpOps, OP_CONSTANT, OP_GET_GLOBAL, OP_DEFINE_GLOBAL,
         OP_SET_GLOBAL, OP_GET_LOCAL, OP_SET_LOCAL, OP_JUMP, OP_JUMP_IF_FALSE, OP_LOOP
<1>2. ip + 2 \in 1 .. Len(code)
  BY <1>1 DEF InRange, NextIp, TypeOK, Running
<1>3. QED
  BY <1>2 DEF Operand, TypeOK

\* The constant that it names.
LEMMA ConstantTypes ==
  ASSUME TypeOK, Running, InRange, Op \in ConstantOps
  PROVE  Constant \in Values
<1>1. Operand \in Nat /\ Operand < Len(constants)
  BY OperandTypes DEF InRange
<1>2. Operand + 1 \in 1 .. Len(constants)
  BY <1>1 DEF TypeOK
<1>3. QED
  BY <1>2 DEF Constant, TypeOK

\* The distance of a jump.
LEMMA ShortTypes ==
  ASSUME TypeOK, Running, InRange, Op \in JumpOps
  PROVE  Short(code, ip + 1) \in Nat
<1>1. Length(Op) = 3
  BY DEF Length
<1>2. ip + 2 \in 1 .. Len(code) /\ ip + 3 \in 1 .. Len(code)
  BY <1>1 DEF InRange, NextIp, TypeOK, Running
<1>3. code[ip + 2] \in Nat /\ code[ip + 3] \in Nat /\ U8 \in Nat
  BY <1>2, U8Assumption DEF TypeOK
<1>4. code[ip + 2] * U8 \in Nat
  BY <1>3
<1>5. ip + 1 + 1 = ip + 2 /\ ip + 1 + 2 = ip + 3
  BY DEF TypeOK
<1>6. QED
  BY <1>3, <1>4, <1>5 DEF Short

\* A value of the stack, counted from the top or from the bottom.
LEMMA StackTypes ==
  ASSUME TypeOK, NEW n \in Nat
  PROVE  Below(n) \in Values /\ stack[n % U8] \in Values
<1>1. (stackTop - 1 - n) % U8 \in 0 .. (U8 - 1) /\ n % U8 \in 0 .. (U8 - 1)
  BY U8Assumption DEF TypeOK
<1>2. QED
  BY <1>1 DEF Below, TypeOK

-----------------------------------------------------------------------------
(***************************************************************************)
(* What it leaves is of the right type.                                    *)
(***************************************************************************)
StackOK == stack \in [0 .. (U8 - 1) -> Values] /\ stackTop \in 0 .. (U8 - 1)

\* Pops and a push.
LEMMA ReplaceTypes ==
  ASSUME TypeOK, NEW n \in Nat, NEW v \in Values, Replace(n, v)
  PROVE  StackOK'
<1>1. (stackTop - n) % U8 \in 0 .. (U8 - 1) /\ (((stackTop - n) % U8) + 1) % U8 \in 0 .. (U8 - 1)
  BY U8Assumption DEF TypeOK
<1>2. QED
  BY <1>1 DEF Replace, StackOK, TypeOK

\* Pops alone.
LEMMA DropTypes ==
  ASSUME TypeOK, NEW n \in Nat, Drop(n)
  PROVE  StackOK'
  BY U8Assumption DEF Drop, StackOK, TypeOK

\* The end of an instruction.
LEMMA EndTypes ==
  ASSUME TypeOK, Running, Proceed \/ Fail, StackOK',
         globals' \in [Slots -> Entry], strings' \in [Slots -> Entry]
  PROVE  TypeOK'
  BY FetchTypes DEF Proceed, Fail, StackOK, TypeOK, chunkVars

\* The results of operators.
LEMMA ResultTypes ==
  /\ \A b : Bool(b) \in Values
  /\ BothNumbers => /\ \A op \in NumberOps \union {OP_ADD} : Computed(op) \in Values
                    /\ Top \in Numbers => Minus[Top] \in Values
<1>1. Numbers \subseteq Values /\ False \in Values /\ True \in Values
  BY ObjectsAssumption
<1>2. \A b : Bool(b) \in Values
  BY <1>1 DEF Bool
<1>3. ASSUME BothNumbers, NEW op \in NumberOps \union {OP_ADD} PROVE Computed(op) \in Values
  <2>1. CASE op \in {OP_LESS, OP_GREATER}
    BY <1>2, <2>1 DEF Computed, OP_LESS, OP_GREATER
  <2>2. CASE op \in {OP_ADD, OP_SUBTRACT, OP_MULTIPLY, OP_DIVIDE}
    <3>1. op # OP_LESS /\ op # OP_GREATER
      BY <2>2 DEF OP_LESS, OP_GREATER, OP_ADD, OP_SUBTRACT, OP_MULTIPLY, OP_DIVIDE
    <3>2. Computed(op) = Arithmetic[op][Below(1), Top]
      BY <3>1, Zenon DEF Computed
    <3>3. Arithmetic[op] \in [Numbers \X Numbers -> Numbers]
      BY <2>2, VMAssumption
    <3>4. <<Below(1), Top>> \in Numbers \X Numbers
      BY <1>3 DEF BothNumbers
    <3>5. Computed(op) \in Numbers
      BY <3>2, <3>3, <3>4, Zenon
    <3>6. QED
      BY <1>1, <3>5
  <2>3. QED
    BY <2>1, <2>2 DEF NumberOps
<1>4. Top \in Numbers => Minus[Top] \in Values
  BY <1>1, ObjectsAssumption
<1>5. QED
  BY <1>2, <1>3, <1>4

-----------------------------------------------------------------------------
(***************************************************************************)
(* The inductive invariant: the types, and that globals and strings are    *)
(* tables that sets and deletes leave, which is what lets the VM find a    *)
(* name again.  An interned string has no value, so that to intern the     *)
(* empty string once more, as find_string never finds it, changes nothing. *)
(***************************************************************************)
NoValues(tab) == \A s \in Slots : tab[s].key # Null => tab[s].value = Null
TablesOK == IsTable(globals) /\ IsTable(strings) /\ NoValues(strings)
IInv == TypeOK /\ TablesOK

\* An instruction that ends and leaves the tables alone keeps the invariant.
LEMMA KeepsTables ==
  ASSUME IInv, Running, Proceed \/ Fail, StackOK', UNCHANGED tables
  PROVE  IInv'
<1>1. TypeOK'
  BY EndTypes DEF IInv, TypeOK, tables
<1>2. TablesOK'
  BY DEF IInv, TablesOK, tables, IsTable, KeysOnce, ChainsWhole, NoValues, IsEmpty
<1>3. QED
  BY <1>1, <1>2 DEF IInv

\* A changed table must be a table again.
LEMMA KeepsChanged ==
  ASSUME IInv, Running, Proceed \/ Fail, StackOK',
         IsTable(globals'), IsTable(strings'), NoValues(strings')
  PROVE  IInv'
<1>1. TypeOK'
  BY EndTypes DEF IInv, IsTable
<1>2. QED
  BY <1>1 DEF IInv, TablesOK

\* A new VM has empty tables and no chunk.
LEMMA InvInit == Init => IInv
<1> SUFFICES ASSUME Init PROVE IInv
  OBVIOUS
<1>1. EmptyTable \in [Slots -> Entry] /\ NoValues(EmptyTable)
  BY DEF EmptyTable, Entry, NoValues
<1>2. stack \in [0 .. (U8 - 1) -> Values] /\ stackTop \in 0 .. (U8 - 1)
  BY VMAssumption DEF Init, EmptyStack
<1>3. code \in Seq(Nat) /\ constants \in Seq(Values)
  BY DEF Init
<1>4. QED
  BY <1>1, <1>2, <1>3, EmptyIsTable DEF Init, IInv, TypeOK, TablesOK

\* Loading a chunk touches neither stack nor tables.
LEMMA ChunkKeeps ==
  ASSUME IInv, code' \in Seq(Nat), constants' \in Seq(Values), ip' = 0, status' = "running",
         result' = "INTERPRET_RUNTIME_ERROR", UNCHANGED <<stackVars, tables>>
  PROVE  IInv'
<1>1. TypeOK'
  BY DEF IInv, TypeOK, stackVars, tables
<1>2. TablesOK'
  BY DEF IInv, TablesOK, tables, IsTable, KeysOnce, ChainsWhole, NoValues, IsEmpty
<1>3. QED
  BY <1>1, <1>2 DEF IInv

LEMMA LoadKeeps ==
  ASSUME IInv, NEW c \in Chunks, LoadNewChunk(c)
  PROVE  IInv'
<1>1. c.code \in Seq(Nat) /\ c.constants \in Seq(Values)
  BY VMAssumption
<1>2. QED
  BY <1>1, ChunkKeeps DEF LoadNewChunk

\* Instructions that leave the tables alone.
LEMMA PushKeeps ==
  ASSUME IInv, PushValue
  PROVE  IInv'
<1>1. TypeOK /\ Running /\ InRange /\ Proceed /\ UNCHANGED tables
  BY DEF IInv, PushValue, Executing
<1>2. CASE Op = OP_CONSTANT
  <2>1. Constant \in Values
    BY <1>1, <1>2, ConstantTypes DEF ConstantOps
  <2>2. Replace(0, Constant)
    BY <1>2 DEF PushValue, OP_CONSTANT, OP_NIL, OP_TRUE, OP_FALSE
  <2>3. StackOK'
    BY <1>1, <2>1, <2>2, ReplaceTypes
  <2>4. QED
    BY <1>1, <2>3, KeepsTables
<1>3. CASE Op \in {OP_NIL, OP_TRUE, OP_FALSE}
  <2>1. PICK v \in Values : Replace(0, v)
    BY <1>3, ObjectsAssumption
       DEF PushValue, OP_CONSTANT, OP_NIL, OP_TRUE, OP_FALSE
  <2>2. StackOK'
    BY <1>1, <2>1, ReplaceTypes
  <2>3. QED
    BY <1>1, <2>2, KeepsTables
<1>4. CASE Op = OP_GET_LOCAL
  <2>1. Operand \in Nat
    BY <1>1, <1>4, OperandTypes DEF LocalOps
  <2>2. stack[Operand % U8] \in Values
    BY <1>1, <2>1, StackTypes
  <2>3. Replace(0, stack[Operand % U8])
    BY <1>4 DEF PushValue, OP_CONSTANT, OP_NIL, OP_TRUE, OP_FALSE, OP_GET_LOCAL
  <2>4. StackOK'
    BY <1>1, <2>2, <2>3, ReplaceTypes
  <2>5. QED
    BY <1>1, <2>4, KeepsTables
<1>5. QED
  BY <1>2, <1>3, <1>4 DEF PushValue, Executing

\* Assignment to a local.
LEMMA SetLocalKeeps ==
  ASSUME IInv, SetLocal
  PROVE  IInv'
<1>1. TypeOK /\ Running /\ InRange /\ Proceed /\ UNCHANGED tables
  BY DEF IInv, SetLocal, Executing
<1>2. Top \in Values
  BY <1>1, StackTypes DEF Top
<1>3. StackOK'
  BY <1>1, <1>2 DEF SetLocal, StackOK, TypeOK
<1>4. QED
  BY <1>1, <1>3, KeepsTables

\* Operators that take values from the stack and push their result, or fail.
LEMMA OperatorsKeep ==
  ASSUME IInv, PopValue \/ Equal \/ NumberOp \/ AddNumbers \/ AddFails \/ Not \/ Negate
  PROVE  IInv'
<1>1. TypeOK /\ Running /\ (Proceed \/ Fail) /\ UNCHANGED tables
  BY DEF IInv, PopValue, Equal, NumberOp, AddNumbers, AddFails, Not, Negate, Executing
<1>2. CASE PopValue
  BY <1>1, <1>2, DropTypes, KeepsTables DEF PopValue
<1>3. CASE Equal \/ Not
  <2>1. PICK n \in Nat : \E b : Replace(n, Bool(b))
    BY <1>3 DEF Equal, Not
  <2>2. StackOK'
    BY <1>1, <2>1, ResultTypes, ReplaceTypes
  <2>3. QED
    BY <1>1, <2>2, KeepsTables
<1>4. CASE NumberOp
  <2>1. CASE BothNumbers
    <3>1. Computed(Op) \in Values /\ Replace(2, Computed(Op))
      BY <1>4, <2>1, ResultTypes DEF NumberOp, Executing
    <3>2. StackOK'
      BY <1>1, <3>1, ReplaceTypes
    <3>3. QED
      BY <1>1, <3>2, KeepsTables
  <2>2. CASE ~BothNumbers
    BY <1>1, <1>4, <2>2, DropTypes, KeepsTables DEF NumberOp
  <2>3. QED
    BY <2>1, <2>2
<1>5. CASE AddNumbers
  <2>1. Computed(OP_ADD) \in Values /\ Replace(2, Computed(OP_ADD))
    BY <1>5, ResultTypes DEF AddNumbers
  <2>2. StackOK'
    BY <1>1, <2>1, ReplaceTypes
  <2>3. QED
    BY <1>1, <2>2, KeepsTables
<1>6. CASE AddFails
  <2>1. StackOK'
    BY <1>1, <1>6 DEF AddFails, stackVars, StackOK, TypeOK
  <2>2. QED
    BY <1>1, <2>1, KeepsTables
<1>7. CASE Negate
  <2>1. CASE Top \in Numbers
    <3>1. Minus[Top] \in Values /\ Replace(1, Minus[Top])
      BY <1>7, <2>1, ObjectsAssumption DEF Negate
    <3>2. StackOK'
      BY <1>1, <3>1, ReplaceTypes
    <3>3. QED
      BY <1>1, <3>2, KeepsTables
  <2>2. CASE Top \notin Numbers
    <3>1. StackOK'
      BY <1>1, <1>7, <2>2 DEF Negate, stackVars, StackOK, TypeOK
    <3>2. QED
      BY <1>1, <3>1, KeepsTables
  <2>3. QED
    BY <2>1, <2>2
<1>8. QED
  BY <1>2, <1>3, <1>4, <1>5, <1>6, <1>7

\* Steps that change neither stack nor tables.
LEMMA ControlKeeps ==
  ASSUME IInv, Jump \/ Return \/ BadOpCode \/ EndRun \/ Abort \/ Misbehave \/ Hang
  PROVE  IInv'
<1>1. UNCHANGED <<code, constants, stack, stackTop, globals, strings>>
  BY DEF Jump, Return, BadOpCode, EndRun, Abort, Misbehave, Hang, Proceed, Stop,
         chunkVars, stackVars, tables
<1>2. result' \in {"INTERPRET_OK", "INTERPRET_RUNTIME_ERROR"}
  BY DEF IInv, TypeOK, Jump, Return, BadOpCode, EndRun, Abort, Misbehave, Hang, Proceed, Stop
<1>3. status' \in {"idle", "running", "hung", "aborted", "undefined"}
  BY DEF IInv, TypeOK, Jump, Return, BadOpCode, EndRun, Abort, Misbehave, Hang, Proceed, Stop
<1>4. ip' \in Nat
  <2>1. CASE Jump
    <3>1. NextIp \in Nat /\ Short(code, ip + 1) \in Nat
      BY <2>1, FetchTypes, ShortTypes DEF IInv, Jump, Executing
    <3>2. (NextIp - Short(code, ip + 1)) % UsizeCount \in Nat
      BY <3>1, VMAssumption
    <3>3. QED
      BY <2>1, <3>1, <3>2 DEF Jump
  <2>2. CASE Return \/ BadOpCode
    BY <2>2, FetchTypes DEF IInv, Return, BadOpCode, Executing, Proceed
  <2>3. CASE EndRun \/ Abort \/ Misbehave \/ Hang
    BY <2>3 DEF IInv, TypeOK, EndRun, Abort, Misbehave, Hang, Stop
  <2>4. QED
    BY <2>1, <2>2, <2>3
<1>5. TypeOK'
  BY <1>1, <1>2, <1>3, <1>4 DEF IInv, TypeOK
<1>6. TablesOK'
  BY <1>1 DEF IInv, TablesOK, IsTable, KeysOnce, ChainsWhole, NoValues, IsEmpty
<1>7. QED
  BY <1>5, <1>6 DEF IInv

-----------------------------------------------------------------------------
(***************************************************************************)
(* Instructions that use the tables.                                       *)
(***************************************************************************)

\* An instruction on a global has a name and a value to go with it.
LEMMA NameTypes ==
  ASSUME IInv, Executing(NameOps)
  PROVE  Constant \in Keys /\ Top \in Values
<1>1. Top \in Values
  BY StackTypes DEF IInv, Top
<1>2. QED
  BY <1>1 DEF Executing, IsUndefined

\* Reading a global pushes its value or fails.
LEMMA GetGlobalKeeps ==
  ASSUME IInv, GetGlobal
  PROVE  IInv'
<1> DEFINE slot == FindEntry(globals, Constant)
<1>1. TypeOK /\ Running /\ UNCHANGED tables /\ Constant \in Keys /\ slot # NoSlot
  BY NameTypes DEF IInv, GetGlobal, Executing, NameOps, ConstantOps,
                   OP_CONSTANT, OP_GET_GLOBAL, OP_DEFINE_GLOBAL, OP_SET_GLOBAL
<1>2. CASE globals[slot].key # Null
  <2>1. slot \in Slots
    BY <1>1, FoundSlot DEF IInv, TablesOK
  <2>2. globals[slot].value \in Values
    BY <1>1, <2>1 DEF TypeOK, Entry
  <2>3. Replace(0, globals[slot].value) /\ Proceed
    BY <1>2 DEF GetGlobal
  <2>4. StackOK'
    BY <1>1, <2>2, <2>3, ReplaceTypes
  <2>5. QED
    BY <1>1, <2>3, <2>4, KeepsTables
<1>3. CASE globals[slot].key = Null
  <2>1. UNCHANGED stackVars /\ Fail
    BY <1>3 DEF GetGlobal
  <2>2. StackOK'
    BY <1>1, <2>1 DEF stackVars, StackOK, TypeOK
  <2>3. QED
    BY <1>1, <2>1, <2>2, KeepsTables
<1>4. QED
  BY <1>2, <1>3

\* Defining a global is a set.
LEMMA DefineGlobalStores ==
  ASSUME IInv, DefineGlobal
  PROVE  \E k \in Keys, v \in Values :
           /\ v = Top
           /\ FindEntry(globals, k) # NoSlot
           /\ globals' = Store(globals, FindEntry(globals, k), k, v)
  BY NameTypes DEF DefineGlobal, Executing, NameOps, ConstantOps,
                   OP_CONSTANT, OP_GET_GLOBAL, OP_DEFINE_GLOBAL, OP_SET_GLOBAL

\* An assignment to a global is a set, or leaves a tombstone in a free slot.
LEMMA SetGlobalStores ==
  ASSUME IInv, SetGlobal
  PROVE  \E k \in Keys, v \in Values :
           LET slot == FindEntry(globals, k)
           IN  /\ v = Top /\ slot # NoSlot
               /\ \/ /\ globals[slot].key # Null
                     /\ globals' = Store(globals, slot, k, v)
                     /\ Proceed
                  \/ /\ globals[slot].key = Null
                     /\ globals' = [globals EXCEPT ![slot] = [key |-> Null, value |-> True]]
                     /\ IsTable(globals')
                     /\ Fail
<1> DEFINE slot   == FindEntry(globals, Constant)
           stored == Store(globals, slot, Constant, Top)
<1>1. Constant \in Keys /\ Top \in Values /\ slot # NoSlot
  BY NameTypes DEF SetGlobal, Executing, NameOps, ConstantOps,
                   OP_CONSTANT, OP_GET_GLOBAL, OP_DEFINE_GLOBAL, OP_SET_GLOBAL
<1>2. CASE globals[slot].key # Null
  BY <1>1, <1>2 DEF SetGlobal
<1>3. CASE globals[slot].key = Null
  <2>1. globals' = Erase(stored, FindEntry(stored, Constant)) /\ Fail
    BY <1>3 DEF SetGlobal
  <2>2. /\ IsTable(globals')
        /\ globals' = [globals EXCEPT ![slot] = [key |-> Null, value |-> True]]
    BY <1>1, <1>3, <2>1, StoreThenErase DEF IInv, TablesOK
  <2>3. QED
    BY <1>1, <1>3, <2>1, <2>2
<1>4. QED
  BY <1>2, <1>3

\* A concatenation interns its result, unless it finds it.
LEMMA ConcatenateStores ==
  ASSUME IInv, Concatenate
  PROVE  \E k \in Keys :
           /\ Replace(2, k)
           /\ \/ strings' = strings
              \/ /\ FindEntry(strings, k) # NoSlot
                 /\ strings' = Store(strings, FindEntry(strings, k), k, Null)
<1> DEFINE k     == Concat[Below(1), Top]
           found == FindString(strings, k)
           stops == EmptySlots(strings) \union (IF k = EmptyString THEN {} ELSE StoredAt(strings, k))
<1>1. k \in Keys
  BY ObjectsAssumption DEF Concatenate, Intern
<1>2. Replace(2, k) /\ found # NoSlot
  BY DEF Concatenate, Intern
<1>3. CASE strings[found].key # Null
  BY <1>1, <1>2, <1>3 DEF Concatenate, Intern
<1>4. CASE strings[found].key = Null
  <2>1. found = Nearest(k, stops) /\ stops # {}
    BY <1>2 DEF FindString
  <2>2. found \in stops
    BY <1>1, <2>1, NearestIsFirst DEF EmptySlots, StoredAt
  <2>3. found \in EmptySlots(strings)
    BY <1>1, <1>4, <2>2 DEF StoredAt
  <2>4. FindEntry(strings, k) # NoSlot
    BY <1>1, <2>3, RoomIsFound
  <2>5. strings' = Store(strings, FindEntry(strings, k), k, Null)
    BY <1>4 DEF Concatenate, Intern
  <2>6. QED
    BY <1>1, <1>2, <2>4, <2>5
<1>5. QED
  BY <1>3, <1>4

\* A definition of a global and an assignment keep the invariant.
LEMMA GlobalsKeep ==
  ASSUME IInv, DefineGlobal \/ SetGlobal
  PROVE  IInv'
<1>1. TypeOK /\ Running /\ (Proceed \/ Fail) /\ strings' = strings
  BY DEF IInv, DefineGlobal, SetGlobal, Executing
<1>2. IsTable(strings') /\ NoValues(strings')
  BY <1>1 DEF IInv, TablesOK
<1>3. CASE DefineGlobal
  <2>1. StackOK'
    BY <1>1, <1>3, DropTypes DEF DefineGlobal
  <2>2. IsTable(globals')
    BY <1>3, DefineGlobalStores, StoreKeeps DEF IInv, TablesOK
  <2>3. QED
    BY <1>1, <1>2, <2>1, <2>2, KeepsChanged
<1>4. CASE SetGlobal
  <2>1. StackOK'
    BY <1>1, <1>4 DEF SetGlobal, stackVars, StackOK, TypeOK
  <2>2. IsTable(globals')
    BY <1>4, SetGlobalStores, StoreKeeps DEF IInv, TablesOK
  <2>3. QED
    BY <1>1, <1>2, <2>1, <2>2, KeepsChanged
<1>5. QED
  BY <1>3, <1>4

\* So does a concatenation, which may intern a string.
LEMMA ConcatenateKeeps ==
  ASSUME IInv, Concatenate
  PROVE  IInv'
<1>1. TypeOK /\ Running /\ Proceed /\ IsTable(globals')
  BY DEF IInv, TablesOK, Concatenate, Intern, Executing
<1>2. PICK k \in Keys :
        /\ Replace(2, k)
        /\ \/ strings' = strings
           \/ /\ FindEntry(strings, k) # NoSlot
              /\ strings' = Store(strings, FindEntry(strings, k), k, Null)
  BY ConcatenateStores
<1>3. StackOK'
  BY <1>1, <1>2, ObjectsAssumption, ReplaceTypes
<1>4. CASE strings' = strings
  BY <1>1, <1>3, <1>4, KeepsChanged DEF IInv, TablesOK
<1>5. CASE strings' # strings
  <2>1. IsTable(strings')
    BY <1>2, <1>5, StoreKeeps DEF IInv, TablesOK
  <2>2. NoValues(strings')
    BY <1>2, <1>5, FoundSlot DEF IInv, TablesOK, NoValues, Store, IsTable
  <2>3. QED
    BY <1>1, <1>3, <2>1, <2>2, KeepsChanged
<1>6. QED
  BY <1>4, <1>5

FamilyOK == family \in DOMAIN Families

\* Every instruction keeps the invariant.
LEMMA RunKeeps ==
  ASSUME IInv, RunStep
  PROVE  IInv'
BY PushKeeps, SetLocalKeeps, OperatorsKeep, ControlKeeps, GetGlobalKeeps, GlobalsKeep, ConcatenateKeeps DEF RunStep

\* Every step keeps the invariant, and the family that the chunks come from.
LEMMA InvStep == IInv /\ FamilyOK /\ [HNext]_hvars => IInv' /\ FamilyOK'
<1> SUFFICES ASSUME IInv, FamilyOK, [HNext]_hvars PROVE IInv' /\ FamilyOK'
  OBVIOUS
<1>0. FamilyOK'
  BY DEF FamilyOK, HNext, Load, Run, hvars
<1> SUFFICES IInv'
  BY <1>0
<1>1. CASE Load
  BY <1>1, LoadKeeps, FamiliesAssumption DEF Load, FamilyOK
<1>2. CASE RunStep
  BY <1>2, RunKeeps
<1>3. CASE UNCHANGED hvars
  <2>1. UNCHANGED <<code, constants, ip, stack, stackTop, globals, strings, status, result>>
    BY <1>3 DEF hvars, vars, chunkVars, stackVars, tables
  <2>2. TypeOK'
    BY <2>1 DEF IInv, TypeOK
  <2>3. TablesOK'
    BY <2>1 DEF IInv, TablesOK, IsTable, KeysOnce, ChainsWhole, NoValues, IsEmpty
  <2>4. QED
    BY <2>2, <2>3 DEF IInv
<1>4. QED
  BY <1>1, <1>2, <1>3 DEF HNext, Run

\* The invariant holds in every reachable state.
LEMMA Invariance == HSpec => []IInv
<1>1. HInit => IInv /\ FamilyOK
  BY InvInit DEF HInit, FamilyOK
<1>2. QED
  BY <1>1, InvStep, PTL DEF HSpec

\* Whatever the bytes of the chunks, the members of VirtualMachine keep their
\* types: m_stack_top stays inside m_stack.
THEOREM VMTypeCorrect == HSpec => []TypeOK
<1>1. IInv => TypeOK
  BY DEF IInv
<1>2. QED
  BY <1>1, Invariance, PTL

\* No global and no interned string ever has two slots, although failed
\* assignments leave tombstones among them.
THEOREM NamesOnce == HSpec => []NoNameTwice
<1>1. IInv => NoNameTwice
  BY DEF IInv, TablesOK, IsTable, KeysOnce, NoNameTwice
<1>2. QED
  BY <1>1, Invariance, PTL

-----------------------------------------------------------------------------
(***************************************************************************)
(* What steps do to the contents of the tables.                            *)
(***************************************************************************)

\* A set keeps the names there are.
LEMMA StoreKeepsNames ==
  ASSUME NEW tab, IsTable(tab), NEW k \in Keys, NEW v \in Values, FindEntry(tab, k) # NoSlot
  PROVE  \A g \in Contents(tab) :
           \E h \in Contents(Store(tab, FindEntry(tab, k), k, v)) : h[1] = g[1]
<1> DEFINE slot == FindEntry(tab, k)
           new  == Store(tab, slot, k, v)
<1>1. slot \in Slots /\ tab[slot].key \in {k, Null}
  BY FoundSlot
<1>2. new[slot] = [key |-> k, value |-> v] /\ \A s \in Slots : s # slot => new[s] = tab[s]
  BY <1>1 DEF Store, IsTable
<1>3. \A s \in Slots : tab[s].key # Null => new[s].key = tab[s].key
  BY <1>1, <1>2
<1> HIDE DEF slot, new
<1>4. ASSUME NEW g \in Contents(tab)
      PROVE  \E h \in Contents(new) : h[1] = g[1]
  <2>1. PICK s \in Slots : tab[s].key # Null /\ g = <<tab[s].key, tab[s].value>>
    BY <1>4 DEF Contents
  <2>2. <<new[s].key, new[s].value>> \in Contents(new)
    BY <1>3, <2>1 DEF Contents
  <2>3. QED
    BY <1>3, <2>1, <2>2
<1>5. QED
  BY <1>4 DEF slot, new

\* A tombstone in a free slot changes no contents.
LEMMA TombstoneKeepsContents ==
  ASSUME NEW tab, IsTable(tab), NEW s \in Slots, tab[s].key = Null
  PROVE  Contents([tab EXCEPT ![s] = [key |-> Null, value |-> True]]) = Contents(tab)
  BY DEF Contents, IsTable

\* Which steps change the tables, and how.
LEMMA TablesChange ==
  ASSUME IInv, [HNext]_hvars
  PROVE  /\ globals' = globals \/ DefineGlobal \/ SetGlobal
         /\ strings' = strings \/ Concatenate
<1>1. CASE Load
  BY <1>1 DEF Load, LoadNewChunk, tables
<1>2. CASE RunStep
  BY <1>2 DEF RunStep, PushValue, PopValue, SetLocal, GetGlobal, DefineGlobal, SetGlobal,
              Equal, NumberOp, AddNumbers, Concatenate, Intern, AddFails, Not, Negate, Jump, Return,
              BadOpCode, EndRun, Abort, Misbehave, Hang, Stop, tables
<1>3. CASE UNCHANGED hvars
  BY <1>3 DEF hvars, vars, tables
<1>4. QED
  BY <1>1, <1>2, <1>3 DEF HNext, Run

\* After a runtime error the globals are what they were, an assignment to an
\* undefined name included, which stores its value before it finds out.
THEOREM ErrorsKeep == HSpec => ErrorsKeepGlobals
<1> DEFINE Kept == result' = "INTERPRET_RUNTIME_ERROR" => Contents(globals') = Contents(globals)
<1>1. ASSUME IInv, [HNext]_hvars PROVE Kept
  <2>1. CASE globals' = globals
    BY <2>1
  <2>2. CASE DefineGlobal
    BY <2>2 DEF DefineGlobal, Proceed
  <2>3. CASE SetGlobal
    <3>1. PICK k \in Keys :
            \/ Proceed
            \/ /\ FindEntry(globals, k) # NoSlot
               /\ globals[FindEntry(globals, k)].key = Null
               /\ globals' = [globals EXCEPT ![FindEntry(globals, k)] = [key |-> Null, value |-> True]]
      BY <1>1, <2>3, SetGlobalStores
    <3>2. CASE Proceed
      BY <3>2 DEF Proceed
    <3>3. CASE ~Proceed
      BY <1>1, <3>1, <3>3, FoundSlot, TombstoneKeepsContents DEF IInv, TablesOK
    <3>4. QED
      BY <3>2, <3>3
  <2>4. QED
    BY <1>1, <2>1, <2>2, <2>3, TablesChange
<1>2. IInv /\ [HNext]_hvars => [Kept]_vars
  BY <1>1
<1>3. QED
  BY <1>2, Invariance, PTL DEF HSpec, ErrorsKeepGlobals

\* A defined global stays defined, and an interned string interned, for all
\* lines of a session.
THEOREM NamesStayDefined == HSpec => NamesStay
<1> DEFINE Globals == \A g \in Contents(globals) : \E h \in Contents(globals') : h[1] = g[1]
           Strings == Contents(strings) \subseteq Contents(strings')
<1>1. ASSUME IInv, [HNext]_hvars PROVE Globals
  <2>1. CASE globals' = globals
    BY <2>1
  <2>2. CASE DefineGlobal
    BY <1>1, <2>2, DefineGlobalStores, StoreKeepsNames DEF IInv, TablesOK
  <2>3. CASE SetGlobal
    <3>1. PICK k \in Keys, v \in Values :
            /\ FindEntry(globals, k) # NoSlot
            /\ \/ globals' = Store(globals, FindEntry(globals, k), k, v)
               \/ /\ globals[FindEntry(globals, k)].key = Null
                  /\ globals' = [globals EXCEPT ![FindEntry(globals, k)] = [key |-> Null, value |-> True]]
      BY <1>1, <2>3, SetGlobalStores
    <3>2. CASE globals' = Store(globals, FindEntry(globals, k), k, v)
      BY <1>1, <3>1, <3>2, StoreKeepsNames DEF IInv, TablesOK
    <3>3. CASE globals' # Store(globals, FindEntry(globals, k), k, v)
      <4>1. Contents(globals') = Contents(globals)
        BY <1>1, <3>1, <3>3, FoundSlot, TombstoneKeepsContents DEF IInv, TablesOK
      <4>2. QED
        BY <4>1
    <3>4. QED
      BY <3>2, <3>3
  <2>4. QED
    BY <1>1, <2>1, <2>2, <2>3, TablesChange
<1>2. ASSUME IInv, [HNext]_hvars PROVE Strings
  <2>1. CASE strings' = strings
    BY <2>1
  <2>2. CASE strings' # strings
    <3>1. PICK k \in Keys : /\ FindEntry(strings, k) # NoSlot
                            /\ strings' = Store(strings, FindEntry(strings, k), k, Null)
      BY <1>2, <2>2, TablesChange, ConcatenateStores
    <3>2. \A s \in Slots : strings[s].key # Null =>
             strings'[s].key = strings[s].key /\ strings'[s].value = strings[s].value
      BY <1>2, <3>1, FoundSlot DEF IInv, TablesOK, NoValues, IsTable, Store
    <3>3. QED
      BY <3>2 DEF Contents
  <2>3. QED
    BY <2>1, <2>2
<1>3. IInv /\ [HNext]_hvars => [Globals /\ Strings]_vars
  BY <1>1, <1>2
<1>4. QED
  BY <1>3, Invariance, PTL DEF HSpec, NamesStay
=============================================================================
