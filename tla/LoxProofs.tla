------------------------------ MODULE LoxProofs ------------------------------
(***************************************************************************)
(* Proofs, for every set of sessions, lines and limits, that compiler and  *)
(* VM fit: what CodeProofs shows of the code that the compiler accepts is  *)
(* what VMSafetyProofs asks of the chunks that the VM is given.            *)
(***************************************************************************)
EXTENDS LoxChecks, SequenceTheorems, TLAPS

\* What may be typed, or be in the file.
Lines == UNION {Sessions[s].lines : s \in DOMAIN Sessions}

\* The theorems about the compiler of a line, and about the VM, which is loaded
\* with no chunk but those.
CP == INSTANCE CodeProofs WITH code <- newCode, constants <- newConstants,
        source <- Source(line), Sources <- {Source(l) : l \in Lines}
VP == INSTANCE VMSafetyProofs WITH Chunks <- {}, Families <- <<>>, family <- "", loads <- 0

-----------------------------------------------------------------------------
(***************************************************************************)
(* The instances' assumptions, and the lemmas about them that are used.    *)
(***************************************************************************)

\* A line is a sequence of tokens, so that its source is one.
LEMMA LineTokens ==
  ASSUME NEW l \in Lines
  PROVE  l \in Seq({l[i] : i \in DOMAIN l}) /\ \A i \in 1 .. Len(l) : IsToken(l[i])
<1>1. PICK s \in DOMAIN Sessions : l \in Sessions[s].lines
  BY DEF Lines
<1>2. l \in Seq({l[i] : i \in DOMAIN l}) /\ \A i \in DOMAIN l : IsToken(l[i])
  BY <1>1, SessionsAssumption
<1>3. QED
  BY <1>2

\* That is what CompilerChecks assumes of sources, ...
LEMMA LinesAreSources ==
  \A s \in {Source(l) : l \in Lines} :
    /\ \A t \in s.tokens : DOMAIN t = {"type", "lexeme"} /\ t.type # "eof"
    /\ s.length \in Nat
    /\ s.scanErrors \subseteq BOOLEAN
    /\ s.goesOn \in BOOLEAN
<1>1. SUFFICES ASSUME NEW l \in Lines
               PROVE  LET s == Source(l)
                      IN  /\ \A t \in s.tokens : DOMAIN t = {"type", "lexeme"} /\ t.type # "eof"
                          /\ s.length \in Nat
                          /\ s.scanErrors \subseteq BOOLEAN
                          /\ s.goesOn \in BOOLEAN
  OBVIOUS
<1>2. Len(l) \in Nat /\ \A i \in 1 .. Len(l) : DOMAIN l[i] = {"type", "lexeme"} /\ l[i].type # "eof"
  <2>1. l \in Seq({l[i] : i \in DOMAIN l}) /\ \A i \in 1 .. Len(l) : IsToken(l[i])
    BY LineTokens
  <2>2. Len(l) \in Nat
    BY <2>1
  <2>3. QED
    BY <2>1, <2>2, Zenon DEF IsToken
<1>3. /\ Source(l).tokens = {l[i] : i \in 1 .. Len(l)} /\ Source(l).length = Len(l)
      /\ Source(l).scanErrors = {FALSE} /\ Source(l).goesOn = TRUE
  BY DEF Source
<1>4. \A t \in Source(l).tokens : DOMAIN t = {"type", "lexeme"} /\ t.type # "eof"
  BY <1>2, <1>3
<1>5. QED
  BY <1>2, <1>3, <1>4

\* ... and this what VM and VMChecks assume, with no chunk but the compiler's.
LEMMA NoChunks ==
  /\ {} \subseteq [code : Seq(Nat), constants : Seq(Values)]
  /\ InitialTops \subseteq 0 .. (U8 - 1)
  /\ UsizeCount \in Nat \ {0}
  /\ \A c \in {} : Len(c.code) < UsizeCount
  /\ Arithmetic \in [{VP!OP_ADD, VP!OP_SUBTRACT, VP!OP_MULTIPLY, VP!OP_DIVIDE}
                       -> [Numbers \X Numbers -> Numbers]]
BY LoxAssumption DEF OP_ADD, OP_SUBTRACT, OP_MULTIPLY, OP_DIVIDE,
   VP!OP_ADD, VP!OP_SUBTRACT, VP!OP_MULTIPLY, VP!OP_DIVIDE

\* Nor any family of them.
LEMMA NoFamilies == \A f \in DOMAIN <<>> : <<>>[f].chunks \subseteq {} /\ <<>>[f].loads \in Nat
OBVIOUS

\* The invariants of CompilerProofs and CodeProofs, of the compiler of a line.
CompilerInv == CP!IInv /\ CP!NamesInv /\ CP!CodeInv

\* A new compiler.
LEMMA CompilerStarts == CP!HInit => CompilerInv
BY U8Assumption, NoDepthAssumption, LinesAreSources, CP!IInvInit, CP!NamesInit, CP!CodeInvInit DEF CompilerInv

\* Its steps.
LEMMA CompilerGoesOn == CompilerInv /\ [CP!HNext]_(CP!hvars) => CompilerInv'
<1> SUFFICES ASSUME CompilerInv, [CP!HNext]_(CP!hvars)
             PROVE  CompilerInv'
  OBVIOUS
<1>1. CP!IInv'
  BY U8Assumption, NoDepthAssumption, LinesAreSources, CP!IInvNext DEF CompilerInv
<1>2. CP!NamesInv'
  BY <1>1, U8Assumption, NoDepthAssumption, LinesAreSources, CP!NamesNext DEF CompilerInv
<1>3. CP!CodeInv'
  BY <1>1, U8Assumption, NoDepthAssumption, LinesAreSources, CP!CodeInvNext DEF CompilerInv
<1>4. QED
  BY <1>1, <1>2, <1>3 DEF CompilerInv

\* What it accepts.
LEMMA CompilerAccepts == CompilerInv => CP!JumpsPatched /\ CP!ConstantsThere /\ CP!CodeBalanced
BY U8Assumption, NoDepthAssumption, LinesAreSources, CP!AcceptedLands, CP!AcceptedHasConstants, CP!AcceptedIsBalanced
   DEF CompilerInv

\* The VM, from an instruction to the next.
LEMMA VMKeeps == VP!IInv /\ VP!RunStep => VP!IInv'
BY U8Assumption, CapacityAssumption, HashAssumption, NullAssumption, NoSlotAssumption, ObjectsAssumption,
   NoChunks, NoFamilies, VP!RunKeeps

\* It is safe where the stack has room.
LEMMA VMIsSafe == VP!IInv /\ VP!SInv /\ sound /\ ~VP!Swallows /\ ~VP!Overflows /\ VP!RunStep => VP!Safe'
BY U8Assumption, CapacityAssumption, HashAssumption, NullAssumption, NoSlotAssumption, ObjectsAssumption,
   NoChunks, NoFamilies, VP!StepIsSafe

\* Its stack keeps the heights that are counted.
LEMMA VMCounts ==
  VP!IInv /\ VP!StackBalanced(code) /\ VP!JumpsLand(code) /\ Len(code) < UsizeCount /\ ~VP!Swallows /\ VP!RunStep
    => \A b \in 0 .. (U8 - 1) : VP!Counts(b) => VP!Counts(b)'
BY U8Assumption, CapacityAssumption, HashAssumption, NullAssumption, NoSlotAssumption, ObjectsAssumption,
   NoChunks, NoFamilies, VP!StepCounts

\* The VM, when it gets a chunk.
LEMMA VMLoads ==
  VP!IInv /\ code' \in Seq(Nat) /\ constants' \in Seq(Values) /\ ip' = 0 /\ status' = "running"
    /\ result' = "INTERPRET_RUNTIME_ERROR" /\ UNCHANGED <<VP!stackVars, VP!tables>> => VP!IInv'
BY U8Assumption, CapacityAssumption, HashAssumption, NullAssumption, NoSlotAssumption, ObjectsAssumption,
   NoChunks, NoFamilies, VP!ChunkKeeps

\* A verified chunk on an empty stack is safe.
LEMMA VMLoadsSafely ==
  VP!Safe /\ stackTop = 0 /\ VP!Verified(VP!Loaded)' /\ ip' = 0 /\ status' = "running"
    /\ UNCHANGED <<VP!stackVars, VP!tables>> => VP!Safe'
BY U8Assumption, CapacityAssumption, HashAssumption, NullAssumption, NoSlotAssumption, ObjectsAssumption,
   NoChunks, NoFamilies, VP!LoadsSafely

\* The VM, when it is made.
LEMMA VMStarts == VP!Init => VP!IInv
BY U8Assumption, CapacityAssumption, HashAssumption, NullAssumption, NoSlotAssumption, ObjectsAssumption,
   NoChunks, NoFamilies, VP!InvInit

-----------------------------------------------------------------------------
(***************************************************************************)
(* The instances of a module agree: their definitions are the same but for *)
(* parameters that actions do not use.                                     *)
(***************************************************************************)

\* The steps of the compiler.
LEMMA CompilerSteps ==
  ASSUME C!CompileStep
  PROVE  CP!CompileStep
<1> USE DEF
       C!At, C!frame, C!Then, C!Sees, C!Report, C!Advance, C!EmitBytes, C!EOF, C!Call, C!Parse, C!Expression,
       C!Consume, C!Emit, C!Patch, C!LoopEnd, C!EmitJump, C!Digits, C!Distance, C!Patched, C!LoopDistance, C!Looped,
       C!ConstantIndex, C!MakeConstant, C!TooManyConstants, C!SyncPoints, C!Prefix, C!Infix, C!CanAssign, C!Literals,
       C!Constants, C!Operands, C!TakesInfix, C!InfixPrecedence, C!BinaryCode, C!UnaryCode, C!LiteralCode,
       C!PREC_NONE, C!PREC_ASSIGNMENT, C!PREC_OR, C!PREC_AND, C!PREC_EQUALITY, C!PREC_COMPARISON, C!PREC_TERM,
       C!PREC_FACTOR, C!PREC_UNARY, C!Called, C!Resolved, C!Redeclares, C!Full, C!AddLocal, C!MarkInitialized,
       C!Outer, C!U16Max, C!parserVars, C!errorVars, C!scopeVars, C!chunkVars, C!vars, C!OP_CONSTANT, C!OP_NIL,
       C!OP_TRUE, C!OP_FALSE, C!OP_POP, C!OP_GET_LOCAL, C!OP_SET_LOCAL, C!OP_GET_GLOBAL, C!OP_DEFINE_GLOBAL,
       C!OP_SET_GLOBAL, C!OP_EQUAL, C!OP_GREATER, C!OP_LESS, C!OP_ADD, C!OP_SUBTRACT, C!OP_MULTIPLY, C!OP_DIVIDE,
       C!OP_NOT, C!OP_NEGATE, C!OP_PRINT, C!OP_JUMP, C!OP_JUMP_IF_FALSE, C!OP_LOOP, C!OP_RETURN, CP!At, CP!frame,
       CP!Then, CP!Sees, CP!Report, CP!Advance, CP!EmitBytes, CP!EOF, CP!Call, CP!Parse, CP!Expression, CP!Consume,
       CP!Emit, CP!Patch, CP!LoopEnd, CP!EmitJump, CP!Digits, CP!Distance, CP!Patched, CP!LoopDistance, CP!Looped,
       CP!ConstantIndex, CP!MakeConstant, CP!TooManyConstants, CP!SyncPoints, CP!Prefix, CP!Infix, CP!CanAssign,
       CP!Literals, CP!Constants, CP!Operands, CP!TakesInfix, CP!InfixPrecedence, CP!BinaryCode, CP!UnaryCode,
       CP!LiteralCode, CP!PREC_NONE, CP!PREC_ASSIGNMENT, CP!PREC_OR, CP!PREC_AND, CP!PREC_EQUALITY,
       CP!PREC_COMPARISON, CP!PREC_TERM, CP!PREC_FACTOR, CP!PREC_UNARY, CP!Called, CP!Resolved, CP!Redeclares,
       CP!Full, CP!AddLocal, CP!MarkInitialized, CP!Outer, CP!U16Max, CP!parserVars, CP!errorVars, CP!scopeVars,
       CP!chunkVars, CP!vars, CP!OP_CONSTANT, CP!OP_NIL, CP!OP_TRUE, CP!OP_FALSE, CP!OP_POP, CP!OP_GET_LOCAL,
       CP!OP_SET_LOCAL, CP!OP_GET_GLOBAL, CP!OP_DEFINE_GLOBAL, CP!OP_SET_GLOBAL, CP!OP_EQUAL, CP!OP_GREATER,
       CP!OP_LESS, CP!OP_ADD, CP!OP_SUBTRACT, CP!OP_MULTIPLY, CP!OP_DIVIDE, CP!OP_NOT, CP!OP_NEGATE, CP!OP_PRINT,
       CP!OP_JUMP, CP!OP_JUMP_IF_FALSE, CP!OP_LOOP, CP!OP_RETURN
<1>1. CASE C!FirstAdvance
  BY <1>1, Zenon DEF C!FirstAdvance, CP!FirstAdvance, CP!CompileStep
<1>2. CASE C!Compile
  BY <1>2, Zenon DEF C!Compile, CP!Compile, CP!CompileStep
<1>3. CASE C!Declaration
  BY <1>3, Zenon DEF C!Declaration, CP!Declaration, CP!CompileStep
<1>4. CASE C!Recover
  BY <1>4, Zenon DEF C!Recover, CP!Recover, CP!CompileStep
<1>5. CASE C!Synchronize
  BY <1>5, Zenon DEF C!Synchronize, CP!Synchronize, CP!CompileStep
<1>6. CASE C!VarDeclaration
  BY <1>6, Zenon DEF C!VarDeclaration, CP!VarDeclaration, CP!CompileStep
<1>7. CASE C!ParseVariable
  BY <1>7, Zenon DEF C!ParseVariable, CP!ParseVariable, CP!CompileStep
<1>8. CASE C!VarInitializer
  BY <1>8, Zenon DEF C!VarInitializer, CP!VarInitializer, CP!CompileStep
<1>9. CASE C!DefineVariable
  BY <1>9, Zenon DEF C!DefineVariable, CP!DefineVariable, CP!CompileStep
<1>10. CASE C!PrintStatement
  BY <1>10, Zenon DEF C!PrintStatement, CP!PrintStatement, CP!CompileStep
<1>11. CASE C!ForStatement
  BY <1>11, Zenon DEF C!ForStatement, CP!ForStatement, CP!CompileStep
<1>12. CASE C!IfStatement
  BY <1>12, Zenon DEF C!IfStatement, CP!IfStatement, CP!CompileStep
<1>13. CASE C!WhileStatement
  BY <1>13, Zenon DEF C!WhileStatement, CP!WhileStatement, CP!CompileStep
<1>14. CASE C!Block
  BY <1>14, Zenon DEF C!Block, CP!Block, CP!CompileStep
<1>15. CASE C!ExpressionStatement
  BY <1>15, Zenon DEF C!ExpressionStatement, CP!ExpressionStatement, CP!CompileStep
<1>16. CASE C!BlockStatement
  BY <1>16, Zenon DEF C!BlockStatement, CP!BlockStatement, CP!CompileStep
<1>17. CASE C!EndScope
  BY <1>17, Zenon DEF C!EndScope, CP!EndScope, CP!CompileStep
<1>18. CASE C!ForInitializer
  BY <1>18, Zenon DEF C!ForInitializer, CP!ForInitializer, CP!CompileStep
<1>19. CASE C!ForCondition
  BY <1>19, Zenon DEF C!ForCondition, CP!ForCondition, CP!CompileStep
<1>20. CASE C!ForIncrement
  BY <1>20, Zenon DEF C!ForIncrement, CP!ForIncrement, CP!CompileStep
<1>21. CASE C!ForBody
  BY <1>21, Zenon DEF C!ForBody, CP!ForBody, CP!CompileStep
<1>22. CASE C!WhileBody
  BY <1>22, Zenon DEF C!WhileBody, CP!WhileBody, CP!CompileStep
<1>23. CASE C!EndLoop
  BY <1>23, Zenon DEF C!EndLoop, CP!EndLoop, CP!CompileStep
<1>24. CASE C!IfThen
  BY <1>24, Zenon DEF C!IfThen, CP!IfThen, CP!CompileStep
<1>25. CASE C!IfElse
  BY <1>25, Zenon DEF C!IfElse, CP!IfElse, CP!CompileStep
<1>26. CASE C!ParsePrecedence
  BY <1>26, Zenon DEF C!ParsePrecedence, CP!ParsePrecedence, CP!CompileStep
<1>27. CASE C!NoPrefix
  BY <1>27, Zenon DEF C!NoPrefix, CP!NoPrefix, CP!CompileStep
<1>28. CASE C!Grouping
  BY <1>28, Zenon DEF C!Grouping, CP!Grouping, CP!CompileStep
<1>29. CASE C!Unary
  BY <1>29, Zenon DEF C!Unary, CP!Unary, CP!CompileStep
<1>30. CASE C!Literal
  BY <1>30, Zenon DEF C!Literal, CP!Literal, CP!CompileStep
<1>31. CASE C!ConstantLiteral
  BY <1>31, Zenon DEF C!ConstantLiteral, CP!ConstantLiteral, CP!CompileStep
<1>32. CASE C!NamedVariable
  BY <1>32, Zenon DEF C!NamedVariable, CP!NamedVariable, CP!CompileStep
<1>33. CASE C!Binary
  BY <1>33, Zenon DEF C!Binary, CP!Binary, CP!CompileStep
<1>34. CASE C!And
  BY <1>34, Zenon DEF C!And, CP!And, CP!CompileStep
<1>35. CASE C!EndExpression
  BY <1>35, Zenon DEF C!EndExpression, CP!EndExpression, CP!CompileStep
<1>36. CASE C!ConsumeToken
  BY <1>36, Zenon DEF C!ConsumeToken, CP!ConsumeToken, CP!CompileStep
<1>37. CASE C!EmitCode
  BY <1>37, Zenon DEF C!EmitCode, CP!EmitCode, CP!CompileStep
<1>38. CASE C!PatchJump
  BY <1>38, Zenon DEF C!PatchJump, CP!PatchJump, CP!CompileStep
<1>39. QED
  BY
     <1>1, <1>2, <1>3, <1>4, <1>5, <1>6, <1>7, <1>8, <1>9, <1>10, <1>11, <1>12, <1>13, <1>14, <1>15, <1>16, <1>17,
     <1>18, <1>19, <1>20, <1>21, <1>22, <1>23, <1>24, <1>25, <1>26, <1>27, <1>28, <1>29, <1>30, <1>31, <1>32, <1>33,
     <1>34, <1>35, <1>36, <1>37, <1>38
  DEF C!CompileStep

\* What is noted of them.
LEMMA CompilerNotes == CC!Note => CP!Note
BY Zenon DEF CC!Note, CC!At, CC!frame, CC!Sees, CC!EOF, CC!Front, CP!Note, CP!At, CP!frame, CP!Sees, CP!EOF, CP!Front

\* What the probe loops find.
LEMMA FindAgrees ==
  \A tab, k : V!FindEntry(tab, k) = VP!FindEntry(tab, k) /\ V!FindString(tab, k) = VP!FindString(tab, k)
BY DEF
   V!FindEntry, V!FindString, V!Slots, V!Home, V!Ahead, V!Nearest, V!StoredAt, V!EmptySlots, V!IsEmpty,
   V!IsTombstone, VP!FindEntry, VP!FindString, VP!Slots, VP!Home, VP!Ahead, VP!Nearest, VP!StoredAt, VP!EmptySlots,
   VP!IsEmpty, VP!IsTombstone

\* The steps of the VM.
LEMMA VMSteps ==
  ASSUME V!RunStep
  PROVE  VP!RunStep
<1> USE DEF
       V!Running, V!Op, V!NextIp, V!Operand, V!Constant, V!InRange, V!Below, V!Top, V!Needs, V!IsUndefined,
       V!Executing, V!Replace, V!Drop, V!Proceed, V!Fail, V!Stop, V!BothNumbers, V!Computed, V!Intern, V!chunkVars,
       V!stackVars, V!tables, V!Store, V!Erase, V!Falsey, V!Bool, V!Length, V!Short, V!OpCodes, V!ConstantOps,
       V!NameOps, V!LocalOps, V!JumpOps, V!NumberOps, V!OP_CONSTANT, V!OP_NIL, V!OP_TRUE, V!OP_FALSE, V!OP_POP,
       V!OP_GET_LOCAL, V!OP_SET_LOCAL, V!OP_GET_GLOBAL, V!OP_DEFINE_GLOBAL, V!OP_SET_GLOBAL, V!OP_EQUAL,
       V!OP_GREATER, V!OP_LESS, V!OP_ADD, V!OP_SUBTRACT, V!OP_MULTIPLY, V!OP_DIVIDE, V!OP_NOT, V!OP_NEGATE,
       V!OP_PRINT, V!OP_JUMP, V!OP_JUMP_IF_FALSE, V!OP_LOOP, V!OP_RETURN, VP!Running, VP!Op, VP!NextIp, VP!Operand,
       VP!Constant, VP!InRange, VP!Below, VP!Top, VP!Needs, VP!IsUndefined, VP!Executing, VP!Replace, VP!Drop,
       VP!Proceed, VP!Fail, VP!Stop, VP!BothNumbers, VP!Computed, VP!Intern, VP!chunkVars, VP!stackVars, VP!tables,
       VP!Store, VP!Erase, VP!Falsey, VP!Bool, VP!Length, VP!Short, VP!OpCodes, VP!ConstantOps, VP!NameOps,
       VP!LocalOps, VP!JumpOps, VP!NumberOps, VP!OP_CONSTANT, VP!OP_NIL, VP!OP_TRUE, VP!OP_FALSE, VP!OP_POP,
       VP!OP_GET_LOCAL, VP!OP_SET_LOCAL, VP!OP_GET_GLOBAL, VP!OP_DEFINE_GLOBAL, VP!OP_SET_GLOBAL, VP!OP_EQUAL,
       VP!OP_GREATER, VP!OP_LESS, VP!OP_ADD, VP!OP_SUBTRACT, VP!OP_MULTIPLY, VP!OP_DIVIDE, VP!OP_NOT, VP!OP_NEGATE,
       VP!OP_PRINT, VP!OP_JUMP, VP!OP_JUMP_IF_FALSE, VP!OP_LOOP, VP!OP_RETURN
<1>1. CASE V!PushValue
  BY <1>1, Zenon DEF V!PushValue, VP!PushValue, VP!RunStep
<1>2. CASE V!PopValue
  BY <1>2, Zenon DEF V!PopValue, VP!PopValue, VP!RunStep
<1>3. CASE V!SetLocal
  BY <1>3, Zenon DEF V!SetLocal, VP!SetLocal, VP!RunStep
<1>4. CASE V!GetGlobal
  BY <1>4, FindAgrees, Zenon DEF V!GetGlobal, VP!GetGlobal, VP!RunStep
<1>5. CASE V!DefineGlobal
  BY <1>5, FindAgrees, Zenon DEF V!DefineGlobal, VP!DefineGlobal, VP!RunStep
<1>6. CASE V!SetGlobal
  BY <1>6, FindAgrees, Zenon DEF V!SetGlobal, VP!SetGlobal, VP!RunStep
<1>7. CASE V!Equal
  BY <1>7, Zenon DEF V!Equal, VP!Equal, VP!RunStep
<1>8. CASE V!NumberOp
  BY <1>8, Zenon DEF V!NumberOp, VP!NumberOp, VP!RunStep
<1>9. CASE V!AddNumbers
  BY <1>9, Zenon DEF V!AddNumbers, VP!AddNumbers, VP!RunStep
<1>10. CASE V!Concatenate
  BY <1>10, FindAgrees, Zenon DEF V!Concatenate, VP!Concatenate, VP!RunStep
<1>11. CASE V!AddFails
  BY <1>11, Zenon DEF V!AddFails, VP!AddFails, VP!RunStep
<1>12. CASE V!Not
  BY <1>12, Zenon DEF V!Not, VP!Not, VP!RunStep
<1>13. CASE V!Negate
  BY <1>13, Zenon DEF V!Negate, VP!Negate, VP!RunStep
<1>14. CASE V!Jump
  BY <1>14, Zenon DEF V!Jump, VP!Jump, VP!RunStep
<1>15. CASE V!Return
  BY <1>15, Zenon DEF V!Return, VP!Return, VP!RunStep
<1>16. CASE V!BadOpCode
  BY <1>16, Zenon DEF V!BadOpCode, VP!BadOpCode, VP!RunStep
<1>17. CASE V!EndRun
  BY <1>17, Zenon DEF V!EndRun, VP!EndRun, VP!RunStep
<1>18. CASE V!Abort
  BY <1>18, Zenon DEF V!Abort, VP!Abort, VP!RunStep
<1>19. CASE V!Misbehave
  BY <1>19, Zenon DEF V!Misbehave, VP!Misbehave, VP!RunStep
<1>20. CASE V!Hang
  BY <1>20, FindAgrees, Zenon DEF V!Hang, VP!Hang, VP!RunStep
<1>21. QED
  BY
     <1>1, <1>2, <1>3, <1>4, <1>5, <1>6, <1>7, <1>8, <1>9, <1>10, <1>11, <1>12, <1>13, <1>14, <1>15, <1>16, <1>17,
     <1>18, <1>19, <1>20
  DEF V!RunStep

\* What is said of code.
LEMMA HeightsAgree == \A k : CP!Heights(k) = Heights(k) /\ VP!Heights(k) = Heights(k)
BY DEF
   Heights, Rounds, Further, Onward, Whole, Successors, Effect, Takes, Length, Short, OpCodes, ConstantOps, NameOps,
   LocalOps, JumpOps, NumberOps, OP_CONSTANT, OP_NIL, OP_TRUE, OP_FALSE, OP_POP, OP_GET_LOCAL, OP_SET_LOCAL,
   OP_GET_GLOBAL, OP_DEFINE_GLOBAL, OP_SET_GLOBAL, OP_EQUAL, OP_GREATER, OP_LESS, OP_ADD, OP_SUBTRACT, OP_MULTIPLY,
   OP_DIVIDE, OP_NOT, OP_NEGATE, OP_PRINT, OP_JUMP, OP_JUMP_IF_FALSE, OP_LOOP, OP_RETURN, CP!Heights, CP!Rounds,
   CP!Further, CP!Onward, CP!Whole, CP!Successors, CP!Effect, CP!Takes, CP!Length, CP!Short, CP!OpCodes,
   CP!ConstantOps, CP!NameOps, CP!LocalOps, CP!JumpOps, CP!NumberOps, CP!OP_CONSTANT, CP!OP_NIL, CP!OP_TRUE,
   CP!OP_FALSE, CP!OP_POP, CP!OP_GET_LOCAL, CP!OP_SET_LOCAL, CP!OP_GET_GLOBAL, CP!OP_DEFINE_GLOBAL, CP!OP_SET_GLOBAL,
   CP!OP_EQUAL, CP!OP_GREATER, CP!OP_LESS, CP!OP_ADD, CP!OP_SUBTRACT, CP!OP_MULTIPLY, CP!OP_DIVIDE, CP!OP_NOT,
   CP!OP_NEGATE, CP!OP_PRINT, CP!OP_JUMP, CP!OP_JUMP_IF_FALSE, CP!OP_LOOP, CP!OP_RETURN, VP!Heights, VP!Rounds,
   VP!Further, VP!Onward, VP!Whole, VP!Successors, VP!Effect, VP!Takes, VP!Length, VP!Short, VP!OpCodes,
   VP!ConstantOps, VP!NameOps, VP!LocalOps, VP!JumpOps, VP!NumberOps, VP!OP_CONSTANT, VP!OP_NIL, VP!OP_TRUE,
   VP!OP_FALSE, VP!OP_POP, VP!OP_GET_LOCAL, VP!OP_SET_LOCAL, VP!OP_GET_GLOBAL, VP!OP_DEFINE_GLOBAL, VP!OP_SET_GLOBAL,
   VP!OP_EQUAL, VP!OP_GREATER, VP!OP_LESS, VP!OP_ADD, VP!OP_SUBTRACT, VP!OP_MULTIPLY, VP!OP_DIVIDE, VP!OP_NOT,
   VP!OP_NEGATE, VP!OP_PRINT, VP!OP_JUMP, VP!OP_JUMP_IF_FALSE, VP!OP_LOOP, VP!OP_RETURN

\* So a chunk well formed on one side is on the other.
LEMMA ShapesAgree ==
  ASSUME NEW k
  PROVE  /\ CP!JumpsLand(k) <=> VP!JumpsLand(k)
         /\ CP!StackBalanced(k) <=> VP!StackBalanced(k)
         /\ CP!LocalsThere(k) <=> VP!LocalsThere(k)
<1> USE DEF
       CP!Whole, CP!Successors, CP!Effect, CP!Takes, CP!Length, CP!Short, CP!OpCodes, CP!ConstantOps, CP!NameOps,
       CP!LocalOps, CP!JumpOps, CP!NumberOps, CP!OP_CONSTANT, CP!OP_NIL, CP!OP_TRUE, CP!OP_FALSE, CP!OP_POP,
       CP!OP_GET_LOCAL, CP!OP_SET_LOCAL, CP!OP_GET_GLOBAL, CP!OP_DEFINE_GLOBAL, CP!OP_SET_GLOBAL, CP!OP_EQUAL,
       CP!OP_GREATER, CP!OP_LESS, CP!OP_ADD, CP!OP_SUBTRACT, CP!OP_MULTIPLY, CP!OP_DIVIDE, CP!OP_NOT, CP!OP_NEGATE,
       CP!OP_PRINT, CP!OP_JUMP, CP!OP_JUMP_IF_FALSE, CP!OP_LOOP, CP!OP_RETURN, VP!Whole, VP!Successors, VP!Effect,
       VP!Takes, VP!Length, VP!Short, VP!OpCodes, VP!ConstantOps, VP!NameOps, VP!LocalOps, VP!JumpOps, VP!NumberOps,
       VP!OP_CONSTANT, VP!OP_NIL, VP!OP_TRUE, VP!OP_FALSE, VP!OP_POP, VP!OP_GET_LOCAL, VP!OP_SET_LOCAL,
       VP!OP_GET_GLOBAL, VP!OP_DEFINE_GLOBAL, VP!OP_SET_GLOBAL, VP!OP_EQUAL, VP!OP_GREATER, VP!OP_LESS, VP!OP_ADD,
       VP!OP_SUBTRACT, VP!OP_MULTIPLY, VP!OP_DIVIDE, VP!OP_NOT, VP!OP_NEGATE, VP!OP_PRINT, VP!OP_JUMP,
       VP!OP_JUMP_IF_FALSE, VP!OP_LOOP, VP!OP_RETURN
<1>1. CP!Heights(k) = VP!Heights(k)
  BY HeightsAgree
<1>2. CP!Boundaries(k) = VP!Boundaries(k)
  BY DEF CP!Boundaries, CP!Starts, CP!StartsAfter, VP!Boundaries, VP!Starts, VP!StartsAfter
<1>3. CP!JumpsLand(k) <=> VP!JumpsLand(k)
  BY <1>1, <1>2, Zenon DEF CP!JumpsLand, VP!JumpsLand
<1>4. CP!StackBalanced(k) <=> VP!StackBalanced(k)
  BY <1>1 DEF CP!StackBalanced, VP!StackBalanced
<1>5. CP!LocalsThere(k) <=> VP!LocalsThere(k)
  BY <1>1, Zenon DEF CP!LocalsThere, VP!LocalsThere
<1>6. QED
  BY <1>3, <1>4, <1>5

\* What is said of the run.
LEMMA RunsAgree == (Swallows <=> VP!Swallows) /\ (Overflows <=> VP!Overflows)
BY Zenon DEF Swallows, VP!Swallows, Overflows, VP!Overflows,
   V!Executing, V!Running, V!Op, V!InRange, V!NextIp, V!IsUndefined, V!Needs, V!Top, V!Below, V!Constant, V!Operand,
   V!BothNumbers, V!Length, V!NumberOps, V!ConstantOps, V!NameOps, V!LocalOps, V!JumpOps, V!OP_CONSTANT, V!OP_NIL,
   V!OP_TRUE, V!OP_FALSE, V!OP_POP, V!OP_GET_LOCAL, V!OP_SET_LOCAL, V!OP_GET_GLOBAL, V!OP_DEFINE_GLOBAL,
   V!OP_SET_GLOBAL, V!OP_EQUAL, V!OP_GREATER, V!OP_LESS, V!OP_ADD, V!OP_SUBTRACT, V!OP_MULTIPLY, V!OP_DIVIDE,
   V!OP_NOT, V!OP_NEGATE, V!OP_PRINT, V!OP_JUMP, V!OP_JUMP_IF_FALSE, V!OP_LOOP, V!OP_RETURN, VP!Executing,
   VP!Running, VP!Op, VP!InRange, VP!NextIp, VP!IsUndefined, VP!Needs, VP!Top, VP!Below, VP!Constant, VP!Operand,
   VP!BothNumbers, VP!Length, VP!NumberOps, VP!ConstantOps, VP!NameOps, VP!LocalOps, VP!JumpOps, VP!Effect,
   VP!OP_CONSTANT, VP!OP_NIL, VP!OP_TRUE, VP!OP_FALSE, VP!OP_POP, VP!OP_GET_LOCAL, VP!OP_SET_LOCAL, VP!OP_GET_GLOBAL,
   VP!OP_DEFINE_GLOBAL, VP!OP_SET_GLOBAL, VP!OP_EQUAL, VP!OP_GREATER, VP!OP_LESS, VP!OP_ADD, VP!OP_SUBTRACT,
   VP!OP_MULTIPLY, VP!OP_DIVIDE, VP!OP_NOT, VP!OP_NEGATE, VP!OP_PRINT, VP!OP_JUMP, VP!OP_JUMP_IF_FALSE, VP!OP_LOOP,
   VP!OP_RETURN, Effect, NumberOps, OP_CONSTANT, OP_NIL, OP_TRUE, OP_FALSE, OP_POP, OP_GET_LOCAL, OP_SET_LOCAL,
   OP_GET_GLOBAL, OP_DEFINE_GLOBAL, OP_SET_GLOBAL, OP_EQUAL, OP_GREATER, OP_LESS, OP_ADD, OP_SUBTRACT, OP_MULTIPLY,
   OP_DIVIDE, OP_NOT, OP_NEGATE, OP_PRINT, OP_JUMP, OP_JUMP_IF_FALSE, OP_LOOP, OP_RETURN

-----------------------------------------------------------------------------
(***************************************************************************)
(* The invariant.  While a line is compiled it is the compiler's; of the   *)
(* VM, its types, that it is safe as long as all has been sound, and that  *)
(* a chunk whose heights are counted is where they say until an operator   *)
(* swallows its error.                                                     *)
(***************************************************************************)
DriverOK ==
  /\ session \in DOMAIN Sessions
  /\ phase # "run" => status = "idle"
  /\ phase = "run" /\ sound => OnCount
CompilerOK == phase = "compile" => line \in Lines /\ CompilerInv
RunOK ==
  phase = "run" /\ OnCount =>
    /\ VP!StackBalanced(code) /\ VP!JumpsLand(code) /\ Len(code) < UsizeCount
    /\ base \in 0 .. (U8 - 1) /\ VP!Counts(base)
LoxInv == DriverOK /\ CompilerOK /\ RunOK /\ VP!IInv /\ VP!SInv

\* A sequence of tokens is one of any larger set.
LEMMA SeqInSeq ==
  ASSUME NEW S, NEW T, S \subseteq T, NEW s \in Seq(S)
  PROVE  s \in Seq(T)
<1>1. s \in [1 .. Len(s) -> S] /\ Len(s) \in Nat
  OBVIOUS
<1>2. s \in [1 .. Len(s) -> T]
  BY <1>1
<1>3. QED
  BY <1>1, <1>2, SeqDef

\* What the VM is given of an accepted line.
LEMMA ChunkIsVerified ==
  ASSUME CompilerOK, phase = "compile", C!Compiled, ~hadError
  PROVE  /\ newCode \in Seq(Nat) /\ newConstants \in Seq(Values)
         /\ VP!JumpsLand(newCode)
         /\ Counted => VP!Verified([code |-> newCode, constants |-> newConstants])
<1>1. line \in Lines /\ CompilerInv /\ CP!Accepted
  BY DEF CompilerOK, C!Compiled, CP!Accepted, CP!Compiled
<1>2. /\ CP!JumpsLand(newCode)
      /\ ~bareFor /\ deepest < U8 => CP!StackBalanced(newCode) /\ CP!LocalsThere(newCode)
  BY <1>1, CompilerAccepts DEF CP!JumpsPatched, CP!CodeBalanced
<1>3. newCode \in Seq(Nat)
  <2>1. newCode \in Seq(CP!Byte)
    BY <1>1 DEF CompilerInv, CP!IInv, CP!Types, CP!ChunkOK
  <2>2. CP!Byte \subseteq Nat
    BY U8Assumption DEF CP!Byte, CP!OpCodes, CP!OP_CONSTANT, CP!OP_RETURN
  <2>3. QED
    BY <2>1, <2>2, SeqInSeq
<1>4. ASSUME NEW types
      PROVE  /\ types \subseteq {"identifier", "string"} => CP!Lexemes(types) \subseteq Keys
             /\ types \subseteq {"identifier", "string", "number"} => CP!Lexemes(types) \subseteq Keys \union Numbers
  <2>1. ASSUME NEW x \in CP!Lexemes(types)
        PROVE  \E i \in 1 .. Len(line) : line[i].type \in types /\ x = line[i].lexeme
    BY <2>1 DEF CP!Lexemes, Source
  <2>2. \A i \in 1 .. Len(line) : IsToken(line[i])
    BY <1>1, LineTokens
  <2>3. QED
    BY <2>1, <2>2 DEF IsToken
<1>5. newConstants \in Seq(Values)
  <2>1. newConstants \in Seq(CP!Lexemes(CP!Constants \union {"identifier"}))
    BY <1>1 DEF CompilerInv, CP!NamesInv
  <2>2. CP!Lexemes(CP!Constants \union {"identifier"}) \subseteq Values
    BY <1>4, ObjectsAssumption DEF CP!Constants
  <2>3. QED
    BY <2>1, <2>2, SeqInSeq
<1>6. ASSUME NEW r \in VP!Heights(newCode)
      PROVE  /\ newCode[r[1] + 1] \in VP!ConstantOps => newCode[r[1] + 2] < Len(newConstants)
             /\ newCode[r[1] + 1] \in VP!NameOps => newConstants[newCode[r[1] + 2] + 1] \in Keys
             /\ newCode[r[1] + 1] = VP!OP_CONSTANT => newConstants[newCode[r[1] + 2] + 1] # Null
  <2> DEFINE op  == newCode[r[1] + 1]
             arg == newCode[r[1] + 2]
  <2>1. r \in CP!Heights(newCode)
    BY <1>6, HeightsAgree
  <2>2. op \in CP!ConstantOps => arg < Len(newConstants) /\ newConstants[arg + 1] \in CP!Nameable(op)
    BY <1>1, <2>1, CompilerAccepts DEF CP!ConstantsThere
  <2>3. /\ CP!ConstantOps = VP!ConstantOps /\ VP!NameOps = VP!ConstantOps \ {CP!OP_CONSTANT}
        /\ CP!OP_CONSTANT = VP!OP_CONSTANT /\ VP!OP_CONSTANT \in VP!ConstantOps
    BY DEF CP!ConstantOps, VP!ConstantOps, VP!NameOps,
       CP!OP_CONSTANT, CP!OP_GET_GLOBAL, CP!OP_DEFINE_GLOBAL, CP!OP_SET_GLOBAL,
       VP!OP_CONSTANT, VP!OP_GET_GLOBAL, VP!OP_DEFINE_GLOBAL, VP!OP_SET_GLOBAL
  <2>4. CP!Nameable(CP!OP_CONSTANT) \subseteq Keys \union Numbers
    BY <1>4 DEF CP!Nameable, CP!Constants
  <2>5. op # CP!OP_CONSTANT => CP!Nameable(op) \subseteq Keys
    BY <1>4 DEF CP!Nameable
  <2>6. Null \notin Keys \union Numbers
    BY ObjectsAssumption
  <2> HIDE DEF op, arg
  <2>7. /\ op \in VP!ConstantOps => arg < Len(newConstants)
        /\ op \in VP!NameOps => newConstants[arg + 1] \in Keys
        /\ op = VP!OP_CONSTANT => newConstants[arg + 1] # Null
    BY <2>2, <2>3, <2>4, <2>5, <2>6
  <2>8. QED
    BY <2>7 DEF op, arg
<1>7. ASSUME Counted
      PROVE  VP!Verified([code |-> newCode, constants |-> newConstants])
  <2>1. VP!StackBalanced(newCode) /\ VP!JumpsLand(newCode) /\ VP!LocalsThere(newCode)
    BY <1>2, <1>7, ShapesAgree DEF Counted
  <2>2. QED
    BY <1>6, <2>1 DEF VP!Verified
<1>8. QED
  BY <1>2, <1>3, <1>5, <1>7, ShapesAgree

-----------------------------------------------------------------------------
(***************************************************************************)
(* The actions.                                                            *)
(***************************************************************************)

\* The VM waits for the next line.
LEMMA VMWaits == UNCHANGED <<vmVars, sound>> /\ VP!IInv /\ VP!SInv => VP!IInv' /\ VP!SInv'
<1> SUFFICES ASSUME UNCHANGED <<vmVars, sound>>, VP!IInv, VP!SInv
             PROVE  VP!IInv' /\ VP!SInv'
  OBVIOUS
<1>1. UNCHANGED <<code, constants, ip, stack, stackTop, globals, strings, status, result, sound>>
  BY DEF vmVars
<1>2. VP!TypeOK'
  BY <1>1 DEF VP!IInv, VP!TypeOK
<1>3. VP!TablesOK'
  BY <1>1 DEF VP!IInv, VP!TablesOK, VP!IsTable, VP!KeysOnce, VP!ChainsWhole, VP!NoValues, VP!IsEmpty
<1>4. VP!SInv'
  BY <1>1 DEF VP!SInv, VP!Safe, VP!StackHasValues, VP!OnTrack, VP!Loaded
<1>5. QED
  BY <1>2, <1>3, <1>4 DEF VP!IInv

\* A line is read: a new compiler.
LEMMA ReadKeeps ==
  ASSUME LoxInv, Read, NoteCompiling, NoteRunning, NoteHeights
  PROVE  LoxInv'
<1>1. /\ phase' = "compile" /\ phase = "prompt" /\ session' = session /\ UNCHANGED vmVars
      /\ sound' = sound /\ line' \in Sessions[session].lines
  BY DEF Read, NoteHeights
<1>2. VP!IInv' /\ VP!SInv'
  BY <1>1, VMWaits DEF LoxInv
<1>3. status = "idle" /\ session \in DOMAIN Sessions /\ status' = status
  BY <1>1 DEF LoxInv, DriverOK, vmVars
<1>4. line' \in Lines
  BY <1>1, <1>3 DEF Lines
<1>5. CP!HInit'
  <2>1. text' = <<>> /\ bareFor' = FALSE /\ opened' = <<>> /\ deepest' = 0
    BY <1>1 DEF NoteCompiling
  <2>2. Source(line') \in {Source(l) : l \in Lines} /\ Source(line').length = Len(line')
    BY <1>4 DEF Source
  <2>3. QED
    BY <2>1, <2>2 DEF Read, FreshCompiler, CP!HInit, CP!Init, CP!NewCompiler, CP!EOF, C!EOF, CP!Call, C!Call
<1>6. CP!HInit' => CompilerInv'
  BY CompilerStarts, PTL
<1>7. QED
  BY <1>1, <1>2, <1>3, <1>4, <1>5, <1>6 DEF LoxInv, DriverOK, CompilerOK, RunOK

\* A step of the compiler.
LEMMA CompileKeeps ==
  ASSUME LoxInv, Compile, NoteCompiling, NoteRunning, NoteHeights
  PROVE  LoxInv'
<1>1. /\ phase = "compile" /\ UNCHANGED <<session, phase, line>> /\ UNCHANGED vmVars
      /\ C!CompileStep /\ sound' = sound
  BY DEF Compile, NoteHeights, driverVars
<1>2. VP!IInv' /\ VP!SInv'
  BY <1>1, VMWaits DEF LoxInv
<1>3. CP!HNext
  <2>1. CC!Note
    BY <1>1 DEF NoteCompiling
  <2>2. QED
    BY <1>1, <2>1, CompilerSteps, CompilerNotes DEF CP!HNext, CP!Next
<1>4. CompilerInv'
  BY <1>1, <1>3, CompilerGoesOn DEF LoxInv, CompilerOK
<1>5. QED
  BY <1>1, <1>2, <1>4 DEF LoxInv, DriverOK, CompilerOK, RunOK, vmVars

\* A chunk is loaded.
LEMMA LoadKeeps ==
  ASSUME LoxInv, Load, NoteCompiling, NoteRunning, NoteHeights
  PROVE  LoxInv'
<1>1. /\ phase = "compile" /\ phase' = "run" /\ session' = session /\ C!Compiled /\ ~hadError
      /\ code' = newCode /\ constants' = newConstants /\ ip' = 0 /\ status' = "running"
      /\ result' = "INTERPRET_RUNTIME_ERROR" /\ UNCHANGED <<stack, stackTop, globals, strings>>
  BY DEF Load, V!LoadNewChunk, V!stackVars, V!tables
<1>2. base' = stackTop /\ counted' = Counted /\ swallowed' = FALSE /\ sound' = (sound /\ stackTop = 0 /\ Counted)
  BY <1>1 DEF NoteRunning, NoteHeights
<1>3. /\ newCode \in Seq(Nat) /\ newConstants \in Seq(Values)
      /\ VP!JumpsLand(newCode)
      /\ Counted => VP!Verified([code |-> newCode, constants |-> newConstants])
  BY <1>1, ChunkIsVerified DEF LoxInv
<1>4. UNCHANGED <<VP!stackVars, VP!tables>>
  BY <1>1 DEF VP!stackVars, VP!tables
<1>5. VP!IInv'
  BY <1>1, <1>3, <1>4, VMLoads DEF LoxInv
<1>6. ASSUME sound'
      PROVE  VP!Safe' /\ Len(code') < UsizeCount
  <2>1. sound /\ stackTop = 0 /\ Counted
    BY <1>2, <1>6
  <2>2. VP!Verified(VP!Loaded)'
    BY <1>1, <1>3, <2>1 DEF VP!Loaded
  <2>3. VP!Safe
    BY <2>1 DEF LoxInv, VP!SInv
  <2>4. QED
    BY <1>1, <1>4, <2>1, <2>2, <2>3, VMLoadsSafely DEF Counted
<1>7. ASSUME OnCount'
      PROVE  /\ VP!StackBalanced(code') /\ VP!JumpsLand(code') /\ Len(code') < UsizeCount
             /\ base' \in 0 .. (U8 - 1) /\ VP!Counts(base)'
  <2>1. Counted
    BY <1>2, <1>7 DEF OnCount
  <2>2. VP!StackBalanced(newCode)
    BY <1>3, <2>1 DEF VP!Verified
  <2>3. stackTop \in 0 .. (U8 - 1)
    BY DEF LoxInv, VP!IInv, VP!TypeOK
  <2>4. <<0, 0>> \in VP!Heights(newCode)
    BY <2>2 DEF VP!StackBalanced
  <2>5. VP!Whole(newCode, 0)
    <3>1. <<0, 0>>[1] = 0
      OBVIOUS
    <3>2. QED
      BY <2>2, <2>4, <3>1 DEF VP!StackBalanced
  <2>6. 0 < Len(newCode)
    BY <1>3, <2>5 DEF VP!Whole
  <2>7. VP!Counts(base)'
    <3>1. stackTop = (stackTop + 0) % U8
      BY <2>3, U8Assumption
    <3>2. QED
      BY <1>1, <1>2, <2>4, <2>6, <3>1 DEF VP!Counts
  <2>8. QED
    BY <1>1, <1>2, <1>3, <2>1, <2>2, <2>3, <2>7 DEF Counted
<1>8. sound' => OnCount'
  BY <1>2 DEF OnCount
<1>9. QED
  BY <1>1, <1>5, <1>6, <1>7, <1>8 DEF LoxInv, DriverOK, CompilerOK, RunOK, VP!SInv

\* A step of the VM.
LEMMA RunStepKeeps ==
  ASSUME LoxInv, Run, NoteCompiling, NoteRunning, NoteHeights
  PROVE  LoxInv'
<1>1. /\ phase = "run" /\ UNCHANGED <<session, phase, line>> /\ V!RunStep
      /\ counted' = counted /\ swallowed' = (swallowed \/ Swallows) /\ sound' = (sound /\ ~Swallows /\ ~Overflows)
      /\ base' = base
  BY DEF Run, NoteHeights, NoteRunning, driverVars
<1>2. VP!RunStep /\ (Swallows <=> VP!Swallows) /\ (Overflows <=> VP!Overflows)
  BY <1>1, VMSteps, RunsAgree
<1>3. VP!IInv'
  BY <1>2, VMKeeps DEF LoxInv
<1>4. code' = code
  BY <1>2 DEF VP!RunStep, VP!PushValue, VP!PopValue, VP!SetLocal, VP!GetGlobal, VP!DefineGlobal, VP!SetGlobal,
     VP!Equal, VP!NumberOp, VP!AddNumbers, VP!Concatenate, VP!AddFails, VP!Not, VP!Negate, VP!Jump, VP!Return,
     VP!BadOpCode, VP!EndRun, VP!Abort, VP!Misbehave, VP!Hang, VP!Stop, VP!Proceed, VP!Fail, VP!chunkVars
<1>5. ASSUME sound'
      PROVE  VP!Safe' /\ Len(code') < UsizeCount
  <2>1. sound /\ ~VP!Swallows /\ ~VP!Overflows
    BY <1>1, <1>2, <1>5
  <2>2. VP!Safe'
    BY <1>2, <2>1, VMIsSafe DEF LoxInv
  <2>3. QED
    BY <1>4, <2>1, <2>2 DEF LoxInv, VP!SInv
<1>6. ASSUME OnCount'
      PROVE  /\ VP!StackBalanced(code') /\ VP!JumpsLand(code') /\ Len(code') < UsizeCount
             /\ base' \in 0 .. (U8 - 1) /\ VP!Counts(base)'
  <2>1. OnCount /\ ~VP!Swallows
    BY <1>1, <1>2, <1>6 DEF OnCount
  <2>2. /\ VP!StackBalanced(code) /\ VP!JumpsLand(code) /\ Len(code) < UsizeCount
        /\ base \in 0 .. (U8 - 1) /\ VP!Counts(base)
    BY <1>1, <2>1 DEF LoxInv, RunOK
  <2>3. \A b \in 0 .. (U8 - 1) : VP!Counts(b) => VP!Counts(b)'
    BY <1>2, <2>1, <2>2, VMCounts DEF LoxInv
  <2>4. QED
    BY <1>1, <1>4, <2>2, <2>3 DEF VP!Counts
<1>7. sound' => OnCount'
  BY <1>1, <1>2 DEF LoxInv, DriverOK, OnCount
<1>8. QED
  BY <1>1, <1>3, <1>5, <1>6, <1>7 DEF LoxInv, DriverOK, CompilerOK, RunOK, VP!SInv

\* All else leaves compiler and VM alone.
LEMMA LeaveKeeps ==
  ASSUME LoxInv, Quit \/ Reject \/ Finish, NoteCompiling, NoteRunning, NoteHeights
  PROVE  LoxInv'
<1>1. /\ phase' \in {"prompt", "exit"} /\ session' = session /\ UNCHANGED vmVars /\ status = "idle"
  BY DEF Quit, Reject, Finish, Leave, LoxInv, DriverOK
<1>2. sound' = sound
  BY <1>1 DEF NoteHeights
<1>3. VP!IInv' /\ VP!SInv'
  BY <1>1, <1>2, VMWaits DEF LoxInv
<1>4. QED
  BY <1>1, <1>3 DEF LoxInv, DriverOK, CompilerOK, RunOK, vmVars

-----------------------------------------------------------------------------
\* The interpreter as it is started.
LEMMA LoxInvInit == HInit => LoxInv
<1> SUFFICES ASSUME HInit PROVE LoxInv
  OBVIOUS
<1>1. /\ session \in DOMAIN Sessions /\ phase = "prompt" /\ V!Init /\ sound = (stackTop = 0)
  BY DEF HInit, Init
<1>2. VP!Init
  BY <1>1 DEF V!Init, VP!Init, V!EmptyStack, VP!EmptyStack, V!EmptyTable, VP!EmptyTable, V!Slots, VP!Slots
<1>3. VP!IInv
  BY <1>2, VMStarts
<1>4. VP!SInv
  <2>1. ASSUME sound PROVE VP!Safe
    <3>1. stackTop = 0
      BY <1>1, <2>1
    <3>2. VP!StackHasValues
      BY <3>1, U8Assumption DEF VP!StackHasValues
    <3>3. VP!GlobalsHaveValues(globals)
      BY <1>2 DEF VP!Init, VP!GlobalsHaveValues, VP!EmptyTable
    <3>4. QED
      BY <1>2, <3>2, <3>3 DEF VP!Init, VP!Safe, VP!OnTrack
  <2>2. Len(code) < UsizeCount
    BY <1>2, LoxAssumption DEF VP!Init
  <2>3. QED
    BY <2>1, <2>2 DEF VP!SInv
<1>5. QED
  BY <1>1, <1>3, <1>4 DEF LoxInv, DriverOK, CompilerOK, RunOK, V!Init

\* Every step keeps the invariant.
LEMMA LoxInvNext == LoxInv /\ [HNext]_hvars => LoxInv'
<1> SUFFICES ASSUME LoxInv, [HNext]_hvars PROVE LoxInv'
  OBVIOUS
<1>1. CASE HNext
  BY <1>1, ReadKeeps, CompileKeeps, LoadKeeps, RunStepKeeps, LeaveKeeps DEF HNext, Next
<1>2. CASE UNCHANGED hvars
  <2>1. UNCHANGED <<session, phase, line, counted, swallowed, base>> /\ UNCHANGED <<vmVars, sound>>
    BY <1>2 DEF hvars, vars, driverVars, running
  <2>2. VP!IInv' /\ VP!SInv'
    BY <2>1, VMWaits DEF LoxInv
  <2>3. CompilerOK'
    <3>1. UNCHANGED CP!hvars
      BY <1>2 DEF hvars, vars, driverVars, compilerVars, compiling, CP!hvars, CP!vars, CP!parserVars, CP!errorVars,
         CP!scopeVars, CP!chunkVars
    <3>2. QED
      BY <2>1, <3>1, CompilerGoesOn DEF LoxInv, CompilerOK
  <2>4. RunOK'
    BY <2>1 DEF LoxInv, RunOK, OnCount, VP!Counts, vmVars
  <2>5. DriverOK'
    BY <2>1 DEF LoxInv, DriverOK, OnCount, vmVars
  <2>6. QED
    BY <2>2, <2>3, <2>4, <2>5 DEF LoxInv
<1>3. QED
  BY <1>1, <1>2

\* So it always holds.
LEMMA LoxInvAlways == HSpec => []LoxInv
  BY LoxInvInit, LoxInvNext, PTL DEF HSpec

-----------------------------------------------------------------------------
\* A chunk that the compiler accepted and counts has, at each of its instructions
\* until an operator swallows its error, the stack that the compiler counted, however
\* full earlier lines left it, for every session: "compiler and vm local var stacks
\* match" (vm.cpp:80).
THEOREM CompilerAndVMMatch == HSpec => []HeightsMatch
<1>1. LoxInv => HeightsMatch
  <2>1. SUFFICES ASSUME LoxInv, phase = "run", OnCount, V!Running
                 PROVE  \E r \in Heights(code) : r[1] = ip /\ stackTop = (base + r[2]) % U8
    BY DEF HeightsMatch
  <2>2. VP!Counts(base) /\ status = "running" /\ ip < Len(code)
    BY <2>1 DEF LoxInv, RunOK, V!Running
  <2>3. VP!Heights(code) = Heights(code)
    BY HeightsAgree
  <2>4. QED
    BY <2>2, <2>3 DEF VP!Counts
<1>2. QED
  BY <1>1, LoxInvAlways, PTL

\* No line, whatever is typed, makes the VM leave its stack or its code, call a
\* null pointer, take a number for a name, or throw, as long as the lines before
\* left the stack empty, no operator swallowed its error and the stack was never full.
THEOREM LinesAreSafe == HSpec => []NeverUndefined
<1>1. LoxInv => NeverUndefined
  BY DEF LoxInv, VP!SInv, VP!Safe, NeverUndefined
<1>2. QED
  BY <1>1, LoxInvAlways, PTL

\* A line that is counted and runs without an error, reported or swallowed, leaves as
\* much on the stack as it found.
THEOREM LinesLeaveStack == HSpec => []LineLeavesStack
<1>1. LoxInv => LineLeavesStack
  BY DEF LoxInv, RunOK, VP!Counts, LineLeavesStack
<1>2. QED
  BY <1>1, LoxInvAlways, PTL
=============================================================================
