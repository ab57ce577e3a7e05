--------------------------- MODULE CompilerProofs ---------------------------
(***************************************************************************)
(* Proofs about Compiler for every source, every limit of a byte and every *)
(* way in which the parser functions nest.                                 *)
(***************************************************************************)
EXTENDS CompilerChecks, FiniteSetTheorems, SequenceTheorems, WellFoundedInduction, TLAPS

USE U8Assumption

-----------------------------------------------------------------------------
(***************************************************************************)
(* Frames, by what their functions do to scopes: those of expressions      *)
(* leave them alone, a declaration is in progress until its frames are     *)
(* gone, and each scope frame stands for one end_scope that is to come.    *)
(***************************************************************************)

ExpressionFrames  == {"parse_precedence", "prefix", "infix", "consume", "emit", "patch_jump"}
DeclarationFrames == {"initializer", "define_variable"}
ForFrames         == {"for_initializer", "for_condition", "for_increment", "for_body"}
ScopeFrames       == ForFrames \union {"end_scope"}
PlainFrames       == {"advance", "compile", "declaration", "recover", "synchronize",
                      "var_declaration", "parse_variable", "statement", "expression_statement",
                      "block"}
OtherFrames       == PlainFrames \union {"while_body", "loop_end", "if_then", "if_else"}
CallFrames        == ExpressionFrames \union OtherFrames
CalledFrames      == CallFrames \ {"parse_variable"}

Byte == OpCodes \union 0 .. (U8 - 1)

\* The frames that there are, with the types of their C++ locals.
Frame ==
  [at : PlainFrames \union {"if_then", "end_scope", "for_initializer", "for_condition"}]
    \union [at : {"parse_precedence", "prefix", "infix"}, precedence : PREC_ASSIGNMENT .. PREC_UNARY]
    \union [at : {"consume"}, type : {"identifier", ";", "(", ")", "}"}]
    \union [at : {"emit"}, bytes : Seq(Byte)]
    \union [at : {"patch_jump"}, jump : Int]
    \union [at : DeclarationFrames, global : 0 .. (U8 - 1)]
    \union [at : {"while_body", "for_increment"}, loop_start : Int]
    \union [at : {"loop_end"}, loop_start : Int, exit_jump : Int]
    \union [at : {"for_body"}, loop_start : Int, body_jump : Int, increment_start : Int, exit_jump : Int]
    \union [at : {"if_else"}, then_jump : Int]

Token == source.tokens \union {EOF}
Local == [name : Token, depth : {NoDepth} \union 0 .. (U8 - 1)]

\* The types that all actions keep.
ParserOK ==
  /\ source \in Sources
  /\ remaining \in 0 .. source.length
  /\ current \in Token /\ previous \in Token
  /\ hadError \in BOOLEAN /\ panicMode \in BOOLEAN
  /\ panicMode => hadError
LocalsOK == locals \in Seq(Local) /\ Len(locals) <= U8
ChunkOK  == code \in Seq(Byte) /\ constants \in Seq({t.lexeme : t \in Token})
FramesOK == todo \in Seq(Frame)
Types    == ParserOK /\ LocalsOK /\ ChunkOK /\ FramesOK /\ scopeDepth \in Int

-----------------------------------------------------------------------------
(***************************************************************************)
(* The call stack.                                                         *)
(***************************************************************************)

\* The first frame is replaced by k frames.
Grows(k) ==
  /\ Len(todo') = Len(todo) - 1 + k
  /\ \A i \in 2 .. Len(todo) : todo'[i - 1 + k] = todo[i]
Pushes(kinds) == \E k \in 0 .. 4 : Grows(k) /\ \A i \in 1 .. k : todo'[i].at \in kinds
PushesThen(kinds, last) ==
  \E k \in 1 .. 4 :
    /\ Grows(k)
    /\ \A i \in 1 .. (k - 1) : todo'[i].at \in kinds
    /\ todo'[k].at \in last

\* What Then does, for each number of frames.
LEMMA ThenGrows ==
  ASSUME FramesOK, todo # <<>>, NEW s \in Seq(Frame), Then(s)
  PROVE  /\ todo' \in Seq(Frame) /\ Grows(Len(s))
         /\ \A i \in 1 .. Len(s) : todo'[i] = s[i]
<1>1. Tail(todo) \in Seq(Frame) /\ Len(Tail(todo)) = Len(todo) - 1
      /\ \A i \in 1 .. Len(Tail(todo)) : Tail(todo)[i] = todo[i + 1]
  BY HeadTailProperties DEF FramesOK
<1>2. todo' = s \o Tail(todo)
  BY DEF Then
<1>3. /\ todo' \in Seq(Frame) /\ Len(todo') = Len(s) + Len(todo) - 1
      /\ \A i \in 1 .. Len(s) + Len(todo) - 1 :
           todo'[i] = IF i <= Len(s) THEN s[i] ELSE Tail(todo)[i - Len(s)]
  <2>1. \A i \in 1 .. Len(s) + Len(Tail(todo)) :
           (s \o Tail(todo))[i] = IF i <= Len(s) THEN s[i] ELSE Tail(todo)[i - Len(s)]
    BY <1>1, ConcatProperties
  <2>2. s \o Tail(todo) \in Seq(Frame) /\ Len(s \o Tail(todo)) = Len(s) + Len(Tail(todo))
    BY <1>1, ConcatProperties
  <2>3. Len(s) \in Nat /\ Len(todo) \in Nat
    BY DEF FramesOK
  <2>4. Len(s) + Len(Tail(todo)) = Len(s) + Len(todo) - 1
    BY <1>1, <2>3
  <2>5. QED
    BY <1>1, <1>2, <2>1, <2>2, <2>4
<1>4. Len(s) \in Nat /\ Len(todo) \in Nat
  BY DEF FramesOK
<1>5. \A i \in 2 .. Len(todo) : todo'[i - 1 + Len(s)] = todo[i]
  <2> SUFFICES ASSUME NEW i \in 2 .. Len(todo) PROVE todo'[i - 1 + Len(s)] = todo[i]
    OBVIOUS
  <2>1. i - 1 + Len(s) \in 1 .. Len(s) + Len(todo) - 1 /\ ~(i - 1 + Len(s) <= Len(s))
        /\ i - 1 + Len(s) - Len(s) = i - 1
    BY <1>4
  <2>2. todo'[i - 1 + Len(s)] = Tail(todo)[i - 1]
    BY <1>3, <2>1
  <2>3. i - 1 \in 1 .. Len(Tail(todo)) /\ (i - 1) + 1 = i
    BY <1>1, <1>4
  <2>4. QED
    BY <1>1, <2>2, <2>3
<1>6. \A i \in 1 .. Len(s) : i \in 1 .. Len(s) + Len(todo) - 1
  <2>1. Len(todo) > 0
    BY EmptySeq DEF FramesOK
  <2>2. QED
    BY <1>4, <2>1
<1>7. QED
  BY <1>3, <1>4, <1>5, <1>6 DEF Grows

LEMMA PushNone ==
  ASSUME FramesOK, todo # <<>>, NEW kinds,
         Then(<<>>)
  PROVE  FramesOK' /\ Pushes(kinds)
<1>1. <<>> \in Seq(Frame) /\ Len(<<>>) = 0
  OBVIOUS
<1>2. FramesOK' /\ Grows(0)
  BY <1>1, ThenGrows DEF Then, Grows, FramesOK
<1>3. QED
  BY <1>2 DEF Pushes, PushesThen

LEMMA PushOne ==
  ASSUME FramesOK, todo # <<>>, NEW kinds,
         NEW a \in Frame,
         Then(<<a>>)
  PROVE  /\ FramesOK'
         /\ a.at \in kinds => Pushes(kinds)
         /\ \A last : a.at \in last => PushesThen(kinds, last)
<1>1. <<a>> \in Seq(Frame) /\ Len(<<a>>) = 1
      /\ <<a>>[1] = a
  OBVIOUS
<1>2. FramesOK' /\ Grows(1) /\ todo'[1] = a
  BY <1>1, ThenGrows DEF Then, Grows, FramesOK
<1>3. QED
  BY <1>2 DEF Pushes, PushesThen

LEMMA PushTwo ==
  ASSUME FramesOK, todo # <<>>, NEW kinds,
         NEW a \in Frame, NEW b \in Frame,
         Then(<<a, b>>)
  PROVE  /\ FramesOK'
         /\ a.at \in kinds /\ b.at \in kinds => Pushes(kinds)
         /\ \A last : a.at \in kinds /\ b.at \in last => PushesThen(kinds, last)
<1>1. <<a, b>> \in Seq(Frame) /\ Len(<<a, b>>) = 2
      /\ <<a, b>>[1] = a /\ <<a, b>>[2] = b
  OBVIOUS
<1>2. FramesOK' /\ Grows(2) /\ todo'[1] = a /\ todo'[2] = b
  BY <1>1, ThenGrows DEF Then, Grows, FramesOK
<1>3. QED
  BY <1>2 DEF Pushes, PushesThen

LEMMA PushThree ==
  ASSUME FramesOK, todo # <<>>, NEW kinds,
         NEW a \in Frame, NEW b \in Frame, NEW c \in Frame,
         Then(<<a, b, c>>)
  PROVE  /\ FramesOK'
         /\ a.at \in kinds /\ b.at \in kinds /\ c.at \in kinds => Pushes(kinds)
         /\ \A last : a.at \in kinds /\ b.at \in kinds /\ c.at \in last => PushesThen(kinds, last)
<1>1. <<a, b, c>> \in Seq(Frame) /\ Len(<<a, b, c>>) = 3
      /\ <<a, b, c>>[1] = a /\ <<a, b, c>>[2] = b /\ <<a, b, c>>[3] = c
  OBVIOUS
<1>2. FramesOK' /\ Grows(3) /\ todo'[1] = a /\ todo'[2] = b /\ todo'[3] = c
  BY <1>1, ThenGrows DEF Then, Grows, FramesOK
<1>3. QED
  BY <1>2 DEF Pushes, PushesThen

LEMMA PushFour ==
  ASSUME FramesOK, todo # <<>>, NEW kinds,
         NEW a \in Frame, NEW b \in Frame, NEW c \in Frame, NEW d \in Frame,
         Then(<<a, b, c, d>>)
  PROVE  /\ FramesOK'
         /\ a.at \in kinds /\ b.at \in kinds /\ c.at \in kinds /\ d.at \in kinds => Pushes(kinds)
         /\ \A last : a.at \in kinds /\ b.at \in kinds /\ c.at \in kinds /\ d.at \in last => PushesThen(kinds, last)
<1>1. <<a, b, c, d>> \in Seq(Frame) /\ Len(<<a, b, c, d>>) = 4
      /\ <<a, b, c, d>>[1] = a /\ <<a, b, c, d>>[2] = b /\ <<a, b, c, d>>[3] = c /\ <<a, b, c, d>>[4] = d
  OBVIOUS
<1>2. FramesOK' /\ Grows(4) /\ todo'[1] = a /\ todo'[2] = b /\ todo'[3] = c /\ todo'[4] = d
  BY <1>1, ThenGrows DEF Then, Grows, FramesOK
<1>3. QED
  BY <1>2 DEF Pushes, PushesThen

-----------------------------------------------------------------------------
(***************************************************************************)
(* The array of locals.                                                    *)
(***************************************************************************)

\* A set of positions that is not empty has a last one.
LEMMA LastPosition ==
  ASSUME NEW n \in Nat, NEW S \in SUBSET (1 .. n), S # {}
  PROVE  \E i \in S : \A j \in S : j <= i
<1> DEFINE back == {n - i : i \in S}
<1>1. back \in SUBSET Nat /\ back # {}
  <2>1. \A i \in S : i \in Nat /\ n - i \in Nat
    OBVIOUS
  <2>2. PICK i \in S : TRUE
    OBVIOUS
  <2>3. n - i \in back
    BY <2>2
  <2>4. QED
    BY <2>1, <2>3
<1> HIDE DEF back
<1>2. PICK b \in back : \A c \in back : <<c, b>> \notin OpToRel(<, Nat)
  BY <1>1, NatLessThanWellFounded, WFMin
<1>3. \A c \in back : b <= c
  <2>1. \A c \in back : ~(c < b)
    BY <1>1, <1>2 DEF OpToRel
  <2>2. QED
    BY <1>1, <2>1
<1> USE DEF back
<1>4. PICK i \in S : b = n - i
  OBVIOUS
<1>5. QED
  BY <1>3, <1>4

\* resolve_local finds the innermost local of the name, if there is one.
LEMMA ResolvedIsInnermost ==
  ASSUME NEW s, Len(s) \in Nat, NEW name, Called(s, name) # {}
  PROVE  /\ Resolved(s, name) \in Called(s, name) /\ Resolved(s, name) \in 1 .. Len(s)
         /\ \A j \in Called(s, name) : j <= Resolved(s, name)
<1>1. \E i \in Called(s, name) : \A j \in Called(s, name) : j <= i
  BY LastPosition DEF Called
<1>2. QED
  BY <1>1 DEF Resolved, Called

\* end_scope keeps the locals up to some position.
LEMMA OuterIsPosition ==
  ASSUME NEW s, Len(s) \in Nat, NEW depth
  PROVE  /\ Outer(s, depth) \in 0 .. Len(s)
         /\ LET kept == {i \in 1 .. Len(s) : s[i].depth = NoDepth \/ s[i].depth <= depth}
            IN  /\ Outer(s, depth) = 0 \/ Outer(s, depth) \in kept
                /\ \A i \in kept : i <= Outer(s, depth)
<1> DEFINE kept == {i \in 1 .. Len(s) : s[i].depth = NoDepth \/ s[i].depth <= depth}
<1>1. CASE kept = {}
  BY <1>1 DEF Outer
<1>2. CASE kept # {}
  <2>1. \E i \in kept : \A j \in kept : j <= i
    BY <1>2, LastPosition
  <2>2. Outer(s, depth) = CHOOSE i \in kept : \A j \in kept : j <= i
    BY <1>2 DEF Outer
  <2>3. Outer(s, depth) \in kept /\ \A j \in kept : j <= Outer(s, depth)
    BY <2>1, <2>2
  <2>4. QED
    BY <2>3
<1>3. QED
  BY <1>1, <1>2

\* mark_initialized changes the depth of the last local.
LEMMA MarkedLocals ==
  ASSUME NEW s \in Seq(Local), NEW depth, depth % U8 \in 0 .. (U8 - 1)
  PROVE  /\ MarkInitialized(s, depth) \in Seq(Local)
         /\ Len(MarkInitialized(s, depth)) = Len(s)
         /\ \A i \in 1 .. Len(s) :
              MarkInitialized(s, depth)[i].depth = IF i = Len(s) THEN depth % U8 ELSE s[i].depth
<1>1. CASE Len(s) = 0
  <2>1. MarkInitialized(s, depth) = s
    BY <1>1 DEF MarkInitialized
  <2>2. QED
    BY <1>1, <2>1
<1>2. CASE Len(s) > 0
  <2> DEFINE e == [s[Len(s)] EXCEPT !.depth = depth % U8]
  <2>1. Len(s) \in 1 .. Len(s)
    BY <1>2
  <2>2. e \in Local /\ e.depth = depth % U8
    <3>1. s[Len(s)] \in Local
      BY <2>1
    <3>2. \A l \in Local : [l EXCEPT !.depth = depth % U8] \in Local
                        /\ [l EXCEPT !.depth = depth % U8].depth = depth % U8
      BY DEF Local
    <3>3. QED
      BY <3>1, <3>2
  <2>3. MarkInitialized(s, depth) = [s EXCEPT ![Len(s)] = e]
    BY DEF MarkInitialized
  <2> HIDE DEF e
  <2>4. QED
    BY <2>1, <2>2, <2>3, ExceptSeq
<1>3. QED
  BY <1>1, <1>2

-----------------------------------------------------------------------------
(***************************************************************************)
(* What the actions do to the call stack, by the kind of frame they start  *)
(* from.                                                                   *)
(***************************************************************************)

\* Frames that are made of arguments of the right types are frames.
LEMMA MakesFrames ==
  /\ \A f \in PlainFrames \union {"if_then", "end_scope", "for_initializer", "for_condition"} :
       Call(f) \in Frame
  /\ \A p \in PREC_ASSIGNMENT .. PREC_UNARY :
       /\ Parse(p) \in Frame
       /\ [at |-> "prefix", precedence |-> p] \in Frame
       /\ [at |-> "infix", precedence |-> p] \in Frame
  /\ \A t \in {"identifier", ";", "(", ")", "}"} : Consume(t) \in Frame
  /\ \A b \in Seq(Byte) : Emit(b) \in Frame
  /\ \A j \in Int : Patch(j) \in Frame
  /\ \A start, exit \in Int : LoopEnd(start, exit) \in Frame
  /\ \A g \in 0 .. (U8 - 1), f \in DeclarationFrames : [at |-> f, global |-> g] \in Frame
BY DEF Frame, Call, Parse, Consume, Emit, Patch, LoopEnd

\* Of which function they are.
LEMMA KindOf ==
  /\ \A f : Call(f).at = f
  /\ \A p : Parse(p).at = "parse_precedence"
  /\ \A t : Consume(t).at = "consume"
  /\ \A b : Emit(b).at = "emit"
  /\ \A j : Patch(j).at = "patch_jump"
  /\ \A start, exit : LoopEnd(start, exit).at = "loop_end"
BY DEF Call, Parse, Consume, Emit, Patch, LoopEnd

\* The expressions that are parsed as a whole.
LEMMA Expressions ==
  /\ Expression \in Frame /\ Parse(PREC_UNARY) \in Frame /\ Parse(PREC_AND) \in Frame
  /\ Expression.at = "parse_precedence"
<1>1. {PREC_ASSIGNMENT, PREC_UNARY, PREC_AND} \subseteq PREC_ASSIGNMENT .. PREC_UNARY
  BY DEF PREC_ASSIGNMENT, PREC_UNARY, PREC_AND
<1>2. QED
  BY <1>1, MakesFrames, KindOf DEF Expression

\* The C++ locals of a frame that runs.
LEMMA FrameFields ==
  ASSUME FramesOK, todo # <<>>
  PROVE  /\ frame \in Frame
         /\ frame.at \in {"parse_precedence", "prefix", "infix"} =>
              frame.precedence \in PREC_ASSIGNMENT .. PREC_UNARY
         /\ frame.at = "consume" => frame.type \in {"identifier", ";", "(", ")", "}"}
         /\ frame.at = "emit" => frame.bytes \in Seq(Byte)
         /\ frame.at = "patch_jump" => frame.jump \in Int
         /\ frame.at \in DeclarationFrames => frame.global \in 0 .. (U8 - 1)
         /\ frame.at \in {"while_body", "for_increment", "loop_end", "for_body"} => frame.loop_start \in Int
         /\ frame.at \in {"loop_end", "for_body"} => frame.exit_jump \in Int
         /\ frame.at = "for_body" => frame.body_jump \in Int /\ frame.increment_start \in Int
         /\ frame.at = "if_else" => frame.then_jump \in Int
<1>1. frame \in Frame
  BY HeadTailProperties DEF FramesOK, frame
<1>2. QED
  BY <1>1 DEF Frame, PlainFrames, DeclarationFrames

\* The bytes of an operator.
LEMMA OperatorBytes ==
  /\ \A t : UnaryCode(t) \in Seq(Byte)
  /\ \A t : InfixPrecedence(t) > 0 /\ t # "and" =>
       /\ BinaryCode(t) \in Seq(Byte)
       /\ InfixPrecedence(t) + 1 \in PREC_ASSIGNMENT .. PREC_UNARY
<1>1. {OP_ADD, OP_SUBTRACT, OP_MULTIPLY, OP_DIVIDE, OP_EQUAL, OP_NOT, OP_LESS, OP_GREATER, OP_NEGATE}
        \subseteq Byte
  BY DEF Byte, OpCodes, OP_ADD, OP_SUBTRACT, OP_MULTIPLY, OP_DIVIDE, OP_EQUAL, OP_NOT, OP_LESS, OP_GREATER,
         OP_NEGATE, OP_CONSTANT, OP_RETURN
<1>2. \A t : UnaryCode(t) \in Seq(Byte)
  BY <1>1 DEF UnaryCode
<1>3. ASSUME NEW t, InfixPrecedence(t) > 0, t # "and"
      PROVE  /\ BinaryCode(t) \in Seq(Byte)
             /\ InfixPrecedence(t) + 1 \in PREC_ASSIGNMENT .. PREC_UNARY
  <2>1. t \in {"+", "-", "*", "/", "==", "!=", "<", "<=", ">", ">="}
    BY <1>3 DEF InfixPrecedence, PREC_NONE
  <2>2. BinaryCode(t) \in Seq(Byte)
    BY <1>1, <2>1 DEF BinaryCode
  <2>3. QED
    BY <2>1, <2>2 DEF InfixPrecedence, PREC_TERM, PREC_FACTOR, PREC_EQUALITY, PREC_COMPARISON,
                      PREC_ASSIGNMENT, PREC_UNARY
<1>4. QED
  BY <1>2, <1>3

\* The index of a constant is a byte, however many constants there are.
LEMMA ConstantIndexType ==
  ASSUME Types
  PROVE  ConstantIndex \in 0 .. (U8 - 1)
<1>1. Len(constants) \in Nat
  BY DEF Types, ChunkOK
<1>2. QED
  BY <1>1 DEF ConstantIndex

\* A name is resolved to a local if there is one of that name, whose position
\* is the slot; otherwise it becomes a constant, whose index is a byte.
LEMMA VariableBytes ==
  ASSUME Types
  PROVE  LET isLocal == Called(locals, previous) # {}
             arg     == IF isLocal THEN Resolved(locals, previous) - 1 ELSE ConstantIndex
         IN  /\ arg \in 0 .. (U8 - 1)
             /\ \A op \in OpCodes : <<op, arg>> \in Seq(Byte)
<1>1. ConstantIndex \in 0 .. (U8 - 1)
  BY ConstantIndexType
<1>2. ASSUME Called(locals, previous) # {}
      PROVE  Resolved(locals, previous) \in 1 .. Len(locals)
  BY <1>2, ResolvedIsInnermost DEF Types, LocalsOK
<1>3. Len(locals) \in 0 .. U8
  BY DEF Types, LocalsOK
<1>4. QED
  BY <1>1, <1>2, <1>3 DEF Byte

\* A parser function of expressions calls only such functions.
LEMMA ExpressionKind ==
  ASSUME Types,
         \/ ParsePrecedence \/ NoPrefix \/ Grouping \/ Unary \/ Literal \/ ConstantLiteral
         \/ NamedVariable \/ Binary \/ And \/ EndExpression \/ ConsumeToken \/ EmitCode \/ PatchJump
  PROVE  /\ todo # <<>> /\ frame.at \in ExpressionFrames
         /\ FramesOK' /\ Pushes(ExpressionFrames) /\ UNCHANGED scopeVars
<1> USE DEF Types
<1>1. todo # <<>> /\ frame.at \in ExpressionFrames /\ UNCHANGED scopeVars
  BY DEF ParsePrecedence, NoPrefix, Grouping, Unary, Literal, ConstantLiteral, NamedVariable, Binary, And,
         EndExpression, ConsumeToken, EmitCode, PatchJump, Prefix, TakesInfix, At, ExpressionFrames
<1>2. CASE Then(<<>>)
  BY <1>1, <1>2, PushNone DEF Then
<1>3. ASSUME NEW a \in Frame, a.at \in ExpressionFrames, Then(<<a>>)
      PROVE  FramesOK' /\ Pushes(ExpressionFrames)
  BY <1>1, <1>3, PushOne DEF Then
<1>4. ASSUME NEW a \in Frame, NEW b \in Frame, NEW c \in Frame,
             a.at \in ExpressionFrames, b.at \in ExpressionFrames, c.at \in ExpressionFrames, Then(<<a, b, c>>)
      PROVE  FramesOK' /\ Pushes(ExpressionFrames)
  BY <1>1, <1>4, PushThree DEF Then
<1>5. ASSUME frame.at \in {"prefix", "infix"}
      PROVE  Infix \in Frame /\ Infix.at \in ExpressionFrames
  BY <1>1, <1>5, FrameFields, MakesFrames DEF Infix, ExpressionFrames
<1>6. CASE ParsePrecedence
  <2>1. [at |-> "prefix", precedence |-> frame.precedence] \in Frame
    BY <1>1, <1>6, FrameFields, MakesFrames DEF ParsePrecedence, At
  <2>2. QED
    BY <1>1, <1>3, <1>6, <2>1 DEF ParsePrecedence, ExpressionFrames
<1>7. CASE NoPrefix \/ EndExpression \/ ConsumeToken \/ EmitCode \/ PatchJump
  <2>1. Then(<<>>)
    BY <1>7 DEF NoPrefix, EndExpression, ConsumeToken, EmitCode, PatchJump
  <2>2. QED
    BY <1>1, <1>2, <2>1
<1>8. CASE Grouping
  <2>1. Consume(")") \in Frame
    BY MakesFrames
  <2>2. QED
    BY <1>1, <1>4, <1>5, <1>8, <2>1, Expressions, KindOf DEF Grouping, Prefix, At, ExpressionFrames
<1>9. CASE Unary
  <2>1. Emit(UnaryCode(previous.type)) \in Frame
    BY MakesFrames, OperatorBytes
  <2>2. QED
    BY <1>1, <1>4, <1>5, <1>9, <2>1, Expressions, KindOf DEF Unary, Prefix, At, ExpressionFrames
<1>10. CASE Literal \/ ConstantLiteral
  BY <1>1, <1>3, <1>5, <1>10 DEF Literal, ConstantLiteral, Prefix, At
<1>11. CASE NamedVariable
  <2>1. Then(<<Infix>>) \/ \E bytes \in Seq(Byte) : Then(<<Expression, Emit(bytes), Infix>>)
    <3>1. {OP_GET_LOCAL, OP_GET_GLOBAL, OP_SET_LOCAL, OP_SET_GLOBAL} \subseteq OpCodes
      BY DEF OpCodes, OP_CONSTANT, OP_RETURN, OP_GET_LOCAL, OP_GET_GLOBAL, OP_SET_LOCAL, OP_SET_GLOBAL
    <3>2. PICK op \in OpCodes, arg \in 0 .. (U8 - 1) :
            Then(<<Infix>>) \/ Then(<<Expression, Emit(<<op, arg>>), Infix>>)
      BY <1>11, <3>1, VariableBytes DEF NamedVariable
    <3>3. <<op, arg>> \in Seq(Byte)
      BY DEF Byte
    <3>4. QED
      BY <3>2, <3>3
  <2>2. CASE Then(<<Infix>>)
    BY <1>1, <1>3, <1>5, <1>11, <2>2 DEF NamedVariable, Prefix, At
  <2>3. ASSUME NEW bytes \in Seq(Byte), Then(<<Expression, Emit(bytes), Infix>>)
        PROVE  FramesOK' /\ Pushes(ExpressionFrames)
    BY <1>1, <1>4, <1>5, <1>11, <2>3, MakesFrames, Expressions, KindOf
       DEF NamedVariable, Prefix, At, ExpressionFrames
  <2>4. QED
    BY <1>1, <2>1, <2>2, <2>3
<1>12. CASE Binary
  <2>1. /\ Parse(InfixPrecedence(current.type) + 1) \in Frame
        /\ Parse(InfixPrecedence(current.type) + 1).at \in ExpressionFrames
        /\ Emit(BinaryCode(current.type)) \in Frame /\ Emit(BinaryCode(current.type)).at \in ExpressionFrames
    <3>1. InfixPrecedence(current.type) > 0 /\ current.type # "and"
      BY <1>1, <1>12, FrameFields DEF Binary, TakesInfix, Sees, At, PREC_ASSIGNMENT, InfixPrecedence, PREC_UNARY,
         PREC_TERM, PREC_FACTOR, PREC_EQUALITY, PREC_COMPARISON, PREC_AND, PREC_NONE
    <3>2. QED
      BY <3>1, MakesFrames, OperatorBytes DEF Parse, Emit, ExpressionFrames
  <2>2. QED
    BY <1>1, <1>4, <1>5, <1>12, <2>1 DEF Binary, TakesInfix, At
<1>13. CASE And
  <2>1. Len(code) + 1 \in Int
    BY DEF ChunkOK
  <2>2. Patch(Len(code) + 1) \in Frame
    BY <2>1, MakesFrames
  <2>3. QED
    BY <1>1, <1>4, <1>5, <1>13, <2>2, Expressions, KindOf DEF And, TakesInfix, At, ExpressionFrames
<1>14. QED
  BY <1>6, <1>7, <1>8, <1>9, <1>10, <1>11, <1>12, <1>13

\* The frames that have C++ locals of their own.
LEMMA MakesFrames2 ==
  /\ \A start \in Int, f \in {"while_body", "for_increment"} : [at |-> f, loop_start |-> start] \in Frame
  /\ \A jump \in Int : [at |-> "if_else", then_jump |-> jump] \in Frame
  /\ \A start, jump, increment, exit \in Int :
       [at |-> "for_body", loop_start |-> start, body_jump |-> jump, increment_start |-> increment,
        exit_jump |-> exit] \in Frame
BY DEF Frame

\* Declarations and statements that neither open nor end a scope, and do not
\* declare a variable.
LEMMA OtherKind ==
  ASSUME Types,
         \/ FirstAdvance \/ Compile \/ Declaration \/ Recover \/ Synchronize
         \/ PrintStatement \/ IfStatement \/ WhileStatement \/ ExpressionStatement \/ BlockStatement
         \/ WhileBody \/ EndLoop \/ IfThen \/ IfElse
  PROVE  /\ todo # <<>> /\ frame.at \in OtherFrames \ {"parse_variable"}
         /\ FramesOK' /\ Pushes(CalledFrames) /\ UNCHANGED scopeVars
<1> USE DEF Types
<1>1. todo # <<>> /\ frame.at \in OtherFrames \ {"parse_variable"} /\ UNCHANGED scopeVars
  BY DEF FirstAdvance, Compile, Declaration, Recover, Synchronize, PrintStatement, IfStatement,
         WhileStatement, ExpressionStatement, BlockStatement, WhileBody, EndLoop, IfThen, IfElse, At,
         OtherFrames, PlainFrames
<1>2. ASSUME Then(<<>>)
      PROVE  FramesOK' /\ Pushes(CalledFrames)
  BY <1>1, <1>2, PushNone DEF Then
<1>3. ASSUME NEW a \in Frame, a.at \in CalledFrames, Then(<<a>>)
      PROVE  FramesOK' /\ Pushes(CalledFrames)
  BY <1>1, <1>3, PushOne DEF Then
<1>4. ASSUME NEW a \in Frame, NEW b \in Frame, a.at \in CalledFrames, b.at \in CalledFrames, Then(<<a, b>>)
      PROVE  FramesOK' /\ Pushes(CalledFrames)
  BY <1>1, <1>4, PushTwo DEF Then
<1>5. ASSUME NEW a \in Frame, NEW b \in Frame, NEW c \in Frame, a.at \in CalledFrames, b.at \in CalledFrames, c.at \in CalledFrames,
             Then(<<a, b, c>>)
      PROVE  FramesOK' /\ Pushes(CalledFrames)
  BY <1>1, <1>5, PushThree DEF Then
<1>6. ASSUME NEW a \in Frame, NEW b \in Frame, NEW c \in Frame, NEW d \in Frame,
             a.at \in CalledFrames, b.at \in CalledFrames, c.at \in CalledFrames, d.at \in CalledFrames, Then(<<a, b, c, d>>)
      PROVE  FramesOK' /\ Pushes(CalledFrames)
  BY <1>1, <1>6, PushFour DEF Then
<1>7. /\ \A f \in (PlainFrames \ {"parse_variable"}) \union {"if_then"} : Call(f) \in Frame /\ Call(f).at \in CalledFrames
      /\ Expression \in Frame /\ Expression.at \in CalledFrames
      /\ \A t \in {"identifier", ";", "(", ")", "}"} : Consume(t) \in Frame /\ Consume(t).at \in CalledFrames
      /\ \A j \in Int : Patch(j) \in Frame /\ Patch(j).at \in CalledFrames
  BY MakesFrames, KindOf, Expressions DEF CalledFrames, CallFrames, OtherFrames, ExpressionFrames
<1>8. \A op \in {OP_PRINT, OP_POP} : Emit(<<op>>) \in Frame /\ Emit(<<op>>).at \in CalledFrames
  <2>1. \A op \in {OP_PRINT, OP_POP} : <<op>> \in Seq(Byte)
    BY DEF Byte, OpCodes, OP_PRINT, OP_POP, OP_CONSTANT, OP_RETURN
  <2>2. QED
    BY <2>1, MakesFrames, KindOf DEF CalledFrames, CallFrames, ExpressionFrames
<1>9. Len(code) \in Int /\ Len(code) + 1 \in Int
  BY DEF ChunkOK
<1>10. CASE FirstAdvance \/ Compile \/ Declaration \/ Recover
  <2>1. \/ Then(<<>>)
        \/ \E f, g \in PlainFrames \ {"parse_variable"} : Then(<<Call(f), Call(g)>>)
        \/ Then(<<Call("synchronize")>>)
    BY <1>10 DEF FirstAdvance, Compile, Declaration, Recover, PlainFrames
  <2>2. QED
    BY <1>1, <1>2, <1>3, <1>4, <1>7, <2>1 DEF PlainFrames
<1>11. CASE Synchronize
  <2>1. CASE Then(<<>>)
    BY <1>1, <1>2, <2>1
  <2>2. CASE UNCHANGED todo
    <3>1. frame = todo[1] /\ Len(todo) \in Nat
      BY <1>1 DEF frame, FramesOK
    <3>2. Grows(1) /\ todo'[1].at \in CalledFrames
      BY <1>1, <2>2, <3>1 DEF Grows, CalledFrames, CallFrames
    <3>3. QED
      BY <1>1, <2>2, <3>2 DEF FramesOK, Pushes
  <2>3. QED
    BY <1>11, <2>1, <2>2 DEF Synchronize
<1>12. CASE PrintStatement \/ ExpressionStatement
  <2>1. \E op \in {OP_PRINT, OP_POP} : Then(<<Expression, Consume(";"), Emit(<<op>>)>>)
    BY <1>12 DEF PrintStatement, ExpressionStatement
  <2>2. QED
    BY <1>1, <1>5, <1>7, <1>8, <2>1
<1>13. CASE IfStatement
  BY <1>1, <1>6, <1>7, <1>13 DEF IfStatement
<1>14. CASE WhileStatement
  <2>1. [at |-> "while_body", loop_start |-> Len(code)] \in Frame
    BY <1>9, MakesFrames2
  <2>2. QED
    BY <1>1, <1>6, <1>7, <1>14, <2>1 DEF WhileStatement, CalledFrames, CallFrames, OtherFrames
<1>15. CASE BlockStatement
  BY <1>1, <1>3, <1>4, <1>7, <1>15 DEF BlockStatement, PlainFrames
<1>16. CASE WhileBody
  <2>1. frame.loop_start \in Int
    BY <1>1, <1>16, FrameFields DEF WhileBody, At
  <2>2. LoopEnd(frame.loop_start, Len(code) + 1) \in Frame
        /\ LoopEnd(frame.loop_start, Len(code) + 1).at \in CalledFrames
    BY <1>9, <2>1, MakesFrames, KindOf DEF CalledFrames, CallFrames, OtherFrames
  <2>3. QED
    BY <1>1, <1>4, <1>7, <1>16, <2>2 DEF WhileBody, PlainFrames
<1>17. CASE EndLoop
  BY <1>1, <1>2, <1>17 DEF EndLoop
<1>18. CASE IfThen
  <2>1. [at |-> "if_else", then_jump |-> Len(code) + 1] \in Frame
    BY <1>9, MakesFrames2
  <2>2. QED
    BY <1>1, <1>4, <1>7, <1>18, <2>1 DEF IfThen, PlainFrames, CalledFrames, CallFrames, OtherFrames
<1>19. CASE IfElse
  <2>1. \/ Then(<<Call("statement"), Patch(Len(code) + 1)>>)
        \/ Then(<<Patch(Len(code) + 1)>>)
    BY <1>19 DEF IfElse
  <2>2. QED
    BY <1>1, <1>3, <1>4, <1>7, <1>9, <2>1 DEF PlainFrames
<1>20. QED
  BY <1>10, <1>11, <1>12, <1>13, <1>14, <1>15, <1>16, <1>17, <1>18, <1>19, <1>1

\* var_declaration consumes the name before parse_variable goes on.
LEMMA NameKind ==
  ASSUME Types, VarDeclaration
  PROVE  /\ todo # <<>> /\ frame.at \in OtherFrames \ {"parse_variable"}
         /\ FramesOK' /\ PushesThen({"consume"}, {"parse_variable"}) /\ Pushes(CallFrames) /\ UNCHANGED scopeVars
         /\ Grows(2) /\ todo'[1].at = "consume" /\ todo'[1].type = "identifier" /\ todo'[2].at = "parse_variable"
<1>1. PICK f, g : f = Consume("identifier") /\ g = Call("parse_variable")
  OBVIOUS
<1>2. /\ todo # <<>> /\ frame.at \in OtherFrames \ {"parse_variable"} /\ UNCHANGED scopeVars
      /\ Then(<<f, g>>)
  BY <1>1 DEF VarDeclaration, At, OtherFrames, PlainFrames
<1>3. f \in Frame /\ g \in Frame /\ f.at = "consume" /\ g.at = "parse_variable" /\ f.type = "identifier"
  BY <1>1, MakesFrames, KindOf DEF PlainFrames, Consume
<1>4. FramesOK' /\ PushesThen({"consume"}, {"parse_variable"}) /\ Pushes(CallFrames)
  BY <1>2, <1>3, PushTwo DEF Types, CallFrames, OtherFrames, PlainFrames, ExpressionFrames
<1>5. Grows(2) /\ todo'[1] = f /\ todo'[2] = g
  <2>1. <<f, g>> \in Seq(Frame) /\ Len(<<f, g>>) = 2 /\ <<f, g>>[1] = f /\ <<f, g>>[2] = g
    BY <1>3
  <2>2. Grows(Len(<<f, g>>)) /\ \A i \in 1 .. Len(<<f, g>>) : todo'[i] = <<f, g>>[i]
    BY <1>2, <2>1, ThenGrows DEF Types
  <2>3. QED
    BY <2>1, <2>2
<1>6. QED
  BY <1>2, <1>3, <1>4, <1>5

\* The parts of a for statement hand on the end of its scope.
LEMMA ForKind ==
  ASSUME Types, ForInitializer \/ ForCondition \/ ForIncrement \/ ForBody
  PROVE  /\ todo # <<>> /\ frame.at \in ForFrames
         /\ FramesOK' /\ PushesThen(CalledFrames, ScopeFrames) /\ UNCHANGED scopeVars
<1> USE DEF Types
<1>1. todo # <<>> /\ frame.at \in ForFrames /\ UNCHANGED scopeVars
  BY DEF ForInitializer, ForCondition, ForIncrement, ForBody, At, ForFrames
<1>2. ASSUME NEW a \in Frame, a.at \in ScopeFrames, Then(<<a>>)
      PROVE  FramesOK' /\ PushesThen(CalledFrames, ScopeFrames)
  BY <1>1, <1>2, PushOne DEF Then
<1>3. ASSUME NEW a \in Frame, NEW b \in Frame, a.at \in CalledFrames, b.at \in ScopeFrames, Then(<<a, b>>)
      PROVE  FramesOK' /\ PushesThen(CalledFrames, ScopeFrames)
  BY <1>1, <1>3, PushTwo DEF Then
<1>4. ASSUME NEW a \in Frame, NEW b \in Frame, NEW c \in Frame, a.at \in CalledFrames, b.at \in CalledFrames,
             c.at \in ScopeFrames, Then(<<a, b, c>>)
      PROVE  FramesOK' /\ PushesThen(CalledFrames, ScopeFrames)
  BY <1>1, <1>4, PushThree DEF Then
<1>5. ASSUME NEW a \in Frame, NEW b \in Frame, NEW c \in Frame, NEW d \in Frame,
             a.at \in CalledFrames, b.at \in CalledFrames, c.at \in CalledFrames, d.at \in ScopeFrames,
             Then(<<a, b, c, d>>)
      PROVE  FramesOK' /\ PushesThen(CalledFrames, ScopeFrames)
  BY <1>1, <1>5, PushFour DEF Then
<1>6. /\ \A f \in PlainFrames \ {"parse_variable"} : Call(f) \in Frame /\ Call(f).at \in CalledFrames
      /\ Expression \in Frame /\ Expression.at \in CalledFrames
      /\ \A t \in {";", ")"} : Consume(t) \in Frame /\ Consume(t).at \in CalledFrames
      /\ \A start, exit \in Int : LoopEnd(start, exit) \in Frame /\ LoopEnd(start, exit).at \in CalledFrames
  <2>1. /\ \A f \in PlainFrames \ {"parse_variable"} : f \in CalledFrames
        /\ {"parse_precedence", "consume", "loop_end"} \subseteq CalledFrames
    BY DEF CalledFrames, CallFrames, OtherFrames, ExpressionFrames
  <2>2. \A f \in PlainFrames \ {"parse_variable"} : Call(f) \in Frame /\ Call(f).at \in CalledFrames
    BY <2>1, MakesFrames, KindOf
  <2>3. Expression \in Frame /\ Expression.at \in CalledFrames
    BY <2>1, Expressions
  <2>4. \A t \in {";", ")"} : Consume(t) \in Frame /\ Consume(t).at \in CalledFrames
    BY <2>1, MakesFrames, KindOf
  <2>5. \A start, exit \in Int : LoopEnd(start, exit) \in Frame /\ LoopEnd(start, exit).at \in CalledFrames
    BY <2>1, MakesFrames, KindOf
  <2>6. QED
    BY <2>2, <2>3, <2>4, <2>5
<1>7. /\ Call("for_condition") \in Frame /\ Call("for_condition").at \in ScopeFrames
      /\ Call("end_scope") \in Frame /\ Call("end_scope").at \in ScopeFrames
  BY MakesFrames, KindOf DEF ScopeFrames, ForFrames
<1>8. Len(code) \in Int
  BY DEF ChunkOK
<1>9. CASE ForInitializer
  <2>1. \/ Then(<<Call("for_condition")>>)
        \/ \E f \in PlainFrames \ {"parse_variable"} : Then(<<Call(f), Call("for_condition")>>)
    BY <1>9 DEF ForInitializer, PlainFrames
  <2>2. QED
    BY <1>1, <1>2, <1>3, <1>6, <1>7, <2>1
<1>10. CASE ForCondition
  <2> DEFINE next == [at |-> "for_increment", loop_start |-> Len(code)]
  <2>1. next \in Frame /\ next.at \in ScopeFrames
    BY <1>8, MakesFrames2 DEF ScopeFrames, ForFrames
  <2>2. Then(<<next>>) \/ Then(<<Expression, Consume(";"), next>>)
    BY <1>10 DEF ForCondition
  <2> HIDE DEF next
  <2>3. QED
    BY <1>1, <1>2, <1>4, <1>6, <2>1, <2>2
<1>11. CASE ForIncrement
  <2>1. frame.loop_start \in Int
    BY <1>1, <1>11, FrameFields DEF ForIncrement, At
  <2> DEFINE exit_jump == Len(code) + 1
             body_jump == Len(code) + Len(EmitJump(OP_JUMP_IF_FALSE) \o <<OP_POP>>) + 1
             body == [at |-> "for_body", loop_start |-> frame.loop_start, body_jump |-> body_jump,
                      increment_start |-> body_jump + 2, exit_jump |-> exit_jump]
  <2>2. exit_jump \in Int /\ body_jump \in Int /\ body_jump + 2 \in Int
    BY <1>8 DEF EmitJump
  <2>3. body \in Frame /\ body.at \in ScopeFrames
    BY <2>1, <2>2, MakesFrames2 DEF ScopeFrames, ForFrames
  <2>4. Emit(<<OP_POP>>) \in Frame /\ Emit(<<OP_POP>>).at \in CalledFrames
    <3>1. <<OP_POP>> \in Seq(Byte)
      BY DEF Byte, OpCodes, OP_POP, OP_CONSTANT, OP_RETURN
    <3>2. QED
      BY <3>1, MakesFrames, KindOf DEF CalledFrames, CallFrames, ExpressionFrames
  <2>5. LoopEnd(frame.loop_start, exit_jump) \in Frame /\ LoopEnd(frame.loop_start, exit_jump).at \in CalledFrames
    BY <1>6, <2>1, <2>2
  <2>6. \/ Then(<<Call("statement"), LoopEnd(frame.loop_start, exit_jump), Call("end_scope")>>)
        \/ Then(<<Expression, Emit(<<OP_POP>>), Consume(")"), body>>)
    BY <1>11 DEF ForIncrement
  <2> HIDE DEF body, exit_jump, body_jump
  <2>7. CASE Then(<<Call("statement"), LoopEnd(frame.loop_start, exit_jump), Call("end_scope")>>)
    BY <1>1, <1>4, <1>6, <1>7, <2>5, <2>7 DEF PlainFrames
  <2>8. CASE Then(<<Expression, Emit(<<OP_POP>>), Consume(")"), body>>)
    BY <1>1, <1>5, <1>6, <2>3, <2>4, <2>8
  <2>9. QED
    BY <1>1, <2>6, <2>7, <2>8
<1>12. CASE ForBody
  <2>1. frame.increment_start \in Int /\ frame.exit_jump \in Int
    BY <1>1, <1>12, FrameFields DEF ForBody, At
  <2>2. LoopEnd(frame.increment_start, frame.exit_jump) \in Frame
        /\ LoopEnd(frame.increment_start, frame.exit_jump).at \in CalledFrames
    BY <1>6, <2>1
  <2>3. QED
    BY <1>1, <1>4, <1>6, <1>7, <1>12, <2>2 DEF ForBody, PlainFrames
<1>13. QED
  BY <1>1, <1>9, <1>10, <1>11, <1>12

\* A block or a for statement opens a scope and leaves one frame to close it.
LEMMA OpenKind ==
  ASSUME Types, ForStatement \/ Block
  PROVE  /\ todo # <<>> /\ frame.at \in OtherFrames \ {"parse_variable"}
         /\ FramesOK' /\ PushesThen(CalledFrames, ScopeFrames)
         /\ scopeDepth' = scopeDepth + 1 /\ UNCHANGED locals
<1> USE DEF Types
<1>1. /\ todo # <<>> /\ frame.at \in OtherFrames \ {"parse_variable"}
      /\ scopeDepth' = scopeDepth + 1 /\ UNCHANGED locals
  BY DEF ForStatement, Block, At, OtherFrames, PlainFrames
<1>2. \/ Then(<<Consume("("), Call("for_initializer")>>)
      \/ Then(<<Call("block"), Call("end_scope")>>)
  BY DEF ForStatement, Block
<1>3. /\ Consume("(") \in Frame /\ Consume("(").at \in CalledFrames
      /\ Call("block") \in Frame /\ Call("block").at \in CalledFrames
      /\ Call("for_initializer") \in Frame /\ Call("for_initializer").at \in ScopeFrames
      /\ Call("end_scope") \in Frame /\ Call("end_scope").at \in ScopeFrames
  BY MakesFrames, KindOf DEF CalledFrames, CallFrames, OtherFrames, PlainFrames, ExpressionFrames, ScopeFrames, ForFrames
<1>4. QED
  BY <1>1, <1>2, <1>3, PushTwo DEF Then

\* end_scope and the end of a declaration only return.
LEMMA CloseKind ==
  ASSUME Types, EndScope \/ DefineVariable
  PROVE  /\ todo # <<>> /\ frame.at \in {"end_scope", "define_variable"}
         /\ FramesOK' /\ Pushes({})
<1>1. todo # <<>> /\ frame.at \in {"end_scope", "define_variable"} /\ Then(<<>>)
  BY DEF EndScope, DefineVariable, At
<1>2. QED
  BY <1>1, PushNone DEF Types, Then

\* A declaration is in progress from the name on.
LEMMA DeclareKind ==
  ASSUME Types, ParseVariable
  PROVE  /\ todo # <<>> /\ frame.at = "parse_variable"
         /\ FramesOK' /\ PushesThen({}, DeclarationFrames)
<1>1. todo # <<>> /\ frame.at = "parse_variable"
  BY DEF ParseVariable, At
<1>2. PICK g \in 0 .. (U8 - 1) : Then(<<[at |-> "initializer", global |-> g]>>)
  BY VariableBytes, ConstantIndexType DEF ParseVariable
<1>3. [at |-> "initializer", global |-> g] \in Frame
  BY MakesFrames DEF DeclarationFrames
<1>4. QED
  BY <1>1, <1>2, <1>3, PushOne DEF Types, Then, DeclarationFrames

\* An initializer is parsed before the variable is defined.
LEMMA InitializerKind ==
  ASSUME Types, VarInitializer
  PROVE  /\ todo # <<>> /\ frame.at = "initializer"
         /\ FramesOK' /\ PushesThen(ExpressionFrames, {"define_variable"}) /\ UNCHANGED scopeVars
<1>1. todo # <<>> /\ frame.at = "initializer" /\ UNCHANGED scopeVars
  BY DEF VarInitializer, At
<1> DEFINE last == [at |-> "define_variable", global |-> frame.global]
<1>2. last \in Frame /\ last.at \in {"define_variable"}
  BY <1>1, FrameFields, MakesFrames DEF Types, DeclarationFrames
<1>3. \/ Then(<<Expression, Consume(";"), last>>)
      \/ Then(<<Consume(";"), last>>)
  <2>1. ASSUME NEW a \in Frame, NEW b \in Frame, NEW c \in Frame
        PROVE  <<a>> \o <<b, c>> = <<a, b, c>>
    <3>1. <<a>> \in Seq(Frame) /\ <<b, c>> \in Seq(Frame) /\ <<a, b, c>> \in Seq(Frame)
          /\ Len(<<a>>) = 1 /\ Len(<<b, c>>) = 2 /\ Len(<<a, b, c>>) = 3
      OBVIOUS
    <3>2. /\ <<a>> \o <<b, c>> \in Seq(Frame) /\ Len(<<a>> \o <<b, c>>) = 3
          /\ \A i \in 1 .. 3 : (<<a>> \o <<b, c>>)[i] = IF i <= 1 THEN <<a>>[i] ELSE <<b, c>>[i - 1]
      BY <3>1, ConcatProperties
    <3>3. \A i \in 1 .. 3 : (<<a>> \o <<b, c>>)[i] = <<a, b, c>>[i]
      BY <3>2
    <3>4. QED
      BY <3>1, <3>2, <3>3, SeqEqual
  <2>2. <<Expression>> \o <<Consume(";"), last>> = <<Expression, Consume(";"), last>>
    BY <1>2, <2>1, Expressions, MakesFrames
  <2>3. QED
    BY <2>2 DEF VarInitializer, Then
<1>4. Expression \in Frame /\ Expression.at \in ExpressionFrames
      /\ Consume(";") \in Frame /\ Consume(";").at \in ExpressionFrames
  BY MakesFrames, KindOf, Expressions DEF ExpressionFrames
<1> HIDE DEF last
<1>5. CASE Then(<<Expression, Consume(";"), last>>)
  BY <1>1, <1>2, <1>4, <1>5, PushThree DEF Types, Then
<1>6. CASE Then(<<Consume(";"), last>>)
  BY <1>1, <1>2, <1>4, <1>6, PushTwo DEF Types, Then
<1>7. QED
  BY <1>1, <1>3, <1>5, <1>6

-----------------------------------------------------------------------------
(***************************************************************************)
(* Tokens and errors.                                                      *)
(***************************************************************************)

\* Every action leaves the parser in its types, an error is never forgotten, and
\* while in panic mode there was one.
LEMMA ParserSteps ==
  ASSUME Types, CompileStep
  PROVE  ParserOK' /\ (hadError => hadError')
<1> USE DEF Types
<1>1. ASSUME UNCHANGED <<parserVars, errorVars>>
      PROVE  ParserOK' /\ (hadError => hadError')
  BY <1>1 DEF ParserOK, parserVars, errorVars, Token
<1>2. ASSUME NEW x, Report(x), UNCHANGED parserVars
      PROVE  ParserOK' /\ (hadError => hadError')
  BY <1>2 DEF ParserOK, parserVars, Report, Token
<1>3. ASSUME NEW x, Advance(x)
      PROVE  ParserOK' /\ (hadError => hadError')
  <2>1. PICK bad \in BOOLEAN : Report(x \/ bad)
    BY <1>3, SourcesAssumption DEF Advance, ParserOK
  <2>2. source' = source /\ previous' = current
    BY <1>3 DEF Advance
  <2>3. current' \in Token /\ remaining' \in 0 .. source.length
    <3>1. source.length \in Nat
      BY SourcesAssumption DEF ParserOK
    <3>2. QED
      BY <1>3, <3>1 DEF Advance, ParserOK, Token
  <2>4. hadError' \in BOOLEAN /\ panicMode' \in BOOLEAN /\ (panicMode' => hadError') /\ (hadError => hadError')
    BY <2>1 DEF Report, ParserOK
  <2>5. QED
    BY <2>2, <2>3, <2>4 DEF ParserOK, Token
<1>4. CASE Recover
  BY <1>4 DEF Recover, ParserOK, parserVars, Token
<1>5. CASE \/ VarDeclaration \/ DefineVariable \/ ExpressionStatement \/ BlockStatement \/ EndScope
           \/ WhileBody \/ IfThen \/ Grouping \/ Unary \/ Literal \/ EmitCode
  BY <1>1, <1>5 DEF VarDeclaration, DefineVariable, ExpressionStatement, BlockStatement, EndScope, WhileBody,
     IfThen, Grouping, Unary, Literal, EmitCode
<1>6. CASE \/ FirstAdvance \/ Compile \/ Declaration \/ Synchronize \/ VarInitializer \/ PrintStatement
           \/ ForStatement \/ IfStatement \/ WhileStatement \/ Block \/ ForInitializer \/ ForCondition
           \/ ForIncrement \/ ParsePrecedence \/ Binary \/ And \/ EndExpression
  <2>1. Advance(FALSE) \/ Advance(TRUE) \/ UNCHANGED <<parserVars, errorVars>>
    BY <1>6 DEF FirstAdvance, Compile, Declaration, Synchronize, VarInitializer, PrintStatement, ForStatement,
       IfStatement, WhileStatement, Block, ForInitializer, ForCondition, ForIncrement, ParsePrecedence, Binary,
       And, EndExpression
  <2>2. QED
    BY <1>1, <1>3, <2>1 DEF Advance
<1>7. CASE \/ ParseVariable \/ ForBody \/ EndLoop \/ IfElse \/ NoPrefix \/ ConstantLiteral \/ NamedVariable
           \/ ConsumeToken \/ PatchJump
  <2>1. \/ \E x : Report(x) /\ UNCHANGED parserVars
        \/ \E x : Advance(x)
    BY <1>7, Zenon DEF ParseVariable, ForBody, EndLoop, IfElse, NoPrefix, ConstantLiteral, NamedVariable, ConsumeToken,
       PatchJump
  <2>2. QED
    BY <1>2, <1>3, <2>1 DEF Advance, Report
<1>8. QED
  BY <1>4, <1>5, <1>6, <1>7 DEF CompileStep

-----------------------------------------------------------------------------
(***************************************************************************)
(* The chunk.                                                              *)
(***************************************************************************)

\* The digits of a distance are bytes, even of one that does not fit.
LEMMA DigitsAreBytes ==
  ASSUME NEW n \in Int
  PROVE  Digits(n) \in Seq(Byte) /\ Digits(n)[1] \in Byte /\ Digits(n)[2] \in Byte /\ Len(Digits(n)) = 2
<1>1. n \div U8 \in Int
  OBVIOUS
<1>2. \A k \in Int : k % U8 \in 0 .. (U8 - 1)
  OBVIOUS
<1>3. (n \div U8) % U8 \in Byte /\ n % U8 \in Byte
  BY <1>1, <1>2 DEF Byte
<1>4. QED
  BY <1>3 DEF Digits

\* Patching keeps the code a sequence of bytes of the same length.
LEMMA PatchedIsCode ==
  ASSUME NEW c \in Seq(Byte), NEW jump \in Int
  PROVE  Patched(c, jump) \in Seq(Byte) /\ Len(Patched(c, jump)) = Len(c)
<1> DEFINE d == Digits(Distance(c, jump))
<1>1. d[1] \in Byte /\ d[2] \in Byte
  <2>1. Distance(c, jump) \in Int
    BY DEF Distance
  <2>2. QED
    BY <2>1, DigitsAreBytes
<1>2. ASSUME NEW s \in Seq(Byte), NEW i \in Int, NEW e \in Byte
      PROVE  [s EXCEPT ![i] = e] \in Seq(Byte) /\ Len([s EXCEPT ![i] = e]) = Len(s)
  <2>1. CASE i \in 1 .. Len(s)
    BY <2>1, ExceptSeq
  <2>2. CASE i \notin 1 .. Len(s)
    <3>1. [s EXCEPT ![i] = e] = s
      BY <2>2
    <3>2. QED
      BY <3>1
  <2>3. QED
    BY <2>1, <2>2
<1>3. Patched(c, jump) = [[c EXCEPT ![jump + 1] = d[1]] EXCEPT ![jump + 2] = d[2]]
  BY DEF Patched
<1> HIDE DEF d
<1>4. QED
  BY <1>1, <1>2, <1>3

\* A loop instruction is three bytes.
LEMMA LoopedIsCode ==
  ASSUME NEW c \in Seq(Byte), NEW start \in Int
  PROVE  Looped(c, start) \in Seq(Byte)
<1>1. Digits(LoopDistance(c, start)) \in Seq(Byte)
  BY DigitsAreBytes DEF LoopDistance
<1>2. <<OP_LOOP>> \in Seq(Byte)
  BY DEF Byte, OpCodes, OP_LOOP, OP_CONSTANT, OP_RETURN
<1>3. QED
  BY <1>1, <1>2, ConcatProperties DEF Looped

\* emit_jump, and the instructions without an operand.
LEMMA EmittedBytes ==
  /\ \A op \in OpCodes : <<op>> \in Seq(Byte)
  /\ \A op \in OpCodes : EmitJump(op) \in Seq(Byte)
  /\ \A op \in OpCodes, arg \in 0 .. (U8 - 1) : <<op, arg>> \in Seq(Byte)
  /\ {OP_RETURN, OP_NIL, OP_TRUE, OP_FALSE, OP_POP, OP_DEFINE_GLOBAL, OP_CONSTANT, OP_JUMP, OP_JUMP_IF_FALSE}
       \subseteq OpCodes
<1>1. U8 - 1 \in 0 .. (U8 - 1)
  OBVIOUS
<1>2. QED
  BY <1>1 DEF Byte, EmitJump, OpCodes, OP_RETURN, OP_NIL, OP_TRUE, OP_FALSE, OP_POP, OP_DEFINE_GLOBAL,
     OP_CONSTANT, OP_JUMP, OP_JUMP_IF_FALSE

\* What all actions leave alone.
LEMMA SourceStays ==
  ASSUME CompileStep
  PROVE  source' = source
BY DEF CompileStep, FirstAdvance, Compile, Declaration, Recover, Synchronize, VarDeclaration, ParseVariable,
   VarInitializer, DefineVariable, PrintStatement, ForStatement, IfStatement, WhileStatement, Block,
   ExpressionStatement, BlockStatement, EndScope, ForInitializer, ForCondition, ForIncrement, ForBody,
   WhileBody, EndLoop, IfThen, IfElse, ParsePrecedence, NoPrefix, Grouping, Unary, Literal, ConstantLiteral,
   NamedVariable, Binary, And, EndExpression, ConsumeToken, EmitCode, PatchJump, parserVars, Advance

\* The array of locals changes in three actions only.
LEMMA LocalsChange ==
  ASSUME CompileStep
  PROVE  UNCHANGED locals \/ ParseVariable \/ DefineVariable \/ EndScope
BY DEF CompileStep, FirstAdvance, Compile, Declaration, Recover, Synchronize, VarDeclaration, ParseVariable,
   VarInitializer, DefineVariable, PrintStatement, ForStatement, IfStatement, WhileStatement, Block,
   ExpressionStatement, BlockStatement, EndScope, ForInitializer, ForCondition, ForIncrement, ForBody,
   WhileBody, EndLoop, IfThen, IfElse, ParsePrecedence, NoPrefix, Grouping, Unary, Literal, ConstantLiteral,
   NamedVariable, Binary, And, EndExpression, ConsumeToken, EmitCode, PatchJump, scopeVars

\* A step opens or closes at most one scope.
LEMMA ScopeDepthSteps ==
  ASSUME CompileStep
  PROVE  scopeDepth' \in {scopeDepth, scopeDepth + 1, scopeDepth - 1}
BY DEF CompileStep, FirstAdvance, Compile, Declaration, Recover, Synchronize, VarDeclaration, ParseVariable,
   VarInitializer, DefineVariable, PrintStatement, ForStatement, IfStatement, WhileStatement, Block,
   ExpressionStatement, BlockStatement, EndScope, ForInitializer, ForCondition, ForIncrement, ForBody,
   WhileBody, EndLoop, IfThen, IfElse, ParsePrecedence, NoPrefix, Grouping, Unary, Literal, ConstantLiteral,
   NamedVariable, Binary, And, EndExpression, ConsumeToken, EmitCode, PatchJump, scopeVars

\* Every action emits bytes.
LEMMA ChunkSteps ==
  ASSUME Types, CompileStep
  PROVE  ChunkOK'
<1> USE DEF Types
<1> DEFINE Written == {t.lexeme : t \in Token}
<1>1. Token' = Token
  BY SourceStays DEF Token
<1>2. previous.lexeme \in Written
  BY DEF ParserOK
<1>3. ASSUME UNCHANGED constants \/ MakeConstant(previous.lexeme)
      PROVE  constants' \in Seq(Written)
  BY <1>2, <1>3 DEF ChunkOK, MakeConstant
<1>4. ASSUME NEW bytes \in Seq(Byte), EmitBytes(bytes)
      PROVE  code' \in Seq(Byte)
  BY <1>4, ConcatProperties DEF ChunkOK, EmitBytes
<1>5. SUFFICES code' \in Seq(Byte) /\ (UNCHANGED constants \/ MakeConstant(previous.lexeme))
  BY <1>1, <1>3 DEF ChunkOK, MakeConstant
<1> HIDE DEF Written
<1>6. CASE \/ FirstAdvance \/ Declaration \/ Recover \/ Synchronize \/ VarDeclaration \/ PrintStatement
           \/ ForStatement \/ IfStatement \/ WhileStatement \/ Block \/ ExpressionStatement \/ BlockStatement
           \/ ForInitializer \/ ForCondition \/ ParsePrecedence \/ NoPrefix \/ Grouping \/ Unary \/ Binary
           \/ EndExpression \/ ConsumeToken
  BY <1>6 DEF FirstAdvance, Declaration, Recover, Synchronize, VarDeclaration, PrintStatement, ForStatement,
     IfStatement, WhileStatement, Block, ExpressionStatement, BlockStatement, ForInitializer, ForCondition,
     ParsePrecedence, NoPrefix, Grouping, Unary, Binary, EndExpression, ConsumeToken, chunkVars, ChunkOK
<1>7. CASE Compile \/ VarInitializer
  <2>1. code' = code \/ \E op \in OpCodes : EmitBytes(<<op>>)
    BY <1>7, EmittedBytes DEF Compile, VarInitializer
  <2>2. QED
    BY <1>4, <1>7, <2>1, EmittedBytes DEF Compile, VarInitializer, ChunkOK, EmitBytes
<1>8. CASE ParseVariable
  BY <1>8 DEF ParseVariable, ChunkOK
<1>9. CASE DefineVariable
  <2>1. <<OP_DEFINE_GLOBAL, frame.global>> \in Seq(Byte)
    BY <1>9, FrameFields, EmittedBytes DEF DefineVariable, At, DeclarationFrames
  <2>2. QED
    BY <1>4, <1>9, <2>1 DEF DefineVariable, ChunkOK, EmitBytes
<1>10. CASE EndScope
  <2>1. PICK n \in Int : EmitBytes([i \in 1 .. n |-> OP_POP])
    <3>1. Len(locals) - Outer(locals, scopeDepth - 1) \in Int
      BY OuterIsPosition DEF LocalsOK
    <3>2. QED
      BY <1>10, <3>1 DEF EndScope
  <2>2. [i \in 1 .. n |-> OP_POP] \in Seq(Byte)
    <3>1. OP_POP \in Byte
      BY EmittedBytes DEF Byte
    <3>2. CASE n \in Nat
      BY <3>1, <3>2
    <3>3. CASE n < 0
      <4>1. [i \in 1 .. n |-> OP_POP] = <<>>
        BY <3>3
      <4>2. QED
        BY <4>1
    <3>4. QED
      BY <3>2, <3>3
  <2>3. QED
    BY <1>4, <1>10, <2>1, <2>2 DEF EndScope, EmitBytes
<1>11. CASE ForIncrement \/ WhileBody \/ IfThen \/ And
  <2>1. /\ EmitJump(OP_JUMP_IF_FALSE) \o <<OP_POP>> \in Seq(Byte)
        /\ (EmitJump(OP_JUMP_IF_FALSE) \o <<OP_POP>>) \o EmitJump(OP_JUMP) \in Seq(Byte)
    BY EmittedBytes, ConcatProperties
  <2>2. \/ EmitBytes(EmitJump(OP_JUMP_IF_FALSE) \o <<OP_POP>>)
        \/ EmitBytes((EmitJump(OP_JUMP_IF_FALSE) \o <<OP_POP>>) \o EmitJump(OP_JUMP))
    BY <1>11 DEF ForIncrement, WhileBody, IfThen, And
  <2>3. UNCHANGED constants
    BY <1>11 DEF ForIncrement, WhileBody, IfThen, And
  <2>4. QED
    BY <1>4, <2>1, <2>2, <2>3 DEF EmitBytes
<1>12. CASE ForBody \/ EndLoop
  <2>1. frame.loop_start \in Int /\ frame.exit_jump \in Int /\ (frame.at = "for_body" => frame.body_jump \in Int)
    BY <1>12, FrameFields DEF ForBody, EndLoop, At
  <2>2. Looped(code, frame.loop_start) \in Seq(Byte)
    BY <2>1, LoopedIsCode DEF ChunkOK
  <2>3. \A jump \in Int : /\ Patched(Looped(code, frame.loop_start), jump) \in Seq(Byte)
                         /\ Append(Patched(Looped(code, frame.loop_start), jump), OP_POP) \in Seq(Byte)
    <3>1. OP_POP \in Byte
      BY EmittedBytes DEF Byte
    <3>2. QED
      BY <2>2, <3>1, PatchedIsCode
  <2>4. QED
    BY <1>12, <2>1, <2>3 DEF ForBody, EndLoop, At
<1>13. CASE IfElse
  <2>1. frame.then_jump \in Int
    BY <1>13, FrameFields DEF IfElse, At
  <2>2. code \o EmitJump(OP_JUMP) \in Seq(Byte)
    BY EmittedBytes, ConcatProperties DEF ChunkOK
  <2>3. Append(Patched(code \o EmitJump(OP_JUMP), frame.then_jump), OP_POP) \in Seq(Byte)
    <3>1. OP_POP \in Byte
      BY EmittedBytes DEF Byte
    <3>2. Patched(code \o EmitJump(OP_JUMP), frame.then_jump) \in Seq(Byte)
      BY <2>1, <2>2, PatchedIsCode
    <3>3. QED
      BY <3>1, <3>2
  <2>4. QED
    BY <1>13, <2>3 DEF IfElse
<1>14. CASE Literal
  <2>1. LiteralCode(previous.type) \in Seq(Byte)
    BY <1>14, EmittedBytes DEF Literal, Prefix, Literals, LiteralCode
  <2>2. QED
    BY <1>4, <1>14, <2>1 DEF Literal, EmitBytes
<1>15. CASE ConstantLiteral
  <2>1. <<OP_CONSTANT, ConstantIndex>> \in Seq(Byte)
    BY EmittedBytes, ConstantIndexType
  <2>2. QED
    BY <1>4, <1>15, <2>1 DEF ConstantLiteral, EmitBytes
<1>16. CASE NamedVariable
  <2>1. {OP_GET_LOCAL, OP_GET_GLOBAL} \subseteq OpCodes
    BY DEF OpCodes, OP_CONSTANT, OP_RETURN, OP_GET_LOCAL, OP_GET_GLOBAL
  <2>2. code' = code \/ \E op \in OpCodes, arg \in 0 .. (U8 - 1) : EmitBytes(<<op, arg>>)
    BY <1>16, <2>1, VariableBytes DEF NamedVariable
  <2>3. UNCHANGED constants \/ MakeConstant(previous.lexeme)
    BY <1>16 DEF NamedVariable
  <2>4. QED
    BY <1>4, <2>2, <2>3, EmittedBytes DEF EmitBytes, ChunkOK
<1>17. CASE EmitCode
  <2>1. frame.bytes \in Seq(Byte)
    BY <1>17, FrameFields DEF EmitCode, At
  <2>2. QED
    BY <1>4, <1>17, <2>1 DEF EmitCode, EmitBytes
<1>18. CASE PatchJump
  <2>1. frame.jump \in Int
    BY <1>18, FrameFields DEF PatchJump, At
  <2>2. QED
    BY <1>18, <2>1, PatchedIsCode DEF PatchJump, ChunkOK
<1>19. QED
  BY <1>6, <1>7, <1>8, <1>9, <1>10, <1>11, <1>12, <1>13, <1>14, <1>15, <1>16, <1>17, <1>18 DEF CompileStep

-----------------------------------------------------------------------------
(***************************************************************************)
(* Locals.                                                                 *)
(***************************************************************************)

\* Every action keeps the array of locals in its types and its bound.
LEMMA LocalsSteps ==
  ASSUME Types, CompileStep
  PROVE  LocalsOK' /\ scopeDepth' \in Int
<1> USE DEF Types
<1>1. Local' = Local
  BY SourceStays DEF Token, Local
<1>2. scopeDepth' \in Int
  BY ScopeDepthSteps
<1>3. CASE UNCHANGED locals
  BY <1>1, <1>2, <1>3 DEF LocalsOK
<1>4. CASE ParseVariable
  <2>1. [name |-> previous, depth |-> NoDepth] \in Local
    BY DEF ParserOK, Local
  <2>2. AddLocal(locals, previous) \in Seq(Local) /\ Len(AddLocal(locals, previous)) <= U8
    <3>1. CASE Full(locals)
      BY <3>1 DEF AddLocal, LocalsOK
    <3>2. CASE ~Full(locals)
      BY <2>1, <3>2 DEF AddLocal, LocalsOK, Full
    <3>3. QED
      BY <3>1, <3>2
  <2>3. locals' = locals \/ locals' = AddLocal(locals, previous)
    BY <1>4 DEF ParseVariable
  <2>4. QED
    BY <1>1, <1>2, <2>2, <2>3 DEF LocalsOK
<1>5. CASE DefineVariable
  <2>1. scopeDepth % U8 \in 0 .. (U8 - 1)
    OBVIOUS
  <2>2. MarkInitialized(locals, scopeDepth) \in Seq(Local)
        /\ Len(MarkInitialized(locals, scopeDepth)) = Len(locals)
    BY <2>1, MarkedLocals DEF LocalsOK
  <2>3. locals' = locals \/ locals' = MarkInitialized(locals, scopeDepth)
    BY <1>5 DEF DefineVariable
  <2>4. QED
    BY <1>1, <1>2, <2>2, <2>3 DEF LocalsOK
<1>6. CASE EndScope
  <2>1. Outer(locals, scopeDepth - 1) \in 0 .. Len(locals)
    BY OuterIsPosition DEF LocalsOK
  <2>2. \A i \in 1 .. Len(locals) : locals[i] \in Local
    BY DEF LocalsOK
  <2>3. SubSeq(locals, 1, Outer(locals, scopeDepth - 1)) \in Seq(Local)
        /\ Len(SubSeq(locals, 1, Outer(locals, scopeDepth - 1))) <= Len(locals)
    BY <2>1, <2>2, SubSeqProperties DEF LocalsOK
  <2>4. QED
    BY <1>1, <1>2, <1>6, <2>3 DEF EndScope, LocalsOK
<1>7. QED
  BY <1>3, <1>4, <1>5, <1>6, LocalsChange

-----------------------------------------------------------------------------
(***************************************************************************)
(* All actions, by what they do to the call stack and to scopes.           *)
(***************************************************************************)

InExpression    == frame.at \in ExpressionFrames /\ Pushes(ExpressionFrames) /\ UNCHANGED scopeVars
InStatement     == frame.at \in OtherFrames /\ Pushes(CallFrames) /\ UNCHANGED scopeVars
InFor           == /\ frame.at \in ForFrames /\ PushesThen(CallFrames, ScopeFrames)
                   /\ UNCHANGED scopeVars
OpensScope      == /\ frame.at \in OtherFrames /\ PushesThen(CallFrames, ScopeFrames)
                   /\ scopeDepth' = scopeDepth + 1 /\ UNCHANGED locals
ClosesScope     == frame.at = "end_scope" /\ Pushes({}) /\ EndScope
StartsVariable  == /\ frame.at = "parse_variable" /\ PushesThen({}, DeclarationFrames)
                   /\ ParseVariable
InitializesVariable == /\ frame.at = "initializer" /\ PushesThen(ExpressionFrames, {"define_variable"})
                       /\ UNCHANGED scopeVars
DefinesVariable == frame.at = "define_variable" /\ Pushes({}) /\ DefineVariable

\* What the actions that name no variable push is what calls may be.
LEMMA PushesCalled ==
  ASSUME Pushes(CalledFrames)
  PROVE  Pushes(CallFrames)
BY DEF Pushes, CalledFrames

LEMMA PushesThenCalled ==
  ASSUME PushesThen(CalledFrames, ScopeFrames)
  PROVE  PushesThen(CallFrames, ScopeFrames)
BY DEF PushesThen, CalledFrames

\* Every action is of one of these kinds.
LEMMA StepKinds ==
  ASSUME Types, CompileStep
  PROVE  /\ todo # <<>> /\ FramesOK'
         /\ \/ InExpression \/ InStatement \/ InFor \/ OpensScope \/ ClosesScope
            \/ StartsVariable \/ InitializesVariable \/ DefinesVariable
<1>1. CASE \/ ParsePrecedence \/ NoPrefix \/ Grouping \/ Unary \/ Literal \/ ConstantLiteral
           \/ NamedVariable \/ Binary \/ And \/ EndExpression \/ ConsumeToken \/ EmitCode \/ PatchJump
  BY <1>1, ExpressionKind DEF InExpression
<1>2. CASE \/ FirstAdvance \/ Compile \/ Declaration \/ Recover \/ Synchronize
           \/ PrintStatement \/ IfStatement \/ WhileStatement \/ ExpressionStatement \/ BlockStatement
           \/ WhileBody \/ EndLoop \/ IfThen \/ IfElse
  BY <1>2, OtherKind, PushesCalled DEF InStatement
<1>3. CASE ForInitializer \/ ForCondition \/ ForIncrement \/ ForBody
  BY <1>3, ForKind, PushesThenCalled DEF InFor
<1>4. CASE ForStatement \/ Block
  BY <1>4, OpenKind, PushesThenCalled DEF OpensScope
<1>5. CASE EndScope
  BY <1>5, CloseKind DEF EndScope, At, ClosesScope
<1>6. CASE DefineVariable
  BY <1>6, CloseKind DEF DefineVariable, At, DefinesVariable
<1>7. CASE ParseVariable
  BY <1>7, DeclareKind DEF StartsVariable
<1>8. CASE VarInitializer
  BY <1>8, InitializerKind DEF InitializesVariable
<1>9. CASE VarDeclaration
  BY <1>9, NameKind DEF InStatement
<1>10. QED
  BY <1>1, <1>2, <1>3, <1>4, <1>5, <1>6, <1>7, <1>8, <1>9 DEF CompileStep

\* Only var_declaration calls parse_variable.
LEMMA NamesCalled ==
  ASSUME Types, CompileStep, ~VarDeclaration
  PROVE  \E k \in 0 .. 4 : Grows(k) /\ \A i \in 1 .. k : todo'[i].at # "parse_variable"
<1> DEFINE Kinds == CalledFrames \union ScopeFrames \union DeclarationFrames
<1>1. /\ ExpressionFrames \subseteq Kinds /\ CalledFrames \subseteq Kinds /\ ScopeFrames \subseteq Kinds
      /\ DeclarationFrames \subseteq Kinds /\ {"define_variable"} \subseteq Kinds /\ {} \subseteq Kinds
      /\ "parse_variable" \notin Kinds
  BY DEF CalledFrames, CallFrames, ExpressionFrames, DeclarationFrames, ScopeFrames, ForFrames
<1>2. Pushes(Kinds)
  <2> HIDE DEF Kinds
  <2>1. ASSUME NEW kinds, NEW last, kinds \subseteq Kinds, last \subseteq Kinds, PushesThen(kinds, last)
        PROVE  Pushes(Kinds)
    <3>1. PICK k \in 1 .. 4 :
            Grows(k) /\ (\A i \in 1 .. (k - 1) : todo'[i].at \in kinds) /\ todo'[k].at \in last
      BY <2>1 DEF PushesThen
    <3>2. \A i \in 1 .. k : i \in 1 .. (k - 1) \/ i = k
      OBVIOUS
    <3>3. k \in 0 .. 4 /\ \A i \in 1 .. k : todo'[i].at \in Kinds
      BY <2>1, <3>1, <3>2
    <3>4. QED
      BY <3>1, <3>3 DEF Pushes
  <2>2. ASSUME NEW kinds, kinds \subseteq Kinds, Pushes(kinds)
        PROVE  Pushes(Kinds)
    BY <2>2 DEF Pushes
  <2>3. CASE \/ ParsePrecedence \/ NoPrefix \/ Grouping \/ Unary \/ Literal \/ ConstantLiteral
             \/ NamedVariable \/ Binary \/ And \/ EndExpression \/ ConsumeToken \/ EmitCode \/ PatchJump
    BY <1>1, <2>2, <2>3, ExpressionKind
  <2>4. CASE \/ FirstAdvance \/ Compile \/ Declaration \/ Recover \/ Synchronize
             \/ PrintStatement \/ IfStatement \/ WhileStatement \/ ExpressionStatement \/ BlockStatement
             \/ WhileBody \/ EndLoop \/ IfThen \/ IfElse
    BY <1>1, <2>2, <2>4, OtherKind
  <2>5. CASE ForInitializer \/ ForCondition \/ ForIncrement \/ ForBody
    BY <1>1, <2>1, <2>5, ForKind
  <2>6. CASE ForStatement \/ Block
    BY <1>1, <2>1, <2>6, OpenKind
  <2>7. CASE EndScope \/ DefineVariable
    BY <1>1, <2>2, <2>7, CloseKind
  <2>8. CASE ParseVariable
    BY <1>1, <2>1, <2>8, DeclareKind
  <2>9. CASE VarInitializer
    BY <1>1, <2>1, <2>9, InitializerKind
  <2>10. QED
    BY <2>3, <2>4, <2>5, <2>6, <2>7, <2>8, <2>9 DEF CompileStep
<1>3. QED
  BY <1>1, <1>2 DEF Pushes

\* Every action keeps the types.
LEMMA TypesSteps ==
  ASSUME Types, CompileStep
  PROVE  Types'
BY ParserSteps, LocalsSteps, ChunkSteps, StepKinds DEF Types

-----------------------------------------------------------------------------
(***************************************************************************)
(* Scopes.  Each end_scope that is to come is a frame of the call stack;   *)
(* they are known by their places, counted from the bottom.                *)
(***************************************************************************)

Scopes(s) == {p \in 1 .. Len(s) : s[Len(s) + 1 - p].at \in ScopeFrames}
ScopesOK  == scopeDepth = Cardinality(Scopes(todo))

\* The places of scopes below the first frame do not change.
LEMMA ScopesBelow ==
  ASSUME FramesOK, FramesOK', todo # <<>>, NEW k \in 0 .. 4, Grows(k)
  PROVE  LET last  == Len(todo)
             below == {p \in 1 .. (last - 1) : todo[last + 1 - p].at \in ScopeFrames}
         IN  /\ Scopes(todo) = below \union (IF frame.at \in ScopeFrames THEN {last} ELSE {})
             /\ Scopes(todo') = below \union {p \in last .. (last - 1 + k) : todo'[last + k - p].at \in ScopeFrames}
             /\ IsFiniteSet(below) /\ last \notin below
<1> DEFINE last == Len(todo)
           below == {p \in 1 .. (last - 1) : todo[last + 1 - p].at \in ScopeFrames}
<1>1. last \in Nat /\ last > 0 /\ Len(todo') = last - 1 + k
  BY EmptySeq DEF FramesOK, Grows
<1>2. frame = todo[1]
  BY DEF frame
<1>3. Scopes(todo) = below \union (IF frame.at \in ScopeFrames THEN {last} ELSE {})
  <2>1. last + 1 - last = 1
    BY <1>1
  <2>2. 1 .. last = (1 .. (last - 1)) \union {last}
    BY <1>1
  <2>3. QED
    BY <1>2, <2>1, <2>2 DEF Scopes
<1>4. Scopes(todo') = below \union {p \in last .. (last - 1 + k) : todo'[last + k - p].at \in ScopeFrames}
  <2>1. \A p \in 1 .. (last - 1 + k) : (last - 1 + k) + 1 - p = last + k - p
    BY <1>1
  <2>2. \A p \in 1 .. (last - 1) : todo'[last + k - p] = todo[last + 1 - p]
    <3> SUFFICES ASSUME NEW p \in 1 .. (last - 1) PROVE todo'[last + k - p] = todo[last + 1 - p]
      OBVIOUS
    <3>1. last + 1 - p \in 2 .. Len(todo) /\ (last + 1 - p) - 1 + k = last + k - p
      BY <1>1
    <3>2. QED
      BY <3>1 DEF Grows
  <2>3. 1 .. (last - 1 + k) = (1 .. (last - 1)) \union (last .. (last - 1 + k))
    BY <1>1
  <2>4. Scopes(todo') = {p \in 1 .. (last - 1 + k) : todo'[last + k - p].at \in ScopeFrames}
    BY <1>1, <2>1 DEF Scopes
  <2> HIDE DEF last
  <2>5. QED
    BY <2>2, <2>3, <2>4
<1>5. IsFiniteSet(below) /\ last \notin below
  <2>1. IsFiniteSet(1 .. (last - 1))
    BY <1>1, FS_Interval
  <2>2. QED
    BY <1>1, <2>1, FS_Subset
<1>6. QED
  BY <1>3, <1>4, <1>5

\* Frames without a scope in place of one without a scope, and one of the same
\* scope in place of one: the scopes stay.
LEMMA ScopesSame ==
  ASSUME FramesOK, FramesOK', todo # <<>>,
         \/ frame.at \notin ScopeFrames /\ Pushes(CallFrames)
         \/ frame.at \notin ScopeFrames /\ PushesThen(CallFrames, DeclarationFrames)
         \/ frame.at \in ScopeFrames /\ PushesThen(CallFrames, ScopeFrames)
  PROVE  Scopes(todo') = Scopes(todo)
<1> DEFINE last == Len(todo)
           below == {p \in 1 .. (last - 1) : todo[last + 1 - p].at \in ScopeFrames}
           above(k) == {p \in last .. (last - 1 + k) : todo'[last + k - p].at \in ScopeFrames}
<1>1. last \in Nat
  BY DEF FramesOK
<1>2. CallFrames \intersect ScopeFrames = {} /\ DeclarationFrames \intersect ScopeFrames = {}
  BY DEF CallFrames, ScopeFrames, ForFrames, ExpressionFrames, OtherFrames, PlainFrames, DeclarationFrames
<1>3. CASE frame.at \notin ScopeFrames /\ (Pushes(CallFrames) \/ PushesThen(CallFrames, DeclarationFrames))
  <2>1. PICK k \in 0 .. 4 : Grows(k) /\ \A i \in 1 .. k : todo'[i].at \notin ScopeFrames
    BY <1>2, <1>3 DEF Pushes, PushesThen
  <2>2. above(k) = {}
    BY <1>1, <2>1
  <2>3. QED
    BY <1>3, <2>1, <2>2, ScopesBelow
<1>4. CASE frame.at \in ScopeFrames /\ PushesThen(CallFrames, ScopeFrames)
  <2>1. PICK k \in 1 .. 4 : /\ Grows(k) /\ todo'[k].at \in ScopeFrames
                            /\ \A i \in 1 .. (k - 1) : todo'[i].at \notin ScopeFrames
    BY <1>2, <1>4 DEF PushesThen
  <2>2. above(k) = {last}
    <3>1. last + k - last = k /\ last \in last .. (last - 1 + k)
      BY <1>1
    <3>2. \A p \in last .. (last - 1 + k) : p # last => last + k - p \in 1 .. (k - 1)
      BY <1>1
    <3>3. QED
      BY <2>1, <3>1, <3>2
  <2>3. k \in 0 .. 4
    OBVIOUS
  <2>4. QED
    BY <1>4, <2>1, <2>2, <2>3, ScopesBelow
<1>5. QED
  BY <1>3, <1>4

\* A frame that hands on a scope of its own opens one.
LEMMA ScopesMore ==
  ASSUME FramesOK, FramesOK', todo # <<>>, frame.at \notin ScopeFrames, PushesThen(CallFrames, ScopeFrames)
  PROVE  Cardinality(Scopes(todo')) = Cardinality(Scopes(todo)) + 1
<1> DEFINE last == Len(todo)
           below == {p \in 1 .. (last - 1) : todo[last + 1 - p].at \in ScopeFrames}
           above(k) == {p \in last .. (last - 1 + k) : todo'[last + k - p].at \in ScopeFrames}
<1>1. last \in Nat
  BY DEF FramesOK
<1>2. CallFrames \intersect ScopeFrames = {}
  BY DEF CallFrames, ScopeFrames, ForFrames, ExpressionFrames, OtherFrames, PlainFrames
<1>3. PICK k \in 1 .. 4 : /\ Grows(k) /\ todo'[k].at \in ScopeFrames
                          /\ \A i \in 1 .. (k - 1) : todo'[i].at \notin ScopeFrames
  BY <1>2 DEF PushesThen
<1>4. above(k) = {last}
  <2>1. last + k - last = k /\ last \in last .. (last - 1 + k)
    BY <1>1
  <2>2. \A p \in last .. (last - 1 + k) : p # last => last + k - p \in 1 .. (k - 1)
    BY <1>1
  <2>3. QED
    BY <1>3, <2>1, <2>2
<1>5. k \in 0 .. 4
  OBVIOUS
<1>6. /\ Scopes(todo) = below /\ Scopes(todo') = below \union {last}
      /\ IsFiniteSet(below) /\ last \notin below
  BY <1>3, <1>4, <1>5, ScopesBelow
<1>7. QED
  BY <1>6, FS_AddElement

\* A frame of a scope that returns closes it.
LEMMA ScopesLess ==
  ASSUME FramesOK, FramesOK', todo # <<>>, frame.at \in ScopeFrames, Pushes({})
  PROVE  Cardinality(Scopes(todo)) = Cardinality(Scopes(todo')) + 1
<1> DEFINE last == Len(todo)
           below == {p \in 1 .. (last - 1) : todo[last + 1 - p].at \in ScopeFrames}
           above(k) == {p \in last .. (last - 1 + k) : todo'[last + k - p].at \in ScopeFrames}
<1>1. last \in Nat
  BY DEF FramesOK
<1>2. PICK k \in 0 .. 4 : Grows(k) /\ \A i \in 1 .. k : todo'[i].at \in {}
  BY DEF Pushes
<1>3. above(k) = {}
  BY <1>1, <1>2
<1>4. /\ Scopes(todo) = below \union {last} /\ Scopes(todo') = below
      /\ IsFiniteSet(below) /\ last \notin below
  BY <1>2, <1>3, ScopesBelow
<1> HIDE DEF below, last
<1>5. Cardinality(below \union {last}) = Cardinality(below) + 1
  BY <1>4, FS_AddElement
<1>6. QED
  BY <1>4, <1>5

\* The call stack is never so deep that its scopes cannot be counted.
LEMMA ScopesFinite ==
  ASSUME FramesOK
  PROVE  IsFiniteSet(Scopes(todo)) /\ Cardinality(Scopes(todo)) \in Nat
<1>1. Len(todo) \in Nat
  BY DEF FramesOK
<1>2. IsFiniteSet(1 .. Len(todo))
  BY <1>1, FS_Interval
<1>3. IsFiniteSet(Scopes(todo))
  BY <1>2, FS_Subset DEF Scopes
<1>4. QED
  BY <1>3, FS_CardinalityType

\* m_scope_depth is the number of the end_scope calls that are to come.
LEMMA ScopesSteps ==
  ASSUME Types, ScopesOK, CompileStep
  PROVE  ScopesOK'
<1>1. FramesOK /\ FramesOK' /\ todo # <<>>
  BY StepKinds DEF Types
<1>2. Cardinality(Scopes(todo)) \in Nat /\ Cardinality(Scopes(todo')) \in Nat
  <2>1. Cardinality(Scopes(todo)) \in Nat
    BY <1>1, ScopesFinite
  <2>2. IsFiniteSet(1 .. Len(todo')) /\ Scopes(todo') \subseteq 1 .. Len(todo')
    BY <1>1, FS_Interval DEF FramesOK, Scopes
  <2>3. QED
    BY <2>1, <2>2, FS_Subset, FS_CardinalityType
<1>3. CallFrames \intersect ScopeFrames = {} /\ ExpressionFrames \subseteq CallFrames
      /\ OtherFrames \subseteq CallFrames /\ ForFrames \subseteq ScopeFrames
  BY DEF CallFrames, ScopeFrames, ForFrames, ExpressionFrames, OtherFrames, PlainFrames
<1>4. CASE InExpression \/ InStatement
  <2>1. frame.at \notin ScopeFrames /\ Pushes(CallFrames) /\ scopeDepth' = scopeDepth
    BY <1>3, <1>4 DEF InExpression, InStatement, Pushes, scopeVars
  <2>2. QED
    BY <1>1, <2>1, ScopesSame DEF ScopesOK
<1>5. CASE InFor
  BY <1>1, <1>3, <1>5, ScopesSame DEF InFor, ScopesOK, scopeVars
<1>6. CASE OpensScope
  <2>1. frame.at \notin ScopeFrames
    BY <1>3, <1>6 DEF OpensScope
  <2>2. QED
    BY <1>1, <1>6, <2>1, ScopesMore DEF OpensScope, ScopesOK
<1>7. CASE ClosesScope
  <2>1. frame.at \in ScopeFrames
    BY <1>7 DEF ClosesScope, ScopeFrames
  <2>2. scopeDepth' = scopeDepth - 1
    BY <1>7 DEF ClosesScope, EndScope
  <2>3. Cardinality(Scopes(todo)) = Cardinality(Scopes(todo')) + 1
    BY <1>1, <1>7, <2>1, ScopesLess DEF ClosesScope
  <2>4. QED
    BY <1>2, <2>2, <2>3 DEF ScopesOK
<1>8. CASE StartsVariable \/ InitializesVariable
  <2>1. frame.at \notin ScopeFrames
    BY <1>8 DEF StartsVariable, InitializesVariable, ScopeFrames, ForFrames
  <2>2. PushesThen(CallFrames, DeclarationFrames)
    BY <1>3, <1>8 DEF StartsVariable, InitializesVariable, PushesThen, DeclarationFrames
  <2>3. scopeDepth' = scopeDepth
    BY <1>8 DEF StartsVariable, InitializesVariable, ParseVariable, scopeVars
  <2>4. QED
    BY <1>1, <2>1, <2>2, <2>3, ScopesSame DEF ScopesOK
<1>9. CASE DefinesVariable
  <2>1. frame.at \notin ScopeFrames /\ Pushes(CallFrames)
    BY <1>9 DEF DefinesVariable, ScopeFrames, ForFrames, Pushes
  <2>2. scopeDepth' = scopeDepth
    BY <1>9 DEF DefinesVariable, DefineVariable
  <2>3. QED
    BY <1>1, <2>1, <2>2, ScopesSame DEF ScopesOK
<1>10. QED
  BY <1>4, <1>5, <1>6, <1>7, <1>8, <1>9, StepKinds

-----------------------------------------------------------------------------
(***************************************************************************)
(* Locals and scopes, as long as no scope is deeper than the u8 in which a *)
(* local keeps its depth can tell: the locals of an inner scope are above  *)
(* those of an outer one, and one without a depth is the last, its         *)
(* declaration still in progress.                                          *)
(***************************************************************************)

\* Only expressions are parsed while a declaration is in progress.
Nested == \A i \in 1 .. Len(todo) : todo[i].at \in DeclarationFrames =>
            \A j \in 1 .. (i - 1) : todo[j].at \in ExpressionFrames

Declaring == \E i \in 1 .. Len(todo) : todo[i].at \in DeclarationFrames

Layered(s, depth) ==
  /\ \A i \in 1 .. Len(s) : s[i].depth # NoDepth => s[i].depth \in 1 .. depth
  /\ \A i, j \in 1 .. Len(s) :
       i < j /\ s[i].depth # NoDepth /\ s[j].depth # NoDepth => s[i].depth <= s[j].depth
  /\ \A i \in 1 .. Len(s) : s[i].depth = NoDepth => i = Len(s)
LayersOK ==
  /\ Layered(locals, scopeDepth)
  /\ (\E i \in 1 .. Len(locals) : locals[i].depth = NoDepth) => Declaring /\ scopeDepth > 0

\* Where the frames of the call stack come from.
LEMMA FramesFrom ==
  ASSUME FramesOK, FramesOK', todo # <<>>, NEW k \in 0 .. 4, Grows(k)
  PROVE  /\ \A i \in 1 .. Len(todo') : i > k => i - k + 1 \in 2 .. Len(todo) /\ todo'[i] = todo[i - k + 1]
         /\ frame = todo[1] /\ 1 \in 1 .. Len(todo) /\ k <= Len(todo')
<1>1. Len(todo) \in Nat /\ Len(todo) > 0 /\ Len(todo') = Len(todo) - 1 + k
  BY EmptySeq DEF FramesOK, Grows
<1>2. ASSUME NEW i \in 1 .. Len(todo'), i > k
      PROVE  i - k + 1 \in 2 .. Len(todo) /\ todo'[i] = todo[i - k + 1]
  <2>1. i - k + 1 \in 2 .. Len(todo) /\ (i - k + 1) - 1 + k = i
    BY <1>1, <1>2
  <2>2. QED
    BY <2>1 DEF Grows
<1>3. QED
  BY <1>1, <1>2 DEF frame

\* A frame that is neither of an expression nor of a declaration runs only
\* when no declaration is in progress.
LEMMA NotDeclaring ==
  ASSUME FramesOK, Nested, todo # <<>>, frame.at \notin ExpressionFrames
  PROVE  /\ \A i \in 2 .. Len(todo) : todo[i].at \notin DeclarationFrames
         /\ frame.at \notin DeclarationFrames => ~Declaring
<1>1. Len(todo) \in Nat /\ frame = todo[1]
  BY DEF FramesOK, frame
<1>2. ASSUME NEW i \in 2 .. Len(todo), todo[i].at \in DeclarationFrames
      PROVE  FALSE
  <2>1. i \in 1 .. Len(todo) /\ 1 \in 1 .. (i - 1)
    BY <1>1
  <2>2. QED
    BY <1>1, <1>2, <2>1 DEF Nested
<1>3. ASSUME frame.at \notin DeclarationFrames, NEW i \in 1 .. Len(todo), todo[i].at \in DeclarationFrames
      PROVE  FALSE
  <2>1. i = 1 \/ i \in 2 .. Len(todo)
    BY <1>1
  <2>2. QED
    BY <1>1, <1>2, <1>3, <2>1
<1>4. QED
  BY <1>2, <1>3 DEF Declaring

\* Declarations stay nested; while an expression is parsed the one in progress
\* stays in progress, and none is after any other step.
LEMMA NestedSteps ==
  ASSUME Types, Nested, CompileStep
  PROVE  /\ Nested'
         /\ InExpression => Declaring' = Declaring
         /\ StartsVariable \/ InitializesVariable => Declaring'
         /\ InStatement \/ InFor \/ OpensScope \/ ClosesScope \/ DefinesVariable => ~Declaring'
<1>1. FramesOK /\ FramesOK' /\ todo # <<>>
  BY StepKinds DEF Types
<1>2. /\ CallFrames \intersect DeclarationFrames = {} /\ ScopeFrames \intersect DeclarationFrames = {}
      /\ ExpressionFrames \intersect DeclarationFrames = {}
      /\ OtherFrames \intersect ExpressionFrames = {} /\ ScopeFrames \intersect ExpressionFrames = {}
      /\ ExpressionFrames \subseteq CallFrames /\ ForFrames \subseteq ScopeFrames
      /\ DeclarationFrames \intersect ExpressionFrames = {}
  BY DEF CallFrames, ScopeFrames, ForFrames, ExpressionFrames, OtherFrames, PlainFrames, DeclarationFrames
<1>3. ASSUME InExpression
      PROVE  Nested' /\ Declaring' = Declaring
  <2>1. PICK k \in 0 .. 4 : Grows(k) /\ \A i \in 1 .. k : todo'[i].at \in ExpressionFrames
    BY <1>3 DEF InExpression, Pushes
  <2>2. \A i \in 1 .. Len(todo') : i > k => i - k + 1 \in 2 .. Len(todo) /\ todo'[i] = todo[i - k + 1]
    BY <1>1, <2>1, FramesFrom
  <2>3. frame = todo[1] /\ Len(todo) \in Nat /\ Len(todo') \in Nat
    BY <1>1 DEF frame, FramesOK
  <2>4. ASSUME NEW i \in 1 .. Len(todo'), todo'[i].at \in DeclarationFrames, NEW j \in 1 .. (i - 1)
        PROVE  todo'[j].at \in ExpressionFrames
    <3>1. i > k /\ i - k + 1 \in 1 .. Len(todo) /\ todo[i - k + 1].at \in DeclarationFrames
      BY <1>2, <2>1, <2>2, <2>3, <2>4
    <3>2. CASE j <= k
      BY <2>1, <3>2
    <3>3. CASE j > k
      <4>1. j \in 1 .. Len(todo') /\ j - k + 1 \in 1 .. (i - k + 1) - 1
        BY <2>3, <3>1, <3>3
      <4>2. QED
        BY <2>2, <3>1, <3>3, <4>1 DEF Nested
    <3>4. QED
      BY <3>2, <3>3
  <2>5. ASSUME Declaring
        PROVE  Declaring'
    <3>1. PICK i \in 1 .. Len(todo) : todo[i].at \in DeclarationFrames
      BY <2>5 DEF Declaring
    <3>2. i # 1
      BY <1>2, <1>3, <2>3, <3>1 DEF InExpression
    <3>3. i \in 2 .. Len(todo) /\ i - 1 + k \in 1 .. Len(todo')
      BY <2>1, <2>3, <3>2 DEF Grows
    <3>4. todo'[i - 1 + k] = todo[i]
      BY <2>1, <3>3 DEF Grows
    <3>5. QED
      BY <3>1, <3>3, <3>4 DEF Declaring
  <2>6. ASSUME Declaring'
        PROVE  Declaring
    <3>1. PICK i \in 1 .. Len(todo') : todo'[i].at \in DeclarationFrames
      BY <2>6 DEF Declaring
    <3>2. i > k
      BY <1>2, <2>1, <2>3, <3>1
    <3>3. i - k + 1 \in 1 .. Len(todo) /\ todo[i - k + 1].at \in DeclarationFrames
      BY <2>2, <2>3, <3>1, <3>2
    <3>4. QED
      BY <3>3 DEF Declaring
  <2>7. Declaring \in BOOLEAN /\ Declaring' \in BOOLEAN
    BY DEF Declaring
  <2>8. QED
    BY <2>4, <2>5, <2>6, <2>7 DEF Nested
<1>4. ASSUME frame.at \notin ExpressionFrames, NEW k \in 0 .. 4, Grows(k),
             \A i \in 1 .. (k - 1) : todo'[i].at \in CallFrames,
             k > 0 /\ todo'[k].at \in DeclarationFrames => \A i \in 1 .. (k - 1) : todo'[i].at \in ExpressionFrames
      PROVE  Nested' /\ (k = 0 \/ todo'[k].at \notin DeclarationFrames => ~Declaring')
  <2>1. \A i \in 1 .. Len(todo') : i > k => i - k + 1 \in 2 .. Len(todo) /\ todo'[i] = todo[i - k + 1]
    BY <1>1, <1>4, FramesFrom
  <2>2. \A i \in 2 .. Len(todo) : todo[i].at \notin DeclarationFrames
    BY <1>1, <1>4, NotDeclaring
  <2>3. ASSUME NEW i \in 1 .. Len(todo'), todo'[i].at \in DeclarationFrames
        PROVE  i = k
    <3>1. CASE i > k
      BY <2>1, <2>2, <2>3, <3>1
    <3>2. CASE i < k
      BY <1>2, <1>4, <2>3, <3>2
    <3>3. QED
      BY <3>1, <3>2
  <2>4. QED
    BY <1>4, <2>3 DEF Nested, Declaring
<1>5. ASSUME InStatement \/ ClosesScope \/ DefinesVariable
      PROVE  Nested' /\ ~Declaring'
  <2>1. frame.at \notin ExpressionFrames
    BY <1>2, <1>5 DEF InStatement, ClosesScope, DefinesVariable, ExpressionFrames
  <2>2. PICK k \in 0 .. 4 : Grows(k) /\ \A i \in 1 .. k : todo'[i].at \in CallFrames
    BY <1>5 DEF InStatement, ClosesScope, DefinesVariable, Pushes
  <2>3. \A i \in 1 .. (k - 1) : i \in 1 .. k
    OBVIOUS
  <2>4. k = 0 \/ (k > 0 /\ k \in 1 .. k)
    OBVIOUS
  <2>5. QED
    BY <1>2, <1>4, <2>1, <2>2, <2>3, <2>4
<1>6. ASSUME InFor \/ OpensScope
      PROVE  Nested' /\ ~Declaring'
  <2>1. frame.at \notin ExpressionFrames
    BY <1>2, <1>6 DEF InFor, OpensScope
  <2>2. PICK k \in 1 .. 4 : /\ Grows(k) /\ todo'[k].at \in ScopeFrames
                            /\ \A i \in 1 .. (k - 1) : todo'[i].at \in CallFrames
    BY <1>6 DEF InFor, OpensScope, PushesThen
  <2>3. QED
    BY <1>2, <1>4, <2>1, <2>2
<1>7. ASSUME StartsVariable \/ InitializesVariable
      PROVE  Nested' /\ Declaring'
  <2>1. frame.at \notin ExpressionFrames
    BY <1>7 DEF StartsVariable, InitializesVariable, ExpressionFrames
  <2>2. PICK k \in 1 .. 4 : /\ Grows(k) /\ todo'[k].at \in DeclarationFrames
                            /\ \A i \in 1 .. (k - 1) : todo'[i].at \in ExpressionFrames
    BY <1>7 DEF StartsVariable, InitializesVariable, PushesThen, DeclarationFrames
  <2>3. Nested'
    BY <1>2, <1>4, <2>1, <2>2
  <2>4. k \in 1 .. Len(todo')
    <3>1. k \in 0 .. 4
      OBVIOUS
    <3>2. k <= Len(todo')
      BY <1>1, <2>2, <3>1, FramesFrom
    <3>3. QED
      BY <1>1, <3>2 DEF FramesOK
  <2>5. Declaring'
    BY <2>2, <2>4 DEF Declaring
  <2>6. QED
    BY <2>3, <2>5
<1>8. QED
  BY <1>3, <1>5, <1>6, <1>7, StepKinds

\* end_scope drops exactly the locals of the scope that it ends.
LEMMA LayersDropped ==
  ASSUME NEW s \in Seq(Local), NEW depth \in Nat \ {0}, Layered(s, depth),
         \A i \in 1 .. Len(s) : s[i].depth # NoDepth
  PROVE  LET kept == SubSeq(s, 1, Outer(s, depth - 1))
         IN  /\ Len(kept) = Outer(s, depth - 1) /\ Outer(s, depth - 1) \in 0 .. Len(s)
             /\ \A i \in 1 .. Outer(s, depth - 1) : kept[i] = s[i]
             /\ Layered(kept, depth - 1)
             /\ \A i \in 1 .. Len(s) : i > Outer(s, depth - 1) => s[i].depth = depth
<1> DEFINE outer == Outer(s, depth - 1)
           kept  == SubSeq(s, 1, outer)
<1>1. Len(s) \in Nat /\ \A i \in 1 .. Len(s) : s[i].depth \in 1 .. depth
  BY DEF Layered
<1>2. /\ outer \in 0 .. Len(s)
      /\ outer = 0 \/ (outer \in 1 .. Len(s) /\ s[outer].depth <= depth - 1)
      /\ \A i \in 1 .. Len(s) : s[i].depth <= depth - 1 => i <= outer
  BY <1>1, OuterIsPosition
<1> HIDE DEF outer
<1>3. Len(kept) = outer /\ \A i \in 1 .. outer : kept[i] = s[i]
  BY <1>1, <1>2, SubSeqProperties
<1>4. ASSUME NEW i \in 1 .. Len(s), i > outer
      PROVE  s[i].depth = depth
  BY <1>1, <1>2, <1>4
<1>5. ASSUME NEW i \in 1 .. outer
      PROVE  s[i].depth \in 1 .. (depth - 1)
  <2>1. s[outer].depth \in 1 .. (depth - 1) /\ outer \in 1 .. Len(s) /\ i \in 1 .. Len(s)
    BY <1>1, <1>2, <1>5
  <2>2. i < outer => s[i].depth <= s[outer].depth
    BY <2>1 DEF Layered
  <2>3. s[i].depth \in 1 .. depth /\ (i = outer \/ i < outer)
    BY <1>1, <2>1
  <2>4. QED
    BY <2>1, <2>2, <2>3
<1>6. \A i \in 1 .. outer : i \in 1 .. Len(s) /\ s[i].depth # NoDepth
  BY <1>1, <1>2
<1>7. Layered(kept, depth - 1)
  BY <1>3, <1>5, <1>6 DEF Layered
<1>8. QED
  BY <1>2, <1>3, <1>4, <1>7 DEF outer

\* A local that is marked as initialized belongs to the innermost scope.
LEMMA LayersMarked ==
  ASSUME NEW s \in Seq(Local), NEW depth \in 1 .. (U8 - 1), Layered(s, depth)
  PROVE  /\ Layered(MarkInitialized(s, depth), depth)
         /\ \A i \in 1 .. Len(s) : MarkInitialized(s, depth)[i].depth # NoDepth
         /\ Len(MarkInitialized(s, depth)) = Len(s)
         /\ \A i \in 1 .. Len(s) :
              MarkInitialized(s, depth)[i].depth = IF i = Len(s) THEN depth ELSE s[i].depth
<1>1. depth % U8 = depth
  OBVIOUS
<1>2. /\ Len(MarkInitialized(s, depth)) = Len(s) /\ Len(s) \in Nat
      /\ \A i \in 1 .. Len(s) :
           MarkInitialized(s, depth)[i].depth = IF i = Len(s) THEN depth ELSE s[i].depth
  BY <1>1, MarkedLocals
<1>3. depth # NoDepth /\ \A i \in 1 .. Len(s) : i # Len(s) => s[i].depth \in 1 .. depth /\ s[i].depth # NoDepth
  BY NoDepthAssumption DEF Layered
<1>4. QED
  BY <1>2, <1>3 DEF Layered

\* A new local is the last, and has no depth yet.
LEMMA LayersAdded ==
  ASSUME NEW s \in Seq(Local), NEW depth, Layered(s, depth), NEW name,
         \A i \in 1 .. Len(s) : s[i].depth # NoDepth, ~Full(s)
  PROVE  /\ Layered(AddLocal(s, name), depth)
         /\ Len(AddLocal(s, name)) = Len(s) + 1
         /\ \A i \in 1 .. Len(s) : AddLocal(s, name)[i] = s[i]
         /\ AddLocal(s, name)[Len(s) + 1].depth = NoDepth
<1>1. AddLocal(s, name) = Append(s, [name |-> name, depth |-> NoDepth])
  BY DEF AddLocal
<1>2. /\ Len(AddLocal(s, name)) = Len(s) + 1 /\ Len(s) \in Nat
      /\ \A i \in 1 .. Len(s) : AddLocal(s, name)[i] = s[i]
      /\ AddLocal(s, name)[Len(s) + 1].depth = NoDepth
  BY <1>1
<1>3. QED
  BY <1>2 DEF Layered

\* The locals stay in layers.
LEMMA LayersSteps ==
  ASSUME Types, Nested, LayersOK, CompileStep, scopeDepth \in 0 .. (U8 - 1), scopeDepth' \in Nat
  PROVE  LayersOK'
<1>1. FramesOK /\ todo # <<>> /\ locals \in Seq(Local)
  BY StepKinds DEF Types, LocalsOK
<1>2. CASE InExpression
  <2>1. UNCHANGED <<locals, scopeDepth>> /\ Declaring' = Declaring
    BY <1>2, NestedSteps DEF InExpression, scopeVars
  <2>2. QED
    BY <2>1 DEF LayersOK, Layered
<1>3. CASE InitializesVariable
  <2>1. UNCHANGED <<locals, scopeDepth>> /\ Declaring'
    BY <1>3, NestedSteps DEF InitializesVariable, scopeVars
  <2>2. QED
    BY <2>1 DEF LayersOK, Layered
<1>4. CASE InStatement \/ InFor \/ OpensScope \/ ClosesScope \/ StartsVariable
  <2>1. ~Declaring
    <3>1. frame.at \notin ExpressionFrames /\ frame.at \notin DeclarationFrames
      BY <1>4 DEF InStatement, InFor, OpensScope, ClosesScope, StartsVariable, ExpressionFrames, DeclarationFrames,
         OtherFrames, PlainFrames, ForFrames
    <3>2. QED
      BY <1>1, <3>1, NotDeclaring
  <2>2. \A i \in 1 .. Len(locals) : locals[i].depth # NoDepth
    BY <2>1 DEF LayersOK
  <2>3. CASE InStatement \/ InFor
    <3>1. UNCHANGED <<locals, scopeDepth>>
      BY <2>3 DEF InStatement, InFor, scopeVars
    <3>2. QED
      BY <2>2, <3>1 DEF LayersOK, Layered
  <2>4. CASE OpensScope
    <3>1. locals' = locals /\ scopeDepth' = scopeDepth + 1
      BY <2>4 DEF OpensScope
    <3>2. \A n \in 1 .. scopeDepth : n \in 1 .. (scopeDepth + 1)
      OBVIOUS
    <3>3. QED
      BY <2>2, <3>1, <3>2 DEF LayersOK, Layered
  <2>5. CASE ClosesScope
    <3>1. /\ scopeDepth' = scopeDepth - 1
          /\ locals' = SubSeq(locals, 1, Outer(locals, scopeDepth - 1))
      BY <2>5 DEF ClosesScope, EndScope
    <3>2. scopeDepth \in Nat \ {0}
      BY <3>1
    <3>3. /\ Layered(locals', scopeDepth') /\ Len(locals') \in 0 .. Len(locals)
          /\ \A i \in 1 .. Len(locals') : locals'[i] = locals[i]
      BY <1>1, <2>2, <3>1, <3>2, LayersDropped DEF LayersOK
    <3>4. \A i \in 1 .. Len(locals') : i \in 1 .. Len(locals)
      BY <1>1, <3>3
    <3>5. QED
      BY <2>2, <3>3, <3>4 DEF LayersOK, Layered
  <2>6. CASE StartsVariable
    <3>1. scopeDepth' = scopeDepth /\ Declaring'
      BY <2>6, NestedSteps DEF StartsVariable, ParseVariable
    <3>2. CASE scopeDepth > 0 /\ ~Full(locals)
      <4>1. locals' = AddLocal(locals, previous)
        BY <2>6, <3>2 DEF StartsVariable, ParseVariable
      <4>2. Layered(locals', scopeDepth)
        BY <1>1, <2>2, <3>2, <4>1, LayersAdded DEF LayersOK
      <4>3. QED
        BY <3>1, <3>2, <4>2 DEF LayersOK, Layered
    <3>3. CASE ~(scopeDepth > 0 /\ ~Full(locals))
      <4>1. locals' = locals
        BY <2>6, <3>3 DEF StartsVariable, ParseVariable, AddLocal
      <4>2. QED
        BY <2>2, <3>1, <4>1 DEF LayersOK, Layered
    <3>4. QED
      BY <3>2, <3>3
  <2>7. QED
    BY <1>4, <2>3, <2>4, <2>5, <2>6
<1>5. CASE DefinesVariable
  <2>1. scopeDepth' = scopeDepth
    BY <1>5 DEF DefinesVariable, DefineVariable
  <2>2. CASE scopeDepth > 0
    <3>1. locals' = MarkInitialized(locals, scopeDepth)
      BY <1>5, <2>2 DEF DefinesVariable, DefineVariable
    <3>2. scopeDepth \in 1 .. (U8 - 1)
      BY <2>2
    <3>3. /\ Layered(locals', scopeDepth) /\ Len(locals') = Len(locals)
          /\ \A i \in 1 .. Len(locals) : locals'[i].depth # NoDepth
      BY <1>1, <3>1, <3>2, LayersMarked DEF LayersOK
    <3>4. QED
      BY <2>1, <3>3 DEF LayersOK, Layered
  <2>3. CASE ~(scopeDepth > 0)
    <3>1. locals' = locals
      BY <1>5, <2>3 DEF DefinesVariable, DefineVariable
    <3>2. \A i \in 1 .. Len(locals) : locals[i].depth # NoDepth
      BY <2>3 DEF LayersOK
    <3>3. QED
      BY <2>1, <3>1, <3>2 DEF LayersOK, Layered
  <2>4. QED
    BY <2>2, <2>3
<1>6. QED
  BY <1>2, <1>3, <1>4, <1>5, StepKinds

-----------------------------------------------------------------------------
(***************************************************************************)
(* The depth of a local, against the number of scopes that were open when  *)
(* it was declared.                                                        *)
(***************************************************************************)

\* The open scopes, and the deepest.
HistoryOK == /\ opened \in Seq(Nat) /\ Len(opened) = scopeDepth
             /\ deepest \in Nat /\ scopeDepth <= deepest

OwnersOK ==
  /\ \A k \in 1 .. Len(opened) : opened[k] <= Len(locals)
  /\ \A i \in 1 .. Len(locals) : locals[i].depth # NoDepth =>
       \A k \in 1 .. Len(opened) : opened[k] < i <=> k <= locals[i].depth
  /\ Declaring /\ scopeDepth > 0 =>
       /\ Len(locals) > 0 /\ locals[Len(locals)].depth = NoDepth
       /\ \A k \in 1 .. Len(opened) : opened[k] < Len(locals)

\* The open scopes are as many as m_scope_depth says.
LEMMA HistorySteps ==
  ASSUME Types, HistoryOK, HNext, CompileStep, scopeDepth' \in Nat
  PROVE  /\ HistoryOK' /\ deepest <= deepest'
         /\ scopeDepth' = scopeDepth => opened' = opened
         /\ scopeDepth' = scopeDepth + 1 => opened' = Append(opened, Len(locals))
         /\ scopeDepth' = scopeDepth - 1 =>
              Len(opened') = Len(opened) - 1 /\ \A k \in 1 .. Len(opened') : opened'[k] = opened[k]
<1>1. scopeDepth \in Nat /\ Len(locals) \in Nat /\ opened \in Seq(Nat) /\ Len(opened) = scopeDepth
  BY DEF HistoryOK, Types, LocalsOK
<1>2. scopeDepth' \in {scopeDepth, scopeDepth + 1, scopeDepth - 1}
  BY ScopeDepthSteps
<1>3. /\ deepest' = IF scopeDepth' > deepest THEN scopeDepth' ELSE deepest
      /\ opened' = CASE scopeDepth' > scopeDepth -> Append(opened, Len(locals))
                     [] scopeDepth' < scopeDepth -> Front(opened)
                     [] OTHER -> opened
  BY DEF HNext, Note
<1>4. deepest' \in Nat /\ scopeDepth' <= deepest' /\ deepest <= deepest'
  BY <1>3 DEF HistoryOK
<1>5. CASE scopeDepth' = scopeDepth
  BY <1>1, <1>3, <1>4, <1>5 DEF HistoryOK
<1>6. CASE scopeDepth' = scopeDepth + 1
  <2>1. opened' = Append(opened, Len(locals))
    BY <1>1, <1>3, <1>6
  <2>2. opened' \in Seq(Nat) /\ Len(opened') = scopeDepth'
    BY <1>1, <1>6, <2>1
  <2>3. QED
    BY <1>1, <1>4, <1>6, <2>1, <2>2 DEF HistoryOK
<1>7. CASE scopeDepth' = scopeDepth - 1
  <2>1. opened' = SubSeq(opened, 1, Len(opened) - 1)
    BY <1>1, <1>3, <1>7 DEF Front
  <2>2. Len(opened) - 1 \in 0 .. Len(opened)
    BY <1>1, <1>7
  <2>3. \A k \in 1 .. (Len(opened) - 1) : opened[k] \in Nat
    BY <1>1
  <2>4. opened' \in Seq(Nat) /\ Len(opened') = Len(opened) - 1
        /\ \A k \in 1 .. Len(opened') : opened'[k] = opened[k]
    BY <1>1, <2>1, <2>2, <2>3, SubSeqProperties
  <2>5. QED
    BY <1>1, <1>4, <1>7, <2>4 DEF HistoryOK
<1>8. QED
  BY <1>2, <1>5, <1>6, <1>7

\* Until an error, a local is declared in as many scopes as its depth says.
LEMMA OwnersSteps ==
  ASSUME Types, Nested, HistoryOK, LayersOK, OwnersOK, HNext, CompileStep,
         scopeDepth \in 0 .. (U8 - 1), scopeDepth' \in Nat, ~hadError'
  PROVE  OwnersOK'
<1>1. FramesOK /\ todo # <<>> /\ locals \in Seq(Local) /\ Len(locals) \in Nat
  BY StepKinds DEF Types, LocalsOK
<1>2. /\ scopeDepth' = scopeDepth => opened' = opened
      /\ scopeDepth' = scopeDepth + 1 => opened' = Append(opened, Len(locals))
      /\ scopeDepth' = scopeDepth - 1 =>
           Len(opened') = Len(opened) - 1 /\ \A k \in 1 .. Len(opened') : opened'[k] = opened[k]
  BY HistorySteps
<1>3. opened \in Seq(Nat) /\ Len(opened) = scopeDepth
  BY DEF HistoryOK
<1>4. \A i \in 1 .. Len(locals) : locals[i].depth # NoDepth => locals[i].depth \in 1 .. scopeDepth
  BY DEF LayersOK, Layered
<1>5. CASE InExpression \/ InitializesVariable \/ InStatement \/ InFor
  <2>1. UNCHANGED <<locals, scopeDepth, opened>>
    BY <1>2, <1>5 DEF InExpression, InitializesVariable, InStatement, InFor, scopeVars
  <2>2. Declaring' => Declaring
    <3>1. InitializesVariable => Declaring
      <4>1. 1 \in 1 .. Len(todo) /\ frame = todo[1]
        BY <1>1, EmptySeq DEF FramesOK, frame
      <4>2. QED
        BY <4>1 DEF InitializesVariable, Declaring, DeclarationFrames
    <3>2. QED
      BY <1>5, <3>1, NestedSteps
  <2>3. QED
    BY <2>1, <2>2 DEF OwnersOK
<1>6. CASE OpensScope
  <2>1. /\ locals' = locals /\ scopeDepth' = scopeDepth + 1 /\ opened' = Append(opened, Len(locals))
        /\ ~Declaring'
    BY <1>2, <1>6, NestedSteps DEF OpensScope
  <2>2. /\ Len(opened') = scopeDepth + 1 /\ opened'[scopeDepth + 1] = Len(locals)
        /\ \A k \in 1 .. scopeDepth : opened'[k] = opened[k]
    BY <1>3, <2>1
  <2>3. \A k \in 1 .. (scopeDepth + 1) : k \in 1 .. scopeDepth \/ k = scopeDepth + 1
    OBVIOUS
  <2>4. \A k \in 1 .. Len(opened') : opened'[k] <= Len(locals')
    BY <1>1, <1>3, <2>1, <2>2, <2>3 DEF OwnersOK
  <2>5. ASSUME NEW i \in 1 .. Len(locals), locals[i].depth # NoDepth, NEW k \in 1 .. Len(opened')
        PROVE  opened'[k] < i <=> k <= locals[i].depth
    <3>1. locals[i].depth \in 1 .. scopeDepth
      BY <1>4, <2>5
    <3>2. CASE k \in 1 .. scopeDepth
      BY <1>3, <2>2, <2>5, <3>2 DEF OwnersOK
    <3>3. CASE k = scopeDepth + 1
      BY <1>1, <2>2, <3>1, <3>3
    <3>4. QED
      BY <2>2, <2>3, <3>2, <3>3
  <2>6. QED
    BY <2>1, <2>4, <2>5 DEF OwnersOK
<1>7. CASE ClosesScope
  <2> DEFINE outer == Outer(locals, scopeDepth - 1)
  <2>1. /\ scopeDepth' = scopeDepth - 1 /\ locals' = SubSeq(locals, 1, outer)
        /\ ~Declaring'
    BY <1>7, NestedSteps DEF ClosesScope, EndScope
  <2>2. Len(opened') = scopeDepth - 1 /\ \A k \in 1 .. Len(opened') : opened'[k] = opened[k] /\ k \in 1 .. scopeDepth
    BY <1>2, <1>3, <2>1
  <2>3. \A i \in 1 .. Len(locals) : locals[i].depth # NoDepth
    <3>1. frame.at \notin ExpressionFrames /\ frame.at \notin DeclarationFrames
      BY <1>7 DEF ClosesScope, ExpressionFrames, DeclarationFrames
    <3>2. ~Declaring
      BY <1>1, <3>1, NotDeclaring
    <3>3. QED
      BY <3>2 DEF LayersOK
  <2>4. scopeDepth \in Nat \ {0}
    BY <2>1
  <2>5. /\ Len(locals') = outer /\ outer \in 0 .. Len(locals)
        /\ \A i \in 1 .. outer : locals'[i] = locals[i]
        /\ \A i \in 1 .. Len(locals) : i > outer => locals[i].depth = scopeDepth
    BY <1>1, <2>1, <2>3, <2>4, LayersDropped DEF LayersOK
  <2> HIDE DEF outer
  <2>6. ASSUME NEW k \in 1 .. Len(opened')
        PROVE  opened'[k] <= Len(locals')
    <3>1. opened'[k] = opened[k] /\ k \in 1 .. scopeDepth /\ opened[k] <= Len(locals) /\ opened[k] \in Nat
      BY <1>3, <2>2, <2>6 DEF OwnersOK
    <3>2. CASE outer = Len(locals)
      BY <2>5, <3>1, <3>2
    <3>3. CASE outer < Len(locals)
      <4>1. outer + 1 \in 1 .. Len(locals) /\ locals[outer + 1].depth = scopeDepth
        BY <1>1, <2>5, <3>3
      <4>2. k <= locals[outer + 1].depth
        BY <3>1, <4>1
      <4>3. opened[k] < outer + 1
        BY <1>3, <2>3, <3>1, <4>1, <4>2 DEF OwnersOK
      <4>4. QED
        BY <2>5, <3>1, <4>3
    <3>4. QED
      BY <1>1, <2>5, <3>2, <3>3
  <2>7. ASSUME NEW i \in 1 .. Len(locals'), NEW k \in 1 .. Len(opened')
        PROVE  opened'[k] < i <=> k <= locals'[i].depth
    <3>1. i \in 1 .. Len(locals) /\ locals'[i] = locals[i]
      BY <1>1, <2>5
    <3>2. QED
      BY <1>3, <2>2, <2>3, <3>1 DEF OwnersOK
  <2>8. QED
    BY <2>1, <2>6, <2>7 DEF OwnersOK
<1>8. CASE StartsVariable
  <2>1. scopeDepth' = scopeDepth /\ opened' = opened
    BY <1>2, <1>8 DEF StartsVariable, ParseVariable
  <2>2. \A i \in 1 .. Len(locals) : locals[i].depth # NoDepth
    <3>1. frame.at \notin ExpressionFrames /\ frame.at \notin DeclarationFrames
      BY <1>8 DEF StartsVariable, ExpressionFrames, DeclarationFrames
    <3>2. ~Declaring
      BY <1>1, <3>1, NotDeclaring
    <3>3. QED
      BY <3>2 DEF LayersOK
  <2>3. CASE scopeDepth > 0
    <3>1. locals' = AddLocal(locals, previous) /\ ~Full(locals)
      BY <1>8, <2>3 DEF StartsVariable, ParseVariable, Report
    <3>2. /\ Len(locals') = Len(locals) + 1
          /\ \A i \in 1 .. Len(locals) : locals'[i] = locals[i]
          /\ locals'[Len(locals) + 1].depth = NoDepth
      BY <1>1, <2>2, <3>1, LayersAdded DEF LayersOK
    <3>3. \A k \in 1 .. Len(opened) : opened[k] \in Nat /\ opened[k] <= Len(locals)
      BY <1>3 DEF OwnersOK
    <3>4. \A i \in 1 .. (Len(locals) + 1) : i \in 1 .. Len(locals) \/ i = Len(locals) + 1
      BY <1>1
    <3>5. QED
      BY <1>1, <2>1, <3>2, <3>3, <3>4 DEF OwnersOK
  <2>4. CASE ~(scopeDepth > 0)
    <3>1. locals' = locals
      BY <1>8, <2>4 DEF StartsVariable, ParseVariable
    <3>2. QED
      BY <2>1, <2>4, <3>1 DEF OwnersOK
  <2>5. QED
    BY <2>3, <2>4
<1>9. CASE DefinesVariable
  <2>1. scopeDepth' = scopeDepth /\ opened' = opened /\ ~Declaring'
    BY <1>2, <1>9, NestedSteps DEF DefinesVariable, DefineVariable
  <2>2. CASE scopeDepth > 0
    <3>1. Declaring
      <4>1. 1 \in 1 .. Len(todo) /\ frame = todo[1]
        BY <1>1, EmptySeq DEF FramesOK, frame
      <4>2. QED
        BY <1>9, <4>1 DEF DefinesVariable, Declaring, DeclarationFrames
    <3>2. locals' = MarkInitialized(locals, scopeDepth)
      BY <1>9, <2>2 DEF DefinesVariable, DefineVariable
    <3>3. scopeDepth \in 1 .. (U8 - 1)
      BY <2>2
    <3>4. /\ Len(locals') = Len(locals)
          /\ \A i \in 1 .. Len(locals) : locals'[i].depth = IF i = Len(locals) THEN scopeDepth ELSE locals[i].depth
      BY <1>1, <3>2, <3>3, LayersMarked DEF LayersOK
    <3>5. \A k \in 1 .. Len(opened) : opened[k] < Len(locals) /\ k <= scopeDepth
      BY <1>3, <2>2, <3>1 DEF OwnersOK
    <3>6. QED
      BY <2>1, <3>4, <3>5 DEF OwnersOK
  <2>3. CASE ~(scopeDepth > 0)
    <3>1. locals' = locals
      BY <1>9, <2>3 DEF DefinesVariable, DefineVariable
    <3>2. QED
      BY <2>1, <3>1 DEF OwnersOK
  <2>4. QED
    BY <2>2, <2>3
<1>10. QED
  BY <1>5, <1>6, <1>7, <1>8, <1>9, StepKinds

-----------------------------------------------------------------------------
(***************************************************************************)
(* The theorems.                                                           *)
(***************************************************************************)

IInv == /\ Types /\ ScopesOK /\ Nested /\ HistoryOK
        /\ deepest < U8 => LayersOK /\ (~hadError => OwnersOK)

\* A new compiler has no scope and no local.
LEMMA IInvInit ==
  ASSUME HInit
  PROVE  IInv
<1> USE DEF HInit, Init, NewCompiler
<1>1. ParserOK
  <2>1. source \in Sources /\ source.length \in Nat /\ remaining = source.length
    BY SourcesAssumption
  <2>2. current \in Token /\ previous \in Token
    BY DEF Token
  <2>3. remaining \in 0 .. source.length
    BY <2>1
  <2>4. hadError \in BOOLEAN /\ panicMode \in BOOLEAN /\ (panicMode => hadError)
    BY Zenon
  <2>5. QED
    BY <2>1, <2>2, <2>3, <2>4, Zenon DEF ParserOK
<1>2. LocalsOK /\ ChunkOK
  BY DEF LocalsOK, ChunkOK
<1>3. FramesOK
  <2>1. Call("advance") \in Frame /\ Call("compile") \in Frame
    BY MakesFrames DEF PlainFrames
  <2>2. todo = <<Call("advance"), Call("compile")>>
    OBVIOUS
  <2>3. QED
    BY <2>1, <2>2 DEF FramesOK
<1>4. Len(todo) = 2 /\ \A i \in 1 .. 2 : todo[i].at \in {"advance", "compile"}
  BY DEF Call
<1>5. Scopes(todo) = {}
  BY <1>4 DEF Scopes, ScopeFrames, ForFrames
<1>6. ScopesOK
  BY <1>5, FS_EmptySet DEF ScopesOK
<1>7. Nested
  BY <1>4 DEF Nested, DeclarationFrames
<1>8. HistoryOK /\ LayersOK
  BY DEF HistoryOK, LayersOK, Layered
<1>9. OwnersOK
  BY DEF OwnersOK
<1>10. QED
  BY <1>1, <1>2, <1>3, <1>6, <1>7, <1>8, <1>9 DEF IInv, Types

\* Every step keeps the invariant.
LEMMA IInvNext ==
  ASSUME IInv, [HNext]_hvars
  PROVE  IInv'
<1>1. CASE CompileStep /\ HNext
  <2>1. Types' /\ ScopesOK' /\ Nested'
    BY <1>1, TypesSteps, ScopesSteps, NestedSteps DEF IInv
  <2>2. scopeDepth \in Nat /\ scopeDepth' \in Nat
    <3>1. Cardinality(Scopes(todo)) \in Nat
      BY ScopesFinite DEF IInv, Types
    <3>2. IsFiniteSet(1 .. Len(todo')) /\ Scopes(todo') \subseteq 1 .. Len(todo')
      BY <2>1, FS_Interval DEF Types, FramesOK, Scopes
    <3>3. Cardinality(Scopes(todo')) \in Nat
      BY <3>2, FS_Subset, FS_CardinalityType
    <3>4. QED
      BY <2>1, <3>1, <3>3 DEF IInv, ScopesOK
  <2>3. HistoryOK' /\ deepest <= deepest'
    BY <1>1, <2>2, HistorySteps DEF IInv
  <2>4. ASSUME deepest' < U8
        PROVE  LayersOK' /\ (~hadError' => OwnersOK')
    <3>1. deepest < U8 /\ scopeDepth \in 0 .. (U8 - 1)
      BY <2>2, <2>3, <2>4 DEF IInv, HistoryOK
    <3>2. LayersOK'
      BY <1>1, <2>2, <3>1, LayersSteps DEF IInv
    <3>3. hadError => hadError'
      BY <1>1, ParserSteps DEF IInv
    <3>4. ~hadError' => OwnersOK'
      BY <1>1, <2>2, <3>1, <3>3, OwnersSteps DEF IInv
    <3>5. QED
      BY <3>2, <3>4
  <2>5. QED
    BY <2>1, <2>3, <2>4 DEF IInv
<1>2. CASE UNCHANGED <<vars, opened, deepest>>
  <2>1. UNCHANGED <<source, remaining, current, previous, hadError, panicMode, locals, scopeDepth, code, constants,
                    todo, opened, deepest>>
    BY <1>2 DEF vars, parserVars, errorVars, scopeVars, chunkVars
  <2>2. Types'
    BY <2>1 DEF IInv, Types, ParserOK, LocalsOK, ChunkOK, FramesOK, Token, Local
  <2>3. ScopesOK' /\ Nested' /\ HistoryOK'
    BY <2>1 DEF IInv, ScopesOK, Nested, HistoryOK
  <2>4. (LayersOK => LayersOK') /\ (OwnersOK => OwnersOK')
    BY <2>1 DEF LayersOK, OwnersOK, Declaring
  <2>5. QED
    BY <2>1, <2>2, <2>3, <2>4 DEF IInv
<1>3. CASE Stay /\ HNext
  <2>1. UNCHANGED vars /\ scopeDepth' = scopeDepth
    BY <1>3 DEF Stay, vars, scopeVars
  <2>2. scopeDepth \in Int /\ deepest \in Nat /\ scopeDepth <= deepest
    BY DEF IInv, Types, HistoryOK
  <2>3. UNCHANGED <<opened, deepest>>
    <3>1. ~(scopeDepth' > scopeDepth) /\ ~(scopeDepth' < scopeDepth) /\ ~(scopeDepth' > deepest)
      BY <2>1, <2>2
    <3>2. QED
      BY <1>3, <3>1 DEF HNext, Note
  <2>4. QED
    BY <1>2, <2>1, <2>3
<1>4. QED
  BY <1>1, <1>2, <1>3 DEF HNext, hvars, Next

\* The invariant holds in every state.
LEMMA IInvAlways == HSpec => []IInv
<1>1. QED
  BY IInvInit, IInvNext, PTL DEF HSpec

\* Whatever the source, the members of Compiler hold values of their types: no
\* more than 256 locals, no negative scope depth, and code made of bytes.
THEOREM CompilerTypes == HSpec => []TypeOK
<1>1. ASSUME IInv PROVE TypeOK
  <2>1. ParserOK /\ LocalsOK /\ ChunkOK
    BY <1>1 DEF IInv, Types
  <2>2. scopeDepth \in Nat
    BY <1>1, ScopesFinite DEF IInv, Types, ScopesOK
  <2>3. \A i \in 1 .. Len(locals) : locals[i].depth \in {NoDepth} \union 0 .. (U8 - 1)
    <3>1. \A l \in Local : l.depth \in {NoDepth} \union 0 .. (U8 - 1)
      BY DEF Local
    <3>2. \A i \in 1 .. Len(locals) : locals[i] \in Local
      BY <2>1 DEF LocalsOK
    <3>3. QED
      BY <3>1, <3>2
  <2>4. \A i \in 1 .. Len(code) : code[i] \in OpCodes \union 0 .. (U8 - 1)
    BY <2>1 DEF ChunkOK, Byte
  <2>5. QED
    BY <2>1, <2>2, <2>3, <2>4 DEF TypeOK, ParserOK, LocalsOK, Token
<1>2. QED
  BY <1>1, IInvAlways, PTL

\* An error once reported is never forgotten, and while the parser panics there
\* was one, however calls and recovery interleave.
THEOREM ErrorsAreKept == HSpec => ErrorsKept
<1>1. ASSUME IInv, [HNext]_hvars
      PROVE  [(hadError => hadError') /\ (panicMode' => hadError')]_vars
  <2>1. CASE CompileStep
    <3>1. (hadError => hadError') /\ ParserOK'
      BY <1>1, <2>1, ParserSteps DEF IInv
    <3>2. QED
      BY <3>1 DEF ParserOK
  <2>2. CASE UNCHANGED vars
    BY <2>2
  <2>3. CompileStep \/ UNCHANGED vars
    BY <1>1 DEF HNext, Next, Stay, hvars
  <2>4. QED
    BY <2>1, <2>2, <2>3
<1>2. QED
  BY <1>1, IInvAlways, PTL DEF HSpec, ErrorsKept

\* begin_scope and end_scope pair up on every path through the parser: when
\* compile returns, after errors too, no scope is open, and no local is left if
\* every depth fitted a u8.
THEOREM ScopesAreClosed == HSpec => []ScopesClosed
<1>1. ASSUME IInv PROVE ScopesClosed
  <2> SUFFICES ASSUME Compiled
               PROVE  scopeDepth = 0 /\ (deepest < U8 => locals = <<>>)
    BY DEF ScopesClosed
  <2>1. Len(todo) = 0
    BY DEF Compiled
  <2>2. scopeDepth = 0
    <3>1. Scopes(todo) = {}
      BY <2>1 DEF Scopes
    <3>2. QED
      BY <1>1, <3>1, FS_EmptySet DEF IInv, ScopesOK
  <2>3. ASSUME deepest < U8 PROVE locals = <<>>
    <3>1. LayersOK /\ locals \in Seq(Local)
      BY <1>1, <2>3 DEF IInv, Types, LocalsOK
    <3>2. ~Declaring
      BY <2>1 DEF Declaring
    <3>3. \A i \in 1 .. Len(locals) : FALSE
      BY <2>2, <3>1, <3>2 DEF LayersOK, Layered
    <3>4. Len(locals) = 0
      BY <3>1, <3>3
    <3>5. QED
      BY <3>1, <3>4, EmptySeq
  <2>4. QED
    BY <2>2, <2>3
<1>2. QED
  BY <1>1, IInvAlways, PTL

\* Until an error, the depth that a local keeps is the number of scopes that
\* were open when it was declared, so that end_scope drops the locals of its own
\* scope and no others; as long as no scope is deeper than a u8 can say.
THEOREM DepthsAreScopes == HSpec => [](deepest < U8 => DepthIsScope)
<1>1. ASSUME IInv PROVE deepest < U8 => DepthIsScope
  <2> SUFFICES ASSUME deepest < U8, ~hadError, NEW i \in 1 .. Len(locals), locals[i].depth # NoDepth
               PROVE  locals[i].depth = Cardinality({k \in 1 .. Len(opened) : opened[k] < i})
    BY DEF DepthIsScope
  <2>1. LayersOK /\ OwnersOK /\ Len(opened) = scopeDepth /\ scopeDepth \in Int
    BY <1>1 DEF IInv, HistoryOK, Types
  <2>2. locals[i].depth \in 1 .. scopeDepth
    BY <2>1 DEF LayersOK, Layered
  <2>3. \A k \in 1 .. Len(opened) : opened[k] < i <=> k <= locals[i].depth
    BY <2>1 DEF OwnersOK
  <2>4. {k \in 1 .. Len(opened) : opened[k] < i} = 1 .. locals[i].depth
    BY <2>1, <2>2, <2>3
  <2>5. Cardinality(1 .. locals[i].depth) = locals[i].depth
    <3>1. 1 \in Int /\ locals[i].depth \in Int /\ locals[i].depth >= 1
      BY <2>2
    <3>2. Cardinality(1 .. locals[i].depth) =
            IF 1 > locals[i].depth THEN 0 ELSE locals[i].depth - 1 + 1
      BY <3>1, FS_Interval
    <3>3. QED
      BY <3>1, <3>2
  <2>6. QED
    BY <2>4, <2>5
<1>2. QED
  BY <1>1, IInvAlways, PTL
=============================================================================
