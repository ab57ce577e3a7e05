------------------------------ MODULE Compiler ------------------------------
(***************************************************************************)
(* compiler::Compiler (src/src/compiler.cpp): the one-pass compiler, from  *)
(* the tokens that the scanner delivers to the bytes of a chunk.           *)
(*                                                                         *)
(* The parser functions call each other recursively; todo is their call    *)
(* stack.  A frame [at |-> f, ...] is a function still to be called, or    *)
(* the rest of one after a call has returned, with the C++ locals that the *)
(* rest uses under their names.  An action runs one function from a call   *)
(* to the next.  The source is not chosen beforehand: each advance picks   *)
(* the next token or the end of the file, as source allows.                *)
(***************************************************************************)
EXTENDS Locals

CONSTANT Sources  \* the kinds of source to compile, each a record:
                  \*   tokens: the tokens that it is made of, [type, lexeme], without
                  \*     EOF; the lexeme of a literal stands for its value
                  \*   length: bound on their number
                  \*   scanErrors: whether error tokens may precede a token: a set
                  \*     of BOOLEANs
                  \*   goesOn: whether it may go on after its first error

ASSUME SourcesAssumption ==
  \A s \in Sources :
    /\ \A t \in s.tokens : DOMAIN t = {"type", "lexeme"} /\ t.type # "eof"
    /\ s.length \in Nat
    /\ s.scanErrors \subseteq BOOLEAN
    /\ s.goesOn \in BOOLEAN

VARIABLES
  source, remaining,   \* m_scanner: what it reads, and how many tokens of it are left
  current, previous, hadError, panicMode,  \* m_parser
  locals, scopeDepth,  \* m_locals up to m_local_count, m_scope_depth
  code, constants,     \* m_chunk
  todo                 \* the calls in progress, innermost first

parserVars == <<source, remaining, current, previous>>
errorVars  == <<hadError, panicMode>>
scopeVars  == <<locals, scopeDepth>>
chunkVars  == <<code, constants>>
vars       == <<parserVars, errorVars, scopeVars, chunkVars, todo>>

EOF == [type |-> "eof", lexeme |-> ""]

\* Precedences, in the order of enum Precedence.
PREC_NONE == 0
PREC_ASSIGNMENT == 1
PREC_OR == 2
PREC_AND == 3
PREC_EQUALITY == 4
PREC_COMPARISON == 5
PREC_TERM == 6
PREC_FACTOR == 7
PREC_UNARY == 8

\* The m_precedence column of m_rules.  "or" has PREC_NONE, so the loop of
\* parse_precedence never takes it for an infix operator and or_infix is
\* never called.
InfixPrecedence(type) ==
  CASE type \in {"+", "-"}             -> PREC_TERM
    [] type \in {"*", "/"}             -> PREC_FACTOR
    [] type \in {"==", "!="}           -> PREC_EQUALITY
    [] type \in {"<", "<=", ">", ">="} -> PREC_COMPARISON
    [] type = "and"                    -> PREC_AND
    [] OTHER                           -> PREC_NONE

\* What binary, unary and literal emit.
BinaryCode(type) ==
  CASE type = "+"  -> <<OP_ADD>>        [] type = "-"  -> <<OP_SUBTRACT>>
    [] type = "*"  -> <<OP_MULTIPLY>>   [] type = "/"  -> <<OP_DIVIDE>>
    [] type = "==" -> <<OP_EQUAL>>      [] type = "!=" -> <<OP_EQUAL, OP_NOT>>
    [] type = "<"  -> <<OP_LESS>>       [] type = "<=" -> <<OP_GREATER, OP_NOT>>
    [] type = ">"  -> <<OP_GREATER>>    [] type = ">=" -> <<OP_LESS, OP_NOT>>
UnaryCode(type)   == IF type = "!" THEN <<OP_NOT>> ELSE <<OP_NEGATE>>
LiteralCode(type) == CASE type = "nil"   -> <<OP_NIL>>
                       [] type = "true"  -> <<OP_TRUE>>
                       [] type = "false" -> <<OP_FALSE>>

\* Frames.
Call(f)      == [at |-> f]
Parse(p)     == [at |-> "parse_precedence", precedence |-> p]
Expression   == Parse(PREC_ASSIGNMENT)
Consume(t)   == [at |-> "consume", type |-> t]
Emit(bytes)  == [at |-> "emit", bytes |-> bytes]
Patch(jump)  == [at |-> "patch_jump", jump |-> jump]
LoopEnd(start, exit) == [at |-> "loop_end", loop_start |-> start, exit_jump |-> exit]

NewCompiler ==
  /\ remaining = source.length
  /\ current = EOF /\ previous = EOF
  /\ hadError = FALSE /\ panicMode = FALSE
  /\ locals = <<>> /\ scopeDepth = 0
  /\ code = <<>> /\ constants = <<>>
  /\ todo = <<Call("advance"), Call("compile")>>

Init == source \in Sources /\ NewCompiler

-----------------------------------------------------------------------------
(* Steps that the functions are made of.                                   *)

frame  == Head(todo)
At(f)  == todo # <<>> /\ frame.at = f
Then(frames) == todo' = frames \o Tail(todo)
Sees(type) == current.type = type

\* Mutant: a call that succeeds clears the error.
ReportLast(fails) == hadError' = fails /\ panicMode' = (panicMode \/ fails)

\* error_at: one report until the next synchronize.
Report(fails) == hadError' = (hadError \/ fails) /\ panicMode' = (panicMode \/ fails)

\* advance, and an error reported in the same step.  The end of the file can
\* come at any token and comes when none remains.
Advance(fails) ==
  /\ previous' = current
  /\ UNCHANGED source
  /\ \/ /\ current' = EOF
        /\ remaining' = 0
     \/ /\ remaining > 0
        /\ hadError => source.goesOn
        /\ current' \in source.tokens
        /\ remaining' = remaining - 1
  /\ \E bad \in IF remaining > 0 THEN source.scanErrors ELSE {FALSE} : Report(fails \/ bad)

EmitBytes(bytes) == code' = code \o bytes

\* emit_jump emits the largest distance, to be patched; the jump is known by
\* the offset of its operand.
EmitJump(op) == <<op, U8 - 1, U8 - 1>>

Digits(n) == <<(n \div U8) % U8, n % U8>>

\* Mutant: the operand of the jump itself is counted.
DistanceFromOperand(c, jump) == Len(c) - jump

\* patch_jump, on bytes c; emit_loop, appended to bytes c.
Distance(c, jump) == Len(c) - jump - 2
Patched(c, jump) ==
  LET d == Digits(Distance(c, jump))
  IN  [c EXCEPT ![jump + 1] = d[1], ![jump + 2] = d[2]]
LoopDistance(c, start) == Len(c) + 1 - start + 2
Looped(c, start) == c \o <<OP_LOOP>> \o Digits(LoopDistance(c, start))

\* Mutant: the size of the pool after the constant was added.
ConstantIndexAfter == IF Len(constants) > U8 - 1 THEN 0 ELSE Len(constants) + 1

\* make_constant: the index is an u8.
ConstantIndex == IF Len(constants) > U8 - 1 THEN 0 ELSE Len(constants)
MakeConstant(v) == constants' = Append(constants, v)
TooManyConstants == Len(constants) > U8 - 1

-----------------------------------------------------------------------------
(* Declarations and statements.                                            *)

FirstAdvance ==
  /\ At("advance")
  /\ Advance(FALSE)
  /\ Then(<<>>)
  /\ UNCHANGED <<scopeVars, chunkVars>>

\* The loop of compile, and end_compilation.
Compile ==
  /\ At("compile")
  /\ IF Sees("eof")
       THEN Advance(FALSE) /\ EmitBytes(<<OP_RETURN>>) /\ Then(<<>>)
       ELSE /\ Then(<<Call("declaration"), Call("compile")>>)
            /\ UNCHANGED <<parserVars, errorVars, code>>
  /\ UNCHANGED <<scopeVars, constants>>

Declaration ==
  /\ At("declaration")
  /\ IF Sees("var")
       THEN Advance(FALSE) /\ Then(<<Call("var_declaration"), Call("recover")>>)
       ELSE Then(<<Call("statement"), Call("recover")>>) /\ UNCHANGED <<parserVars, errorVars>>
  /\ UNCHANGED <<scopeVars, chunkVars>>

\* The end of declaration.
Recover ==
  /\ At("recover")
  /\ Then(IF panicMode THEN <<Call("synchronize")>> ELSE <<>>)
  /\ panicMode' = FALSE
  /\ UNCHANGED <<parserVars, hadError, scopeVars, chunkVars>>

SyncPoints == {"class", "fun", "var", "for", "if", "while", "print", "return"}

\* Mutant: recovery does not stop at the end of the file.
SynchronizePastEnd ==
  /\ At("synchronize")
  /\ IF previous.type = ";" \/ current.type \in SyncPoints
       THEN Then(<<>>) /\ UNCHANGED <<parserVars, errorVars>>
       ELSE Advance(FALSE) /\ UNCHANGED todo
  /\ UNCHANGED <<scopeVars, chunkVars>>

\* The loop of synchronize.
Synchronize ==
  /\ At("synchronize")
  /\ IF Sees("eof") \/ previous.type = ";" \/ current.type \in SyncPoints
       THEN Then(<<>>) /\ UNCHANGED <<parserVars, errorVars>>
       ELSE Advance(FALSE) /\ UNCHANGED todo
  /\ UNCHANGED <<scopeVars, chunkVars>>

VarDeclaration ==
  /\ At("var_declaration")
  /\ Then(<<Consume("identifier"), Call("parse_variable")>>)
  /\ UNCHANGED <<parserVars, errorVars, scopeVars, chunkVars>>

\* parse_variable after its consume: declare_variable, identifier_constant.
ParseVariable ==
  /\ At("parse_variable")
  /\ IF scopeDepth > 0
       THEN /\ Report(Redeclares(locals, previous, scopeDepth) \/ Full(locals))
            /\ locals' = AddLocal(locals, previous)
            /\ Then(<<[at |-> "initializer", global |-> 0]>>)
            /\ UNCHANGED constants
       ELSE /\ Report(TooManyConstants)
            /\ MakeConstant(previous.lexeme)
            /\ Then(<<[at |-> "initializer", global |-> ConstantIndex]>>)
            /\ UNCHANGED locals
  /\ UNCHANGED <<parserVars, scopeDepth, code>>

VarInitializer ==
  /\ At("initializer")
  /\ LET define == <<Consume(";"), [at |-> "define_variable", global |-> frame.global]>>
     IN  IF Sees("=")
           THEN Advance(FALSE) /\ Then(<<Expression>> \o define) /\ UNCHANGED code
           ELSE EmitBytes(<<OP_NIL>>) /\ Then(define) /\ UNCHANGED <<parserVars, errorVars>>
  /\ UNCHANGED <<scopeVars, constants>>

DefineVariable ==
  /\ At("define_variable")
  /\ IF scopeDepth > 0
       THEN locals' = MarkInitialized(locals, scopeDepth) /\ UNCHANGED code
       ELSE EmitBytes(<<OP_DEFINE_GLOBAL, frame.global>>) /\ UNCHANGED locals
  /\ Then(<<>>)
  /\ UNCHANGED <<parserVars, errorVars, scopeDepth, constants>>

\* statement, by the token it matches.
PrintStatement ==
  /\ At("statement") /\ Sees("print")
  /\ Advance(FALSE)
  /\ Then(<<Expression, Consume(";"), Emit(<<OP_PRINT>>)>>)
  /\ UNCHANGED <<scopeVars, chunkVars>>

ForStatement ==
  /\ At("statement") /\ Sees("for")
  /\ Advance(FALSE)
  /\ scopeDepth' = scopeDepth + 1
  /\ Then(<<Consume("("), Call("for_initializer")>>)
  /\ UNCHANGED <<locals, chunkVars>>

IfStatement ==
  /\ At("statement") /\ Sees("if")
  /\ Advance(FALSE)
  /\ Then(<<Consume("("), Expression, Consume(")"), Call("if_then")>>)
  /\ UNCHANGED <<scopeVars, chunkVars>>

WhileStatement ==
  /\ At("statement") /\ Sees("while")
  /\ Advance(FALSE)
  /\ Then(<<Consume("("), Expression, Consume(")"),
            [at |-> "while_body", loop_start |-> Len(code)]>>)
  /\ UNCHANGED <<scopeVars, chunkVars>>

Block ==
  /\ At("statement") /\ Sees("{")
  /\ Advance(FALSE)
  /\ scopeDepth' = scopeDepth + 1
  /\ Then(<<Call("block"), Call("end_scope")>>)
  /\ UNCHANGED <<locals, chunkVars>>

ExpressionStatement ==
  /\ \/ At("statement") /\ current.type \notin {"print", "for", "if", "while", "{"}
     \/ At("expression_statement")
  /\ Then(<<Expression, Consume(";"), Emit(<<OP_POP>>)>>)
  /\ UNCHANGED <<parserVars, errorVars, scopeVars, chunkVars>>

\* The loop of block_statement.
BlockStatement ==
  /\ At("block")
  /\ Then(IF Sees("}") \/ Sees("eof") THEN <<Consume("}")>>
                                      ELSE <<Call("declaration"), Call("block")>>)
  /\ UNCHANGED <<parserVars, errorVars, scopeVars, chunkVars>>

EndScope ==
  /\ At("end_scope")
  /\ scopeDepth' = scopeDepth - 1
  /\ LET outer == Outer(locals, scopeDepth - 1)
     IN  /\ EmitBytes([i \in 1 .. (Len(locals) - outer) |-> OP_POP])
         /\ locals' = SubSeq(locals, 1, outer)
  /\ Then(<<>>)
  /\ UNCHANGED <<parserVars, errorVars, constants>>

-----------------------------------------------------------------------------
(* The rest of for, while and if.                                          *)

ForInitializer ==
  /\ At("for_initializer")
  /\ IF Sees(";") \/ Sees("var")
       THEN /\ Advance(FALSE)
            /\ Then(IF Sees(";") THEN <<Call("for_condition")>>
                                 ELSE <<Call("var_declaration"), Call("for_condition")>>)
       ELSE /\ Then(<<Call("expression_statement"), Call("for_condition")>>)
            /\ UNCHANGED <<parserVars, errorVars>>
  /\ UNCHANGED <<scopeVars, chunkVars>>

ForCondition ==
  /\ At("for_condition")
  /\ LET next == [at |-> "for_increment", loop_start |-> Len(code)]
     IN  IF Sees(";")
           THEN Advance(FALSE) /\ Then(<<next>>)
           ELSE Then(<<Expression, Consume(";"), next>>) /\ UNCHANGED <<parserVars, errorVars>>
  /\ UNCHANGED <<scopeVars, chunkVars>>

\* The exit jump is emitted whether or not there was a condition.
ForIncrement ==
  /\ At("for_increment")
  /\ LET exit == EmitJump(OP_JUMP_IF_FALSE) \o <<OP_POP>>
         exit_jump == Len(code) + 1
         body_jump == Len(code) + Len(exit) + 1
     IN  IF Sees(")")
           THEN /\ Advance(FALSE)
                /\ EmitBytes(exit)
                /\ Then(<<Call("statement"), LoopEnd(frame.loop_start, exit_jump), Call("end_scope")>>)
           ELSE /\ EmitBytes(exit \o EmitJump(OP_JUMP))
                /\ Then(<<Expression, Emit(<<OP_POP>>), Consume(")"),
                          [at |-> "for_body", loop_start |-> frame.loop_start,
                           body_jump |-> body_jump, increment_start |-> body_jump + 2,
                           exit_jump |-> exit_jump]>>)
                /\ UNCHANGED <<parserVars, errorVars>>
  /\ UNCHANGED <<scopeVars, constants>>

ForBody ==
  /\ At("for_body")
  /\ LET looped == Looped(code, frame.loop_start)
     IN  /\ code' = Patched(looped, frame.body_jump)
         /\ Report(\/ LoopDistance(code, frame.loop_start) > U16Max
                   \/ Distance(looped, frame.body_jump) > U16Max)
  /\ Then(<<Call("statement"), LoopEnd(frame.increment_start, frame.exit_jump), Call("end_scope")>>)
  /\ UNCHANGED <<parserVars, scopeVars, constants>>

WhileBody ==
  /\ At("while_body")
  /\ EmitBytes(EmitJump(OP_JUMP_IF_FALSE) \o <<OP_POP>>)
  /\ Then(<<Call("statement"), LoopEnd(frame.loop_start, Len(code) + 1)>>)
  /\ UNCHANGED <<parserVars, errorVars, scopeVars, constants>>

\* The end of a for and of a while: back to the start, out to here.
EndLoop ==
  /\ At("loop_end")
  /\ LET looped == Looped(code, frame.loop_start)
     IN  /\ code' = Append(Patched(looped, frame.exit_jump), OP_POP)
         /\ Report(\/ LoopDistance(code, frame.loop_start) > U16Max
                   \/ Distance(looped, frame.exit_jump) > U16Max)
  /\ Then(<<>>)
  /\ UNCHANGED <<parserVars, scopeVars, constants>>

IfThen ==
  /\ At("if_then")
  /\ EmitBytes(EmitJump(OP_JUMP_IF_FALSE) \o <<OP_POP>>)
  /\ Then(<<Call("statement"), [at |-> "if_else", then_jump |-> Len(code) + 1]>>)
  /\ UNCHANGED <<parserVars, errorVars, scopeVars, constants>>

IfElse ==
  /\ At("if_else")
  /\ LET jumped  == code \o EmitJump(OP_JUMP)
         tooFar  == Distance(jumped, frame.then_jump) > U16Max
         rest    == Patch(Len(code) + 1)
     IN  /\ code' = Append(Patched(jumped, frame.then_jump), OP_POP)
         /\ IF Sees("else")
              THEN Advance(tooFar) /\ Then(<<Call("statement"), rest>>)
              ELSE Report(tooFar) /\ Then(<<rest>>) /\ UNCHANGED parserVars
  /\ UNCHANGED <<scopeVars, constants>>

-----------------------------------------------------------------------------
(* Expressions.                                                            *)

ParsePrecedence ==
  /\ At("parse_precedence")
  /\ Advance(FALSE)
  /\ Then(<<[at |-> "prefix", precedence |-> frame.precedence]>>)
  /\ UNCHANGED <<scopeVars, chunkVars>>

Prefix(types) == At("prefix") /\ previous.type \in types
Infix == [at |-> "infix", precedence |-> frame.precedence]
CanAssign == frame.precedence <= PREC_ASSIGNMENT

Literals  == {"nil", "true", "false"}
Constants == {"number", "string"}
Operands  == Literals \union Constants \union {"(", "-", "!", "identifier"}

NoPrefix ==
  /\ At("prefix") /\ previous.type \notin Operands
  /\ Report(TRUE)
  /\ Then(<<>>)
  /\ UNCHANGED <<parserVars, scopeVars, chunkVars>>

Grouping ==
  /\ Prefix({"("})
  /\ Then(<<Expression, Consume(")"), Infix>>)
  /\ UNCHANGED <<parserVars, errorVars, scopeVars, chunkVars>>

Unary ==
  /\ Prefix({"-", "!"})
  /\ Then(<<Parse(PREC_UNARY), Emit(UnaryCode(previous.type)), Infix>>)
  /\ UNCHANGED <<parserVars, errorVars, scopeVars, chunkVars>>

Literal ==
  /\ Prefix(Literals)
  /\ EmitBytes(LiteralCode(previous.type))
  /\ Then(<<Infix>>)
  /\ UNCHANGED <<parserVars, errorVars, scopeVars, constants>>

\* number and string.
ConstantLiteral ==
  /\ Prefix(Constants)
  /\ Report(TooManyConstants)
  /\ MakeConstant(previous.lexeme)
  /\ EmitBytes(<<OP_CONSTANT, ConstantIndex>>)
  /\ Then(<<Infix>>)
  /\ UNCHANGED <<parserVars, scopeVars>>

\* named_variable: a read or an assignment of a local or of a global.
NamedVariable ==
  /\ Prefix({"identifier"})
  /\ LET isLocal == Called(locals, previous) # {}
         local   == Resolved(locals, previous)
         fails   == IF isLocal THEN locals[local].depth = NoDepth ELSE TooManyConstants
         arg     == IF isLocal THEN local - 1 ELSE ConstantIndex
         get     == IF isLocal THEN OP_GET_LOCAL ELSE OP_GET_GLOBAL
         set     == IF isLocal THEN OP_SET_LOCAL ELSE OP_SET_GLOBAL
     IN  /\ IF isLocal THEN UNCHANGED constants ELSE MakeConstant(previous.lexeme)
         /\ IF CanAssign /\ Sees("=")
              THEN /\ Advance(fails)
                   /\ Then(<<Expression, Emit(<<set, arg>>), Infix>>)
                   /\ UNCHANGED code
              ELSE /\ Report(fails)
                   /\ EmitBytes(<<get, arg>>)
                   /\ Then(<<Infix>>)
                   /\ UNCHANGED parserVars
  /\ UNCHANGED scopeVars

TakesInfix == At("infix") /\ frame.precedence <= InfixPrecedence(current.type)

Binary ==
  /\ TakesInfix /\ ~Sees("and")
  /\ Advance(FALSE)
  /\ Then(<<Parse(InfixPrecedence(current.type) + 1), Emit(BinaryCode(current.type)), Infix>>)
  /\ UNCHANGED <<scopeVars, chunkVars>>

And ==
  /\ TakesInfix /\ Sees("and")
  /\ Advance(FALSE)
  /\ EmitBytes(EmitJump(OP_JUMP_IF_FALSE) \o <<OP_POP>>)
  /\ Then(<<Parse(PREC_AND), Patch(Len(code) + 1), Infix>>)
  /\ UNCHANGED <<scopeVars, constants>>

\* The end of parse_precedence: an "=" left over has no target.
EndExpression ==
  /\ At("infix") /\ ~TakesInfix
  /\ IF CanAssign /\ Sees("=")
       THEN Advance(TRUE)
       ELSE UNCHANGED <<parserVars, errorVars>>
  /\ Then(<<>>)
  /\ UNCHANGED <<scopeVars, chunkVars>>

-----------------------------------------------------------------------------
(* consume, emit_byte(s) and patch_jump.                                   *)

ConsumeToken ==
  /\ At("consume")
  /\ IF Sees(frame.type) THEN Advance(FALSE) ELSE Report(TRUE) /\ UNCHANGED parserVars
  /\ Then(<<>>)
  /\ UNCHANGED <<scopeVars, chunkVars>>

EmitCode ==
  /\ At("emit")
  /\ EmitBytes(frame.bytes)
  /\ Then(<<>>)
  /\ UNCHANGED <<parserVars, errorVars, scopeVars, constants>>

PatchJump ==
  /\ At("patch_jump")
  /\ code' = Patched(code, frame.jump)
  /\ Report(Distance(code, frame.jump) > U16Max)
  /\ Then(<<>>)
  /\ UNCHANGED <<parserVars, scopeVars, constants>>

CompileStep ==
  \/ FirstAdvance \/ Compile \/ Declaration \/ Recover \/ Synchronize
  \/ VarDeclaration \/ ParseVariable \/ VarInitializer \/ DefineVariable
  \/ PrintStatement \/ ForStatement \/ IfStatement \/ WhileStatement \/ Block
  \/ ExpressionStatement \/ BlockStatement \/ EndScope
  \/ ForInitializer \/ ForCondition \/ ForIncrement \/ ForBody \/ WhileBody \/ EndLoop
  \/ IfThen \/ IfElse
  \/ ParsePrecedence \/ NoPrefix \/ Grouping \/ Unary \/ Literal \/ ConstantLiteral
  \/ NamedVariable \/ Binary \/ And \/ EndExpression
  \/ ConsumeToken \/ EmitCode \/ PatchJump

Compiled == todo = <<>>

\* compile has returned.
Stay == Compiled /\ UNCHANGED vars

Next == CompileStep \/ Stay
Spec == Init /\ [][Next]_vars
=============================================================================
