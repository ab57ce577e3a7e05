------------------------------ MODULE Grammar -------------------------------
(***************************************************************************)
(* The grammar of README.md, lines 12 to 41, without classes, functions,   *)
(* calls and return, as a syntax-directed translation: a reference for the *)
(* one-pass compiler, with none of its lookahead, precedence table, error  *)
(* flags or patching.                                                      *)
(*                                                                         *)
(* A program is declaration*: line 13 has statement*, by which only a      *)
(* block could declare a variable, while test_files/assignment.lox does    *)
(* so outside of any, and Compiler::compile calls declaration.             *)
(*                                                                         *)
(* A derivation has read the tokens of t before position at and yields     *)
(* code, constants and env, the names declared in each open block.  A      *)
(* nonterminal maps a set of derivations to their continuations, so that   *)
(* the empty set means that t does not fit.                                *)
(***************************************************************************)
EXTENDS Bytecode, FiniteSets

Start == [at |-> 1, code |-> <<>>, consts |-> <<>>, env |-> <<>>, fresh |-> ""]

Type(t, i)   == IF i <= Len(t) THEN t[i].type ELSE "eof"
Lexeme(t, i) == t[i].lexeme

\* Read one token; append bytes; start a piece of code to be placed later.
Token(t, D, type) == {[d EXCEPT !.at = @ + 1] : d \in {e \in D : Type(t, e.at) = type}}
Out(D, bytes)     == {[d EXCEPT !.code = @ \o bytes] : d \in D}
Piece(d)          == {[d EXCEPT !.code = <<>>]}
Place(d, code)    == [d EXCEPT !.code = code]

Jump(op, n) == <<op, n \div U8, n % U8>>

\* Slots count the names of all open blocks; an inner name hides an outer one.
SlotsBelow(env, b) == Cardinality(UNION {{<<c, i>> : i \in 1 .. Len(env[c])} : c \in 1 .. (b - 1)})
Bound(env, name)   == {p \in UNION {{<<b, i>> : i \in 1 .. Len(env[b])} : b \in 1 .. Len(env)} :
                         env[p[1]][p[2]] = name}
SlotOf(env, name)  == LET p == CHOOSE p \in Bound(env, name) : \A q \in Bound(env, name) : q[1] <= p[1]
                      IN  SlotsBelow(env, p[1]) + p[2] - 1

\* A variable: the instruction that gets or sets it, and d with its constant.
IsLocal(d, name) == Bound(d.env, name) # {}
Named(d, name)   == IF IsLocal(d, name) THEN d ELSE [d EXCEPT !.consts = Append(@, name)]
GetCode(d, name) == IF IsLocal(d, name) THEN <<OP_GET_LOCAL, SlotOf(d.env, name)>>
                                        ELSE <<OP_GET_GLOBAL, Len(d.consts)>>
SetCode(d, name) == IF IsLocal(d, name) THEN <<OP_SET_LOCAL, SlotOf(d.env, name)>>
                                        ELSE <<OP_SET_GLOBAL, Len(d.consts)>>

\* Binary operators from loose to tight: equality, comparison, term, factor.
Operators(l) == CASE l = 1 -> {"==", "!="} [] l = 2 -> {"<", "<=", ">", ">="}
                  [] l = 3 -> {"+", "-"}   [] l = 4 -> {"*", "/"}
OperatorCode(op) ==
  CASE op = "+"  -> <<OP_ADD>>           [] op = "-"  -> <<OP_SUBTRACT>>
    [] op = "*"  -> <<OP_MULTIPLY>>      [] op = "/"  -> <<OP_DIVIDE>>
    [] op = "==" -> <<OP_EQUAL>>         [] op = "!=" -> <<OP_EQUAL, OP_NOT>>
    [] op = "<"  -> <<OP_LESS>>          [] op = ">=" -> <<OP_LESS, OP_NOT>>
    [] op = ">"  -> <<OP_GREATER>>       [] op = "<=" -> <<OP_GREATER, OP_NOT>>

RECURSIVE Expression(_, _), Or(_, _), And(_, _), Level(_, _, _), More(_, _, _), Unary(_, _)

\* The identifiers at which derivations of D stand, outside their own
\* initializers.
Identifiers(t, D) == {d \in D : Type(t, d.at) = "identifier" /\ Lexeme(t, d.at) # d.fresh}

Primary(t, D) ==
  UNION {Out(Token(t, D, "nil"), <<OP_NIL>>),
         Out(Token(t, D, "true"), <<OP_TRUE>>),
         Out(Token(t, D, "false"), <<OP_FALSE>>),
         {[d EXCEPT !.at = @ + 1, !.code = @ \o <<OP_CONSTANT, Len(d.consts)>>,
                    !.consts = Append(@, Lexeme(t, d.at))] :
            d \in {e \in D : Type(t, e.at) \in {"number", "string"}}},
         {[Named(d, Lexeme(t, d.at)) EXCEPT !.at = @ + 1,
                                            !.code = @ \o GetCode(d, Lexeme(t, d.at))] :
            d \in Identifiers(t, D)},
         IF Token(t, D, "(") = {} THEN {} ELSE Token(t, Expression(t, Token(t, D, "(")), ")")}

Unary(t, D) ==
  UNION {Primary(t, D),
         IF Token(t, D, "!") = {} THEN {} ELSE Out(Unary(t, Token(t, D, "!")), <<OP_NOT>>),
         IF Token(t, D, "-") = {} THEN {} ELSE Out(Unary(t, Token(t, D, "-")), <<OP_NEGATE>>)}

\* Left associative: an operand, then any number of operators and operands.
Level(t, D, l) == IF l = 5 THEN Unary(t, D) ELSE More(t, Level(t, D, l + 1), l)
More(t, D, l) ==
  LET E == UNION {LET R == Token(t, D, op)
                  IN  IF R = {} THEN {} ELSE Out(Level(t, R, l + 1), OperatorCode(op)) :
                  op \in Operators(l)}
  IN  IF E = {} THEN D ELSE D \union More(t, E, l)

\* The right operand runs only if the left one does not decide the value.
And(t, D) ==
  LET L == Level(t, D, 1)
  IN  L \union UNION {LET R == Token(t, Piece(d), "and")
                      IN  IF R = {} THEN {}
                          ELSE {Place(r, d.code \o Jump(OP_JUMP_IF_FALSE, 1 + Len(r.code))
                                           \o <<OP_POP>> \o r.code) : r \in And(t, R)} : d \in L}
Or(t, D) ==
  LET L == And(t, D)
  IN  L \union UNION {LET R == Token(t, Piece(d), "or")
                      IN  IF R = {} THEN {}
                          ELSE {Place(r, d.code \o Jump(OP_JUMP_IF_FALSE, 3)
                                           \o Jump(OP_JUMP, 1 + Len(r.code))
                                           \o <<OP_POP>> \o r.code) : r \in Or(t, R)} : d \in L}

Expression(t, D) ==
  LET targets == {d \in Identifiers(t, D) : Type(t, d.at + 1) = "="}
  IN  Or(t, D) \union
        UNION {Out(Expression(t, {[Named(d, Lexeme(t, d.at)) EXCEPT !.at = @ + 2]}),
                   SetCode(d, Lexeme(t, d.at))) : d \in targets}

RECURSIVE Declaration(_, _), Declarations(_, _), Statement(_, _)

\* varDecl, after "var".  In a block the name takes the slot of its value; it
\* may not be declared twice there.
VarDecl(t, D) ==
  UNION {LET name   == Lexeme(t, d.at)
             blocks == Len(d.env)
             global == blocks = 0
             begun  == [d EXCEPT !.at = @ + 1, !.fresh = IF global THEN "" ELSE name,
                                 !.consts = IF global THEN Append(@, name) ELSE @]
             valued == Out(Token(t, {begun}, ";"), <<OP_NIL>>) \union
                         Token(t, Expression(t, Token(t, {begun}, "=")), ";")
         IN  IF global THEN Out(valued, <<OP_DEFINE_GLOBAL, Len(d.consts)>>)
             ELSE {[v EXCEPT !.env[blocks] = Append(@, name), !.fresh = ""] :
                     v \in {w \in valued : \A i \in 1 .. Len(w.env[blocks]) : w.env[blocks][i] # name}} :
         d \in {e \in D : Type(t, e.at) = "identifier"}}

ExprStmt(t, D) == Out(Token(t, Expression(t, D), ";"), <<OP_POP>>)

Open(D)  == {[d EXCEPT !.env = Append(@, <<>>)] : d \in D}
Close(D) == {[d EXCEPT !.env = SubSeq(@, 1, Len(@) - 1),
                       !.code = @ \o [i \in 1 .. Len(d.env[Len(d.env)]) |-> OP_POP]] : d \in D}

IfCode(c, then, else) ==
  c \o Jump(OP_JUMP_IF_FALSE, 1 + Len(then) + 3) \o <<OP_POP>> \o then
    \o Jump(OP_JUMP, 1 + Len(else)) \o <<OP_POP>> \o else

IfStmt(t, D) ==
  UNION {LET then == Statement(t, Piece(c))
         IN  {Place(b, IfCode(c.code, b.code, <<>>)) : b \in then} \union
             UNION {{Place(e, IfCode(c.code, b.code, e.code)) :
                       e \in Statement(t, Token(t, Piece(b), "else"))} : b \in then} :
         c \in Token(t, Expression(t, Token(t, D, "(")), ")")}

\* A loop that tests c before each round and runs step after it; either may be
\* missing.
LoopCode(c, step, body) ==
  LET back == 1 + Len(step) + 3  \* from the end of the step to its start
      rest == IF step = <<>> THEN body \o Jump(OP_LOOP, Len(c) + (IF c = <<>> THEN 0 ELSE 4) + Len(body) + 3)
              ELSE Jump(OP_JUMP, back) \o step \o <<OP_POP>>
                     \o Jump(OP_LOOP, Len(c) + (IF c = <<>> THEN 0 ELSE 4) + 3 + back)
                     \o body \o Jump(OP_LOOP, back + Len(body) + 3)
  IN  IF c = <<>> THEN rest
      ELSE c \o Jump(OP_JUMP_IF_FALSE, 1 + Len(rest)) \o <<OP_POP>> \o rest \o <<OP_POP>>

WhileStmt(t, D) ==
  UNION {UNION {{Place(b, d.code \o LoopCode(c.code, <<>>, b.code)) : b \in Statement(t, Piece(c))} :
                c \in Token(t, Expression(t, Token(t, Piece(d), "(")), ")")} : d \in D}

ForStmt(t, D) ==
  LET R     == Token(t, Open(D), "(")
      inits == UNION {Token(t, R, ";"), VarDecl(t, Token(t, R, "var")), ExprStmt(t, R)}
      Round(d) ==
        LET conditions == Token(t, Piece(d), ";") \union Token(t, Expression(t, Piece(d)), ";")
            Steps(c)   == Token(t, Piece(c), ")") \union Token(t, Expression(t, Piece(c)), ")")
        IN  UNION {UNION {{Place(b, d.code \o LoopCode(c.code, s.code, b.code)) :
                             b \in Statement(t, Piece(s))} : s \in Steps(c)} : c \in conditions}
  IN  Close(UNION {Round(d) : d \in inits})

Statement(t, D) ==
  IF D = {} THEN {}
  ELSE UNION {Out(Token(t, Expression(t, Token(t, D, "print")), ";"), <<OP_PRINT>>),
              IfStmt(t, Token(t, D, "if")),
              WhileStmt(t, Token(t, D, "while")),
              ForStmt(t, Token(t, D, "for")),
              Close(Token(t, Declarations(t, Open(Token(t, D, "{"))), "}")),
              ExprStmt(t, D)}

Declaration(t, D) == VarDecl(t, Token(t, D, "var")) \union Statement(t, D)

Declarations(t, D) == IF D = {} THEN {} ELSE D \union Declarations(t, Declaration(t, D))

\* The translations of the token sequence t: none if it is not a program.
Programs(t) == {d \in Out(Declarations(t, {Start}), <<OP_RETURN>>) : d.at = Len(t) + 1}
=============================================================================
