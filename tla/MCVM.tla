-------------------------------- MODULE MCVM --------------------------------
(***************************************************************************)
(* Small instances of VM: families of chunks, each with every tail of some *)
(* length over a few opcodes and operands after a common prologue, so that *)
(* most of them are not what the compiler would emit.                      *)
(***************************************************************************)
EXTENDS VMChecks

\* All chunks of prologue, then 1 to length of the bytes, over the pools.
ChunksOf(prologue, bytes, length, pools) ==
  [code : {prologue \o tail : tail \in UNION {[1 .. n -> bytes] : n \in 1 .. length}},
   constants : pools]

TwoConstants == <<OP_CONSTANT, 0, OP_CONSTANT, 1>>

Jumps == ChunksOf(<<>>, {OP_CONSTANT, OP_NIL, OP_POP, OP_GET_LOCAL, OP_JUMP_IF_FALSE, OP_LOOP, OP_RETURN},
                6, {<<"a", "b">>})
Operators == ChunksOf(TwoConstants, {OP_NIL, OP_POP, OP_EQUAL, OP_LESS, OP_ADD, OP_SUBTRACT, OP_NOT,
                                   OP_NEGATE, OP_PRINT, OP_RETURN, OP_RETURN + 1},
                    3, {<<"0", "1">>, <<"1", "a">>, <<"a", "">>, <<"a", "b">>})
Names == ChunksOf(<<>>, {OP_CONSTANT, OP_NIL, OP_GET_GLOBAL, OP_DEFINE_GLOBAL, OP_SET_GLOBAL},
                4, {<<"a", "b">>})
Sums == ChunksOf(TwoConstants, {OP_ADD, OP_PRINT, OP_RETURN}, 2, {<<"a", "">>, <<"a", "b">>, <<"", "">>})

\* What the compiler emits for lines of one or two statements, on names alone.
Statements == UNION {{<<OP_GET_GLOBAL, n, OP_PRINT>>, <<OP_NIL, OP_DEFINE_GLOBAL, n>>,
                      <<OP_GET_GLOBAL, n, OP_DEFINE_GLOBAL, 1 - n>>,
                      <<OP_CONSTANT, n, OP_SET_GLOBAL, n, OP_POP>>} : n \in {0, 1}}
Lines == [code : {s \o t \o <<OP_RETURN>> : s \in Statements \union {<<>>}, t \in Statements},
          constants : {<<"a", "b">>}]

MCChunks   == Jumps \union Operators \union Names \union Sums \union Lines
MCFamilies == [code  |-> [chunks |-> Jumps \union Operators, loads |-> 1],
               lines |-> [chunks |-> Lines, loads |-> 3],
               names |-> [chunks |-> Names \union Sums, loads |-> 3]]

\* Numbers: zero and one other.
MCNumbers    == {"0", "1"}
MCArithmetic == [op \in {OP_ADD, OP_SUBTRACT, OP_MULTIPLY, OP_DIVIDE} |->
                   [p \in MCNumbers \X MCNumbers |-> IF p[1] = p[2] THEN "0" ELSE "1"]]
MCLess       == [p \in MCNumbers \X MCNumbers |-> p = <<"0", "1">>]
MCMinus      == [x \in MCNumbers |-> x]

\* Strings: the empty one and two that it does not change.
MCStrings    == {"", "a", "b"}
MCConcat     == [p \in MCStrings \X MCStrings |->
                   IF p[1] = "" THEN p[2] ELSE IF p[2] = "" THEN p[1] ELSE "b"]
MCHash       == [k \in MCStrings |-> IF k = "b" THEN 3 ELSE 1]
MCValues     == {"null", "nil", "true", "false"} \union MCNumbers \union MCStrings
=============================================================================
