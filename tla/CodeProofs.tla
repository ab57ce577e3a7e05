----------------------------- MODULE CodeProofs -----------------------------
(***************************************************************************)
(* The code that compiler::Compiler accepts is well formed, for every      *)
(* source: its jumps land, its constants are there, and the stack balances *)
(* on every path.                                                          *)
(*                                                                         *)
(* The compiler writes code in one pass and patches jumps later, so that   *)
(* nothing of this is true of the code half written.  The invariant gives  *)
(* it a chart, the stack height at each instruction, with the operands     *)
(* excepted that a call in progress is still to patch, and gives each call *)
(* in progress the heights between which it works.  First charts, and what *)
(* emitting and patching do to them; then the invariant, and that a step   *)
(* of each function of the compiler keeps it; at the end, that code with a *)
(* chart is what CodeShape reads from its bytes.                           *)
(***************************************************************************)
EXTENDS CompilerProofs

-----------------------------------------------------------------------------
(***************************************************************************)
(* Charts.  A chart of a piece of code gives the offset of each            *)
(* instruction, and the offset of its end, a stack height.  The operands   *)
(* in pending belong to jumps that are still to be patched.                *)
(***************************************************************************)

\* Where the instruction at offset i ends, and where a jump there goes.
After(k, i)  == i + Length(k[i + 1])
Target(k, i) == IF k[i + 1] = OP_LOOP THEN After(k, i) - Short(k, i + 1)
                                      ELSE After(k, i) + Short(k, i + 1)

\* The instruction op may name the constant with index arg.
Listed(op, arg, n) == <<op, arg>> \in n

\* The code is a sequence of whole instructions that start at the offsets in D,
\* except for the end; their jumps go to such offsets, and those that name a
\* constant are in n with its index.
LaidOut(k, D, pending, n) ==
  /\ D \subseteq 0 .. Len(k) /\ 0 \in D /\ Len(k) \in D
  /\ \A d \in D : d = 0 \/ \E i \in D : i < Len(k) /\ d = After(k, i)
  /\ \A i \in D : i < Len(k) =>
       /\ k[i + 1] \in OpCodes \ {OP_RETURN}
       /\ After(k, i) \in D /\ \A j \in D : j <= i \/ After(k, i) <= j
       /\ k[i + 1] \in ConstantOps => Listed(k[i + 1], k[i + 2], n)
       /\ k[i + 1] \in JumpOps => i + 1 \in pending \/ Target(k, i) \in D

\* The heights of a chart are those that the instructions make, whichever way
\* they are reached.
Level(k, c, pending) ==
  /\ c[0] = 0
  /\ \A i \in DOMAIN c : i < Len(k) =>
       /\ Takes(k[i + 1]) <= c[i]
       /\ k[i + 1] \in LocalOps => k[i + 2] < c[i]
       /\ k[i + 1] \notin {OP_JUMP, OP_LOOP} => c[After(k, i)] = c[i] + Effect(k[i + 1])
       /\ k[i + 1] \in JumpOps => i + 1 \in pending \/ c[Target(k, i)] = c[i]

\* A chart is a function from offsets to heights.
Chart(k, c, pending, n) == c \in [DOMAIN c -> Int] /\ LaidOut(k, DOMAIN c, pending, n)

\* Nothing that was said of the code with its chart is taken back.
Extends(k, c, k2, c2) ==
  /\ Len(k) <= Len(k2) /\ DOMAIN c \subseteq DOMAIN c2
  /\ \A i \in DOMAIN c : c2[i] = c[i] /\ (i < Len(k) => k2[i + 1] = k[i + 1])

-----------------------------------------------------------------------------
(***************************************************************************)
(* What each call in progress relies on.                                   *)
(***************************************************************************)

\* Declarations may declare locals that outlive them; they are followed by
\* frames that go on with any number of locals.
FreeFrames  == {"compile", "declaration", "recover", "var_declaration", "parse_variable", "block"}
                 \union DeclarationFrames
LooseFrames == {"recover", "block", "compile", "for_condition", "end_scope"}

\* compile is the outermost call, and what follows a declaration does not mind its locals.
Stacked(s) ==
  /\ \A i \in 1 .. Len(s) : s[i].at = "compile" <=> i = Len(s)
  /\ \A i \in 1 .. Len(s) : i + 1 <= Len(s) /\ s[i].at \in FreeFrames => s[i + 1].at \in LooseFrames

\* The operands that a call is to patch.
ToPatch(f) ==
  CASE f.at = "patch_jump" -> {f.jump}
    [] f.at = "if_else"    -> {f.then_jump}
    [] f.at = "loop_end"   -> {f.exit_jump}
    [] f.at = "for_body"   -> {f.exit_jump, f.body_jump}
    [] OTHER               -> {}
\* The offsets that a call is to loop back to.
Starting(f) ==
  CASE f.at \in {"while_body", "for_increment", "loop_end"} -> {f.loop_start}
    [] f.at = "for_body"   -> {f.loop_start, f.increment_start}
    [] OTHER               -> {}
\* The operands that any call is still to patch.
Pending(s) == {j \in Int : \E i \in 1 .. Len(s) : j \in ToPatch(s[i])}

\* The instructions without an operand, and what emit is called with.
SimpleOps == {op \in OpCodes \ {OP_RETURN} : Length(op) = 1}
EmitsPlain(bytes) == \E op \in SimpleOps : bytes = <<op>> \/ (Takes(op) = 2 /\ bytes = <<op, OP_NOT>>)
EmitsSet(bytes, n) ==
  \E arg \in 0 .. (U8 - 1) : bytes = <<OP_SET_LOCAL, arg>> \/ (bytes = <<OP_SET_GLOBAL, arg>> /\ Listed(OP_SET_GLOBAL, arg, n))

\* There is a forward jump with its operand at j.
ForwardJump(k, D, j) == j \in Int /\ j - 1 \in D /\ j - 1 < Len(k) /\ k[j] \in {OP_JUMP, OP_JUMP_IF_FALSE}

\* The offsets that a call works with, when depth scopes are open.
Places(f, k, D, n, depth) ==
  /\ \A j \in ToPatch(f) : ForwardJump(k, D, j)
  /\ Starting(f) \subseteq D
  /\ f.at = "emit" => EmitsPlain(f.bytes) \/ EmitsSet(f.bytes, n)
  /\ f.at \in DeclarationFrames => depth > 0 \/ Listed(OP_DEFINE_GLOBAL, f.global, n)

\* The spot between two calls: the stack height h, how many locals b are below
\* it, and how many scopes d are open.
Spot == [h : Int, b : Int, d : Nat]

\* The values that an expression pushes, and that it works on besides the locals.
Gain(f) == CASE f.at \in {"parse_precedence", "prefix"} -> 1
             [] f.at = "emit" -> Effect(f.bytes[1])
             [] OTHER -> 0
Above(f) == CASE f.at = "infix" -> 1
              [] f.at = "emit" -> Takes(f.bytes[1])
              [] f.at \in {"define_variable", "while_body", "for_increment", "if_then"} -> 1
              [] OTHER -> 0

\* The heights at the jumps and loops that a call works with.
Meets(f, c, h) ==
  CASE f.at = "patch_jump" -> c[f.jump - 1] = h
    [] f.at = "if_else"    -> c[f.then_jump - 1] = h + 1
    [] f.at = "loop_end"   -> c[f.loop_start] = h /\ c[f.exit_jump - 1] = h + 1
    [] f.at = "for_body"   -> c[f.loop_start] = h /\ c[f.exit_jump - 1] = h + 1
                              /\ c[f.body_jump - 1] = h /\ c[f.increment_start] = h
    [] f.at \in {"while_body", "for_increment"} -> c[f.loop_start] = h - 1
    [] OTHER -> TRUE

\* A call that starts at spot x returns at spot y.
Leads(f, x, y, c, begun) ==
  /\ Meets(f, c, x.h)
  /\ IF f.at \in ExpressionFrames
       THEN /\ x.h >= x.b + Above(f) /\ y.h = x.h + Gain(f) /\ y.b = x.b
            /\ f.at = "emit" /\ f.bytes[1] = OP_SET_LOCAL => f.bytes[2] < x.b
       ELSE /\ x.h = x.b + Above(f) /\ y.h = y.b
            /\ f.at \in ScopeFrames => y.b = begun[x.d]
            /\ f.at \notin ScopeFrames \union FreeFrames => y.b = x.b

\* Whether a call ends a scope.
Descends(f, x, y) == y.d = IF f.at \in ScopeFrames THEN x.d - 1 ELSE x.d

-----------------------------------------------------------------------------
(***************************************************************************)
(* Charts grow with the code.                                              *)
(***************************************************************************)

\* A chart with one offset more.
Grown(c, i, h) == [x \in DOMAIN c \union {i} |-> IF x = i THEN h ELSE c[x]]

\* Bytes are numbers.
LEMMA ByteIsNumber == Byte \subseteq Nat /\ OpCodes \subseteq Byte /\ 0 .. (U8 - 1) \subseteq Byte
BY U8Assumption DEF Byte, OpCodes, OP_CONSTANT, OP_RETURN

\* The bytes of a code are numbers.
LEMMA BytesOf ==
  ASSUME NEW k \in Seq(Byte)
  PROVE  Len(k) \in Nat /\ \A j \in 1 .. Len(k) : k[j] \in Byte /\ k[j] \in Nat
<1>1. Len(k) \in Nat /\ \A j \in 1 .. Len(k) : k[j] \in Byte
  OBVIOUS
<1>2. \A b : b \in Byte => b \in Nat
  BY ByteIsNumber
<1>3. QED
  BY <1>1, <1>2

\* Bytes one after the other.
LEMMA ConcatBytes ==
  ASSUME NEW k \in Seq(Byte), NEW s \in Seq(Byte)
  PROVE  /\ k \o s \in Seq(Byte) /\ Len(k \o s) = Len(k) + Len(s)
         /\ \A i \in 1 .. Len(k) : (k \o s)[i] = k[i]
         /\ \A i \in 1 .. Len(s) : (k \o s)[Len(k) + i] = s[i]
OBVIOUS

\* The lengths of instructions.
LEMMA Lengths ==
  /\ \A op : Length(op) \in 1 .. 3
  /\ \A op \in JumpOps : Length(op) = 3
  /\ \A op \in ConstantOps \union LocalOps : Length(op) = 2
  /\ \A op : Effect(op) \in {-1, 0, 1} /\ Takes(op) \in 0 .. 2
<1>1. JumpOps \intersect (ConstantOps \union LocalOps) = {}
  BY DEF JumpOps, ConstantOps, LocalOps, OP_JUMP, OP_JUMP_IF_FALSE, OP_LOOP, OP_CONSTANT, OP_GET_GLOBAL,
     OP_DEFINE_GLOBAL, OP_SET_GLOBAL, OP_GET_LOCAL, OP_SET_LOCAL
<1>2. QED
  BY <1>1 DEF Length, Effect, Takes

\* An instruction of which no byte changes.
LEMMA SameInstruction ==
  ASSUME NEW k, NEW k2, NEW i \in Nat, k2[i + 1] = k[i + 1],
         k[i + 1] \in JumpOps => k2[i + 2] = k[i + 2] /\ k2[i + 3] = k[i + 3]
  PROVE  /\ After(k2, i) = After(k, i)
         /\ k[i + 1] \in JumpOps => Target(k2, i) = Target(k, i)
<1>1. (i + 1) + 1 = i + 2 /\ (i + 1) + 2 = i + 3
  OBVIOUS
<1>2. k[i + 1] \in JumpOps => Short(k2, i + 1) = Short(k, i + 1)
  BY <1>1 DEF Short
<1>3. QED
  BY <1>2 DEF After, Target

\* What a chart says of one instruction.
LEMMA ChartedInstruction ==
  ASSUME NEW k \in Seq(Byte), NEW D, NEW P, NEW n, LaidOut(k, D, P, n),
         NEW i \in D, i < Len(k)
  PROVE  /\ i \in Nat /\ i + 1 \in 1 .. Len(k) /\ k[i + 1] \in OpCodes /\ k[i + 1] \in Nat
         /\ After(k, i) = i + Length(k[i + 1]) /\ After(k, i) <= Len(k) /\ After(k, i) \in D
         /\ k[i + 1] \in ConstantOps \union LocalOps => i + 2 \in 1 .. Len(k) /\ k[i + 2] \in Nat
         /\ k[i + 1] \in JumpOps => /\ i + 2 \in 1 .. Len(k) /\ i + 3 \in 1 .. Len(k)
                                    /\ k[i + 2] \in Nat /\ k[i + 3] \in Nat
<1>1. i \in 0 .. Len(k) /\ After(k, i) \in D /\ After(k, i) \in 0 .. Len(k) /\ k[i + 1] \in OpCodes
  BY DEF LaidOut
<1>2. Len(k) \in Nat /\ \A j \in 1 .. Len(k) : k[j] \in Nat
  BY BytesOf
<1>3. i \in Nat /\ i + 1 \in 1 .. Len(k)
  BY <1>1, <1>2
<1>4. After(k, i) = i + Length(k[i + 1])
  BY DEF After
<1>5. k[i + 1] \in ConstantOps \union LocalOps => i + 2 \in 1 .. Len(k)
  BY <1>1, <1>2, <1>3, <1>4, Lengths
<1>6. k[i + 1] \in JumpOps => i + 2 \in 1 .. Len(k) /\ i + 3 \in 1 .. Len(k)
  BY <1>1, <1>2, <1>3, <1>4, Lengths
<1>7. QED
  BY <1>1, <1>2, <1>3, <1>4, <1>5, <1>6

\* A chart may forget what it promised.
LEMMA ChartWeakens ==
  ASSUME NEW k \in Seq(Byte), NEW c, NEW P, NEW P2, P \subseteq P2, NEW n, NEW n2, n \subseteq n2,
         Chart(k, c, P, n)
  PROVE  Chart(k, c, P2, n2) /\ (Level(k, c, P) => Level(k, c, P2))
<1>1. LaidOut(k, DOMAIN c, P, n)
  BY DEF Chart
<1>2. ASSUME NEW i \in DOMAIN c, i < Len(k), k[i + 1] \in ConstantOps
      PROVE  Listed(k[i + 1], k[i + 2], n2)
  <2>1. Listed(k[i + 1], k[i + 2], n) /\ k[i + 2] \in Nat
    BY <1>1, <1>2, ChartedInstruction DEF LaidOut
  <2>2. QED
    BY <2>1 DEF Listed
<1>3. LaidOut(k, DOMAIN c, P2, n2)
  BY <1>1, <1>2 DEF LaidOut
<1>4. Level(k, c, P) => Level(k, c, P2)
  BY DEF Level
<1>5. QED
  BY <1>3, <1>4 DEF Chart

\* An instruction finds the stack as it needs it, and leaves it at height h.
Suits(s, height, h) ==
  /\ Takes(s[1]) <= height
  /\ s[1] \in LocalOps => s[2] < height
  /\ s[1] \notin {OP_JUMP, OP_LOOP} => h = height + Effect(s[1])

\* An instruction is appended.
LEMMA AppendInstruction ==
  ASSUME NEW k \in Seq(Byte), NEW c, NEW P, NEW n, Chart(k, c, P, n),
         NEW s \in Seq(Byte), Len(s) = Length(s[1]), s[1] \in OpCodes \ {OP_RETURN},
         s[1] \in ConstantOps => Listed(s[1], s[2], n),
         NEW h \in Int, NEW P2, P \subseteq P2,
         s[1] \in JumpOps => Len(k) + 1 \in P2 \/ Target(k \o s, Len(k)) \in DOMAIN c
  PROVE  LET k2 == k \o s
             c2 == Grown(c, Len(k) + Len(s), h)
         IN  /\ k2 \in Seq(Byte) /\ Len(k2) = Len(k) + Len(s)
             /\ Chart(k2, c2, P2, n) /\ Extends(k, c, k2, c2)
             /\ c2[Len(k2)] = h
             /\ /\ Level(k, c, P) /\ Suits(s, c[Len(k)], h)
                /\ s[1] \in JumpOps => Len(k) + 1 \in P2 \/ c[Target(k2, Len(k))] = c[Len(k)]
                => Level(k2, c2, P2)
<1> DEFINE D  == DOMAIN c
           k2 == k \o s
           c2 == Grown(c, Len(k) + Len(s), h)
           L  == Len(k)
<1>1. /\ LaidOut(k, D, P, n) /\ c \in [D -> Int]
      /\ D \subseteq 0 .. L /\ 0 \in D /\ L \in D /\ L \in Nat
  BY DEF Chart, LaidOut
<1>2. /\ Len(s) \in 1 .. 3 /\ s[1] \in Nat
      /\ s[1] \in ConstantOps \union LocalOps => Len(s) = 2 /\ s[2] \in Nat
      /\ s[1] \in JumpOps => Len(s) = 3
  <2>1. /\ Len(s) \in 1 .. 3
        /\ s[1] \in ConstantOps \union LocalOps => Len(s) = 2
        /\ s[1] \in JumpOps => Len(s) = 3
    BY Lengths
  <2>2. \A i \in 1 .. Len(s) : s[i] \in Nat
    BY BytesOf
  <2>3. QED
    BY <2>1, <2>2
<1>3. /\ k2 \in Seq(Byte) /\ Len(k2) = L + Len(s)
      /\ \A i \in 1 .. L : k2[i] = k[i]
      /\ \A i \in 1 .. Len(s) : k2[L + i] = s[i]
  BY <1>1, <1>2
<1>4. /\ DOMAIN c2 = D \union {L + Len(s)} /\ L + Len(s) \notin D
      /\ \A i \in D : c2[i] = c[i]
      /\ c2[L + Len(s)] = h /\ c2 \in [D \union {L + Len(s)} -> Int]
  BY <1>1, <1>2 DEF Grown
<1> HIDE DEF k2, c2
<1>5. ASSUME NEW i \in D, i < L
      PROVE  /\ i \in Nat /\ k2[i + 1] = k[i + 1] /\ After(k2, i) = After(k, i) /\ After(k, i) \in D /\ After(k, i) <= L
             /\ k[i + 1] \in OpCodes \ {OP_RETURN}
             /\ k[i + 1] \in ConstantOps \union LocalOps => k2[i + 2] = k[i + 2]
             /\ k[i + 1] \in JumpOps => Target(k2, i) = Target(k, i)
  <2>1. /\ i \in Nat /\ i + 1 \in 1 .. L /\ After(k, i) <= L /\ After(k, i) \in D
        /\ k[i + 1] \in ConstantOps \union LocalOps => i + 2 \in 1 .. L
        /\ k[i + 1] \in JumpOps => i + 2 \in 1 .. L /\ i + 3 \in 1 .. L
    BY <1>1, <1>5, ChartedInstruction
  <2>2. k[i + 1] \in OpCodes \ {OP_RETURN}
    BY <1>1, <1>5 DEF LaidOut
  <2>3. /\ k2[i + 1] = k[i + 1]
        /\ k[i + 1] \in ConstantOps \union LocalOps => k2[i + 2] = k[i + 2]
        /\ k[i + 1] \in JumpOps => k2[i + 2] = k[i + 2] /\ k2[i + 3] = k[i + 3]
    BY <1>3, <2>1
  <2>4. QED
    BY <2>1, <2>2, <2>3, SameInstruction
<1>6. /\ k2[L + 1] = s[1] /\ After(k2, L) = L + Len(s)
      /\ s[1] \in ConstantOps \union LocalOps => k2[L + 2] = s[2]
  BY <1>1, <1>2, <1>3 DEF After
<1>7. \A i \in DOMAIN c2 : i < L + Len(s) => i = L \/ (i \in D /\ i < L)
  BY <1>1, <1>2, <1>4
<1>8. LaidOut(k2, DOMAIN c2, P2, n)
  <2>1. DOMAIN c2 \subseteq 0 .. Len(k2) /\ 0 \in DOMAIN c2 /\ Len(k2) \in DOMAIN c2
    BY <1>1, <1>2, <1>3, <1>4
  <2>2. ASSUME NEW d \in DOMAIN c2, d # 0
        PROVE  \E i \in DOMAIN c2 : i < Len(k2) /\ d = After(k2, i)
    <3>1. CASE d \in D
      <4>1. PICK i \in D : i < L /\ d = After(k, i)
        BY <1>1, <2>2, <3>1 DEF LaidOut
      <4>2. QED
        BY <1>1, <1>2, <1>3, <1>4, <1>5, <4>1
    <3>2. CASE d = L + Len(s)
      BY <1>1, <1>2, <1>3, <1>4, <1>6, <3>2
    <3>3. QED
      BY <1>4, <3>1, <3>2
  <2>3. ASSUME NEW i \in D, i < L
        PROVE  /\ k2[i + 1] \in OpCodes \ {OP_RETURN}
               /\ After(k2, i) \in DOMAIN c2 /\ \A j \in DOMAIN c2 : j <= i \/ After(k2, i) <= j
               /\ k2[i + 1] \in ConstantOps => Listed(k2[i + 1], k2[i + 2], n)
               /\ k2[i + 1] \in JumpOps => i + 1 \in P2 \/ Target(k2, i) \in DOMAIN c2
    <3>1. /\ \A j \in D : j <= i \/ After(k, i) <= j
          /\ k[i + 1] \in ConstantOps => Listed(k[i + 1], k[i + 2], n)
          /\ k[i + 1] \in JumpOps => i + 1 \in P \/ Target(k, i) \in D
      BY <1>1, <2>3 DEF LaidOut
    <3>2. After(k, i) <= L + Len(s)
      BY <1>1, <1>2, <1>5, <2>3
    <3>3. QED
      BY <1>4, <1>5, <2>3, <3>1, <3>2
  <2>4. /\ k2[L + 1] \in OpCodes \ {OP_RETURN}
        /\ After(k2, L) \in DOMAIN c2 /\ \A j \in DOMAIN c2 : j <= L \/ After(k2, L) <= j
        /\ k2[L + 1] \in ConstantOps => Listed(k2[L + 1], k2[L + 2], n)
        /\ k2[L + 1] \in JumpOps => L + 1 \in P2 \/ Target(k2, L) \in DOMAIN c2
    BY <1>1, <1>2, <1>4, <1>6 DEF k2
  <2>5. QED
    BY <1>3, <1>7, <2>1, <2>2, <2>3, <2>4 DEF LaidOut
<1>9. ASSUME Level(k, c, P), Suits(s, c[L], h),
             s[1] \in JumpOps => L + 1 \in P2 \/ c[Target(k2, L)] = c[L]
      PROVE  Level(k2, c2, P2)
  <2>1. c2[0] = 0
    BY <1>1, <1>4, <1>9 DEF Level
  <2>2. ASSUME NEW i \in D, i < L
        PROVE  /\ Takes(k2[i + 1]) <= c2[i]
               /\ k2[i + 1] \in LocalOps => k2[i + 2] < c2[i]
               /\ k2[i + 1] \notin {OP_JUMP, OP_LOOP} => c2[After(k2, i)] = c2[i] + Effect(k2[i + 1])
               /\ k2[i + 1] \in JumpOps => i + 1 \in P2 \/ c2[Target(k2, i)] = c2[i]
    <3>1. /\ Takes(k[i + 1]) <= c[i]
          /\ k[i + 1] \in LocalOps => k[i + 2] < c[i]
          /\ k[i + 1] \notin {OP_JUMP, OP_LOOP} => c[After(k, i)] = c[i] + Effect(k[i + 1])
          /\ k[i + 1] \in JumpOps => i + 1 \in P \/ c[Target(k, i)] = c[i]
      BY <1>1, <1>9, <2>2 DEF Level
    <3>2. k[i + 1] \in JumpOps => i + 1 \in P \/ Target(k, i) \in D
      BY <1>1, <2>2 DEF LaidOut
    <3>3. QED
      BY <1>4, <1>5, <2>2, <3>1, <3>2
  <2>3. /\ Takes(k2[L + 1]) <= c2[L]
        /\ k2[L + 1] \in LocalOps => k2[L + 2] < c2[L]
        /\ k2[L + 1] \notin {OP_JUMP, OP_LOOP} => c2[After(k2, L)] = c2[L] + Effect(k2[L + 1])
        /\ k2[L + 1] \in JumpOps => L + 1 \in P2 \/ c2[Target(k2, L)] = c2[L]
    BY <1>1, <1>2, <1>4, <1>6, <1>9 DEF k2, Suits
  <2>4. QED
    BY <1>3, <1>7, <2>1, <2>2, <2>3 DEF Level
<1>10. Extends(k, c, k2, c2)
  BY <1>1, <1>2, <1>3, <1>4, <1>5 DEF Extends
<1>11. Chart(k2, c2, P2, n)
  BY <1>4, <1>8 DEF Chart
<1>12. QED
  BY <1>3, <1>4, <1>9, <1>10, <1>11 DEF k2, c2

\* A distance that fits is read back as it was written.
LEMMA DigitsRead ==
  ASSUME NEW d \in 0 .. U16Max
  PROVE  /\ Digits(d)[1] * U8 + Digits(d)[2] = d
         /\ Digits(d)[1] \in 0 .. (U8 - 1) /\ Digits(d)[2] \in 0 .. (U8 - 1)
<1>1. d \in Nat /\ d <= U8 * U8 - 1 /\ U8 \in Nat \ {0, 1}
  BY U8Assumption DEF U16Max
<1>2. d \div U8 \in 0 .. (U8 - 1) /\ d % U8 \in 0 .. (U8 - 1)
  BY <1>1
<1>3. (d \div U8) % U8 = d \div U8
  BY <1>1, <1>2
<1>4. d = (d \div U8) * U8 + (d % U8)
  BY <1>1
<1>5. Digits(d)[1] = d \div U8 /\ Digits(d)[2] = d % U8
  BY <1>3 DEF Digits
<1>6. QED
  BY <1>2, <1>4, <1>5

\* A jump is patched to go to the end of the code.
LEMMA PatchInstruction ==
  ASSUME NEW k \in Seq(Byte), NEW c, NEW P, NEW n, Chart(k, c, P, n),
         NEW j \in Int, j - 1 \in DOMAIN c, j - 1 < Len(k), k[j] \in {OP_JUMP, OP_JUMP_IF_FALSE},
         Distance(k, j) <= U16Max,
         NEW P2, P \ {j} \subseteq P2
  PROVE  LET k2 == Patched(k, j)
         IN  /\ k2 \in Seq(Byte) /\ Len(k2) = Len(k)
             /\ Chart(k2, c, P2, n) /\ Extends(k, c, k2, c)
             /\ Level(k, c, P) /\ c[Len(k)] = c[j - 1] => Level(k2, c, P2)
<1> DEFINE D  == DOMAIN c
           k2 == Patched(k, j)
           L  == Len(k)
           e  == Digits(Distance(k, j))
<1>1. /\ LaidOut(k, D, P, n) /\ c \in [D -> Int]
      /\ D \subseteq 0 .. L /\ 0 \in D /\ L \in D /\ L \in Nat
  BY DEF Chart, LaidOut
<1>2. k[(j - 1) + 1] = k[j] /\ k[j] \in JumpOps /\ k[j] # OP_LOOP /\ Length(k[j]) = 3
  BY Lengths DEF JumpOps, OP_JUMP, OP_JUMP_IF_FALSE, OP_LOOP
<1>3. j - 1 \in Nat /\ j + 2 <= L /\ j + 2 \in D /\ After(k, j - 1) = j + 2
  BY <1>1, <1>2, ChartedInstruction
<1>4. /\ Distance(k, j) = L - j - 2 /\ Distance(k, j) \in 0 .. U16Max
  <2>1. Distance(k, j) = L - j - 2 /\ Distance(k, j) \in Nat
    BY <1>1, <1>3 DEF Distance
  <2>2. U16Max \in Int
    BY U8Assumption DEF U16Max
  <2>3. QED
    BY <2>1, <2>2
<1>5. e[1] \in Byte /\ e[2] \in Byte /\ e[1] * U8 + e[2] = L - j - 2
  BY <1>4, DigitsRead, ByteIsNumber
<1>6. /\ k2 \in Seq(Byte) /\ Len(k2) = L /\ k2[j + 1] = e[1] /\ k2[j + 2] = e[2]
      /\ \A i \in 1 .. L : i # j + 1 /\ i # j + 2 => k2[i] = k[i]
  <2>1. k2 \in Seq(Byte) /\ Len(k2) = L
    BY PatchedIsCode
  <2>2. k2 = [[k EXCEPT ![j + 1] = e[1]] EXCEPT ![j + 2] = e[2]]
    BY DEF Patched
  <2>3. j + 1 \in 1 .. L /\ j + 2 \in 1 .. L /\ j + 1 # j + 2
    BY <1>1, <1>3
  <2> HIDE DEF k2, e
  <2>4. QED
    BY <2>1, <2>2, <2>3
<1> HIDE DEF k2, e
<1>7. ASSUME NEW i \in D, i < L
      PROVE  /\ i \in Nat /\ k2[i + 1] = k[i + 1] /\ After(k2, i) = After(k, i)
             /\ k[i + 1] \in ConstantOps \union LocalOps => k2[i + 2] = k[i + 2]
             /\ k[i + 1] \in JumpOps /\ i # j - 1 => Target(k2, i) = Target(k, i)
  <2>1. /\ i \in Nat /\ i + 1 \in 1 .. L /\ After(k, i) = i + Length(k[i + 1])
        /\ k[i + 1] \in ConstantOps \union LocalOps => i + 2 \in 1 .. L
        /\ k[i + 1] \in JumpOps => i + 2 \in 1 .. L /\ i + 3 \in 1 .. L
    BY <1>1, <1>7, ChartedInstruction
  <2>2. j - 1 <= i \/ After(k, i) <= j - 1
    BY <1>1, <1>7 DEF LaidOut
  <2>3. i <= j - 1 \/ j + 2 <= i
    BY <1>1, <1>2, <1>3 DEF LaidOut
  <2>4. /\ k[i + 1] \in JumpOps => Length(k[i + 1]) = 3
        /\ k[i + 1] \in ConstantOps \union LocalOps => Length(k[i + 1]) = 2
        /\ Length(k[i + 1]) \in 1 .. 3
    BY Lengths
  <2>5. i # j - 1 => i + Length(k[i + 1]) <= j - 1 \/ j + 2 <= i
    BY <1>3, <2>1, <2>2, <2>3
  <2>6. k2[i + 1] = k[i + 1]
    BY <1>3, <1>6, <2>1, <2>3
  <2>7. k[i + 1] \in ConstantOps \union LocalOps => k2[i + 2] = k[i + 2]
    <3>1. k[i + 1] \in ConstantOps \union LocalOps => i # j - 1
      BY <1>2, <2>4
    <3>2. QED
      BY <1>3, <1>6, <2>1, <2>4, <2>5, <3>1
  <2>8. k[i + 1] \in JumpOps /\ i # j - 1 => k2[i + 2] = k[i + 2] /\ k2[i + 3] = k[i + 3]
    BY <1>3, <1>6, <2>1, <2>4, <2>5
  <2>9. k[i + 1] \in JumpOps /\ i # j - 1 => Target(k2, i) = Target(k, i)
    BY <2>1, <2>6, <2>8, SameInstruction
  <2>10. After(k2, i) = After(k, i)
    BY <2>6 DEF After
  <2>11. QED
    BY <2>1, <2>6, <2>7, <2>9, <2>10
<1>8. Target(k2, j - 1) = L
  <2>1. k2[(j - 1) + 1] = k[j] /\ After(k2, j - 1) = j + 2
    BY <1>2, <1>3, <1>7
  <2>2. Short(k2, (j - 1) + 1) = L - j - 2
    <3>1. ((j - 1) + 1) + 1 = j + 1 /\ ((j - 1) + 1) + 2 = j + 2
      OBVIOUS
    <3>2. QED
      BY <1>5, <1>6, <3>1 DEF Short
  <2>3. k2[(j - 1) + 1] # OP_LOOP
    BY <1>2, <2>1
  <2>4. Target(k2, j - 1) = After(k2, j - 1) + Short(k2, (j - 1) + 1)
    BY <2>3 DEF Target
  <2>5. QED
    BY <1>1, <2>1, <2>2, <2>4
<1>9. ASSUME NEW i \in D, i < L, k[i + 1] \in JumpOps, i # j - 1, i + 1 \in P
      PROVE  i + 1 \in P2
  <2>1. i + 1 # j
    BY <1>7, <1>9
  <2>2. QED
    BY <1>9, <2>1
<1>10. LaidOut(k2, D, P2, n)
  <2>1. ASSUME NEW d \in D, d # 0
        PROVE  \E i \in D : i < L /\ d = After(k2, i)
    <3>1. PICK i \in D : i < L /\ d = After(k, i)
      BY <1>1, <2>1 DEF LaidOut
    <3>2. QED
      BY <1>7, <3>1
  <2>2. ASSUME NEW i \in D, i < L
        PROVE  /\ k2[i + 1] \in OpCodes \ {OP_RETURN}
               /\ After(k2, i) \in D /\ \A q \in D : q <= i \/ After(k2, i) <= q
               /\ k2[i + 1] \in ConstantOps => Listed(k2[i + 1], k2[i + 2], n)
               /\ k2[i + 1] \in JumpOps => i + 1 \in P2 \/ Target(k2, i) \in D
    <3>1. /\ k[i + 1] \in OpCodes \ {OP_RETURN}
          /\ After(k, i) \in D /\ \A q \in D : q <= i \/ After(k, i) <= q
          /\ k[i + 1] \in ConstantOps => Listed(k[i + 1], k[i + 2], n)
          /\ k[i + 1] \in JumpOps => i + 1 \in P \/ Target(k, i) \in D
      BY <1>1, <2>2 DEF LaidOut
    <3>2. k2[i + 1] \in JumpOps => i + 1 \in P2 \/ Target(k2, i) \in D
      BY <1>1, <1>7, <1>8, <1>9, <2>2, <3>1
    <3>3. QED
      BY <1>7, <2>2, <3>1, <3>2
  <2>3. QED
    BY <1>1, <1>6, <2>1, <2>2 DEF LaidOut
<1>11. ASSUME Level(k, c, P), c[L] = c[j - 1]
       PROVE  Level(k2, c, P2)
  <2>1. ASSUME NEW i \in D, i < L
        PROVE  /\ Takes(k2[i + 1]) <= c[i]
               /\ k2[i + 1] \in LocalOps => k2[i + 2] < c[i]
               /\ k2[i + 1] \notin {OP_JUMP, OP_LOOP} => c[After(k2, i)] = c[i] + Effect(k2[i + 1])
               /\ k2[i + 1] \in JumpOps => i + 1 \in P2 \/ c[Target(k2, i)] = c[i]
    <3>1. /\ Takes(k[i + 1]) <= c[i]
          /\ k[i + 1] \in LocalOps => k[i + 2] < c[i]
          /\ k[i + 1] \notin {OP_JUMP, OP_LOOP} => c[After(k, i)] = c[i] + Effect(k[i + 1])
          /\ k[i + 1] \in JumpOps => i + 1 \in P \/ c[Target(k, i)] = c[i]
      BY <1>1, <1>11, <2>1 DEF Level
    <3>2. k2[i + 1] \in JumpOps => i + 1 \in P2 \/ c[Target(k2, i)] = c[i]
      BY <1>1, <1>7, <1>8, <1>9, <1>11, <2>1, <3>1
    <3>3. QED
      BY <1>7, <2>1, <3>1, <3>2
  <2>2. c[0] = 0
    BY <1>1, <1>11 DEF Level
  <2>3. QED
    BY <1>6, <2>1, <2>2 DEF Level
<1>12. Extends(k, c, k2, c)
  BY <1>1, <1>6, <1>7 DEF Extends
<1>13. QED
  BY <1>1, <1>6, <1>10, <1>11, <1>12 DEF Chart, k2

\* A loop instruction goes back to where the loop starts.
LEMMA AppendLoop ==
  ASSUME NEW k \in Seq(Byte), NEW c, NEW P, NEW n, Chart(k, c, P, n),
         NEW start \in DOMAIN c, LoopDistance(k, start) <= U16Max,
         NEW h \in Int
  PROVE  LET k2 == Looped(k, start)
             c2 == Grown(c, Len(k) + 3, h)
         IN  /\ k2 \in Seq(Byte) /\ Len(k2) = Len(k) + 3
             /\ Chart(k2, c2, P, n) /\ Extends(k, c, k2, c2)
             /\ c2[Len(k2)] = h
             /\ Level(k, c, P) /\ c[start] = c[Len(k)] /\ c[Len(k)] >= 0 => Level(k2, c2, P)
<1> DEFINE d == LoopDistance(k, start)
           bytes == <<OP_LOOP>> \o Digits(d)
           L == Len(k)
<1>1. start \in 0 .. L /\ L \in Nat /\ L \in DOMAIN c /\ c \in [DOMAIN c -> Int]
  BY DEF Chart, LaidOut
<1>2. d = L + 3 - start /\ d \in 0 .. U16Max
  <2>1. d = L + 3 - start /\ d \in Nat
    BY <1>1 DEF LoopDistance
  <2>2. U16Max \in Int
    BY U8Assumption DEF U16Max
  <2>3. QED
    BY <2>1, <2>2
<1> HIDE DEF d
<1>3. /\ Digits(d) \in Seq(Byte) /\ Len(Digits(d)) = 2
      /\ Digits(d)[1] \in Nat /\ Digits(d)[2] \in Nat /\ Digits(d)[1] * U8 + Digits(d)[2] = d
  <2>1. Digits(d)[1] * U8 + Digits(d)[2] = d
    BY <1>2, DigitsRead
  <2>2. d \in Int
    BY <1>1, <1>2
  <2>3. Digits(d) \in Seq(Byte) /\ Len(Digits(d)) = 2
    BY <2>2, DigitsAreBytes
  <2>4. \A i \in 1 .. 2 : Digits(d)[i] \in Nat
    BY <2>3, BytesOf
  <2>5. QED
    BY <2>1, <2>3, <2>4
<1>4. <<OP_LOOP>> \in Seq(Byte) /\ OP_LOOP \in OpCodes \ {OP_RETURN} /\ OP_LOOP \in JumpOps
      /\ OP_LOOP \notin ConstantOps /\ OP_LOOP \notin LocalOps /\ Takes(OP_LOOP) = 0 /\ Length(OP_LOOP) = 3
  BY ByteIsNumber DEF OpCodes, JumpOps, ConstantOps, LocalOps, Takes, NumberOps, Length, OP_LOOP, OP_RETURN, OP_CONSTANT, OP_GET_GLOBAL,
     OP_DEFINE_GLOBAL, OP_SET_GLOBAL, OP_GET_LOCAL, OP_SET_LOCAL, OP_EQUAL, OP_ADD, OP_POP, OP_PRINT, OP_NOT,
     OP_NEGATE, OP_JUMP_IF_FALSE, OP_GREATER, OP_LESS, OP_SUBTRACT, OP_MULTIPLY, OP_DIVIDE, Byte
<1>5. /\ bytes \in Seq(Byte) /\ Len(bytes) = 3 /\ bytes[1] = OP_LOOP /\ bytes[2] = Digits(d)[1] /\ bytes[3] = Digits(d)[2]
  <2>1. Len(<<OP_LOOP>>) = 1 /\ <<OP_LOOP>>[1] = OP_LOOP
    OBVIOUS
  <2>2. /\ bytes \in Seq(Byte) /\ Len(bytes) = 1 + 2
        /\ \A i \in 1 .. 1 : bytes[i] = <<OP_LOOP>>[i]
        /\ \A i \in 1 .. 2 : bytes[1 + i] = Digits(d)[i]
    <3>1. /\ bytes \in Seq(Byte) /\ Len(bytes) = Len(<<OP_LOOP>>) + Len(Digits(d))
          /\ \A i \in 1 .. Len(<<OP_LOOP>>) : bytes[i] = <<OP_LOOP>>[i]
          /\ \A i \in 1 .. Len(Digits(d)) : bytes[Len(<<OP_LOOP>>) + i] = Digits(d)[i]
      BY <1>3, <1>4, ConcatBytes
    <3>2. QED
      BY <1>3, <2>1, <3>1
  <2> HIDE DEF bytes
  <2>3. bytes[1] = <<OP_LOOP>>[1] /\ bytes[2] = Digits(d)[1] /\ bytes[3] = Digits(d)[2]
    <3>1. 1 \in 1 .. 1 /\ 1 \in 1 .. 2 /\ 2 \in 1 .. 2 /\ 1 + 1 = 2 /\ 1 + 2 = 3
      OBVIOUS
    <3>2. QED
      BY <2>2, <3>1
  <2>4. QED
    BY <2>1, <2>2, <2>3
<1>6. PICK s \in Seq(Byte) : s = bytes
  BY <1>5
<1>7. Looped(k, start) = k \o bytes
  <2>1. Looped(k, start) = (k \o <<OP_LOOP>>) \o Digits(d)
    BY DEF Looped, d
  <2>2. QED
    BY <1>3, <1>4, <2>1, ConcatAssociative
<1> HIDE DEF bytes
<1>8. Target(k \o s, L) = start
  <2>1. /\ (k \o s)[L + 1] = OP_LOOP
        /\ (k \o s)[(L + 1) + 1] = s[2] /\ (k \o s)[(L + 1) + 2] = s[3]
    <3>1. \A i \in 1 .. 3 : (k \o s)[L + i] = s[i]
      <4>1. \A i \in 1 .. Len(s) : (k \o s)[L + i] = s[i]
        BY ConcatBytes
      <4>2. QED
        BY <1>5, <1>6, <4>1
    <3>2. (L + 1) + 1 = L + 2 /\ (L + 1) + 2 = L + 3 /\ {1, 2, 3} \subseteq 1 .. 3
      BY <1>1
    <3>3. QED
      BY <1>5, <1>6, <3>1, <3>2
  <2>2. Short(k \o s, L + 1) = d
    BY <1>3, <1>5, <1>6, <2>1 DEF Short
  <2>3. After(k \o s, L) = L + 3
    BY <1>4, <2>1 DEF After
  <2>4. QED
    BY <1>1, <1>2, <2>1, <2>2, <2>3 DEF Target
<1>9. /\ Len(s) = Length(s[1]) /\ s[1] \in OpCodes \ {OP_RETURN}
      /\ s[1] \in ConstantOps => Listed(s[1], s[2], n)
      /\ s[1] \in JumpOps => Len(k) + 1 \in P \/ Target(k \o s, Len(k)) \in DOMAIN c
  BY <1>4, <1>5, <1>6, <1>8
<1>10. c[start] = c[L] /\ c[L] >= 0 =>
         Suits(s, c[L], h) /\ (s[1] \in JumpOps => L + 1 \in P \/ c[Target(k \o s, L)] = c[L])
  BY <1>4, <1>5, <1>6, <1>8 DEF Suits
<1>11. /\ k \o s \in Seq(Byte) /\ Len(k \o s) = L + Len(s)
       /\ Chart(k \o s, Grown(c, L + Len(s), h), P, n) /\ Extends(k, c, k \o s, Grown(c, L + Len(s), h))
       /\ Grown(c, L + Len(s), h)[Len(k \o s)] = h
       /\ /\ Level(k, c, P) /\ Suits(s, c[L], h)
          /\ s[1] \in JumpOps => L + 1 \in P \/ c[Target(k \o s, L)] = c[L]
          => Level(k \o s, Grown(c, L + Len(s), h), P)
  BY <1>9, AppendInstruction
<1>12. QED
  BY <1>5, <1>6, <1>7, <1>10, <1>11

\* The code k with chart c may become k2 with chart c2.
Becomes(k, c, k2, c2, P2, n) == k2 \in Seq(Byte) /\ Chart(k2, c2, P2, n) /\ Extends(k, c, k2, c2)

\* What becomes of the code in two steps became of it.
LEMMA BecomesTwice ==
  ASSUME NEW k \in Seq(Byte), NEW c, NEW P, NEW n, Chart(k, c, P, n),
         NEW k2, NEW c2, NEW P2, NEW n2, Becomes(k, c, k2, c2, P2, n2),
         NEW k3, NEW c3, NEW P3, NEW n3, Becomes(k2, c2, k3, c3, P3, n3)
  PROVE  Becomes(k, c, k3, c3, P3, n3)
<1>1. Len(k) \in Nat /\ Len(k2) \in Nat /\ Len(k3) \in Nat /\ \A i \in DOMAIN c : i \in Nat
  BY DEF Becomes, Chart, LaidOut
<1>2. Extends(k, c, k3, c3)
  BY <1>1 DEF Becomes, Extends
<1>3. QED
  BY <1>2 DEF Becomes

\* The end of the code is on the chart.
LEMMA ChartEnd ==
  ASSUME NEW k \in Seq(Byte), NEW c, NEW P, NEW n, Chart(k, c, P, n)
  PROVE  Len(k) \in DOMAIN c /\ c[Len(k)] \in Int /\ Len(k) \in Nat /\ \A i \in DOMAIN c : i \in 0 .. Len(k) /\ c[i] \in Int
BY DEF Chart, LaidOut

\* What the instructions are that are emitted.
LEMMA SimpleOpsAre ==
  /\ SimpleOps \intersect (ConstantOps \union LocalOps \union JumpOps) = {}
  /\ {OP_NIL, OP_TRUE, OP_FALSE, OP_POP, OP_NOT, OP_NEGATE, OP_PRINT, OP_EQUAL, OP_ADD} \union NumberOps \subseteq SimpleOps
  /\ Takes(OP_POP) = 1 /\ Effect(OP_POP) = -1 /\ Takes(OP_NOT) = 1 /\ Effect(OP_NOT) = 0
  /\ OP_JUMP \notin SimpleOps /\ OP_LOOP \notin SimpleOps
  /\ OP_JUMP \in JumpOps /\ OP_JUMP_IF_FALSE \in JumpOps /\ OP_JUMP \in OpCodes \ {OP_RETURN}
  /\ OP_JUMP_IF_FALSE \in OpCodes \ {OP_RETURN}
  /\ Takes(OP_JUMP) = 0 /\ Takes(OP_JUMP_IF_FALSE) = 1 /\ Effect(OP_JUMP_IF_FALSE) = 0
  /\ OP_JUMP_IF_FALSE \notin {OP_JUMP, OP_LOOP}
  /\ JumpOps \intersect (ConstantOps \union LocalOps) = {}
  /\ \A op : Takes(op) = 2 => Effect(op) = -1
<1>1. SimpleOps \intersect (ConstantOps \union LocalOps \union JumpOps) = {}
  BY Lengths DEF SimpleOps
<1>2. {OP_NIL, OP_TRUE, OP_FALSE, OP_POP, OP_NOT, OP_NEGATE, OP_PRINT, OP_EQUAL, OP_ADD} \union NumberOps \subseteq SimpleOps
  BY DEF SimpleOps, OpCodes, NumberOps, Length, JumpOps, ConstantOps, LocalOps, OP_LOOP, OP_RETURN, OP_CONSTANT, OP_GET_GLOBAL,
     OP_DEFINE_GLOBAL, OP_SET_GLOBAL, OP_GET_LOCAL, OP_SET_LOCAL, OP_EQUAL, OP_ADD, OP_POP, OP_PRINT, OP_NOT,
     OP_NEGATE, OP_JUMP_IF_FALSE, OP_JUMP, OP_GREATER, OP_LESS, OP_SUBTRACT, OP_MULTIPLY, OP_DIVIDE, OP_NIL, OP_TRUE, OP_FALSE
<1>3. /\ Takes(OP_POP) = 1 /\ Effect(OP_POP) = -1 /\ Takes(OP_NOT) = 1 /\ Effect(OP_NOT) = 0
      /\ Takes(OP_JUMP) = 0 /\ Takes(OP_JUMP_IF_FALSE) = 1 /\ Effect(OP_JUMP_IF_FALSE) = 0
  BY DEF Takes, Effect, NumberOps, OP_LOOP, OP_RETURN, OP_CONSTANT, OP_GET_GLOBAL,
     OP_DEFINE_GLOBAL, OP_SET_GLOBAL, OP_GET_LOCAL, OP_SET_LOCAL, OP_EQUAL, OP_ADD, OP_POP, OP_PRINT, OP_NOT,
     OP_NEGATE, OP_JUMP_IF_FALSE, OP_JUMP, OP_GREATER, OP_LESS, OP_SUBTRACT, OP_MULTIPLY, OP_DIVIDE, OP_NIL, OP_TRUE, OP_FALSE
<1>4. /\ OP_JUMP \in JumpOps /\ OP_JUMP_IF_FALSE \in JumpOps /\ OP_LOOP \in JumpOps
      /\ OP_JUMP \in OpCodes \ {OP_RETURN} /\ OP_JUMP_IF_FALSE \in OpCodes \ {OP_RETURN}
      /\ OP_JUMP_IF_FALSE \notin {OP_JUMP, OP_LOOP}
  BY DEF JumpOps, OpCodes, OP_LOOP, OP_RETURN, OP_CONSTANT, OP_JUMP_IF_FALSE, OP_JUMP
<1>5. JumpOps \intersect (ConstantOps \union LocalOps) = {}
  BY Lengths
<1>6. \A op : Takes(op) = 2 => Effect(op) = -1
  BY DEF Takes, Effect, NumberOps, OP_LOOP, OP_RETURN, OP_CONSTANT, OP_GET_GLOBAL,
     OP_DEFINE_GLOBAL, OP_SET_GLOBAL, OP_GET_LOCAL, OP_SET_LOCAL, OP_EQUAL, OP_ADD, OP_POP, OP_PRINT, OP_NOT,
     OP_NEGATE, OP_JUMP_IF_FALSE, OP_JUMP, OP_GREATER, OP_LESS, OP_SUBTRACT, OP_MULTIPLY, OP_DIVIDE, OP_NIL, OP_TRUE, OP_FALSE
<1>7. QED
  BY <1>1, <1>2, <1>3, <1>4, <1>5, <1>6

\* emit_byte with an instruction that has no operand.
LEMMA AppendSimple ==
  ASSUME NEW k \in Seq(Byte), NEW c, NEW P, NEW n, Chart(k, c, P, n), NEW op \in SimpleOps
  PROVE  \E c2 : /\ Becomes(k, c, k \o <<op>>, c2, P, n) /\ Len(k \o <<op>>) = Len(k) + 1
                 /\ Level(k, c, P) /\ Takes(op) <= c[Len(k)] =>
                      Level(k \o <<op>>, c2, P) /\ c2[Len(k) + 1] = c[Len(k)] + Effect(op)
<1> DEFINE h == c[Len(k)] + Effect(op)
<1>1. h \in Int
  BY ChartEnd, Lengths
<1>2. /\ op \in OpCodes \ {OP_RETURN} /\ Length(op) = 1 /\ op \in Byte
      /\ op \notin ConstantOps /\ op \notin LocalOps /\ op \notin JumpOps
  BY SimpleOpsAre, ByteIsNumber DEF SimpleOps
<1> HIDE DEF h
<1>3. PICK s \in Seq(Byte) : s = <<op>>
  <2>1. op \in OpCodes
    BY <1>2
  <2>2. <<op>> \in Seq(Byte)
    BY <2>1, EmittedBytes
  <2>3. QED
    BY <2>2
<1>4. Len(s) = 1 /\ s[1] = op
  BY <1>3
<1>5. /\ Len(s) = Length(s[1]) /\ s[1] \in OpCodes \ {OP_RETURN}
      /\ s[1] \in ConstantOps => Listed(s[1], s[2], n)
      /\ s[1] \in JumpOps => Len(k) + 1 \in P \/ Target(k \o s, Len(k)) \in DOMAIN c
  BY <1>2, <1>4
<1>6. /\ k \o s \in Seq(Byte) /\ Len(k \o s) = Len(k) + Len(s)
      /\ Chart(k \o s, Grown(c, Len(k) + Len(s), h), P, n) /\ Extends(k, c, k \o s, Grown(c, Len(k) + Len(s), h))
      /\ Grown(c, Len(k) + Len(s), h)[Len(k \o s)] = h
      /\ /\ Level(k, c, P) /\ Suits(s, c[Len(k)], h)
         /\ s[1] \in JumpOps => Len(k) + 1 \in P \/ c[Target(k \o s, Len(k))] = c[Len(k)]
         => Level(k \o s, Grown(c, Len(k) + Len(s), h), P)
  BY <1>1, <1>5, AppendInstruction
<1>7. Takes(op) <= c[Len(k)] => Suits(s, c[Len(k)], h)
  BY <1>2, <1>4 DEF Suits, h
<1>8. QED
  BY <1>2, <1>3, <1>4, <1>6, <1>7 DEF Becomes, h

\* emit_bytes with an instruction that has one operand.
LEMMA AppendOperand ==
  ASSUME NEW k \in Seq(Byte), NEW c, NEW P, NEW n, Chart(k, c, P, n),
         NEW op \in ConstantOps \union LocalOps, NEW arg \in 0 .. (U8 - 1), op \in ConstantOps => Listed(op, arg, n)
  PROVE  \E c2 : /\ Becomes(k, c, k \o <<op, arg>>, c2, P, n) /\ Len(k \o <<op, arg>>) = Len(k) + 2
                 /\ Level(k, c, P) /\ Takes(op) <= c[Len(k)] /\ (op \in LocalOps => arg < c[Len(k)]) =>
                      Level(k \o <<op, arg>>, c2, P) /\ c2[Len(k) + 2] = c[Len(k)] + Effect(op)
<1> DEFINE h == c[Len(k)] + Effect(op)
<1>1. h \in Int
  BY ChartEnd, Lengths
<1>2. op \in OpCodes \ {OP_RETURN} /\ Length(op) = 2 /\ op \in Byte /\ op \notin JumpOps /\ arg \in Byte
  <2>1. op \in OpCodes \ {OP_RETURN}
    BY DEF ConstantOps, LocalOps, OpCodes, OP_RETURN, OP_CONSTANT, OP_GET_GLOBAL, OP_DEFINE_GLOBAL, OP_SET_GLOBAL,
       OP_GET_LOCAL, OP_SET_LOCAL
  <2>2. Length(op) = 2 /\ op \notin JumpOps
    BY Lengths, SimpleOpsAre
  <2>3. QED
    BY <2>1, <2>2, ByteIsNumber
<1> HIDE DEF h
<1>3. PICK s \in Seq(Byte) : s = <<op, arg>>
  <2>1. op \in OpCodes
    BY <1>2
  <2>2. <<op, arg>> \in Seq(Byte)
    BY <2>1, EmittedBytes
  <2>3. QED
    BY <2>2
<1>4. Len(s) = 2 /\ s[1] = op /\ s[2] = arg
  BY <1>3
<1>5. /\ Len(s) = Length(s[1]) /\ s[1] \in OpCodes \ {OP_RETURN}
      /\ s[1] \in ConstantOps => Listed(s[1], s[2], n)
      /\ s[1] \in JumpOps => Len(k) + 1 \in P \/ Target(k \o s, Len(k)) \in DOMAIN c
  BY <1>2, <1>4
<1>6. /\ k \o s \in Seq(Byte) /\ Len(k \o s) = Len(k) + Len(s)
      /\ Chart(k \o s, Grown(c, Len(k) + Len(s), h), P, n) /\ Extends(k, c, k \o s, Grown(c, Len(k) + Len(s), h))
      /\ Grown(c, Len(k) + Len(s), h)[Len(k \o s)] = h
      /\ /\ Level(k, c, P) /\ Suits(s, c[Len(k)], h)
         /\ s[1] \in JumpOps => Len(k) + 1 \in P \/ c[Target(k \o s, Len(k))] = c[Len(k)]
         => Level(k \o s, Grown(c, Len(k) + Len(s), h), P)
  BY <1>1, <1>5, AppendInstruction
<1>7. Takes(op) <= c[Len(k)] /\ (op \in LocalOps => arg < c[Len(k)]) => Suits(s, c[Len(k)], h)
  BY <1>2, <1>4 DEF Suits, h
<1>8. QED
  BY <1>2, <1>3, <1>4, <1>6, <1>7 DEF Becomes, h

\* emit_jump: the jump is to be patched.  After OP_JUMP any height may follow.
LEMMA AppendJump ==
  ASSUME NEW k \in Seq(Byte), NEW c, NEW P, NEW n, Chart(k, c, P, n),
         NEW op, op = OP_JUMP \/ op = OP_JUMP_IF_FALSE, NEW h \in Int,
         NEW P2, P \subseteq P2, Len(k) + 1 \in P2
  PROVE  \E c2 : /\ Becomes(k, c, k \o EmitJump(op), c2, P2, n) /\ Len(k \o EmitJump(op)) = Len(k) + 3
                 /\ (k \o EmitJump(op))[Len(k) + 1] = op /\ c2[Len(k) + 3] = h
                 /\ Level(k, c, P) /\ Takes(op) <= c[Len(k)] /\ (op = OP_JUMP_IF_FALSE => h = c[Len(k)]) =>
                      Level(k \o EmitJump(op), c2, P2)
<1>1. /\ op \in OpCodes \ {OP_RETURN} /\ Length(op) = 3 /\ op \in JumpOps
      /\ op \notin ConstantOps /\ op \notin LocalOps
      /\ op = OP_JUMP \/ (op = OP_JUMP_IF_FALSE /\ Effect(op) = 0)
  BY SimpleOpsAre, Lengths
<1>2. PICK s \in Seq(Byte) : s = EmitJump(op)
  BY <1>1, EmittedBytes
<1>3. Len(s) = 3 /\ s[1] = op
  BY <1>2 DEF EmitJump
<1>4. /\ Len(s) = Length(s[1]) /\ s[1] \in OpCodes \ {OP_RETURN}
      /\ s[1] \in ConstantOps => Listed(s[1], s[2], n)
      /\ s[1] \in JumpOps => Len(k) + 1 \in P2 \/ Target(k \o s, Len(k)) \in DOMAIN c
  <2>1. op \in OpCodes \ {OP_RETURN} /\ Length(op) = 3 /\ op \notin ConstantOps
    BY <1>1
  <2>2. s[1] \in OpCodes \ {OP_RETURN} /\ Length(s[1]) = 3 /\ s[1] \notin ConstantOps
    BY <1>3, <2>1, Zenon
  <2>3. QED
    BY <1>3, <2>2
<1>5. /\ k \o s \in Seq(Byte) /\ Len(k \o s) = Len(k) + Len(s)
      /\ Chart(k \o s, Grown(c, Len(k) + Len(s), h), P2, n) /\ Extends(k, c, k \o s, Grown(c, Len(k) + Len(s), h))
      /\ Grown(c, Len(k) + Len(s), h)[Len(k \o s)] = h
      /\ /\ Level(k, c, P) /\ Suits(s, c[Len(k)], h)
         /\ s[1] \in JumpOps => Len(k) + 1 \in P2 \/ c[Target(k \o s, Len(k))] = c[Len(k)]
         => Level(k \o s, Grown(c, Len(k) + Len(s), h), P2)
  BY <1>4, AppendInstruction
<1>6. Takes(op) <= c[Len(k)] /\ (op = OP_JUMP_IF_FALSE => h = c[Len(k)]) => Suits(s, c[Len(k)], h)
  <2>1. c[Len(k)] \in Int
    BY ChartEnd
  <2>2. Suits(s, c[Len(k)], h) <=>
          /\ Takes(op) <= c[Len(k)] /\ (op \in LocalOps => s[2] < c[Len(k)])
          /\ op \notin {OP_JUMP, OP_LOOP} => h = c[Len(k)] + Effect(op)
    BY <1>3 DEF Suits
  <2>3. op = OP_JUMP_IF_FALSE => c[Len(k)] + Effect(op) = c[Len(k)]
    BY <1>1, <2>1, SimpleOpsAre
  <2>4. QED
    BY <1>1, <2>2, <2>3
<1>7. (k \o s)[Len(k) + 1] = op
  <2>1. \A i \in 1 .. Len(s) : (k \o s)[Len(k) + i] = s[i]
    BY ConcatBytes
  <2>2. 1 \in 1 .. Len(s)
    BY <1>3
  <2>3. QED
    BY <1>3, <2>1, <2>2
<1>8. QED
  BY <1>2, <1>3, <1>5, <1>6, <1>7 DEF Becomes

\* A jump that is always taken: any height may follow.
LEMMA AppendSkip ==
  ASSUME NEW k \in Seq(Byte), NEW c, NEW P, NEW n, Chart(k, c, P, n), NEW h \in Int,
         NEW P2, P \subseteq P2, Len(k) + 1 \in P2
  PROVE  \E c2 : /\ Becomes(k, c, k \o EmitJump(OP_JUMP), c2, P2, n) /\ Len(k \o EmitJump(OP_JUMP)) = Len(k) + 3
                 /\ (k \o EmitJump(OP_JUMP))[Len(k) + 1] = OP_JUMP /\ c2[Len(k) + 3] = h
                 /\ Level(k, c, P) /\ 0 <= c[Len(k)] => Level(k \o EmitJump(OP_JUMP), c2, P2)
<1>1. OP_JUMP # OP_JUMP_IF_FALSE /\ Takes(OP_JUMP) = 0
  BY SimpleOpsAre DEF OP_JUMP, OP_JUMP_IF_FALSE
<1>2. PICK op : op = OP_JUMP
  OBVIOUS
<1>3. PICK c2 :
        /\ Becomes(k, c, k \o EmitJump(op), c2, P2, n) /\ Len(k \o EmitJump(op)) = Len(k) + 3
        /\ (k \o EmitJump(op))[Len(k) + 1] = op /\ c2[Len(k) + 3] = h
        /\ Level(k, c, P) /\ Takes(op) <= c[Len(k)] /\ (op = OP_JUMP_IF_FALSE => h = c[Len(k)]) =>
              Level(k \o EmitJump(op), c2, P2)
  BY <1>2, AppendJump
<1>4. QED
  BY <1>1, <1>2, <1>3

-----------------------------------------------------------------------------
(***************************************************************************)
(* What the actions emit in one step.                                      *)
(***************************************************************************)

\* Emitting bytes in two parts.
LEMMA EmitTwice ==
  ASSUME NEW k \in Seq(Byte), NEW s \in Seq(Byte), NEW t \in Seq(Byte)
  PROVE  k \o (s \o t) = (k \o s) \o t
BY ConcatAssociative

\* What emit appends for an operator or the end of a statement.
LEMMA AppendPlain ==
  ASSUME NEW k \in Seq(Byte), NEW c, NEW P, NEW n, Chart(k, c, P, n), NEW bytes, EmitsPlain(bytes)
  PROVE  \E c2 : /\ Becomes(k, c, k \o bytes, c2, P, n)
                 /\ Level(k, c, P) /\ Takes(bytes[1]) <= c[Len(k)] =>
                      Level(k \o bytes, c2, P) /\ c2[Len(k \o bytes)] = c[Len(k)] + Effect(bytes[1])
<1>1. PICK op \in SimpleOps : bytes = <<op>> \/ (Takes(op) = 2 /\ bytes = <<op, OP_NOT>>)
  BY DEF EmitsPlain
<1>2. PICK c1 : /\ Becomes(k, c, k \o <<op>>, c1, P, n) /\ Len(k \o <<op>>) = Len(k) + 1
                /\ Level(k, c, P) /\ Takes(op) <= c[Len(k)] =>
                     Level(k \o <<op>>, c1, P) /\ c1[Len(k) + 1] = c[Len(k)] + Effect(op)
  BY AppendSimple
<1>3. CASE bytes = <<op>>
  <2>1. bytes[1] = op
    BY <1>3
  <2>2. QED
    BY <1>2, <1>3, <2>1
<1>4. CASE Takes(op) = 2 /\ bytes = <<op, OP_NOT>>
  <2>1. op \in OpCodes /\ OP_NOT \in OpCodes /\ OP_NOT \in SimpleOps /\ Takes(OP_NOT) = 1 /\ Effect(OP_NOT) = 0 /\ Effect(op) = -1
    BY <1>4, SimpleOpsAre DEF SimpleOps
  <2>2. <<op>> \in Seq(Byte) /\ <<OP_NOT>> \in Seq(Byte)
    BY <2>1, EmittedBytes
  <2>3. k \o bytes = (k \o <<op>>) \o <<OP_NOT>>
    <3>1. bytes = <<op>> \o <<OP_NOT>>
      BY <1>4
    <3>2. QED
      BY <2>2, <3>1, EmitTwice
  <2>4. PICK k1 \in Seq(Byte) : k1 = k \o <<op>>
    BY <1>2 DEF Becomes
  <2>5. Chart(k1, c1, P, n) /\ Len(k1) = Len(k) + 1 /\ Becomes(k, c, k1, c1, P, n)
    BY <1>2, <2>4 DEF Becomes
  <2>6. PICK c2 : /\ Becomes(k1, c1, k1 \o <<OP_NOT>>, c2, P, n) /\ Len(k1 \o <<OP_NOT>>) = Len(k1) + 1
                  /\ Level(k1, c1, P) /\ Takes(OP_NOT) <= c1[Len(k1)] =>
                       Level(k1 \o <<OP_NOT>>, c2, P) /\ c2[Len(k1) + 1] = c1[Len(k1)] + Effect(OP_NOT)
    BY <2>1, <2>5, AppendSimple
  <2>7. Becomes(k, c, k1 \o <<OP_NOT>>, c2, P, n)
    BY <2>5, <2>6, BecomesTwice
  <2>8. bytes[1] = op /\ c[Len(k)] \in Int
    BY <1>4, ChartEnd
  <2>9. Level(k, c, P) /\ Takes(op) <= c[Len(k)] =>
          Level(k1 \o <<OP_NOT>>, c2, P) /\ c2[Len(k1 \o <<OP_NOT>>)] = c[Len(k)] + Effect(op)
    BY <1>2, <1>4, <2>1, <2>4, <2>5, <2>6, <2>8
  <2>10. QED
    BY <2>3, <2>4, <2>7, <2>8, <2>9
<1>5. QED
  BY <1>1, <1>3, <1>4

\* A condition: the jump over what it guards, and the pop of its value.
LEMMA AppendBranch ==
  ASSUME NEW k \in Seq(Byte), NEW c, NEW P, NEW n, Chart(k, c, P, n),
         NEW P2, P \subseteq P2, Len(k) + 1 \in P2
  PROVE  LET k2 == k \o (EmitJump(OP_JUMP_IF_FALSE) \o <<OP_POP>>)
         IN  \E c2 : /\ Becomes(k, c, k2, c2, P2, n) /\ Len(k2) = Len(k) + 4
                     /\ k2[Len(k) + 1] = OP_JUMP_IF_FALSE /\ Len(k) \in DOMAIN c2
                     /\ Level(k, c, P) /\ 1 <= c[Len(k)] =>
                          /\ Level(k2, c2, P2) /\ c2[Len(k2)] = c[Len(k)] - 1
                          /\ c2[Len(k)] = c[Len(k)]
<1>1. OP_JUMP_IF_FALSE \in OpCodes /\ OP_POP \in OpCodes /\ OP_POP \in SimpleOps /\ Takes(OP_POP) = 1 /\ Effect(OP_POP) = -1
      /\ Takes(OP_JUMP_IF_FALSE) = 1
  BY SimpleOpsAre DEF SimpleOps
<1>2. EmitJump(OP_JUMP_IF_FALSE) \in Seq(Byte) /\ <<OP_POP>> \in Seq(Byte)
  BY <1>1, EmittedBytes
<1>3. Len(k) \in DOMAIN c /\ c[Len(k)] \in Int /\ Len(k) \in Nat
  BY ChartEnd
<1>4. PICK j \in Seq(Byte) : j = EmitJump(OP_JUMP_IF_FALSE)
  BY <1>2
<1>5. PICK c1 : /\ Becomes(k, c, k \o j, c1, P2, n) /\ Len(k \o j) = Len(k) + 3
                /\ (k \o j)[Len(k) + 1] = OP_JUMP_IF_FALSE /\ c1[Len(k) + 3] = c[Len(k)]
                /\ Level(k, c, P) /\ Takes(OP_JUMP_IF_FALSE) <= c[Len(k)] => Level(k \o j, c1, P2)
  BY <1>3, <1>4, AppendJump
<1>6. PICK k1 \in Seq(Byte) : k1 = k \o j
  BY <1>5 DEF Becomes
<1>7. Chart(k1, c1, P2, n) /\ Len(k1) = Len(k) + 3 /\ Becomes(k, c, k1, c1, P2, n)
      /\ Extends(k, c, k1, c1) /\ k1[Len(k) + 1] = OP_JUMP_IF_FALSE
  BY <1>5, <1>6 DEF Becomes
<1>8. PICK c2 : /\ Becomes(k1, c1, k1 \o <<OP_POP>>, c2, P2, n) /\ Len(k1 \o <<OP_POP>>) = Len(k1) + 1
                /\ Level(k1, c1, P2) /\ Takes(OP_POP) <= c1[Len(k1)] =>
                     Level(k1 \o <<OP_POP>>, c2, P2) /\ c2[Len(k1) + 1] = c1[Len(k1)] + Effect(OP_POP)
  BY <1>1, <1>7, AppendSimple
<1>9. PICK k2 \in Seq(Byte) : k2 = k1 \o <<OP_POP>>
  BY <1>8 DEF Becomes
<1>10. Becomes(k, c, k2, c2, P2, n) /\ Extends(k, c, k2, c2)
  <2>1. Becomes(k1, c1, k2, c2, P2, n)
    BY <1>8, <1>9
  <2>2. Becomes(k, c, k2, c2, P2, n)
    BY <1>7, <2>1, BecomesTwice
  <2>3. QED
    BY <2>2 DEF Becomes
<1>11. k2 = k \o (EmitJump(OP_JUMP_IF_FALSE) \o <<OP_POP>>)
  BY <1>2, <1>4, <1>6, <1>9, EmitTwice
<1>12. Len(k) \in DOMAIN c2 /\ c2[Len(k)] = c[Len(k)]
  BY <1>3, <1>10 DEF Extends
<1>13. k2[Len(k) + 1] = OP_JUMP_IF_FALSE
  <2>1. Len(k) \in DOMAIN c1 /\ Len(k) < Len(k1)
    BY <1>3, <1>7 DEF Extends
  <2>2. Extends(k1, c1, k2, c2)
    BY <1>8, <1>9 DEF Becomes
  <2>3. QED
    BY <1>7, <2>1, <2>2 DEF Extends
<1>14. Len(k2) = Len(k) + 4
  BY <1>3, <1>7, <1>8, <1>9
<1>15. Level(k, c, P) /\ 1 <= c[Len(k)] => Level(k2, c2, P2) /\ c2[Len(k2)] = c[Len(k)] - 1
  BY <1>1, <1>3, <1>5, <1>6, <1>7, <1>8, <1>9
<1>16. QED
  BY <1>10, <1>11, <1>12, <1>13, <1>14, <1>15

\* The condition of a for statement and the jump to its body, which starts with
\* the stack as it was before the condition.
LEMMA AppendForJumps ==
  ASSUME NEW k \in Seq(Byte), NEW c, NEW P, NEW n, Chart(k, c, P, n),
         NEW P2, P \subseteq P2, Len(k) + 1 \in P2, Len(k) + 5 \in P2
  PROVE  LET k2 == k \o ((EmitJump(OP_JUMP_IF_FALSE) \o <<OP_POP>>) \o EmitJump(OP_JUMP))
         IN  \E c2 : /\ Becomes(k, c, k2, c2, P2, n) /\ Len(k2) = Len(k) + 7
                     /\ k2[Len(k) + 1] = OP_JUMP_IF_FALSE /\ k2[Len(k) + 5] = OP_JUMP
                     /\ Len(k) \in DOMAIN c2 /\ Len(k) + 4 \in DOMAIN c2
                     /\ Level(k, c, P) /\ 1 <= c[Len(k)] =>
                          /\ Level(k2, c2, P2) /\ c2[Len(k)] = c[Len(k)]
                          /\ c2[Len(k) + 4] = c[Len(k)] - 1 /\ c2[Len(k2)] = c[Len(k)] - 1
<1>1. PICK b \in Seq(Byte) : b = EmitJump(OP_JUMP_IF_FALSE) \o <<OP_POP>>
  <2>1. OP_JUMP_IF_FALSE \in OpCodes /\ OP_POP \in OpCodes
    BY EmittedBytes
  <2>2. EmitJump(OP_JUMP_IF_FALSE) \in Seq(Byte) /\ <<OP_POP>> \in Seq(Byte)
    BY <2>1, EmittedBytes
  <2>3. EmitJump(OP_JUMP_IF_FALSE) \o <<OP_POP>> \in Seq(Byte)
    BY <2>2, ConcatProperties
  <2>4. QED
    BY <2>3
<1>2. PICK c1 : /\ Becomes(k, c, k \o b, c1, P2, n) /\ Len(k \o b) = Len(k) + 4
                /\ (k \o b)[Len(k) + 1] = OP_JUMP_IF_FALSE /\ Len(k) \in DOMAIN c1
                /\ Level(k, c, P) /\ 1 <= c[Len(k)] =>
                     /\ Level(k \o b, c1, P2) /\ c1[Len(k \o b)] = c[Len(k)] - 1
                     /\ c1[Len(k)] = c[Len(k)]
  BY <1>1, AppendBranch
<1>3. PICK k1 \in Seq(Byte) : k1 = k \o b
  BY <1>2 DEF Becomes
<1>4. /\ Chart(k1, c1, P2, n) /\ Len(k1) = Len(k) + 4 /\ Becomes(k, c, k1, c1, P2, n)
      /\ k1[Len(k) + 1] = OP_JUMP_IF_FALSE
      /\ Level(k, c, P) /\ 1 <= c[Len(k)] =>
           Level(k1, c1, P2) /\ c1[Len(k1)] = c[Len(k)] - 1 /\ c1[Len(k)] = c[Len(k)]
  BY <1>2, <1>3 DEF Becomes
<1>5. /\ Len(k) \in DOMAIN c /\ c[Len(k)] \in Int /\ Len(k) \in Nat
      /\ Len(k1) \in DOMAIN c1 /\ c1[Len(k1)] \in Int
  BY <1>4, ChartEnd
<1>6. PICK j \in Seq(Byte) : j = EmitJump(OP_JUMP)
  BY EmittedBytes
<1>8. PICK c2 : /\ Becomes(k1, c1, k1 \o j, c2, P2, n) /\ Len(k1 \o j) = Len(k1) + 3
                /\ (k1 \o j)[Len(k1) + 1] = OP_JUMP /\ c2[Len(k1) + 3] = c1[Len(k1)]
                /\ Level(k1, c1, P2) /\ 0 <= c1[Len(k1)] => Level(k1 \o j, c2, P2)
  <2>1. Len(k1) + 1 \in P2
    BY <1>4, <1>5
  <2>2. PICK h \in Int : h = c1[Len(k1)]
    BY <1>5
  <2>3. PICK P3 : P3 = P2 /\ P2 \subseteq P3 /\ Len(k1) + 1 \in P3
    BY <2>1
  <2>4. Chart(k1, c1, P2, n)
    BY <1>4
  <2>5. PICK c2 : /\ Becomes(k1, c1, k1 \o EmitJump(OP_JUMP), c2, P3, n)
                  /\ Len(k1 \o EmitJump(OP_JUMP)) = Len(k1) + 3
                  /\ (k1 \o EmitJump(OP_JUMP))[Len(k1) + 1] = OP_JUMP /\ c2[Len(k1) + 3] = h
                  /\ Level(k1, c1, P2) /\ 0 <= c1[Len(k1)] => Level(k1 \o EmitJump(OP_JUMP), c2, P3)
    BY <2>3, <2>4, AppendSkip
  <2>6. Becomes(k1, c1, k1 \o j, c2, P2, n) /\ Len(k1 \o j) = Len(k1) + 3
        /\ (k1 \o j)[Len(k1) + 1] = OP_JUMP /\ c2[Len(k1) + 3] = c1[Len(k1)]
    BY <1>6, <2>2, <2>3, <2>5
  <2>7. Level(k1, c1, P2) /\ 0 <= c1[Len(k1)] => Level(k1 \o j, c2, P2)
    BY <1>6, <2>3, <2>5
  <2>8. QED
    BY <2>6, <2>7
<1>9. PICK k2 \in Seq(Byte) : k2 = k1 \o j
  BY <1>8 DEF Becomes
<1>10. Becomes(k1, c1, k2, c2, P2, n) /\ Extends(k1, c1, k2, c2) /\ Becomes(k, c, k2, c2, P2, n)
  <2>1. Becomes(k1, c1, k2, c2, P2, n)
    BY <1>8, <1>9
  <2>2. QED
    BY <1>4, <2>1, BecomesTwice DEF Becomes
<1>11. k2 = k \o ((EmitJump(OP_JUMP_IF_FALSE) \o <<OP_POP>>) \o EmitJump(OP_JUMP))
  BY <1>1, <1>3, <1>6, <1>9, EmitTwice
<1>12. /\ Len(k) \in DOMAIN c2 /\ c2[Len(k)] = c1[Len(k)] /\ k2[Len(k) + 1] = OP_JUMP_IF_FALSE
       /\ Len(k1) \in DOMAIN c2 /\ c2[Len(k1)] = c1[Len(k1)]
  <2>1. Len(k) \in DOMAIN c1 /\ Len(k) < Len(k1)
    BY <1>2, <1>4, <1>5
  <2>2. QED
    BY <1>4, <1>5, <1>10, <2>1 DEF Extends
<1>13. Len(k2) = Len(k) + 7 /\ k2[Len(k) + 5] = OP_JUMP
  <2>1. Len(k1) + 3 = Len(k) + 7 /\ Len(k1) + 1 = Len(k) + 5
    BY <1>4, <1>5
  <2>2. QED
    BY <1>8, <1>9, <2>1
<1>14. Level(k, c, P) /\ 1 <= c[Len(k)] =>
         /\ Level(k2, c2, P2) /\ c2[Len(k)] = c[Len(k)]
         /\ c2[Len(k) + 4] = c[Len(k)] - 1 /\ c2[Len(k2)] = c[Len(k)] - 1
  <2>1. SUFFICES ASSUME Level(k, c, P), 1 <= c[Len(k)]
                 PROVE  /\ Level(k2, c2, P2) /\ c2[Len(k)] = c[Len(k)]
                        /\ c2[Len(k) + 4] = c[Len(k)] - 1 /\ c2[Len(k2)] = c[Len(k)] - 1
    OBVIOUS
  <2>2. Level(k1, c1, P2) /\ c1[Len(k1)] = c[Len(k)] - 1 /\ c1[Len(k)] = c[Len(k)]
    BY <1>4, <2>1
  <2>3. 0 <= c1[Len(k1)]
    BY <1>5, <2>1, <2>2
  <2>4. Level(k2, c2, P2) /\ c2[Len(k2)] = c1[Len(k1)]
    BY <1>8, <1>9, <2>2, <2>3
  <2>5. QED
    BY <1>4, <1>12, <2>2, <2>4
<1>15. QED
  BY <1>10, <1>11, <1>12, <1>13, <1>14, <1>4

\* The jumps left in P2 are those of P but the one at j, and perhaps others.
But(P, j, P2) == P \ {j} \subseteq P2

\* The end of the increment of a for statement: back to the condition, and the
\* jump to the body is patched to go here, with the same stack.
LEMMA LoopAndPatch ==
  ASSUME NEW k \in Seq(Byte), NEW c, NEW P, NEW n, Chart(k, c, P, n),
         NEW start \in DOMAIN c, LoopDistance(k, start) <= U16Max,
         NEW j \in Int, ForwardJump(k, DOMAIN c, j),
         Distance(Looped(k, start), j) <= U16Max,
         NEW P2, But(P, j, P2)
  PROVE  LET k2 == Patched(Looped(k, start), j)
         IN  \E c2 : /\ Becomes(k, c, k2, c2, P2, n) /\ Len(k2) = Len(k) + 3
                     /\ Level(k, c, P) /\ c[start] = c[Len(k)] /\ 0 <= c[Len(k)] =>
                          Level(k2, c2, P2) /\ c2[Len(k2)] = c[j - 1]
<1>1. /\ Len(k) \in DOMAIN c /\ c[Len(k)] \in Int /\ Len(k) \in Nat
      /\ \A i \in DOMAIN c : i \in 0 .. Len(k) /\ c[i] \in Int
  BY ChartEnd
<1>2. c[j - 1] \in Int /\ j - 1 \in DOMAIN c /\ j - 1 < Len(k) /\ k[j] \in {OP_JUMP, OP_JUMP_IF_FALSE}
  BY <1>1 DEF ForwardJump
<1>3. PICK c1 : c1 = Grown(c, Len(k) + 3, c[j - 1])
  OBVIOUS
<1>4. /\ Looped(k, start) \in Seq(Byte) /\ Len(Looped(k, start)) = Len(k) + 3
      /\ Chart(Looped(k, start), c1, P, n) /\ Extends(k, c, Looped(k, start), c1)
      /\ c1[Len(Looped(k, start))] = c[j - 1]
      /\ Level(k, c, P) /\ c[start] = c[Len(k)] /\ c[Len(k)] >= 0 => Level(Looped(k, start), c1, P)
  BY <1>2, <1>3, AppendLoop
<1>5. PICK k1 \in Seq(Byte) : k1 = Looped(k, start)
  BY <1>4
<1>6. /\ Len(k1) = Len(k) + 3 /\ Chart(k1, c1, P, n) /\ Extends(k, c, k1, c1)
      /\ c1[Len(k1)] = c[j - 1] /\ Distance(k1, j) <= U16Max
      /\ Level(k, c, P) /\ c[start] = c[Len(k)] /\ c[Len(k)] >= 0 => Level(k1, c1, P)
  BY <1>4, <1>5
<1>7. j - 1 \in DOMAIN c1 /\ c1[j - 1] = c[j - 1] /\ j - 1 < Len(k1) /\ k1[j] \in {OP_JUMP, OP_JUMP_IF_FALSE}
  <2>1. (j - 1) + 1 = j
    OBVIOUS
  <2>2. j - 1 \in DOMAIN c1 /\ c1[j - 1] = c[j - 1] /\ k1[(j - 1) + 1] = k[(j - 1) + 1]
    BY <1>2, <1>6 DEF Extends
  <2>3. QED
    BY <1>1, <1>2, <1>6, <2>1, <2>2
<1>8. /\ Patched(k1, j) \in Seq(Byte) /\ Len(Patched(k1, j)) = Len(k1)
      /\ Chart(Patched(k1, j), c1, P2, n) /\ Extends(k1, c1, Patched(k1, j), c1)
      /\ Level(k1, c1, P) /\ c1[Len(k1)] = c1[j - 1] => Level(Patched(k1, j), c1, P2)
  BY <1>6, <1>7, PatchInstruction DEF But
<1>9. Becomes(k, c, k1, c1, P, n) /\ Becomes(k1, c1, Patched(k1, j), c1, P2, n)
  BY <1>6, <1>8 DEF Becomes
<1>10. Becomes(k, c, Patched(k1, j), c1, P2, n)
  BY <1>9, BecomesTwice
<1>11. QED
  BY <1>1, <1>5, <1>6, <1>7, <1>8, <1>10

\* The end of a loop: the exit jump, taken with the value of the condition on
\* the stack, goes to the instruction that pops it.
LEMMA AppendLoopEnd ==
  ASSUME NEW k \in Seq(Byte), NEW c, NEW P, NEW n, Chart(k, c, P, n),
         NEW start \in DOMAIN c, LoopDistance(k, start) <= U16Max,
         NEW j \in Int, ForwardJump(k, DOMAIN c, j),
         Distance(Looped(k, start), j) <= U16Max,
         NEW P2, P \ {j} \subseteq P2
  PROVE  LET k2 == Append(Patched(Looped(k, start), j), OP_POP)
         IN  \E c2 : /\ Becomes(k, c, k2, c2, P2, n)
                     /\ Level(k, c, P) /\ c[start] = c[Len(k)] /\ 0 <= c[Len(k)] /\ c[j - 1] = c[Len(k)] + 1 =>
                          Level(k2, c2, P2) /\ c2[Len(k2)] = c[Len(k)]
<1>1. PICK c1 : /\ Becomes(k, c, Patched(Looped(k, start), j), c1, P2, n)
                /\ Len(Patched(Looped(k, start), j)) = Len(k) + 3
                /\ Level(k, c, P) /\ c[start] = c[Len(k)] /\ 0 <= c[Len(k)] =>
                          Level(Patched(Looped(k, start), j), c1, P2)
                          /\ c1[Len(Patched(Looped(k, start), j))] = c[j - 1]
  <2>1. But(P, j, P2)
    BY DEF But
  <2>2. QED
    BY <2>1, LoopAndPatch
<1>2. PICK k1 \in Seq(Byte) : k1 = Patched(Looped(k, start), j)
  BY <1>1 DEF Becomes
<1>3. Chart(k1, c1, P2, n) /\ Becomes(k, c, k1, c1, P2, n)
  BY <1>1, <1>2 DEF Becomes
<1>4. OP_POP \in SimpleOps /\ Takes(OP_POP) = 1 /\ Effect(OP_POP) = -1
  BY SimpleOpsAre
<1>5. PICK c2 : /\ Becomes(k1, c1, k1 \o <<OP_POP>>, c2, P2, n) /\ Len(k1 \o <<OP_POP>>) = Len(k1) + 1
                /\ Level(k1, c1, P2) /\ Takes(OP_POP) <= c1[Len(k1)] =>
                     Level(k1 \o <<OP_POP>>, c2, P2) /\ c2[Len(k1) + 1] = c1[Len(k1)] + Effect(OP_POP)
  BY <1>3, <1>4, AppendSimple
<1>6. k1 \o <<OP_POP>> = Append(k1, OP_POP)
  <2>1. OP_POP \in Byte
    BY <1>4, ByteIsNumber DEF SimpleOps
  <2>2. QED
    BY <2>1, AppendIsConcat
<1>7. Becomes(k, c, k1 \o <<OP_POP>>, c2, P2, n)
  BY <1>3, <1>5, BecomesTwice
<1>8. c[Len(k)] \in Int
  BY ChartEnd
<1>9. Level(k, c, P) /\ c[start] = c[Len(k)] /\ 0 <= c[Len(k)] /\ c[j - 1] = c[Len(k)] + 1 =>
        Level(k1 \o <<OP_POP>>, c2, P2) /\ c2[Len(k1 \o <<OP_POP>>)] = c[Len(k)]
  BY <1>1, <1>2, <1>4, <1>5, <1>8
<1>10. QED
  BY <1>2, <1>6, <1>7, <1>9

\* The end of the "then" part of an if: the jump over the "else" part, and the
\* jump of the condition goes to the instruction that pops its value.
LEMMA AppendElse ==
  ASSUME NEW k \in Seq(Byte), NEW c, NEW P, NEW n, Chart(k, c, P, n),
         NEW j \in Int, ForwardJump(k, DOMAIN c, j),
         Distance(k \o EmitJump(OP_JUMP), j) <= U16Max,
         NEW P2, P \ {j} \subseteq P2, Len(k) + 1 \in P2
  PROVE  LET k2 == Append(Patched(k \o EmitJump(OP_JUMP), j), OP_POP)
         IN  \E c2 : /\ Becomes(k, c, k2, c2, P2, n) /\ Len(k) < Len(k2)
                     /\ k2[Len(k) + 1] = OP_JUMP /\ Len(k) \in DOMAIN c2
                     /\ Level(k, c, P) /\ 0 <= c[Len(k)] /\ c[j - 1] = c[Len(k)] + 1 =>
                          Level(k2, c2, P2) /\ c2[Len(k2)] = c[Len(k)] /\ c2[Len(k)] = c[Len(k)]
<1>1. /\ Len(k) \in DOMAIN c /\ c[Len(k)] \in Int /\ Len(k) \in Nat
      /\ \A i \in DOMAIN c : i \in 0 .. Len(k) /\ c[i] \in Int
  BY ChartEnd
<1>2. c[j - 1] \in Int /\ j - 1 \in DOMAIN c /\ j - 1 < Len(k) /\ k[j] \in {OP_JUMP, OP_JUMP_IF_FALSE}
  BY <1>1 DEF ForwardJump
<1>3. PICK P1 : P1 = P \union P2
  OBVIOUS
<1>4. PICK e \in Seq(Byte) : e = EmitJump(OP_JUMP)
  BY EmittedBytes
<1>5. PICK c1 : /\ Becomes(k, c, k \o e, c1, P1, n) /\ Len(k \o e) = Len(k) + 3
                /\ (k \o e)[Len(k) + 1] = OP_JUMP /\ c1[Len(k) + 3] = c[j - 1]
                /\ Level(k, c, P) /\ 0 <= c[Len(k)] => Level(k \o e, c1, P1)
  <2>1. PICK h \in Int : h = c[j - 1]
    BY <1>2
  <2>2. P \subseteq P1 /\ Len(k) + 1 \in P1
    BY <1>3
  <2>3. QED
    BY <1>4, <2>1, <2>2, AppendSkip
<1>6. PICK k1 \in Seq(Byte) : k1 = k \o e
  BY <1>5 DEF Becomes
<1>7. /\ Len(k1) = Len(k) + 3 /\ Chart(k1, c1, P1, n) /\ Extends(k, c, k1, c1) /\ Becomes(k, c, k1, c1, P1, n)
      /\ k1[Len(k) + 1] = OP_JUMP /\ c1[Len(k1)] = c[j - 1] /\ Distance(k1, j) <= U16Max
  BY <1>4, <1>5, <1>6 DEF Becomes
<1>8. j - 1 \in DOMAIN c1 /\ c1[j - 1] = c[j - 1] /\ j - 1 < Len(k1) /\ k1[j] \in {OP_JUMP, OP_JUMP_IF_FALSE}
  <2>1. (j - 1) + 1 = j
    OBVIOUS
  <2>2. j - 1 \in DOMAIN c1 /\ c1[j - 1] = c[j - 1] /\ k1[(j - 1) + 1] = k[(j - 1) + 1]
    BY <1>2, <1>7 DEF Extends
  <2>3. QED
    BY <1>1, <1>2, <1>7, <2>1, <2>2
<1>9. PICK k2 : k2 = Patched(k1, j)
  OBVIOUS
<1>10. /\ k2 \in Seq(Byte) /\ Len(k2) = Len(k1)
       /\ Chart(k2, c1, P2, n) /\ Extends(k1, c1, k2, c1)
       /\ Level(k1, c1, P1) /\ c1[Len(k1)] = c1[j - 1] => Level(k2, c1, P2)
  <2>1. P1 \ {j} \subseteq P2
    BY <1>3
  <2>2. QED
    BY <1>7, <1>8, <1>9, <2>1, PatchInstruction
<1>11. OP_POP \in SimpleOps /\ Takes(OP_POP) = 1 /\ Effect(OP_POP) = -1
  BY SimpleOpsAre
<1>12. PICK c2 : /\ Becomes(k2, c1, k2 \o <<OP_POP>>, c2, P2, n) /\ Len(k2 \o <<OP_POP>>) = Len(k2) + 1
                 /\ Level(k2, c1, P2) /\ Takes(OP_POP) <= c1[Len(k2)] =>
                      Level(k2 \o <<OP_POP>>, c2, P2) /\ c2[Len(k2) + 1] = c1[Len(k2)] + Effect(OP_POP)
  BY <1>10, <1>11, AppendSimple
<1>13. PICK k3 \in Seq(Byte) : k3 = k2 \o <<OP_POP>>
  BY <1>12 DEF Becomes
<1>14. k3 = Append(Patched(k \o EmitJump(OP_JUMP), j), OP_POP)
  <2>1. OP_POP \in Byte
    BY <1>11, ByteIsNumber DEF SimpleOps
  <2>2. k2 \o <<OP_POP>> = Append(k2, OP_POP)
    BY <1>10, <2>1, AppendIsConcat
  <2>3. QED
    BY <1>4, <1>6, <1>9, <1>13, <2>2
<1>15. Becomes(k, c, k3, c2, P2, n) /\ Extends(k1, c1, k3, c2) /\ Extends(k, c, k3, c2)
  <2>1. Becomes(k1, c1, k2, c1, P2, n) /\ Becomes(k2, c1, k3, c2, P2, n)
    BY <1>10, <1>12, <1>13 DEF Becomes
  <2>2. Becomes(k1, c1, k3, c2, P2, n)
    BY <1>7, <2>1, BecomesTwice
  <2>3. Becomes(k, c, k3, c2, P2, n)
    BY <1>7, <2>2, BecomesTwice
  <2>4. QED
    BY <2>2, <2>3 DEF Becomes
<1>16. Len(k3) = Len(k) + 4 /\ Len(k2) = Len(k) + 3
  BY <1>1, <1>7, <1>10, <1>12, <1>13
<1>17. k3[Len(k) + 1] = OP_JUMP /\ Len(k) \in DOMAIN c2 /\ c2[Len(k)] = c[Len(k)]
  <2>1. Len(k) \in DOMAIN c1 /\ Len(k) < Len(k1)
    BY <1>1, <1>7 DEF Extends
  <2>2. QED
    BY <1>1, <1>7, <1>15, <2>1 DEF Extends
<1>18. Level(k, c, P) /\ 0 <= c[Len(k)] /\ c[j - 1] = c[Len(k)] + 1 =>
         Level(k3, c2, P2) /\ c2[Len(k3)] = c[Len(k)]
  <2>1. SUFFICES ASSUME Level(k, c, P), 0 <= c[Len(k)], c[j - 1] = c[Len(k)] + 1
                 PROVE  Level(k3, c2, P2) /\ c2[Len(k3)] = c[Len(k)]
    OBVIOUS
  <2>2. Level(k1, c1, P1)
    BY <1>2, <1>5, <1>6, <2>1
  <2>3. Level(k2, c1, P2)
    BY <1>7, <1>8, <1>10, <2>2
  <2>4. c1[Len(k2)] = c[Len(k)] + 1
    BY <1>7, <1>10, <2>1
  <2>5. Takes(OP_POP) <= c1[Len(k2)] /\ c1[Len(k2)] + Effect(OP_POP) = c[Len(k)]
    <3>1. c[Len(k)] + 1 \in Int /\ 1 <= c[Len(k)] + 1 /\ c[Len(k)] + 1 + (-1) = c[Len(k)]
      BY <1>1, <2>1
    <3>2. QED
      BY <1>11, <2>4, <3>1
  <2>6. QED
    BY <1>12, <1>13, <2>3, <2>5
<1>19. QED
  BY <1>1, <1>14, <1>15, <1>16, <1>17, <1>18

\* end_scope: one value is popped for each local that is dropped.
LEMMA AppendPops ==
  ASSUME NEW k \in Seq(Byte), NEW c, NEW P, NEW n, Chart(k, c, P, n),
         NEW m \in Nat, NEW s \in Seq(Byte), Len(s) = m, \A i \in 1 .. m : s[i] = OP_POP
  PROVE  \E c2 : /\ Becomes(k, c, k \o s, c2, P, n) /\ Len(k \o s) = Len(k) + m
                 /\ Level(k, c, P) /\ m <= c[Len(k)] =>
                      Level(k \o s, c2, P) /\ c2[Len(k) + m] = c[Len(k)] - m
<1>1. PICK k2 \in Seq(Byte) : k2 = k \o s
  BY ConcatBytes
<1>2. PICK L \in Nat : L = Len(k)
  BY BytesOf
<1>3. /\ Len(k2) = L + m
      /\ \A i \in 1 .. L : k2[i] = k[i]
      /\ \A i \in 1 .. m : k2[L + i] = OP_POP
  BY <1>1, <1>2, ConcatBytes
<1>4. PICK D : D = DOMAIN c
  OBVIOUS
<1>5. /\ LaidOut(k, D, P, n) /\ D \subseteq 0 .. L /\ 0 \in D /\ L \in D
      /\ \A i \in D : c[i] \in Int
  BY <1>2, <1>4 DEF Chart, LaidOut
<1>6. PICK D2 : D2 = D \union (L .. L + m)
  OBVIOUS
<1>7. PICK c2 : c2 = [x \in D2 |-> IF x <= L THEN c[x] ELSE c[L] - (x - L)]
  OBVIOUS
<1>8. DOMAIN c2 = D2 /\ \A x \in D2 : c2[x] = IF x <= L THEN c[x] ELSE c[L] - (x - L)
  BY <1>7
<1>9. \A x \in D2 : x \in 0 .. L + m /\ x \in Nat /\ (x \in D \/ x \in (L + 1) .. (L + m)) /\ (x \in D => x <= L)
  BY <1>5, <1>6
<1>10. c2 \in [D2 -> Int]
  <2>1. \A x \in D2 : c2[x] \in Int
    BY <1>5, <1>8, <1>9
  <2>2. QED
    BY <1>7, <2>1
<1>11. /\ OP_POP \in OpCodes \ {OP_RETURN} /\ Length(OP_POP) = 1 /\ Takes(OP_POP) = 1 /\ Effect(OP_POP) = -1
       /\ OP_POP \notin ConstantOps /\ OP_POP \notin LocalOps /\ OP_POP \notin JumpOps
       /\ OP_POP \notin {OP_JUMP, OP_LOOP}
  BY SimpleOpsAre DEF SimpleOps, OP_JUMP, OP_LOOP, OP_POP
<1>12. ASSUME NEW i \in D, i < L
       PROVE  /\ k2[i + 1] = k[i + 1] /\ After(k2, i) = After(k, i) /\ After(k, i) \in D
              /\ i \in Nat /\ After(k, i) <= L /\ k[i + 1] \in Nat
              /\ k[i + 1] \in ConstantOps \union LocalOps => k2[i + 2] = k[i + 2]
              /\ k[i + 1] \in JumpOps => Target(k2, i) = Target(k, i)
  <2>1. /\ i \in Nat /\ i + 1 \in 1 .. L /\ k[i + 1] \in Nat /\ After(k, i) <= L /\ After(k, i) \in D
        /\ k[i + 1] \in ConstantOps \union LocalOps => i + 2 \in 1 .. L
        /\ k[i + 1] \in JumpOps => i + 2 \in 1 .. L /\ i + 3 \in 1 .. L
    BY <1>2, <1>5, <1>12, ChartedInstruction
  <2>2. /\ k2[i + 1] = k[i + 1]
        /\ k[i + 1] \in ConstantOps \union LocalOps => k2[i + 2] = k[i + 2]
        /\ k[i + 1] \in JumpOps => k2[i + 2] = k[i + 2] /\ k2[i + 3] = k[i + 3]
    BY <1>3, <2>1
  <2>3. QED
    BY <2>1, <2>2, SameInstruction
<1>13. ASSUME NEW i \in D2, i < L + m, ~(i < L)
       PROVE  k2[i + 1] = OP_POP /\ After(k2, i) = i + 1 /\ i + 1 \in D2 /\ i >= L /\ i \in Nat
  <2>1. i \in Nat /\ (i + 1) - L \in 1 .. m /\ L + ((i + 1) - L) = i + 1 /\ i + 1 \in L .. L + m /\ i >= L
    BY <1>9, <1>13
  <2>2. k2[i + 1] = OP_POP
    BY <1>3, <2>1
  <2>3. QED
    BY <1>6, <1>11, <2>1, <2>2 DEF After
<1>14. LaidOut(k2, D2, P, n)
  <2>1. D2 \subseteq 0 .. Len(k2) /\ 0 \in D2 /\ Len(k2) \in D2
    BY <1>3, <1>5, <1>6, <1>9
  <2>2. ASSUME NEW d \in D2 PROVE d = 0 \/ \E i \in D2 : i < Len(k2) /\ d = After(k2, i)
    <3>1. CASE d \in D
      <4>1. d = 0 \/ \E i \in D : i < L /\ d = After(k, i)
        BY <1>2, <1>5, <3>1 DEF LaidOut
      <4>2. ASSUME NEW i \in D, i < L, d = After(k, i) PROVE i \in D2 /\ i < Len(k2) /\ d = After(k2, i)
        BY <1>3, <1>6, <1>12, <4>2
      <4>3. QED
        BY <4>1, <4>2
    <3>2. CASE d \notin D
      <4>1. d - 1 \in D2 /\ d - 1 < L + m /\ ~(d - 1 < L) /\ d = (d - 1) + 1
        BY <1>6, <1>9, <3>2
      <4>2. d = After(k2, d - 1)
        BY <1>13, <4>1
      <4>3. QED
        BY <1>3, <4>1, <4>2
    <3>3. QED
      BY <3>1, <3>2
  <2>3. ASSUME NEW i \in D2, i < Len(k2)
        PROVE  /\ k2[i + 1] \in OpCodes \ {OP_RETURN}
               /\ After(k2, i) \in D2 /\ \A j \in D2 : j <= i \/ After(k2, i) <= j
               /\ k2[i + 1] \in ConstantOps => Listed(k2[i + 1], k2[i + 2], n)
               /\ k2[i + 1] \in JumpOps => i + 1 \in P \/ Target(k2, i) \in D2
    <3>1. CASE i < L
      <4>1. i \in D
        BY <1>9, <3>1
      <4>2. /\ k[i + 1] \in OpCodes \ {OP_RETURN}
            /\ \A j \in D : j <= i \/ After(k, i) <= j
            /\ k[i + 1] \in ConstantOps => Listed(k[i + 1], k[i + 2], n)
            /\ k[i + 1] \in JumpOps => i + 1 \in P \/ Target(k, i) \in D
        BY <1>2, <1>5, <3>1, <4>1 DEF LaidOut
      <4>3. \A j \in D2 : j \in D \/ After(k, i) <= j
        <5>1. After(k, i) \in Nat /\ After(k, i) <= L
          <6>1. After(k, i) \in D
            BY <1>12, <3>1, <4>1
          <6>2. \A x \in D : x \in Nat /\ x <= L
            BY <1>9, <1>6
          <6>3. QED
            BY <6>1, <6>2
        <5>2. QED
          BY <1>9, <5>1
      <4>4. D \subseteq D2
        BY <1>6
      <4>5. QED
        BY <1>12, <3>1, <4>1, <4>2, <4>3, <4>4
    <3>2. CASE ~(i < L)
      <4>1. k2[i + 1] = OP_POP /\ After(k2, i) = i + 1 /\ i + 1 \in D2 /\ i \in Nat
        BY <1>3, <1>13, <2>3, <3>2
      <4>2. ASSUME NEW j \in D2
            PROVE  j <= i \/ i + 1 <= j
        <5>1. j \in Nat /\ i \in Nat
          BY <1>9
        <5>2. QED
          BY <5>1
      <4>3. QED
        BY <1>11, <4>1, <4>2
    <3>3. QED
      BY <3>1, <3>2
  <2>4. QED
    BY <2>1, <2>2, <2>3 DEF LaidOut
<1>15. Extends(k, c, k2, c2)
  <2>1. Len(k) <= Len(k2)
    BY <1>2, <1>3
  <2>2. \A i \in D : i \in D2 /\ c2[i] = c[i]
    BY <1>6, <1>8, <1>9
  <2>3. \A i \in D : i < Len(k) => k2[i + 1] = k[i + 1]
    BY <1>2, <1>12
  <2>4. QED
    BY <1>4, <1>8, <2>1, <2>2, <2>3 DEF Extends
<1>16. Becomes(k, c, k2, c2, P, n)
  BY <1>8, <1>10, <1>14, <1>15 DEF Becomes, Chart
<1>17. c2[L + m] = c[L] - m
  <2>1. CASE m = 0
    BY <1>5, <1>6, <1>8, <2>1
  <2>2. CASE m > 0
    <3>1. L + m \in D2 /\ ~(L + m <= L) /\ (L + m) - L = m
      BY <1>6, <2>2
    <3>2. QED
      BY <1>8, <3>1
  <2>3. QED
    BY <2>1, <2>2
<1>18. ASSUME Level(k, c, P), m <= c[L]
       PROVE  Level(k2, c2, P)
  <2>1. c2[0] = 0
    <3>1. c[0] = 0 /\ c2[0] = c[0]
      BY <1>5, <1>6, <1>8, <1>18 DEF Level
    <3>2. QED
      BY <3>1
  <2>2. ASSUME NEW i \in D2, i < Len(k2)
        PROVE  /\ Takes(k2[i + 1]) <= c2[i]
               /\ k2[i + 1] \in LocalOps => k2[i + 2] < c2[i]
               /\ k2[i + 1] \notin {OP_JUMP, OP_LOOP} => c2[After(k2, i)] = c2[i] + Effect(k2[i + 1])
               /\ k2[i + 1] \in JumpOps => i + 1 \in P \/ c2[Target(k2, i)] = c2[i]
    <3>1. CASE i < L
      <4>1. i \in D
        BY <1>9, <3>1
      <4>2. /\ Takes(k[i + 1]) <= c[i]
            /\ k[i + 1] \in LocalOps => k[i + 2] < c[i]
            /\ k[i + 1] \notin {OP_JUMP, OP_LOOP} => c[After(k, i)] = c[i] + Effect(k[i + 1])
            /\ k[i + 1] \in JumpOps => i + 1 \in P \/ c[Target(k, i)] = c[i]
        BY <1>2, <1>4, <1>18, <3>1, <4>1 DEF Level
      <4>3. k[i + 1] \in JumpOps => i + 1 \in P \/ Target(k, i) \in D
        BY <1>2, <1>5, <3>1, <4>1 DEF LaidOut
      <4>4. \A x \in D : c2[x] = c[x]
        BY <1>6, <1>8, <1>9
      <4>5. c2[i] = c[i] /\ c2[After(k, i)] = c[After(k, i)]
        BY <1>12, <3>1, <4>1, <4>4
      <4>6. k[i + 1] \in JumpOps => i + 1 \in P \/ c2[Target(k, i)] = c[i]
        BY <4>2, <4>3, <4>4
      <4>7. QED
        BY <1>12, <3>1, <4>1, <4>2, <4>5, <4>6
    <3>2. CASE ~(i < L)
      <4>1. k2[i + 1] = OP_POP /\ After(k2, i) = i + 1 /\ i + 1 \in D2 /\ i \in Nat /\ i >= L /\ i < L + m
        BY <1>3, <1>13, <2>2, <3>2
      <4>2. c2[i] = c[L] - (i - L) /\ c[L] \in Int
        <5>1. CASE i = L
          BY <1>5, <1>8, <5>1
        <5>2. CASE i # L
          BY <1>5, <1>8, <4>1, <5>2
        <5>3. QED
          BY <5>1, <5>2
      <4>3. c2[i + 1] = c[L] - ((i + 1) - L)
        BY <1>8, <4>1
      <4>4. 1 <= c2[i] /\ c2[i + 1] = c2[i] + (-1)
        BY <1>18, <4>1, <4>2, <4>3
      <4>5. QED
        BY <1>11, <4>1, <4>4
    <3>3. QED
      BY <3>1, <3>2
  <2>3. QED
    BY <1>8, <2>1, <2>2 DEF Level
<1>19. QED
  BY <1>1, <1>2, <1>3, <1>16, <1>17, <1>18

-----------------------------------------------------------------------------
(***************************************************************************)
(* The invariant: the code written so far has a chart, and the calls in    *)
(* progress lead from its end, spot by spot, to where compile returns.     *)
(***************************************************************************)

\* The pairs of an instruction with the index of a constant that it may name.
Pool ==
  {p \in ConstantOps \X Nat : p[2] < Len(constants) /\ constants[p[2] + 1] \in Nameable(p[1])}

\* The locals whose values are on the stack: all but the one being declared.
OnStack == IF \E i \in 1 .. Len(locals) : locals[i].depth = NoDepth THEN Len(locals) - 1 ELSE Len(locals)

\* Heights are those of the VM if every for statement has a condition and the
\* depth of a local fits a u8.
Fits == ~bareFor /\ deepest < U8

\* A call that starts at spot x is to lead to spot y; the places that it works with are in the code.
Runs(f, x, y, k, c, n) == Descends(f, x, y) /\ Places(f, k, DOMAIN c, n, x.d)

\* The code has the chart c, with the jumps pending that calls are still to patch,
\* and the i-th call from the innermost leads from spot st[i] to spot st[i + 1].
Charted(c, st) ==
  /\ Chart(code, c, Pending(todo), Pool)
  /\ st \in [1 .. Len(todo) + 1 -> Spot]
  /\ st[1].d = scopeDepth /\ st[Len(todo) + 1].d = 0
  /\ \A i, j \in 1 .. Len(todo) + 1 : i <= j => st[j].d <= st[i].d
  /\ \A i \in 1 .. Len(todo) : Runs(todo[i], st[i], st[i + 1], code, c, Pool)
  /\ Fits => /\ Level(code, c, Pending(todo))
             /\ st[1].h = c[Len(code)] /\ st[1].b = OnStack
             /\ \A i \in 1 .. Len(todo) : Leads(todo[i], st[i], st[i + 1], c, opened)

\* At the end, the chart is that of the code before OP_RETURN.
Finished(k, c) ==
  /\ k \in Seq(Byte) /\ code = k \o <<OP_RETURN>>
  /\ Chart(k, c, {}, Pool)
  /\ Fits => Level(k, c, {}) /\ c[Len(k)] = 0

\* Until an error, parse_variable has just consumed the name that it declares,
\* and the constants are names and literals of the source.
Named(i) == \/ i = 1 /\ previous.type = "identifier"
            \/ i = 2 /\ todo[1].at = "consume" /\ todo[1].type = "identifier"
NamesInv ==
  ~hadError => /\ \A i \in 1 .. Len(todo) : todo[i].at = "parse_variable" => Named(i)
               /\ constants \in Seq(Lexemes(Constants \union {"identifier"}))

\* Until an error; after one the code is never run.
CodeInv ==
  ~hadError => /\ Stacked(todo)
               /\ todo # <<>> => \E c, st : Charted(c, st)
               /\ todo = <<>> => \E k, c : Finished(k, c)

-----------------------------------------------------------------------------
(***************************************************************************)
(* Steps.  A step of the innermost call, which is to lead from spot x to   *)
(* spot y, replaces it by calls that do.                                   *)
(***************************************************************************)

\* The innermost call takes a step, without an error.
Stepping == IInv /\ IInv' /\ NamesInv /\ HNext /\ CompileStep /\ source' = source /\ ~hadError' /\ todo # <<>>

\* What is known of it: the stack is at spot x.
Entered(c, x, y) ==
  /\ Chart(code, c, Pending(todo), Pool)
  /\ x \in Spot /\ y \in Spot /\ x.d = scopeDepth
  /\ Runs(frame, x, y, code, c, Pool)
  /\ Fits => /\ Level(code, c, Pending(todo)) /\ x.h = c[Len(code)] /\ x.b = OnStack
             /\ Leads(frame, x, y, c, opened)

\* A new call leads from spot x to spot y.
Goes(f, x, y, c) ==
  /\ x \in Spot /\ y \in Spot /\ x.d = scopeDepth'
  /\ Runs(f, x, y, code', c, Pool')
  /\ Fits' => Leads(f, x, y, c, opened')
\* The code after the step has the chart c2, and the stack is at spot x.
Written(c, x, c2) ==
  /\ Becomes(code, c, code', c2, Pending(todo'), Pool') /\ Pool \subseteq Pool'
  /\ x \in Spot /\ x.d = scopeDepth'
  /\ Fits' => Level(code', c2, Pending(todo')) /\ x.h = c2[Len(code')] /\ x.b = OnStack'

\* The new calls end where the call that they replace was to end; after a
\* declaration, with some more locals.
Joins(x, y) == x = y \/ (frame.at \in FreeFrames /\ x \in Spot /\ x.d = y.d /\ (Fits' => x.h = x.b))

\* The step put k calls in the place of one, and they lead along the spots xs.
Moves(c, y, c2, k, xs) ==
  /\ Grows(k)
  /\ Written(c, xs[1], c2)
  /\ xs \in [1 .. k + 1 -> Spot]
  /\ \A i \in 1 .. k : Goes(todo'[i], xs[i], xs[i + 1], c2)
  /\ Joins(xs[k + 1], y)
  /\ \A i \in 1 .. k : todo'[i].at = "compile" <=> (i = k /\ frame.at = "compile")
  /\ \A i \in 1 .. k : i + 1 <= k /\ todo'[i].at \in FreeFrames => todo'[i + 1].at \in LooseFrames
  /\ k > 0 /\ todo'[k].at \in FreeFrames => frame.at \in FreeFrames

\* Once the heights do not fit they never do.
LEMMA FitsBefore ==
  ASSUME Stepping
  PROVE  Fits' => Fits /\ deepest < U8 /\ deepest' < U8
<1>1. deepest \in Nat /\ deepest' \in Nat
  BY DEF Stepping, IInv, HistoryOK
<1>2. scopeDepth \in Int /\ scopeDepth' \in Int
  BY DEF Stepping, IInv, Types
<1>3. deepest <= deepest'
  <2>1. deepest' = IF scopeDepth' > deepest THEN scopeDepth' ELSE deepest
    BY DEF Stepping, HNext, Note
  <2>2. QED
    BY <1>1, <1>2, <2>1
<1>4. bareFor => bareFor'
  BY DEF Stepping, HNext, Note
<1>5. QED
  BY <1>1, <1>3, <1>4, U8Assumption DEF Fits

\* Without a new constant the pool stays as it is.
LEMMA PoolKept ==
  ASSUME Stepping, constants' = constants
  PROVE  Pool' = Pool /\ Pool \subseteq Pool'
<1>1. \A op : Nameable(op)' = Nameable(op)
  BY DEF Stepping, Nameable, Lexemes
<1>2. QED
  BY <1>1 DEF Pool

\* The operands still to be patched.
LEMMA PendingSteps ==
  ASSUME FramesOK, FramesOK', todo # <<>>, NEW k \in 0 .. 4, Grows(k)
  PROVE  /\ Pending(todo) \ ToPatch(frame) \subseteq Pending(todo')
         /\ \A i \in 1 .. k : ToPatch(todo'[i]) \intersect Int \subseteq Pending(todo')
<1>1. Len(todo) \in Nat /\ Len(todo') = Len(todo) - 1 + k /\ frame = todo[1] /\ k <= Len(todo') /\ 1 <= Len(todo)
  BY FramesFrom DEF FramesOK, Grows
<1>2. ASSUME NEW j \in Pending(todo), j \notin ToPatch(frame)
      PROVE  j \in Pending(todo')
  <2>1. PICK i \in 1 .. Len(todo) : j \in ToPatch(todo[i])
    BY DEF Pending
  <2>2. i \in 2 .. Len(todo)
    BY <1>1, <1>2, <2>1
  <2>3. todo'[i - 1 + k] = todo[i] /\ i - 1 + k \in 1 .. Len(todo')
    BY <1>1, <2>2 DEF Grows
  <2>4. QED
    BY <2>1, <2>3 DEF Pending
<1>3. \A i \in 1 .. k : i \in 1 .. Len(todo')
  BY <1>1
<1>4. QED
  BY <1>2, <1>3 DEF Pending

\* What does not change for a call further out.
LEMMA RunsStill ==
  ASSUME NEW f, NEW x, NEW y, NEW k, NEW c, NEW n, Runs(f, x, y, k, c, n),
         NEW k2, NEW c2, Extends(k, c, k2, c2), NEW n2, n \subseteq n2, Len(k) \in Nat, Len(k2) \in Nat,
         f.at \in DeclarationFrames => f.global \in Nat,
         f.at = "emit" => f.bytes \in Seq(Byte)
  PROVE  Runs(f, x, y, k2, c2, n2)
<1>1. \A j : ForwardJump(k, DOMAIN c, j) => ForwardJump(k2, DOMAIN c2, j)
  <2>1. ASSUME NEW j, ForwardJump(k, DOMAIN c, j) PROVE ForwardJump(k2, DOMAIN c2, j)
    <3>1. j \in Int /\ j - 1 \in DOMAIN c /\ j - 1 < Len(k) /\ k[j] \in {OP_JUMP, OP_JUMP_IF_FALSE}
      BY <2>1 DEF ForwardJump
    <3>2. (j - 1) + 1 = j /\ j - 1 < Len(k2)
      BY <3>1 DEF Extends
    <3>3. j - 1 \in DOMAIN c2 /\ k2[(j - 1) + 1] = k[(j - 1) + 1]
      BY <3>1 DEF Extends
    <3>4. QED
      BY <3>1, <3>2, <3>3 DEF ForwardJump
  <2>2. QED
    BY <2>1
<1>2. DOMAIN c \subseteq DOMAIN c2
  BY DEF Extends
<1>3. f.at = "emit" => (EmitsSet(f.bytes, n) => EmitsSet(f.bytes, n2))
  BY U8Assumption DEF EmitsSet, Listed
<1>4. f.at \in DeclarationFrames => (Listed(OP_DEFINE_GLOBAL, f.global, n) => Listed(OP_DEFINE_GLOBAL, f.global, n2))
  BY DEF Listed
<1>5. QED
  BY <1>1, <1>2, <1>3, <1>4 DEF Runs, Places

\* What a call in progress relies on stays true when the code only grows.
LEMMA LeadsStill ==
  ASSUME NEW f, NEW x, NEW y, NEW k, NEW c, NEW n, Runs(f, x, y, k, c, n), NEW opens, Leads(f, x, y, c, opens),
         NEW k2, NEW c2, Extends(k, c, k2, c2), NEW opens2,
         f.at \in ScopeFrames => opens2[x.d] = opens[x.d]
  PROVE  Leads(f, x, y, c2, opens2)
<1>1. \A i \in DOMAIN c : c2[i] = c[i]
  BY DEF Extends
<1>2. \A j \in ToPatch(f) : c2[j - 1] = c[j - 1]
  BY <1>1 DEF Runs, Places, ForwardJump
<1>3. \A j \in Starting(f) : c2[j] = c[j]
  BY <1>1 DEF Runs, Places
<1>4. Meets(f, c2, x.h)
  <2>1. Meets(f, c, x.h)
    BY DEF Leads
  <2>2. CASE f.at = "patch_jump"
    BY <1>2, <2>1, <2>2 DEF Meets, ToPatch
  <2>3. CASE f.at = "if_else"
    BY <1>2, <2>1, <2>3 DEF Meets, ToPatch
  <2>4. CASE f.at = "loop_end"
    BY <1>2, <1>3, <2>1, <2>4 DEF Meets, ToPatch, Starting
  <2>5. CASE f.at = "for_body"
    BY <1>2, <1>3, <2>1, <2>5 DEF Meets, ToPatch, Starting
  <2>6. CASE f.at \in {"while_body", "for_increment"}
    BY <1>3, <2>1, <2>6 DEF Meets, Starting
  <2>7. QED
    BY <2>2, <2>3, <2>4, <2>5, <2>6 DEF Meets
<1>5. QED
  BY <1>4 DEF Leads

\* The scopes that were open below the step stay as they are.
LEMMA ScopesBehind ==
  ASSUME Stepping, NEW c, NEW x, NEW y, Entered(c, x, y)
  PROVE  /\ y.d \in Nat /\ y.d <= scopeDepth' /\ y.d <= scopeDepth /\ scopeDepth \in Nat /\ scopeDepth' \in Nat
         /\ \A d \in 1 .. y.d : opened'[d] = opened[d]
<1>1. scopeDepth \in Nat /\ scopeDepth' \in Nat /\ Len(opened) = scopeDepth /\ Len(opened') = scopeDepth'
      /\ opened \in Seq(Nat)
  <2>1. /\ opened \in Seq(Nat) /\ Len(opened) = scopeDepth
        /\ opened' \in Seq(Nat) /\ Len(opened') = scopeDepth'
    BY DEF Stepping, IInv, HistoryOK
  <2>2. QED
    BY <2>1
<1>2. y.d \in Nat /\ x.d = scopeDepth /\ y.d = IF frame.at \in ScopeFrames THEN x.d - 1 ELSE x.d
  BY DEF Entered, Spot, Runs, Descends
<1>3. /\ scopeDepth' = scopeDepth => opened' = opened
      /\ scopeDepth' = scopeDepth + 1 => opened' = Append(opened, Len(locals))
      /\ scopeDepth' = scopeDepth - 1 =>
           Len(opened') = Len(opened) - 1 /\ \A k \in 1 .. Len(opened') : opened'[k] = opened[k]
  BY <1>1, HistorySteps DEF Stepping, IInv
<1>4. scopeDepth' \in {scopeDepth, scopeDepth + 1, scopeDepth - 1} /\ (scopeDepth' = scopeDepth - 1 => frame.at = "end_scope")
  <2>1. scopeDepth' \in {scopeDepth, scopeDepth + 1, scopeDepth - 1}
    BY ScopeDepthSteps DEF Stepping
  <2>2. \/ InExpression \/ InStatement \/ InFor \/ OpensScope \/ ClosesScope
        \/ StartsVariable \/ InitializesVariable \/ DefinesVariable
    BY StepKinds DEF Stepping, IInv
  <2>3. ClosesScope \/ scopeDepth' \in {scopeDepth, scopeDepth + 1}
    <3>1. ParseVariable \/ DefineVariable => scopeDepth' = scopeDepth
      BY DEF ParseVariable, DefineVariable
    <3>2. QED
      BY <2>2, <3>1 DEF InExpression, InStatement, InFor, OpensScope, StartsVariable, InitializesVariable,
         DefinesVariable, scopeVars
  <2>4. ClosesScope => frame.at = "end_scope"
    BY DEF ClosesScope
  <2>5. QED
    BY <1>1, <2>1, <2>3, <2>4
<1>5. y.d <= scopeDepth /\ y.d <= scopeDepth'
  <2>1. frame.at = "end_scope" => frame.at \in ScopeFrames
    BY DEF ScopeFrames
  <2>2. QED
    BY <1>1, <1>2, <1>4, <2>1
<1>6. ASSUME NEW d \in 1 .. y.d PROVE opened'[d] = opened[d]
  <2>1. CASE scopeDepth' = scopeDepth
    BY <1>3, <2>1
  <2>2. CASE scopeDepth' = scopeDepth + 1
    <3>1. opened' = Append(opened, Len(locals))
      BY <1>3, <2>2
    <3>2. d \in 1 .. Len(opened)
      BY <1>1, <1>5, <1>2
    <3>3. Len(locals) \in Nat
      BY DEF Stepping, IInv, Types, LocalsOK
    <3>4. QED
      BY <1>1, <3>1, <3>2, <3>3
  <2>3. CASE scopeDepth' = scopeDepth - 1
    <3>1. d \in 1 .. Len(opened')
      BY <1>1, <1>2, <1>5
    <3>2. QED
      BY <1>3, <2>3, <3>1
  <2>4. QED
    BY <1>4, <2>1, <2>2, <2>3
<1>7. QED
  BY <1>1, <1>2, <1>5, <1>6

\* The calls are stacked as they should be.
LEMMA StackedSteps ==
  ASSUME Stepping, Stacked(todo), NEW c, NEW y, NEW c2, NEW k \in 0 .. 4, NEW xs, Moves(c, y, c2, k, xs)
  PROVE  Stacked(todo')
<1>1. FramesOK /\ FramesOK' /\ todo # <<>> /\ Grows(k)
  BY DEF Stepping, IInv, Types, Moves
<1>2. /\ \A i \in 1 .. Len(todo') : i > k => i - k + 1 \in 2 .. Len(todo) /\ todo'[i] = todo[i - k + 1]
      /\ frame = todo[1] /\ 1 \in 1 .. Len(todo) /\ k <= Len(todo')
  BY <1>1, FramesFrom
<1>3. Len(todo) \in Nat /\ Len(todo') \in Nat /\ Len(todo') = Len(todo) - 1 + k /\ 1 <= Len(todo)
  BY <1>1, EmptySeq DEF FramesOK, Grows
<1>4. ASSUME NEW i \in 1 .. Len(todo') PROVE todo'[i].at = "compile" <=> i = Len(todo')
  <2>1. CASE i > k
    <3>1. i - k + 1 \in 1 .. Len(todo) /\ todo'[i] = todo[i - k + 1] /\ (i - k + 1 = Len(todo) <=> i = Len(todo'))
      BY <1>2, <1>3, <2>1
    <3>2. QED
      BY <3>1 DEF Stacked
  <2>2. CASE i <= k
    <3>1. todo'[i].at = "compile" <=> (i = k /\ frame.at = "compile")
      BY <2>2 DEF Moves
    <3>2. (frame.at = "compile" => Len(todo) = 1) /\ (frame.at # "compile" => Len(todo) # 1)
      BY <1>2, Zenon DEF Stacked
    <3>3. CASE frame.at = "compile"
      <4>1. Len(todo) = 1
        BY <3>2, <3>3, Zenon
      <4>2. Len(todo') = k
        BY <1>3, <4>1
      <4>3. QED
        BY <3>1, <3>3, <4>2
    <3>4. CASE frame.at # "compile"
      <4>1. Len(todo) # 1
        BY <3>2, <3>4, Zenon
      <4>2. Len(todo) > 1
        BY <1>3, <4>1
      <4>3. i # Len(todo')
        BY <1>3, <2>2, <4>2
      <4>4. QED
        BY <3>1, <3>4, <4>3
    <3>5. QED
      BY <3>3, <3>4
  <2>3. QED
    BY <2>1, <2>2
<1>5. ASSUME NEW i \in 1 .. Len(todo'), i + 1 <= Len(todo'), todo'[i].at \in FreeFrames
      PROVE  todo'[i + 1].at \in LooseFrames
  <2>1. CASE i > k
    <3>1. /\ i - k + 1 \in 1 .. Len(todo) /\ todo'[i] = todo[i - k + 1]
          /\ (i - k + 1) + 1 <= Len(todo) /\ (i + 1) - k + 1 = (i - k + 1) + 1
          /\ i + 1 \in 1 .. Len(todo') /\ i + 1 > k
      BY <1>2, <1>3, <1>5, <2>1
    <3>2. todo'[i + 1] = todo[(i - k + 1) + 1]
      BY <1>2, <3>1
    <3>3. QED
      BY <1>5, <3>1, <3>2 DEF Stacked
  <2>2. CASE i < k
    <3>1. i \in 1 .. k /\ i + 1 <= k
      BY <2>2
    <3>2. QED
      BY <1>5, <3>1 DEF Moves
  <2>3. CASE i = k
    <3>1. frame.at \in FreeFrames
      BY <1>5, <2>3 DEF Moves
    <3>2. 1 + 1 <= Len(todo) /\ i + 1 \in 1 .. Len(todo') /\ (i + 1) - k + 1 = 1 + 1 /\ i + 1 > k
      BY <1>3, <1>5, <2>3
    <3>3. todo[1 + 1].at \in LooseFrames
      BY <1>2, <3>1, <3>2 DEF Stacked
    <3>4. todo'[i + 1] = todo[(i + 1) - k + 1]
      BY <1>2, <3>2
    <3>5. QED
      BY <3>2, <3>3, <3>4
  <2>4. QED
    BY <2>1, <2>2, <2>3
<1>6. QED
  BY <1>4, <1>5 DEF Stacked

\* A call that goes on with any number of locals.
LEMMA LooseJoins ==
  ASSUME NEW f, f.at \in LooseFrames, NEW x, NEW z, NEW y, NEW c, NEW opens, Leads(f, x, y, c, opens), x.h \in Int, x.b \in Int,
         z.d = x.d, z.h = z.b, z.b \in Int
  PROVE  Leads(f, z, y, c, opens)
<1>1. f.at \notin ExpressionFrames /\ Above(f) = 0 /\ Meets(f, c, z.h) /\ (f.at \in ScopeFrames \/ f.at \in FreeFrames)
  BY DEF LooseFrames, ExpressionFrames, Above, Meets, ScopeFrames, ForFrames, FreeFrames
<1>2. QED
  BY <1>1 DEF Leads

\* The fields of a call still to be returned to.
LEMMA FrameOfStack ==
  ASSUME FramesOK, NEW i \in 1 .. Len(todo)
  PROVE  /\ todo[i].at \in DeclarationFrames => todo[i].global \in Nat
         /\ todo[i].at = "emit" => todo[i].bytes \in Seq(Byte)
<1>1. todo[i] \in Frame
  BY DEF FramesOK
<1>2. todo[i].at \in DeclarationFrames => todo[i].global \in 0 .. (U8 - 1)
  BY <1>1 DEF Frame, PlainFrames, DeclarationFrames
<1>3. todo[i].at = "emit" => todo[i].bytes \in Seq(Byte)
  BY <1>1 DEF Frame, PlainFrames, DeclarationFrames
<1>4. QED
  BY <1>2, <1>3, U8Assumption

\* The innermost call starts where the code ends.
LEMMA ChartedEntered ==
  ASSUME FramesOK, todo # <<>>, NEW c, NEW st, Charted(c, st)
  PROVE  Entered(c, st[1], st[2])
<1>1. frame = todo[1] /\ 1 \in 1 .. Len(todo) /\ 1 \in 1 .. Len(todo) + 1 /\ 2 \in 1 .. Len(todo) + 1 /\ 1 + 1 = 2
  <2>1. Len(todo) \in Nat /\ Len(todo) > 0
    BY EmptySeq DEF FramesOK
  <2>2. frame = todo[1]
    BY HeadTailProperties DEF FramesOK, frame
  <2>3. QED
    BY <2>1, <2>2
<1>2. st[1] \in Spot /\ st[2] \in Spot
  BY <1>1 DEF Charted
<1>3. Runs(frame, st[1], st[2], code, c, Pool)
  BY <1>1 DEF Charted
<1>4. Fits => Leads(frame, st[1], st[2], c, opened)
  BY <1>1 DEF Charted
<1>5. QED
  BY <1>2, <1>3, <1>4 DEF Entered, Charted

\* New calls that lead to where the old one was to end leave everything charted.
LEMMA ChartedSteps ==
  ASSUME Stepping, Stacked(todo), NEW c, NEW st, Charted(c, st),
         NEW c2, NEW k \in 0 .. 4, NEW xs, Moves(c, st[2], c2, k, xs)
  PROVE  \E st2 : Charted(c2, st2)'
<1> DEFINE st2 == [i \in 1 .. Len(todo') + 1 |-> IF i <= k + 1 THEN xs[i] ELSE st[i - k + 1]]
<1>1. FramesOK /\ FramesOK' /\ Grows(k) /\ todo # <<>>
  BY DEF Stepping, IInv, Types, Moves
<1>2. /\ \A i \in 1 .. Len(todo') : i > k => i - k + 1 \in 2 .. Len(todo) /\ todo'[i] = todo[i - k + 1]
      /\ frame = todo[1]
  BY <1>1, FramesFrom
<1>3. PICK L \in Nat, L2 \in Nat : L = Len(todo) /\ L2 = Len(todo') /\ L2 = L - 1 + k /\ 1 <= L
  BY <1>1, EmptySeq DEF FramesOK, Grows
<1>4. Entered(c, st[1], st[2])
  BY <1>1, ChartedEntered
<1>5. /\ st[2].d \in Nat /\ st[2].d <= scopeDepth' /\ scopeDepth' \in Nat
      /\ \A d \in 1 .. st[2].d : opened'[d] = opened[d]
  BY <1>4, ScopesBehind
<1>6. /\ \A i \in 1 .. k + 1 : xs[i] \in Spot
      /\ xs[1].d = scopeDepth' /\ \A i \in 1 .. k : xs[i].d = scopeDepth'
      /\ xs[k + 1].d = st[2].d
  <2>1. \A i \in 1 .. k : xs[i].d = scopeDepth'
    BY DEF Moves, Goes
  <2>2. xs[k + 1].d = st[2].d
    BY DEF Moves, Joins
  <2>3. QED
    BY <2>1, <2>2 DEF Moves, Written
<1>7. /\ \A i \in 1 .. L + 1 : st[i] \in Spot /\ st[i].d \in Nat
      /\ \A i, j \in 1 .. L + 1 : i <= j => st[j].d <= st[i].d
      /\ st[L + 1].d = 0
      /\ \A i \in 1 .. L : Runs(todo[i], st[i], st[i + 1], code, c, Pool)
  BY <1>3 DEF Charted, Spot
<1>8. DOMAIN st2 = 1 .. L2 + 1 /\ \A i \in 1 .. L2 + 1 : st2[i] = IF i <= k + 1 THEN xs[i] ELSE st[i - k + 1]
  BY <1>3
<1> HIDE DEF st2
<1>9. \A i \in 1 .. L2 + 1 : i > k + 1 => i - k + 1 \in 3 .. L + 1
  BY <1>3
<1>10. \A i \in 1 .. L2 + 1 : st2[i] \in Spot /\ st2[i].d = IF i <= k THEN scopeDepth' ELSE st[i - k + 1].d
  <2>1. SUFFICES ASSUME NEW i \in 1 .. L2 + 1
                 PROVE  st2[i] \in Spot /\ st2[i].d = IF i <= k THEN scopeDepth' ELSE st[i - k + 1].d
    OBVIOUS
  <2>2. CASE i <= k
    <3>1. i \in 1 .. k /\ i \in 1 .. k + 1 /\ i <= k + 1
      BY <2>2
    <3>2. QED
      BY <1>6, <1>8, <2>2, <3>1
  <2>3. CASE i = k + 1
    <3>1. i - k + 1 = 2 /\ ~(i <= k) /\ i \in 1 .. k + 1
      BY <2>3
    <3>2. QED
      BY <1>6, <1>8, <2>3, <3>1
  <2>4. CASE i > k + 1
    <3>1. i - k + 1 \in 1 .. L + 1 /\ ~(i <= k) /\ ~(i <= k + 1)
      BY <1>9, <2>4
    <3>2. st2[i] = st[i - k + 1]
      BY <1>8, <3>1
    <3>3. QED
      BY <1>7, <3>1, <3>2
  <2>5. QED
    BY <2>2, <2>3, <2>4
<1>11. st2 \in [1 .. L2 + 1 -> Spot]
  <2>1. st2 = [i \in 1 .. L2 + 1 |-> st2[i]]
    BY <1>3 DEF st2
  <2>2. QED
    BY <1>10, <2>1
<1>12. st2[1].d = scopeDepth'
  <2>1. 1 \in 1 .. L2 + 1 /\ 1 <= k + 1
    BY <1>3
  <2>2. QED
    BY <1>6, <1>8, <2>1
<1>13. st2[L2 + 1].d = 0
  <2>1. L2 + 1 \in 1 .. L2 + 1 /\ ~(L2 + 1 <= k) /\ (L2 + 1) - k + 1 = L + 1
    BY <1>3
  <2>2. QED
    BY <1>7, <1>10, <2>1
<1>14. ASSUME NEW i \in 1 .. L2 + 1, NEW j \in 1 .. L2 + 1, i <= j
       PROVE  st2[j].d <= st2[i].d
  <2>1. CASE j <= k
    <3>1. i <= k
      BY <1>14, <2>1
    <3>2. QED
      BY <1>5, <1>10, <2>1, <3>1
  <2>2. CASE i <= k /\ ~(j <= k)
    <3>1. j - k + 1 \in 1 .. L + 1 /\ 2 \in 1 .. L + 1 /\ 2 <= j - k + 1
      BY <1>3, <2>2
    <3>2. st[j - k + 1].d <= st[2].d /\ st[j - k + 1].d \in Nat
      BY <1>7, <3>1
    <3>3. st2[j].d = st[j - k + 1].d /\ st2[i].d = scopeDepth'
      BY <1>10, <2>2
    <3>4. QED
      BY <1>5, <3>2, <3>3
  <2>3. CASE ~(i <= k) /\ ~(j <= k)
    <3>1. j - k + 1 \in 1 .. L + 1 /\ i - k + 1 \in 1 .. L + 1 /\ i - k + 1 <= j - k + 1
      BY <1>3, <1>14, <2>3
    <3>2. st[j - k + 1].d <= st[i - k + 1].d
      BY <1>7, <3>1
    <3>3. QED
      BY <1>10, <2>3, <3>2
  <2>4. QED
    BY <1>14, <2>1, <2>2, <2>3
<1>15. /\ Becomes(code, c, code', c2, Pending(todo'), Pool')
       /\ Extends(code, c, code', c2) /\ Chart(code', c2, Pending(todo'), Pool')
       /\ Pool \subseteq Pool'
       /\ Len(code) \in Nat /\ Len(code') \in Nat
  <2>1. Len(code) \in Nat /\ Len(code') \in Nat
    BY DEF Stepping, IInv, Types, ChunkOK
  <2>2. QED
    BY <2>1 DEF Moves, Written, Becomes
<1>16. ASSUME NEW i \in 1 .. L2, i > k
       PROVE  /\ i - k + 1 \in 2 .. L /\ todo'[i] = todo[i - k + 1]
              /\ st2[i + 1] = st[(i - k + 1) + 1] /\ st2[i].d = st[i - k + 1].d
              /\ i > k + 1 => st2[i] = st[i - k + 1]
              /\ i = k + 1 => st2[i] = xs[k + 1] /\ i - k + 1 = 2
  <2>1. i - k + 1 \in 2 .. L /\ todo'[i] = todo[i - k + 1]
    BY <1>2, <1>3, <1>16
  <2>2. i + 1 \in 1 .. L2 + 1 /\ ~(i + 1 <= k + 1) /\ (i + 1) - k + 1 = (i - k + 1) + 1 /\ i \in 1 .. L2 + 1 /\ ~(i <= k)
    BY <1>3, <1>16
  <2>3. st2[i + 1] = st[(i - k + 1) + 1] /\ st2[i].d = st[i - k + 1].d
    BY <1>8, <1>10, <2>2
  <2>4. i > k + 1 => st2[i] = st[i - k + 1]
    BY <1>8, <2>2
  <2>5. i = k + 1 => st2[i] = xs[k + 1] /\ i - k + 1 = 2
    BY <1>8, <2>2
  <2>6. QED
    BY <2>1, <2>3, <2>4, <2>5
<1>17. ASSUME NEW i \in 1 .. L2
       PROVE  Runs(todo'[i], st2[i], st2[i + 1], code', c2, Pool')
  <2>1. CASE i <= k
    <3>1. i \in 1 .. k /\ i \in 1 .. L2 + 1 /\ i + 1 \in 1 .. L2 + 1 /\ i <= k + 1 /\ i + 1 <= k + 1
      BY <2>1
    <3>2. st2[i] = xs[i] /\ st2[i + 1] = xs[i + 1]
      BY <1>8, <3>1
    <3>3. Runs(todo'[i], xs[i], xs[i + 1], code', c2, Pool')
      BY <3>1 DEF Moves, Goes
    <3>4. QED
      BY <3>2, <3>3
  <2>2. CASE i > k
    <3>1. PICK m : m = i - k + 1
      OBVIOUS
    <3>2. m \in 2 .. L /\ todo'[i] = todo[m] /\ st2[i + 1] = st[m + 1] /\ st2[i].d = st[m].d
      BY <1>16, <2>2, <3>1
    <3>3. m \in 1 .. L
      BY <3>2
    <3>4. Runs(todo[m], st[m], st[m + 1], code, c, Pool)
      BY <1>7, <3>3
    <3>5. /\ todo[m].at \in DeclarationFrames => todo[m].global \in Nat
          /\ todo[m].at = "emit" => todo[m].bytes \in Seq(Byte)
      BY <1>1, <1>3, <3>3, FrameOfStack
    <3>6. Runs(todo[m], st[m], st[m + 1], code', c2, Pool')
      BY <1>15, <3>4, <3>5, RunsStill
    <3>7. Runs(todo[m], st2[i], st[m + 1], code', c2, Pool')
      BY <3>2, <3>6 DEF Runs, Descends
    <3>8. QED
      BY <3>2, <3>7
  <2>3. QED
    BY <2>1, <2>2
<1>18. ASSUME Fits', NEW i \in 1 .. L2
       PROVE  Leads(todo'[i], st2[i], st2[i + 1], c2, opened')
  <2>1. CASE i <= k
    <3>1. i \in 1 .. k /\ i \in 1 .. L2 + 1 /\ i + 1 \in 1 .. L2 + 1 /\ i <= k + 1 /\ i + 1 <= k + 1
      BY <2>1
    <3>2. st2[i] = xs[i] /\ st2[i + 1] = xs[i + 1]
      BY <1>8, <3>1
    <3>3. Leads(todo'[i], xs[i], xs[i + 1], c2, opened')
      BY <1>18, <3>1 DEF Moves, Goes
    <3>4. QED
      BY <3>2, <3>3
  <2>2. CASE i > k
    <3>1. PICK m : m = i - k + 1
      OBVIOUS
    <3>2. /\ m \in 2 .. L /\ todo'[i] = todo[m] /\ st2[i + 1] = st[m + 1] /\ st2[i].d = st[m].d
          /\ i > k + 1 => st2[i] = st[m]
          /\ i = k + 1 => st2[i] = xs[k + 1] /\ m = 2
      BY <1>16, <2>2, <3>1
    <3>3. m \in 1 .. L /\ m + 1 \in 1 .. L + 1 /\ m \in 1 .. L + 1 /\ 2 \in 1 .. L + 1 /\ 2 <= m
      BY <3>2
    <3>4. Runs(todo[m], st[m], st[m + 1], code, c, Pool)
      BY <1>7, <3>3
    <3>5. Leads(todo[m], st[m], st[m + 1], c, opened)
      BY <1>3, <1>18, <3>3, FitsBefore DEF Charted
    <3>6. todo[m].at \in ScopeFrames => opened'[st[m].d] = opened[st[m].d]
      <4>1. st[m].d <= st[2].d /\ st[m].d \in Nat /\ st[m + 1].d \in Nat /\ st[2].d \in Nat
        BY <1>7, <3>3
      <4>2. todo[m].at \in ScopeFrames => st[m + 1].d = st[m].d - 1
        BY <3>4 DEF Runs, Descends
      <4>3. todo[m].at \in ScopeFrames => st[m].d \in 1 .. st[2].d
        BY <4>1, <4>2
      <4>4. QED
        BY <1>5, <4>3
    <3>7. Leads(todo[m], st[m], st[m + 1], c2, opened')
      BY <1>15, <3>4, <3>5, <3>6, LeadsStill
    <3>8. CASE i > k + 1
      BY <3>2, <3>7, <3>8
    <3>9. CASE i = k + 1
      <4>1. st2[i] = xs[k + 1] /\ m = 2 /\ Joins(xs[k + 1], st[2])
        BY <3>2, <3>9 DEF Moves
      <4>2. CASE xs[k + 1] = st[2]
        BY <3>2, <3>7, <4>1, <4>2
      <4>3. CASE xs[k + 1] # st[2]
        <5>1. /\ frame.at \in FreeFrames /\ xs[k + 1] \in Spot /\ xs[k + 1].d = st[2].d
              /\ xs[k + 1].h = xs[k + 1].b
          BY <1>18, <4>1, <4>3 DEF Joins
        <5>2. todo[2].at \in LooseFrames
          <6>1. 1 \in 1 .. Len(todo) /\ 1 + 1 <= Len(todo) /\ 1 + 1 = 2
            BY <1>3, <3>2, <4>1
          <6>2. QED
            BY <1>2, <5>1, <6>1 DEF Stacked
        <5>3. st[2].h \in Int /\ st[2].b \in Int /\ xs[k + 1].b \in Int
          BY <1>7, <3>3, <5>1 DEF Spot
        <5>4. Leads(todo[2], st[2], st[3], c2, opened') /\ 2 + 1 = 3
          BY <3>7, <4>1
        <5>5. Leads(todo[2], xs[k + 1], st[3], c2, opened')
          BY <5>1, <5>2, <5>3, <5>4, LooseJoins
        <5>6. QED
          BY <3>2, <4>1, <5>4, <5>5
      <4>4. QED
        BY <4>2, <4>3
    <3>10. QED
      BY <2>2, <3>8, <3>9
  <2>3. QED
    BY <2>1, <2>2
<1>19. st2[1] = xs[1]
  <2>1. 1 \in 1 .. L2 + 1 /\ 1 <= k + 1
    BY <1>3
  <2>2. QED
    BY <1>8, <2>1
<1>20. Fits' => Level(code', c2, Pending(todo')) /\ st2[1].h = c2[Len(code')] /\ st2[1].b = OnStack'
  BY <1>19 DEF Moves, Written
<1>21. PICK st3 : st3 = st2
  OBVIOUS
<1>22. /\ Chart(code', c2, Pending(todo'), Pool')
       /\ st3 \in [1 .. Len(todo') + 1 -> Spot]
       /\ st3[1].d = scopeDepth' /\ st3[Len(todo') + 1].d = 0
       /\ \A i, j \in 1 .. Len(todo') + 1 : i <= j => st3[j].d <= st3[i].d
       /\ \A i \in 1 .. Len(todo') : Runs(todo'[i], st3[i], st3[i + 1], code', c2, Pool')
  BY <1>3, <1>11, <1>12, <1>13, <1>14, <1>15, <1>17, <1>21
<1>23. Fits' => /\ Level(code', c2, Pending(todo'))
                /\ st3[1].h = c2[Len(code')] /\ st3[1].b = OnStack'
                /\ \A i \in 1 .. Len(todo') : Leads(todo'[i], st3[i], st3[i + 1], c2, opened')
  BY <1>3, <1>18, <1>20, <1>21
<1>24. Charted(c2, st3)'
  BY <1>22, <1>23 DEF Charted
<1>25. QED
  BY <1>24

-----------------------------------------------------------------------------
(***************************************************************************)
(* Steps by the number of calls that take the place of the old one.        *)
(***************************************************************************)

\* No call.
LEMMA ThenNone ==
  ASSUME FramesOK, FramesOK', todo # <<>>, Then(<<>>)
  PROVE  /\ Grows(0)
         /\ Pending(todo) \ ToPatch(frame) \subseteq Pending(todo')
<1>1. <<>> \in Seq(Frame) /\ Len(<<>>) = 0
  OBVIOUS
<1>2. Grows(0)
  BY <1>1, ThenGrows DEF Then, Grows, FramesOK
<1>3. QED
  BY <1>2, PendingSteps

\* The innermost call returns: the next one goes on from where it was to lead.
LEMMA MovesNone ==
  ASSUME Stepping, NEW c, NEW y \in Spot, NEW c2, Then(<<>>), NEW x1,
         Written(c, x1, c2),
         Joins(x1, y)
  PROVE  \E k \in 0 .. 4 : \E xs : Moves(c, y, c2, k, xs)
<1>1. Grows(0)
  BY ThenNone DEF Stepping, IInv, Types
<1>2. x1 \in Spot
  BY DEF Goes, Joins, Written
<1>3. PICK xs : xs = <<x1>>
  OBVIOUS
<1>4. xs \in [1 .. 0 + 1 -> Spot] /\ xs[1] = x1
  BY <1>2, <1>3
<1>5. \A i \in 1 .. 0 : FALSE
  OBVIOUS
<1>6. \A i \in 1 .. 0 : Goes(todo'[i], xs[i], xs[i + 1], c2)
  BY <1>1, <1>4, <1>5
<1>7. \A i \in 1 .. 0 : todo'[i].at = "compile" <=> (i = 0 /\ frame.at = "compile")
  BY <1>1, <1>5
<1>8. \A i \in 1 .. 0 : i + 1 <= 0 /\ todo'[i].at \in FreeFrames => todo'[i + 1].at \in LooseFrames
  BY <1>1, <1>5
<1>9. 0 > 0 /\ todo'[0].at \in FreeFrames => frame.at \in FreeFrames
  BY <1>1
<1>10. Joins(xs[0 + 1], y) /\ Written(c, xs[1], c2)
  BY <1>4
<1>11. Moves(c, y, c2, 0, xs)
  BY <1>1, <1>4, <1>6, <1>7, <1>8, <1>9, <1>10 DEF Moves
<1>12. QED
  BY <1>11

\* One call.
LEMMA ThenOne ==
  ASSUME FramesOK, FramesOK', todo # <<>>, NEW f1 \in Frame, Then(<<f1>>)
  PROVE  /\ Grows(1) /\ todo'[1] = f1
         /\ Pending(todo) \ ToPatch(frame) \subseteq Pending(todo')
         /\ ToPatch(f1) \intersect Int \subseteq Pending(todo')
<1>1. <<f1>> \in Seq(Frame) /\ Len(<<f1>>) = 1 /\ <<f1>>[1] = f1
  OBVIOUS
<1>2. Grows(1) /\ todo'[1] = f1
  BY <1>1, ThenGrows DEF Then, Grows, FramesOK
<1>3. QED
  BY <1>2, PendingSteps

\* The innermost call is replaced by one.
LEMMA MovesOne ==
  ASSUME Stepping, NEW c, NEW y \in Spot, NEW c2, NEW f1 \in Frame, Then(<<f1>>), NEW x1, NEW x2,
         Written(c, x1, c2),
         Goes(f1, x1, x2, c2),
         (f1.at = "compile" <=> frame.at = "compile"),
         f1.at \in FreeFrames => frame.at \in FreeFrames,
         Joins(x2, y)
  PROVE  \E k \in 0 .. 4 : \E xs : Moves(c, y, c2, k, xs)
<1>1. Grows(1) /\ todo'[1] = f1
  BY ThenOne DEF Stepping, IInv, Types
<1>2. x1 \in Spot /\ x2 \in Spot
  BY DEF Goes, Joins, Written
<1>3. PICK xs : xs = <<x1, x2>>
  OBVIOUS
<1>4. xs \in [1 .. 1 + 1 -> Spot] /\ xs[1] = x1 /\ xs[2] = x2
  BY <1>2, <1>3
<1>5. \A i \in 1 .. 1 : i \in {1}
  OBVIOUS
<1>6. \A i \in 1 .. 1 : Goes(todo'[i], xs[i], xs[i + 1], c2)
  BY <1>1, <1>4, <1>5
<1>7. \A i \in 1 .. 1 : todo'[i].at = "compile" <=> (i = 1 /\ frame.at = "compile")
  BY <1>1, <1>5
<1>8. \A i \in 1 .. 1 : i + 1 <= 1 /\ todo'[i].at \in FreeFrames => todo'[i + 1].at \in LooseFrames
  BY <1>1, <1>5
<1>9. 1 > 0 /\ todo'[1].at \in FreeFrames => frame.at \in FreeFrames
  BY <1>1
<1>10. Joins(xs[1 + 1], y) /\ Written(c, xs[1], c2)
  BY <1>4
<1>11. Moves(c, y, c2, 1, xs)
  BY <1>1, <1>4, <1>6, <1>7, <1>8, <1>9, <1>10 DEF Moves
<1>12. QED
  BY <1>11

\* Two calls.
LEMMA ThenTwo ==
  ASSUME FramesOK, FramesOK', todo # <<>>, NEW f1 \in Frame, NEW f2 \in Frame, Then(<<f1, f2>>)
  PROVE  /\ Grows(2) /\ todo'[1] = f1 /\ todo'[2] = f2
         /\ Pending(todo) \ ToPatch(frame) \subseteq Pending(todo')
         /\ ToPatch(f1) \intersect Int \subseteq Pending(todo')
         /\ ToPatch(f2) \intersect Int \subseteq Pending(todo')
<1>1. <<f1, f2>> \in Seq(Frame) /\ Len(<<f1, f2>>) = 2 /\ <<f1, f2>>[1] = f1 /\ <<f1, f2>>[2] = f2
  OBVIOUS
<1>2. Grows(2) /\ todo'[1] = f1 /\ todo'[2] = f2
  BY <1>1, ThenGrows DEF Then, Grows, FramesOK
<1>3. QED
  BY <1>2, PendingSteps

\* The innermost call is replaced by two.
LEMMA MovesTwo ==
  ASSUME Stepping, NEW c, NEW y \in Spot, NEW c2, NEW f1 \in Frame, NEW f2 \in Frame, Then(<<f1, f2>>), NEW x1, NEW x2, NEW x3,
         Written(c, x1, c2),
         Goes(f1, x1, x2, c2),
         Goes(f2, x2, x3, c2),
         f1.at # "compile", (f2.at = "compile" <=> frame.at = "compile"),
         f1.at \in FreeFrames => f2.at \in LooseFrames,
         f2.at \in FreeFrames => frame.at \in FreeFrames,
         Joins(x3, y)
  PROVE  \E k \in 0 .. 4 : \E xs : Moves(c, y, c2, k, xs)
<1>1. Grows(2) /\ todo'[1] = f1 /\ todo'[2] = f2
  BY ThenTwo DEF Stepping, IInv, Types
<1>2. x1 \in Spot /\ x2 \in Spot /\ x3 \in Spot
  BY DEF Goes, Joins, Written
<1>3. PICK xs : xs = <<x1, x2, x3>>
  OBVIOUS
<1>4. xs \in [1 .. 2 + 1 -> Spot] /\ xs[1] = x1 /\ xs[2] = x2 /\ xs[3] = x3
  BY <1>2, <1>3
<1>5. \A i \in 1 .. 2 : i \in {1, 2}
  OBVIOUS
<1>6. \A i \in 1 .. 2 : Goes(todo'[i], xs[i], xs[i + 1], c2)
  BY <1>1, <1>4, <1>5
<1>7. \A i \in 1 .. 2 : todo'[i].at = "compile" <=> (i = 2 /\ frame.at = "compile")
  BY <1>1, <1>5
<1>8. \A i \in 1 .. 2 : i + 1 <= 2 /\ todo'[i].at \in FreeFrames => todo'[i + 1].at \in LooseFrames
  BY <1>1, <1>5
<1>9. 2 > 0 /\ todo'[2].at \in FreeFrames => frame.at \in FreeFrames
  BY <1>1
<1>10. Joins(xs[2 + 1], y) /\ Written(c, xs[1], c2)
  BY <1>4
<1>11. Moves(c, y, c2, 2, xs)
  BY <1>1, <1>4, <1>6, <1>7, <1>8, <1>9, <1>10 DEF Moves
<1>12. QED
  BY <1>11

\* Three calls.
LEMMA ThenThree ==
  ASSUME FramesOK, FramesOK', todo # <<>>, NEW f1 \in Frame, NEW f2 \in Frame, NEW f3 \in Frame, Then(<<f1, f2, f3>>)
  PROVE  /\ Grows(3) /\ todo'[1] = f1 /\ todo'[2] = f2 /\ todo'[3] = f3
         /\ Pending(todo) \ ToPatch(frame) \subseteq Pending(todo')
         /\ ToPatch(f1) \intersect Int \subseteq Pending(todo')
         /\ ToPatch(f2) \intersect Int \subseteq Pending(todo')
         /\ ToPatch(f3) \intersect Int \subseteq Pending(todo')
<1>1. <<f1, f2, f3>> \in Seq(Frame) /\ Len(<<f1, f2, f3>>) = 3 /\ <<f1, f2, f3>>[1] = f1 /\ <<f1, f2, f3>>[2] = f2 /\ <<f1, f2, f3>>[3] = f3
  OBVIOUS
<1>2. Grows(3) /\ todo'[1] = f1 /\ todo'[2] = f2 /\ todo'[3] = f3
  BY <1>1, ThenGrows DEF Then, Grows, FramesOK
<1>3. QED
  BY <1>2, PendingSteps

\* The innermost call is replaced by three.
LEMMA MovesThree ==
  ASSUME Stepping, NEW c, NEW y \in Spot, NEW c2, NEW f1 \in Frame, NEW f2 \in Frame, NEW f3 \in Frame, Then(<<f1, f2, f3>>), NEW x1, NEW x2, NEW x3, NEW x4,
         Written(c, x1, c2),
         Goes(f1, x1, x2, c2),
         Goes(f2, x2, x3, c2),
         Goes(f3, x3, x4, c2),
         f1.at # "compile", f2.at # "compile", (f3.at = "compile" <=> frame.at = "compile"),
         f1.at \in FreeFrames => f2.at \in LooseFrames,
         f2.at \in FreeFrames => f3.at \in LooseFrames,
         f3.at \in FreeFrames => frame.at \in FreeFrames,
         Joins(x4, y)
  PROVE  \E k \in 0 .. 4 : \E xs : Moves(c, y, c2, k, xs)
<1>1. Grows(3) /\ todo'[1] = f1 /\ todo'[2] = f2 /\ todo'[3] = f3
  BY ThenThree DEF Stepping, IInv, Types
<1>2. x1 \in Spot /\ x2 \in Spot /\ x3 \in Spot /\ x4 \in Spot
  BY DEF Goes, Joins, Written
<1>3. PICK xs : xs = <<x1, x2, x3, x4>>
  OBVIOUS
<1>4. xs \in [1 .. 3 + 1 -> Spot] /\ xs[1] = x1 /\ xs[2] = x2 /\ xs[3] = x3 /\ xs[4] = x4
  BY <1>2, <1>3
<1>5. \A i \in 1 .. 3 : i \in {1, 2, 3}
  OBVIOUS
<1>6. \A i \in 1 .. 3 : Goes(todo'[i], xs[i], xs[i + 1], c2)
  BY <1>1, <1>4, <1>5
<1>7. \A i \in 1 .. 3 : todo'[i].at = "compile" <=> (i = 3 /\ frame.at = "compile")
  BY <1>1, <1>5
<1>8. \A i \in 1 .. 3 : i + 1 <= 3 /\ todo'[i].at \in FreeFrames => todo'[i + 1].at \in LooseFrames
  BY <1>1, <1>5
<1>9. 3 > 0 /\ todo'[3].at \in FreeFrames => frame.at \in FreeFrames
  BY <1>1
<1>10. Joins(xs[3 + 1], y) /\ Written(c, xs[1], c2)
  BY <1>4
<1>11. Moves(c, y, c2, 3, xs)
  BY <1>1, <1>4, <1>6, <1>7, <1>8, <1>9, <1>10 DEF Moves
<1>12. QED
  BY <1>11

\* Four calls.
LEMMA ThenFour ==
  ASSUME FramesOK, FramesOK', todo # <<>>, NEW f1 \in Frame, NEW f2 \in Frame, NEW f3 \in Frame, NEW f4 \in Frame, Then(<<f1, f2, f3, f4>>)
  PROVE  /\ Grows(4) /\ todo'[1] = f1 /\ todo'[2] = f2 /\ todo'[3] = f3 /\ todo'[4] = f4
         /\ Pending(todo) \ ToPatch(frame) \subseteq Pending(todo')
         /\ ToPatch(f1) \intersect Int \subseteq Pending(todo')
         /\ ToPatch(f2) \intersect Int \subseteq Pending(todo')
         /\ ToPatch(f3) \intersect Int \subseteq Pending(todo')
         /\ ToPatch(f4) \intersect Int \subseteq Pending(todo')
<1>1. <<f1, f2, f3, f4>> \in Seq(Frame) /\ Len(<<f1, f2, f3, f4>>) = 4 /\ <<f1, f2, f3, f4>>[1] = f1 /\ <<f1, f2, f3, f4>>[2] = f2 /\ <<f1, f2, f3, f4>>[3] = f3 /\ <<f1, f2, f3, f4>>[4] = f4
  OBVIOUS
<1>2. Grows(4) /\ todo'[1] = f1 /\ todo'[2] = f2 /\ todo'[3] = f3 /\ todo'[4] = f4
  BY <1>1, ThenGrows DEF Then, Grows, FramesOK
<1>3. QED
  BY <1>2, PendingSteps

\* The innermost call is replaced by four.
LEMMA MovesFour ==
  ASSUME Stepping, NEW c, NEW y \in Spot, NEW c2, NEW f1 \in Frame, NEW f2 \in Frame, NEW f3 \in Frame, NEW f4 \in Frame, Then(<<f1, f2, f3, f4>>), NEW x1, NEW x2, NEW x3, NEW x4, NEW x5,
         Written(c, x1, c2),
         Goes(f1, x1, x2, c2),
         Goes(f2, x2, x3, c2),
         Goes(f3, x3, x4, c2),
         Goes(f4, x4, x5, c2),
         f1.at # "compile", f2.at # "compile", f3.at # "compile", (f4.at = "compile" <=> frame.at = "compile"),
         f1.at \in FreeFrames => f2.at \in LooseFrames,
         f2.at \in FreeFrames => f3.at \in LooseFrames,
         f3.at \in FreeFrames => f4.at \in LooseFrames,
         f4.at \in FreeFrames => frame.at \in FreeFrames,
         Joins(x5, y)
  PROVE  \E k \in 0 .. 4 : \E xs : Moves(c, y, c2, k, xs)
<1>1. Grows(4) /\ todo'[1] = f1 /\ todo'[2] = f2 /\ todo'[3] = f3 /\ todo'[4] = f4
  BY ThenFour DEF Stepping, IInv, Types
<1>2. x1 \in Spot /\ x2 \in Spot /\ x3 \in Spot /\ x4 \in Spot /\ x5 \in Spot
  BY DEF Goes, Joins, Written
<1>3. PICK xs : xs = <<x1, x2, x3, x4, x5>>
  OBVIOUS
<1>4. xs \in [1 .. 4 + 1 -> Spot] /\ xs[1] = x1 /\ xs[2] = x2 /\ xs[3] = x3 /\ xs[4] = x4 /\ xs[5] = x5
  BY <1>2, <1>3
<1>5. \A i \in 1 .. 4 : i \in {1, 2, 3, 4}
  OBVIOUS
<1>6. \A i \in 1 .. 4 : Goes(todo'[i], xs[i], xs[i + 1], c2)
  BY <1>1, <1>4, <1>5
<1>7. \A i \in 1 .. 4 : todo'[i].at = "compile" <=> (i = 4 /\ frame.at = "compile")
  BY <1>1, <1>5
<1>8. \A i \in 1 .. 4 : i + 1 <= 4 /\ todo'[i].at \in FreeFrames => todo'[i + 1].at \in LooseFrames
  BY <1>1, <1>5
<1>9. 4 > 0 /\ todo'[4].at \in FreeFrames => frame.at \in FreeFrames
  BY <1>1
<1>10. Joins(xs[4 + 1], y) /\ Written(c, xs[1], c2)
  BY <1>4
<1>11. Moves(c, y, c2, 4, xs)
  BY <1>1, <1>4, <1>6, <1>7, <1>8, <1>9, <1>10 DEF Moves
<1>12. QED
  BY <1>11

-----------------------------------------------------------------------------
(***************************************************************************)
(* What leading from one spot to another means for each kind of call.      *)
(***************************************************************************)

\* A height, a number of locals and a number of scopes make a spot.
Mark(h, b, d) == [h |-> h, b |-> b, d |-> d]

\* Spots are what they are made of.
LEMMA Marks ==
  /\ \A h, b \in Int, d \in Nat :
       Mark(h, b, d) \in Spot /\ Mark(h, b, d).h = h /\ Mark(h, b, d).b = b /\ Mark(h, b, d).d = d
  /\ \A x \in Spot : x.h \in Int /\ x.b \in Int /\ x.d \in Nat
  /\ \A x, y \in Spot : x.h = y.h /\ x.b = y.b /\ x.d = y.d => x = y
BY DEF Mark, Spot

\* The calls that have nothing to patch.
LEMMA NothingToPatch ==
  ASSUME NEW f, f.at \notin {"patch_jump", "if_else", "loop_end", "for_body"}
  PROVE  ToPatch(f) = {}
BY DEF ToPatch

\* Functions without C++ locals, outside of expressions.
LEMMA PlainMeans ==
  ASSUME NEW f, f.at \in PlainFrames, NEW x, NEW y, NEW k, NEW c, NEW n, NEW opens
  PROVE  /\ Runs(f, x, y, k, c, n) <=> y.d = x.d
         /\ x.b \in Int => (Leads(f, x, y, c, opens) <=> x.h = x.b /\ y.h = y.b /\ (f.at \in FreeFrames \/ y.b = x.b))
<1>1. /\ ToPatch(f) = {} /\ Starting(f) = {} /\ f.at # "emit" /\ f.at \notin DeclarationFrames
      /\ f.at \notin ScopeFrames /\ f.at \notin ExpressionFrames /\ Above(f) = 0
      /\ \A h : Meets(f, c, h)
  BY DEF PlainFrames, ToPatch, Starting, DeclarationFrames, ScopeFrames, ForFrames, ExpressionFrames, Above, Meets
<1>2. Runs(f, x, y, k, c, n) <=> y.d = x.d
  BY <1>1 DEF Runs, Descends, Places
<1>3. QED
  BY <1>1, <1>2 DEF Leads

\* The start of an expression.
LEMMA ParseMeans ==
  ASSUME NEW f, f.at \in {"parse_precedence", "prefix"}, NEW x, NEW y, NEW k, NEW c, NEW n, NEW opens
  PROVE  /\ Runs(f, x, y, k, c, n) <=> y.d = x.d
         /\ x.b \in Int => (Leads(f, x, y, c, opens) <=> x.h >= x.b /\ y.h = x.h + 1 /\ y.b = x.b)
<1>1. /\ ToPatch(f) = {} /\ Starting(f) = {} /\ f.at # "emit" /\ f.at \notin DeclarationFrames
      /\ f.at \notin ScopeFrames /\ f.at \in ExpressionFrames /\ Above(f) = 0 /\ Gain(f) = 1
      /\ \A h : Meets(f, c, h)
  BY DEF ToPatch, Starting, DeclarationFrames, ScopeFrames, ForFrames, ExpressionFrames, Above, Meets, Gain
<1>2. Runs(f, x, y, k, c, n) <=> y.d = x.d
  BY <1>1 DEF Runs, Descends, Places
<1>3. QED
  BY <1>1, <1>2 DEF Leads

\* consume, and the rest of an expression.
LEMMA RestMeans ==
  ASSUME NEW f, f.at \in {"consume", "infix"}, NEW x, NEW y, NEW k, NEW c, NEW n, NEW opens
  PROVE  /\ Runs(f, x, y, k, c, n) <=> y.d = x.d
         /\ x.b \in Int /\ x.h \in Int =>
              (Leads(f, x, y, c, opens) <=> /\ x.h >= x.b /\ (f.at = "infix" => x.h >= x.b + 1)
                                            /\ y.h = x.h /\ y.b = x.b)
<1>1. /\ ToPatch(f) = {} /\ Starting(f) = {} /\ f.at # "emit" /\ f.at \notin DeclarationFrames
      /\ f.at \notin ScopeFrames /\ f.at \in ExpressionFrames /\ Above(f) = (IF f.at = "infix" THEN 1 ELSE 0)
      /\ Gain(f) = 0
      /\ \A h : Meets(f, c, h)
  BY DEF ToPatch, Starting, DeclarationFrames, ScopeFrames, ForFrames, ExpressionFrames, Above, Meets, Gain
<1>2. Runs(f, x, y, k, c, n) <=> y.d = x.d
  BY <1>1 DEF Runs, Descends, Places
<1>3. QED
  BY <1>1, <1>2 DEF Leads

\* emit_byte and emit_bytes.
LEMMA EmitMeans ==
  ASSUME NEW f, f.at = "emit", NEW x, NEW y, NEW k, NEW c, NEW n, NEW opens
  PROVE  /\ Runs(f, x, y, k, c, n) <=> y.d = x.d /\ (EmitsPlain(f.bytes) \/ EmitsSet(f.bytes, n))
         /\ Leads(f, x, y, c, opens) <=>
              /\ x.h >= x.b + Takes(f.bytes[1]) /\ y.h = x.h + Effect(f.bytes[1]) /\ y.b = x.b
              /\ f.bytes[1] = OP_SET_LOCAL => f.bytes[2] < x.b
<1>1. /\ ToPatch(f) = {} /\ Starting(f) = {} /\ f.at \notin DeclarationFrames
      /\ f.at \notin ScopeFrames /\ f.at \in ExpressionFrames /\ Above(f) = Takes(f.bytes[1])
      /\ Gain(f) = Effect(f.bytes[1])
      /\ \A h : Meets(f, c, h)
  BY DEF ToPatch, Starting, DeclarationFrames, ScopeFrames, ForFrames, ExpressionFrames, Above, Meets, Gain
<1>2. Runs(f, x, y, k, c, n) <=> y.d = x.d /\ (EmitsPlain(f.bytes) \/ EmitsSet(f.bytes, n))
  BY <1>1 DEF Runs, Descends, Places
<1>3. QED
  BY <1>1, <1>2 DEF Leads

\* patch_jump, in an expression or after an if.
LEMMA PatchMeans ==
  ASSUME NEW f, f.at = "patch_jump", NEW x, NEW y, NEW k, NEW c, NEW n, NEW opens
  PROVE  /\ ToPatch(f) = {f.jump}
         /\ Runs(f, x, y, k, c, n) <=> y.d = x.d /\ ForwardJump(k, DOMAIN c, f.jump)
         /\ x.b \in Int /\ x.h \in Int =>
              (Leads(f, x, y, c, opens) <=> c[f.jump - 1] = x.h /\ x.h >= x.b /\ y.h = x.h /\ y.b = x.b)
<1>1. /\ ToPatch(f) = {f.jump} /\ Starting(f) = {} /\ f.at # "emit" /\ f.at \notin DeclarationFrames
      /\ f.at \notin ScopeFrames /\ f.at \in ExpressionFrames /\ Above(f) = 0 /\ Gain(f) = 0
      /\ \A h : Meets(f, c, h) <=> c[f.jump - 1] = h
  BY DEF ToPatch, Starting, DeclarationFrames, ScopeFrames, ForFrames, ExpressionFrames, Above, Meets, Gain
<1>2. Runs(f, x, y, k, c, n) <=> y.d = x.d /\ ForwardJump(k, DOMAIN c, f.jump)
  BY <1>1 DEF Runs, Descends, Places
<1>3. QED
  BY <1>1, <1>2 DEF Leads

\* What ends with its scope.
EndingFrames == {"for_initializer", "for_condition", "end_scope"}

\* What a call that ends a scope relies on.
LEMMA ScopeMeans ==
  ASSUME NEW f, f.at \in EndingFrames,
         NEW x, NEW y, NEW k, NEW c, NEW n, NEW opens
  PROVE  /\ Runs(f, x, y, k, c, n) <=> y.d = x.d - 1
         /\ x.b \in Int => (Leads(f, x, y, c, opens) <=> x.h = x.b /\ y.h = y.b /\ y.b = opens[x.d])
<1>1. /\ ToPatch(f) = {} /\ Starting(f) = {} /\ f.at # "emit" /\ f.at \notin DeclarationFrames
      /\ f.at \in ScopeFrames /\ f.at \notin ExpressionFrames /\ Above(f) = 0
      /\ \A h : Meets(f, c, h)
  BY DEF ToPatch, Starting, DeclarationFrames, ScopeFrames, ForFrames, ExpressionFrames, Above, Meets, EndingFrames
<1>2. Runs(f, x, y, k, c, n) <=> y.d = x.d - 1
  BY <1>1 DEF Runs, Descends, Places
<1>3. QED
  BY <1>1, <1>2 DEF Leads

\* The rest of a declaration.
LEMMA DeclarationMeans ==
  ASSUME NEW f, f.at \in DeclarationFrames, NEW x, NEW y, NEW k, NEW c, NEW n, NEW opens
  PROVE  /\ Runs(f, x, y, k, c, n) <=> y.d = x.d /\ (x.d > 0 \/ Listed(OP_DEFINE_GLOBAL, f.global, n))
         /\ x.b \in Int =>
              (Leads(f, x, y, c, opens) <=> /\ x.h = x.b + (IF f.at = "define_variable" THEN 1 ELSE 0)
                                            /\ y.h = y.b)
<1>1. /\ ToPatch(f) = {} /\ Starting(f) = {} /\ f.at # "emit"
      /\ f.at \notin ScopeFrames /\ f.at \notin ExpressionFrames /\ f.at \in FreeFrames
      /\ Above(f) = (IF f.at = "define_variable" THEN 1 ELSE 0)
      /\ \A h : Meets(f, c, h)
  BY DEF ToPatch, Starting, DeclarationFrames, ScopeFrames, ForFrames, ExpressionFrames, FreeFrames, Above, Meets
<1>2. Runs(f, x, y, k, c, n) <=> y.d = x.d /\ (x.d > 0 \/ Listed(OP_DEFINE_GLOBAL, f.global, n))
  BY <1>1 DEF Runs, Descends, Places
<1>3. QED
  BY <1>1, <1>2 DEF Leads

\* The rest of an if.
LEMMA IfMeans ==
  ASSUME NEW f, f.at \in {"if_then", "if_else"}, NEW x, NEW y, NEW k, NEW c, NEW n, NEW opens
  PROVE  /\ f.at = "if_then" => ToPatch(f) = {}
         /\ f.at = "if_else" => ToPatch(f) = {f.then_jump}
         /\ Runs(f, x, y, k, c, n) <=> y.d = x.d /\ (f.at = "if_else" => ForwardJump(k, DOMAIN c, f.then_jump))
         /\ x.b \in Int =>
              (Leads(f, x, y, c, opens) <=>
                 /\ y.h = y.b /\ y.b = x.b
                 /\ f.at = "if_then" => x.h = x.b + 1
                 /\ f.at = "if_else" => x.h = x.b /\ c[f.then_jump - 1] = x.h + 1)
<1>1. /\ f.at = "if_then" => ToPatch(f) = {} /\ \A h : Meets(f, c, h)
      /\ f.at = "if_else" => ToPatch(f) = {f.then_jump} /\ \A h : Meets(f, c, h) <=> c[f.then_jump - 1] = h + 1
      /\ Starting(f) = {} /\ f.at # "emit" /\ f.at \notin DeclarationFrames
      /\ f.at \notin ScopeFrames /\ f.at \notin ExpressionFrames /\ f.at \notin FreeFrames
      /\ Above(f) = (IF f.at = "if_then" THEN 1 ELSE 0)
  BY DEF ToPatch, Starting, DeclarationFrames, ScopeFrames, ForFrames, ExpressionFrames, FreeFrames, Above, Meets
<1>2. Runs(f, x, y, k, c, n) <=> y.d = x.d /\ (f.at = "if_else" => ForwardJump(k, DOMAIN c, f.then_jump))
  BY <1>1 DEF Runs, Descends, Places
<1>3. QED
  BY <1>1, <1>2 DEF Leads

\* The condition of a while, and that of a for.
LEMMA ConditionMeans ==
  ASSUME NEW f, f.at \in {"while_body", "for_increment"}, NEW x, NEW y, NEW k, NEW c, NEW n, NEW opens
  PROVE  /\ ToPatch(f) = {}
         /\ Runs(f, x, y, k, c, n) <=>
              /\ f.at = "for_increment" => y.d = x.d - 1
              /\ f.at = "while_body" => y.d = x.d
              /\ f.loop_start \in DOMAIN c
         /\ x.b \in Int =>
              (Leads(f, x, y, c, opens) <=>
                 /\ x.h = x.b + 1 /\ c[f.loop_start] = x.b
                 /\ y.h = y.b
                 /\ f.at = "for_increment" => y.b = opens[x.d]
                 /\ f.at = "while_body" => y.b = x.b)
<1>1. /\ ToPatch(f) = {} /\ \A h : Meets(f, c, h) <=> c[f.loop_start] = h - 1
      /\ Starting(f) = {f.loop_start} /\ f.at # "emit" /\ f.at \notin DeclarationFrames
      /\ (f.at \in ScopeFrames <=> f.at = "for_increment") /\ f.at \notin ExpressionFrames /\ f.at \notin FreeFrames
      /\ Above(f) = 1
  BY DEF ToPatch, Starting, DeclarationFrames, ScopeFrames, ForFrames, ExpressionFrames, FreeFrames, Above, Meets
<1>2. Runs(f, x, y, k, c, n) <=>
              /\ f.at = "for_increment" => y.d = x.d - 1
              /\ f.at = "while_body" => y.d = x.d
              /\ f.loop_start \in DOMAIN c
  BY <1>1 DEF Runs, Descends, Places
<1>3. QED
  BY <1>1, <1>2 DEF Leads

\* The end of a loop.
LEMMA LoopEndMeans ==
  ASSUME NEW f, f.at = "loop_end", NEW x, NEW y, NEW k, NEW c, NEW n, NEW opens
  PROVE  /\ ToPatch(f) = {f.exit_jump}
         /\ Runs(f, x, y, k, c, n) <=>
              /\ y.d = x.d
              /\ f.loop_start \in DOMAIN c /\ ForwardJump(k, DOMAIN c, f.exit_jump)
         /\ x.b \in Int =>
              (Leads(f, x, y, c, opens) <=>
                 /\ x.h = x.b /\ y.h = y.b /\ y.b = x.b
                 /\ c[f.loop_start] = x.h /\ c[f.exit_jump - 1] = x.h + 1)
<1>1. /\ ToPatch(f) = {f.exit_jump}
      /\ \A h : Meets(f, c, h) <=> c[f.loop_start] = h /\ c[f.exit_jump - 1] = h + 1
      /\ Starting(f) = {f.loop_start} /\ f.at # "emit" /\ f.at \notin DeclarationFrames
      /\ f.at \notin ScopeFrames /\ f.at \notin ExpressionFrames /\ f.at \notin FreeFrames
      /\ Above(f) = 0
  BY DEF ToPatch, Starting, DeclarationFrames, ScopeFrames, ForFrames, ExpressionFrames, FreeFrames, Above, Meets
<1>2. Runs(f, x, y, k, c, n) <=>
              /\ y.d = x.d
              /\ f.loop_start \in DOMAIN c /\ ForwardJump(k, DOMAIN c, f.exit_jump)
  BY <1>1 DEF Runs, Descends, Places
<1>3. QED
  BY <1>1, <1>2 DEF Leads

\* The increment of a for has been compiled.
LEMMA ForBodyMeans ==
  ASSUME NEW f, f.at = "for_body", NEW x, NEW y, NEW k, NEW c, NEW n, NEW opens
  PROVE  /\ ToPatch(f) = {f.exit_jump, f.body_jump}
         /\ Runs(f, x, y, k, c, n) <=>
              /\ y.d = x.d - 1
              /\ f.loop_start \in DOMAIN c /\ f.increment_start \in DOMAIN c
              /\ ForwardJump(k, DOMAIN c, f.exit_jump) /\ ForwardJump(k, DOMAIN c, f.body_jump)
         /\ x.b \in Int =>
              (Leads(f, x, y, c, opens) <=>
                 /\ x.h = x.b /\ y.h = y.b /\ y.b = opens[x.d]
                 /\ c[f.loop_start] = x.h /\ c[f.exit_jump - 1] = x.h + 1
                 /\ c[f.body_jump - 1] = x.h /\ c[f.increment_start] = x.h)
<1>1. /\ ToPatch(f) = {f.exit_jump, f.body_jump}
      /\ \A h : Meets(f, c, h) <=> /\ c[f.loop_start] = h /\ c[f.exit_jump - 1] = h + 1
                                   /\ c[f.body_jump - 1] = h /\ c[f.increment_start] = h
      /\ Starting(f) = {f.loop_start, f.increment_start} /\ f.at # "emit" /\ f.at \notin DeclarationFrames
      /\ f.at \in ScopeFrames /\ f.at \notin ExpressionFrames
      /\ Above(f) = 0
  BY DEF ToPatch, Starting, DeclarationFrames, ScopeFrames, ForFrames, ExpressionFrames, FreeFrames, Above, Meets
<1>2. Runs(f, x, y, k, c, n) <=>
              /\ y.d = x.d - 1
              /\ f.loop_start \in DOMAIN c /\ f.increment_start \in DOMAIN c
              /\ ForwardJump(k, DOMAIN c, f.exit_jump) /\ ForwardJump(k, DOMAIN c, f.body_jump)
  BY <1>1 DEF Runs, Descends, Places
<1>3. QED
  BY <1>1, <1>2 DEF Leads

-----------------------------------------------------------------------------
(***************************************************************************)
(* New calls, by their kind, and code that stays.                          *)
(***************************************************************************)

\* A call without C++ locals that start, patch or end anything goes on from x1 to x2.
LEMMA GoesPlain ==
  ASSUME NEW f, f.at \in PlainFrames, NEW x1 \in Spot, NEW x2 \in Spot, x1.d = scopeDepth', x2.d = x1.d, NEW c,
         Fits' => x1.h = x1.b /\ x2.h = x2.b /\ (f.at \in FreeFrames \/ x2.b = x1.b)
  PROVE  Goes(f, x1, x2, c)
BY PlainMeans, Marks DEF Goes

\* So does one that parses an operand.
LEMMA GoesParse ==
  ASSUME NEW f, f.at \in {"parse_precedence", "prefix"}, NEW x1 \in Spot, NEW x2 \in Spot, x1.d = scopeDepth', x2.d = x1.d,
         NEW c, Fits' => x1.h >= x1.b /\ x2.h = x1.h + 1 /\ x2.b = x1.b
  PROVE  Goes(f, x1, x2, c)
<1>1. x1.h \in Int /\ x1.b \in Int
  BY Marks
<1>2. Runs(f, x1, x2, code', c, Pool')
  BY ParseMeans
<1>3. ASSUME Fits' PROVE Leads(f, x1, x2, c, opened')
  BY <1>1, <1>3, ParseMeans
<1>4. QED
  BY <1>2, <1>3 DEF Goes

\* So does the rest of an expression.
LEMMA GoesRest ==
  ASSUME NEW f, f.at \in {"consume", "infix"}, NEW x1 \in Spot, NEW x2 \in Spot, x1.d = scopeDepth', x2.d = x1.d,
         NEW c, Fits' => x1.h >= x1.b /\ (f.at = "infix" => x1.h >= x1.b + 1) /\ x2.h = x1.h /\ x2.b = x1.b
  PROVE  Goes(f, x1, x2, c)
<1>1. x1.h \in Int /\ x1.b \in Int
  BY Marks
<1>2. /\ ToPatch(f) = {} /\ Starting(f) = {} /\ f.at # "emit" /\ f.at \notin DeclarationFrames
      /\ f.at \notin ScopeFrames /\ f.at \in ExpressionFrames /\ Gain(f) = 0
      /\ f.at = "infix" => Above(f) = 1
      /\ f.at = "consume" => Above(f) = 0
      /\ \A h : Meets(f, c, h)
  BY DEF ToPatch, Starting, DeclarationFrames, ScopeFrames, ForFrames, ExpressionFrames, Above, Meets, Gain
<1>3. Runs(f, x1, x2, code', c, Pool')
  BY <1>2 DEF Runs, Descends, Places
<1>4. ASSUME Fits' PROVE Leads(f, x1, x2, c, opened')
  BY <1>1, <1>2, <1>4 DEF Leads
<1>5. QED
  BY <1>3, <1>4 DEF Goes

\* So does one that emits an operator or an assignment.
LEMMA GoesEmit ==
  ASSUME NEW f, f.at = "emit", NEW x1 \in Spot, NEW x2 \in Spot, x1.d = scopeDepth', x2.d = x1.d, NEW c,
         EmitsPlain(f.bytes) \/ EmitsSet(f.bytes, Pool'),
         Fits' => /\ x1.h >= x1.b + Takes(f.bytes[1]) /\ x2.h = x1.h + Effect(f.bytes[1]) /\ x2.b = x1.b
                  /\ f.bytes[1] = OP_SET_LOCAL => f.bytes[2] < x1.b
  PROVE  Goes(f, x1, x2, c)
BY EmitMeans DEF Goes

\* So does one that patches a jump.
LEMMA GoesPatch ==
  ASSUME NEW f, f.at = "patch_jump", NEW x1 \in Spot, NEW x2 \in Spot, x1.d = scopeDepth', x2.d = x1.d, NEW c,
         ForwardJump(code', DOMAIN c, f.jump),
         Fits' => c[f.jump - 1] = x1.h /\ x1.h >= x1.b /\ x2.h = x1.h /\ x2.b = x1.b
  PROVE  Goes(f, x1, x2, c)
BY PatchMeans, Marks DEF Goes

\* So does one that ends a scope.
LEMMA GoesScope ==
  ASSUME NEW f, f.at \in {"for_initializer", "for_condition", "end_scope"}, NEW x1 \in Spot, NEW x2 \in Spot,
         x1.d = scopeDepth', x2.d = x1.d - 1, NEW c,
         Fits' => x1.h = x1.b /\ x2.h = x2.b /\ x2.b = opened'[x1.d]
  PROVE  Goes(f, x1, x2, c)
<1>1. x1.h \in Int /\ x1.b \in Int
  BY Marks
<1>2. PICK k, n, opens : k = code' /\ n = Pool' /\ opens = opened'
  OBVIOUS
<1>3. Runs(f, x1, x2, k, c, n) /\ (Fits' => Leads(f, x1, x2, c, opens))
  BY <1>1, <1>2, ScopeMeans DEF EndingFrames
<1>4. QED
  BY <1>2, <1>3 DEF Goes

\* So does the rest of a declaration.
LEMMA GoesDeclaration ==
  ASSUME NEW f, f.at \in DeclarationFrames, NEW x1 \in Spot, NEW x2 \in Spot, x1.d = scopeDepth', x2.d = x1.d, NEW c,
         x1.d > 0 \/ Listed(OP_DEFINE_GLOBAL, f.global, Pool'),
         Fits' => x1.h = x1.b + (IF f.at = "define_variable" THEN 1 ELSE 0) /\ x2.h = x2.b
  PROVE  Goes(f, x1, x2, c)
BY DeclarationMeans, Marks DEF Goes

\* So does the rest of an if statement.
LEMMA GoesIf ==
  ASSUME NEW f, f.at \in {"if_then", "if_else"}, NEW x1 \in Spot, NEW x2 \in Spot, x1.d = scopeDepth', x2.d = x1.d, NEW c,
         f.at = "if_else" => ForwardJump(code', DOMAIN c, f.then_jump),
         Fits' => /\ x2.h = x2.b /\ x2.b = x1.b
                  /\ f.at = "if_then" => x1.h = x1.b + 1
                  /\ f.at = "if_else" => x1.h = x1.b /\ c[f.then_jump - 1] = x1.h + 1
  PROVE  Goes(f, x1, x2, c)
<1>1. x1.h \in Int /\ x1.b \in Int
  BY Marks
<1>2. /\ f.at = "if_then" => ToPatch(f) = {} /\ Above(f) = 1 /\ \A h : Meets(f, c, h)
      /\ f.at = "if_else" => ToPatch(f) = {f.then_jump} /\ Above(f) = 0 /\ \A h : Meets(f, c, h) <=> c[f.then_jump - 1] = h + 1
      /\ Starting(f) = {} /\ f.at # "emit" /\ f.at \notin DeclarationFrames
      /\ f.at \notin ScopeFrames /\ f.at \notin ExpressionFrames /\ f.at \notin FreeFrames
  BY DEF ToPatch, Starting, DeclarationFrames, ScopeFrames, ForFrames, ExpressionFrames, FreeFrames, Above, Meets
<1>3. Runs(f, x1, x2, code', c, Pool')
  BY <1>2 DEF Runs, Descends, Places
<1>4. ASSUME Fits' PROVE Leads(f, x1, x2, c, opened')
  BY <1>1, <1>2, <1>4 DEF Leads
<1>5. QED
  BY <1>3, <1>4 DEF Goes

\* So does the rest of a loop after its condition.
LEMMA GoesCondition ==
  ASSUME NEW f, f.at \in {"while_body", "for_increment"}, NEW x1 \in Spot, NEW x2 \in Spot, x1.d = scopeDepth', NEW c,
         f.at = "for_increment" => x2.d = x1.d - 1, f.at = "while_body" => x2.d = x1.d, f.loop_start \in DOMAIN c,
         Fits' => /\ x1.h = x1.b + 1 /\ c[f.loop_start] = x1.b
                  /\ x2.h = x2.b
                  /\ f.at = "for_increment" => x2.b = opened'[x1.d]
                  /\ f.at = "while_body" => x2.b = x1.b
  PROVE  Goes(f, x1, x2, c)
<1>1. x1.h \in Int /\ x1.b \in Int
  BY Marks
<1>2. /\ ToPatch(f) = {} /\ \A h : Meets(f, c, h) <=> c[f.loop_start] = h - 1
      /\ Starting(f) = {f.loop_start} /\ f.at # "emit" /\ f.at \notin DeclarationFrames
      /\ f.at = "for_increment" => f.at \in ScopeFrames
      /\ f.at = "while_body" => f.at \notin ScopeFrames
      /\ f.at \notin ExpressionFrames /\ f.at \notin FreeFrames /\ Above(f) = 1
  BY DEF ToPatch, Starting, DeclarationFrames, ScopeFrames, ForFrames, ExpressionFrames, FreeFrames, Above, Meets
<1>3. Runs(f, x1, x2, code', c, Pool')
  BY <1>2 DEF Runs, Descends, Places
<1>4. ASSUME Fits' PROVE Leads(f, x1, x2, c, opened')
  BY <1>1, <1>2, <1>4 DEF Leads
<1>5. QED
  BY <1>3, <1>4 DEF Goes

\* So does the end of a loop.
LEMMA GoesLoopEnd ==
  ASSUME NEW f, f.at = "loop_end", NEW x1 \in Spot, NEW x2 \in Spot, x1.d = scopeDepth', x2.d = x1.d, NEW c,
         f.loop_start \in DOMAIN c, ForwardJump(code', DOMAIN c, f.exit_jump),
         Fits' => /\ x1.h = x1.b /\ x2.h = x2.b /\ x2.b = x1.b
                  /\ c[f.loop_start] = x1.h /\ c[f.exit_jump - 1] = x1.h + 1
  PROVE  Goes(f, x1, x2, c)
BY LoopEndMeans, Marks DEF Goes

\* So does the rest of a for statement with an increment.
LEMMA GoesForBody ==
  ASSUME NEW f, f.at = "for_body", NEW x1 \in Spot, NEW x2 \in Spot, x1.d = scopeDepth', x2.d = x1.d - 1, NEW c,
         f.loop_start \in DOMAIN c, f.increment_start \in DOMAIN c,
         ForwardJump(code', DOMAIN c, f.exit_jump), ForwardJump(code', DOMAIN c, f.body_jump),
         Fits' => /\ x1.h = x1.b /\ x2.h = x2.b /\ x2.b = opened'[x1.d]
                  /\ c[f.loop_start] = x1.h /\ c[f.exit_jump - 1] = x1.h + 1
                  /\ c[f.body_jump - 1] = x1.h /\ c[f.increment_start] = x1.h
  PROVE  Goes(f, x1, x2, c)
BY ForBodyMeans, Marks DEF Goes

\* The state in which a step starts.
LEMMA StepStarts ==
  ASSUME Stepping, NEW c, NEW x, NEW y, Entered(c, x, y)
  PROVE  /\ FramesOK /\ FramesOK' /\ todo # <<>> /\ frame \in Frame
         /\ code \in Seq(Byte) /\ code' \in Seq(Byte) /\ Len(code) \in Nat
         /\ x \in Spot /\ y \in Spot /\ x.h \in Int /\ x.b \in Int /\ x.d \in Nat /\ y.h \in Int /\ y.b \in Int /\ y.d \in Nat
         /\ scopeDepth \in Nat /\ x.d = scopeDepth
         /\ Chart(code, c, Pending(todo), Pool) /\ Len(code) \in DOMAIN c /\ c[Len(code)] \in Int
         /\ Runs(frame, x, y, code, c, Pool)
         /\ Fits' => /\ Fits /\ Level(code, c, Pending(todo)) /\ x.h = c[Len(code)] /\ x.b = OnStack
                     /\ Leads(frame, x, y, c, opened) /\ 0 <= x.b
<1>0. FramesOK /\ todo # <<>>
  BY DEF Stepping, IInv, Types
<1>1. FramesOK /\ FramesOK' /\ todo # <<>> /\ code \in Seq(Byte) /\ code' \in Seq(Byte)
      /\ Types /\ Types'
  BY DEF Stepping, IInv, Types, ChunkOK
<1>2. frame \in Frame
  BY <1>0, FrameFields, Zenon
<1>3. x \in Spot /\ y \in Spot /\ x.h \in Int /\ x.b \in Int /\ x.d \in Nat /\ y.h \in Int /\ y.b \in Int /\ y.d \in Nat
      /\ x.d = scopeDepth
  BY Marks DEF Entered
<1>4. Chart(code, c, Pending(todo), Pool) /\ Runs(frame, x, y, code, c, Pool)
  BY DEF Entered
<1>5. Len(code) \in DOMAIN c /\ c[Len(code)] \in Int /\ Len(code) \in Nat
  BY <1>1, <1>4, ChartEnd
<1>6. 0 <= OnStack
  <2>1. Len(locals) \in Nat
    BY <1>1 DEF Types, LocalsOK
  <2>2. CASE \E i \in 1 .. Len(locals) : locals[i].depth = NoDepth
    BY <2>1, <2>2 DEF OnStack
  <2>3. CASE ~ \E i \in 1 .. Len(locals) : locals[i].depth = NoDepth
    BY <2>1, <2>3 DEF OnStack
  <2>4. QED
    BY <2>2, <2>3
<1>7. Fits' => Fits /\ Level(code, c, Pending(todo)) /\ x.h = c[Len(code)] /\ x.b = OnStack
                     /\ Leads(frame, x, y, c, opened) /\ 0 <= x.b
  BY <1>6, FitsBefore DEF Entered
<1>8. QED
  BY <1>1, <1>2, <1>3, <1>4, <1>5, <1>7

\* A step that emits nothing.
LEMMA WrittenSame ==
  ASSUME Stepping, NEW c, NEW x, NEW y, Entered(c, x, y), code' = code, Pool \subseteq Pool',
         Pending(todo) \subseteq Pending(todo'),
         NEW x1 \in Spot, x1.d = scopeDepth', Fits' => x1.h = x.h /\ x1.b = OnStack'
  PROVE  Written(c, x1, c)
<1>1. /\ code \in Seq(Byte)
      /\ Chart(code, c, Pending(todo), Pool)
      /\ Fits' => Level(code, c, Pending(todo)) /\ x.h = c[Len(code)]
  BY StepStarts
<1>2. PICK P2, n2 : P2 = Pending(todo') /\ n2 = Pool'
  OBVIOUS
<1>3. Chart(code, c, P2, n2) /\ (Level(code, c, Pending(todo)) => Level(code, c, P2))
  BY <1>1, <1>2, ChartWeakens
<1>4. Extends(code, c, code, c)
  BY <1>1 DEF Extends
<1>5. QED
  BY <1>1, <1>2, <1>3, <1>4 DEF Written, Becomes

\* A step that emits code.
LEMMA WrittenMore ==
  ASSUME Stepping, NEW c, NEW c2, Becomes(code, c, code', c2, Pending(todo'), Pool'),
         Pool \subseteq Pool',
         NEW x1 \in Spot, x1.d = scopeDepth',
         Fits' => Level(code', c2, Pending(todo')) /\ x1.h = c2[Len(code')] /\ x1.b = OnStack'
  PROVE  Written(c, x1, c2)
BY DEF Written

\* The locals on the stack are those declared.
LEMMA StackStays ==
  ASSUME UNCHANGED locals
  PROVE  OnStack' = OnStack
BY DEF OnStack

-----------------------------------------------------------------------------
(***************************************************************************)
(* Each action, for the call that it is a step of.                         *)
(***************************************************************************)

\* The step leads from the innermost call to where that was to end.
Lands(c, y) == \E c2 : \E k \in 0 .. 4 : \E xs : Moves(c, y, c2, k, xs)

\* Operands that are to be patched stay so until the call that patches them.
LEMMA PendingKept ==
  ASSUME Stepping
  PROVE  Pending(todo) \ ToPatch(frame) \subseteq Pending(todo')
<1>1. FramesOK /\ FramesOK' /\ todo # <<>> /\ Types
  BY DEF Stepping, IInv, Types
<1>2. \/ InExpression \/ InStatement \/ InFor \/ OpensScope \/ ClosesScope
      \/ StartsVariable \/ InitializesVariable \/ DefinesVariable
  BY <1>1, StepKinds DEF Stepping
<1>3. \E k \in 0 .. 4 : Grows(k)
  BY <1>2 DEF InExpression, InStatement, InFor, OpensScope, ClosesScope, StartsVariable, InitializesVariable,
     DefinesVariable, Pushes, PushesThen
<1>4. QED
  BY <1>1, <1>3, PendingSteps

\* A step that emits nothing and leaves the scopes alone.
LEMMA QuietStep ==
  ASSUME Stepping, NEW c, NEW x, NEW y, Entered(c, x, y), code' = code, UNCHANGED scopeVars,
         Pool \subseteq Pool', ToPatch(frame) = {}
  PROVE  Written(c, x, c)
<1>1. x \in Spot /\ x.d = scopeDepth' /\ (Fits' => x.b = OnStack)
  BY StepStarts DEF scopeVars
<1>2. OnStack' = OnStack
  BY StackStays DEF scopeVars
<1>3. Pending(todo) \subseteq Pending(todo')
  BY PendingKept
<1>4. QED
  BY <1>1, <1>2, <1>3, WrittenSame

\* A function without C++ locals, outside of expressions, starts with the locals on the stack.
LEMMA PlainStarts ==
  ASSUME Stepping, NEW c, NEW x, NEW y, Entered(c, x, y), frame.at \in PlainFrames
  PROVE  /\ ToPatch(frame) = {} /\ y.d = x.d
         /\ Fits' => x.h = x.b /\ y.h = y.b /\ (frame.at \in FreeFrames \/ y.b = x.b)
<1>1. x.b \in Int /\ Runs(frame, x, y, code, c, Pool) /\ (Fits' => Leads(frame, x, y, c, opened))
  BY StepStarts
<1>2. ToPatch(frame) = {}
  BY NothingToPatch DEF PlainFrames
<1>3. /\ Runs(frame, x, y, code, c, Pool) <=> y.d = x.d
      /\ x.b \in Int => (Leads(frame, x, y, c, opened) <=>
                           x.h = x.b /\ y.h = y.b /\ (frame.at \in FreeFrames \/ y.b = x.b))
  BY PlainMeans, Zenon
<1>4. QED
  BY <1>1, <1>2, <1>3

\* The functions, by what they do to locals.
LEMMA Kinds ==
  /\ "advance" \in PlainFrames /\ "compile" \in PlainFrames /\ "declaration" \in PlainFrames
  /\ "recover" \in PlainFrames /\ "synchronize" \in PlainFrames /\ "var_declaration" \in PlainFrames
  /\ "parse_variable" \in PlainFrames /\ "statement" \in PlainFrames /\ "expression_statement" \in PlainFrames
  /\ "block" \in PlainFrames
  /\ "compile" \in FreeFrames /\ "declaration" \in FreeFrames /\ "recover" \in FreeFrames
  /\ "var_declaration" \in FreeFrames /\ "parse_variable" \in FreeFrames /\ "block" \in FreeFrames
  /\ "initializer" \in FreeFrames /\ "define_variable" \in FreeFrames
  /\ "advance" \notin FreeFrames /\ "synchronize" \notin FreeFrames /\ "statement" \notin FreeFrames
  /\ "expression_statement" \notin FreeFrames /\ "parse_precedence" \notin FreeFrames
  /\ "prefix" \notin FreeFrames /\ "infix" \notin FreeFrames /\ "consume" \notin FreeFrames
  /\ "emit" \notin FreeFrames /\ "patch_jump" \notin FreeFrames /\ "while_body" \notin FreeFrames
  /\ "loop_end" \notin FreeFrames /\ "if_then" \notin FreeFrames /\ "if_else" \notin FreeFrames
  /\ "for_initializer" \notin FreeFrames /\ "for_condition" \notin FreeFrames /\ "for_increment" \notin FreeFrames
  /\ "for_body" \notin FreeFrames /\ "end_scope" \notin FreeFrames
  /\ "recover" \in LooseFrames /\ "block" \in LooseFrames /\ "compile" \in LooseFrames
  /\ "for_condition" \in LooseFrames /\ "end_scope" \in LooseFrames
  /\ "initializer" \in DeclarationFrames /\ "define_variable" \in DeclarationFrames
BY DEF PlainFrames, FreeFrames, LooseFrames, DeclarationFrames

\* Calls of functions without arguments.
LEMMA PlainCalls ==
  /\ \A f \in PlainFrames : Call(f) \in Frame /\ Call(f).at = f
  /\ \A f \in {"if_then", "end_scope", "for_initializer", "for_condition"} : Call(f) \in Frame /\ Call(f).at = f
<1>1. ASSUME NEW f \in PlainFrames \union {"if_then", "end_scope", "for_initializer", "for_condition"}
      PROVE  Call(f) \in Frame
  BY MakesFrames, Zenon
<1>2. \A f : Call(f).at = f
  BY DEF Call
<1>3. QED
  BY <1>1, <1>2

\* The first token.
LEMMA LandsFirstAdvance ==
  ASSUME Stepping, NEW c, NEW x, NEW y, Entered(c, x, y), FirstAdvance
  PROVE  Lands(c, y)
<1>1. frame.at = "advance" /\ Then(<<>>) /\ code' = code /\ UNCHANGED scopeVars /\ constants' = constants
  BY DEF FirstAdvance, At, chunkVars
<1>2. frame.at \in PlainFrames /\ frame.at \notin FreeFrames
  BY <1>1 DEF PlainFrames, FreeFrames, DeclarationFrames
<1>3. ToPatch(frame) = {} /\ y.d = x.d /\ (Fits' => x.h = x.b /\ y.h = y.b /\ y.b = x.b)
  BY <1>2, PlainStarts
<1>4. y \in Spot /\ x \in Spot /\ x.d = scopeDepth /\ (Fits' => x.b = OnStack)
  BY StepStarts
<1>5. Written(c, y, c)
  <2>1. Pending(todo) \subseteq Pending(todo') /\ OnStack' = OnStack
    BY <1>1, <1>3, PendingKept, StackStays DEF scopeVars
  <2>2. QED
    BY <1>1, <1>3, <1>4, <2>1, WrittenSame, PoolKept DEF scopeVars
<1>6. Joins(y, y)
  BY DEF Joins
<1>7. QED
  BY <1>1, <1>4, <1>5, <1>6, MovesNone DEF Lands

\* A declaration, and then the rest of the file.
LEMMA LandsCompile ==
  ASSUME Stepping, NEW c, NEW x, NEW y, Entered(c, x, y), Compile, ~Sees("eof")
  PROVE  Lands(c, y)
<1>1. /\ frame.at = "compile" /\ Then(<<Call("declaration"), Call("compile")>>)
      /\ code' = code /\ UNCHANGED scopeVars /\ constants' = constants
  BY DEF Compile, At
<1>2. frame.at \in PlainFrames /\ frame.at \in FreeFrames
  BY <1>1 DEF PlainFrames, FreeFrames
<1>3. ToPatch(frame) = {} /\ y.d = x.d /\ (Fits' => x.h = x.b /\ y.h = y.b)
  BY <1>2, PlainStarts
<1>4. y \in Spot /\ x \in Spot /\ x.d = scopeDepth'
  BY <1>1, StepStarts DEF scopeVars
<1>5. Written(c, x, c)
  BY <1>1, <1>3, <1>4, QuietStep, PoolKept
<1>6. PICK f1, f2 : f1 = Call("declaration") /\ f2 = Call("compile")
  OBVIOUS
<1>7. /\ f1 \in Frame /\ f2 \in Frame /\ f1.at = "declaration" /\ f2.at = "compile"
      /\ f1.at \in PlainFrames /\ f2.at \in PlainFrames /\ f1.at \in FreeFrames
      /\ f2.at \in FreeFrames /\ f2.at \in LooseFrames
  BY <1>6, PlainCalls, Kinds
<1>8. Goes(f1, x, x, c) /\ Goes(f2, x, y, c)
  BY <1>3, <1>4, <1>7, GoesPlain
<1>9. Joins(y, y)
  BY DEF Joins
<1>10. \E k \in 0 .. 4 : \E xs : Moves(c, y, c, k, xs)
  BY <1>1, <1>2, <1>4, <1>5, <1>6, <1>7, <1>8, <1>9, MovesTwo
<1>11. QED
  BY <1>10 DEF Lands

\* What declaration calls.
LEMMA LandsDeclaration ==
  ASSUME Stepping, NEW c, NEW x, NEW y, Entered(c, x, y), Declaration
  PROVE  Lands(c, y)
<1>1. PICK f1, f2 : /\ f1 = (IF Sees("var") THEN Call("var_declaration") ELSE Call("statement"))
                    /\ f2 = Call("recover")
  OBVIOUS
<1>2. /\ frame.at = "declaration" /\ Then(<<f1, f2>>)
      /\ code' = code /\ UNCHANGED scopeVars /\ constants' = constants
  BY <1>1 DEF Declaration, At, chunkVars
<1>3. frame.at \in PlainFrames /\ frame.at \in FreeFrames /\ frame.at # "compile"
  BY <1>2 DEF PlainFrames, FreeFrames
<1>4. ToPatch(frame) = {} /\ y.d = x.d /\ (Fits' => x.h = x.b /\ y.h = y.b)
  BY <1>3, PlainStarts
<1>5. y \in Spot /\ x \in Spot /\ x.d = scopeDepth'
  BY <1>2, StepStarts DEF scopeVars
<1>6. Written(c, x, c)
  BY <1>2, <1>4, <1>5, QuietStep, PoolKept
<1>7. f1 \in Frame /\ f1.at \in PlainFrames /\ f1.at # "compile"
  BY <1>1, PlainCalls, Kinds
<1>8. f2 \in Frame /\ f2.at = "recover" /\ f2.at \in PlainFrames /\ f2.at # "compile"
      /\ f2.at \in FreeFrames /\ f2.at \in LooseFrames
  BY <1>1, PlainCalls, Kinds
<1>9. Goes(f1, x, x, c) /\ Goes(f2, x, y, c)
  BY <1>4, <1>5, <1>7, <1>8, GoesPlain
<1>10. Joins(y, y)
  BY DEF Joins
<1>11. \E k \in 0 .. 4 : \E xs : Moves(c, y, c, k, xs)
  BY <1>2, <1>3, <1>5, <1>6, <1>7, <1>8, <1>9, <1>10, MovesTwo
<1>12. QED
  BY <1>11 DEF Lands

\* After a declaration without an error there is nothing to recover from.
LEMMA LandsRecover ==
  ASSUME Stepping, NEW c, NEW x, NEW y, Entered(c, x, y), Recover
  PROVE  Lands(c, y)
<1>1. ~panicMode
  BY DEF Recover, Stepping, IInv, Types, ParserOK
<1>2. /\ frame.at = "recover" /\ Then(<<>>)
      /\ code' = code /\ UNCHANGED scopeVars /\ constants' = constants
  BY <1>1 DEF Recover, At, chunkVars
<1>3. frame.at \in PlainFrames /\ frame.at \in FreeFrames
  BY <1>2, Kinds
<1>4. ToPatch(frame) = {} /\ y.d = x.d /\ (Fits' => x.h = x.b)
  BY <1>3, PlainStarts
<1>5. y \in Spot /\ x \in Spot
  BY <1>2, StepStarts DEF scopeVars
<1>6. Written(c, x, c)
  BY <1>2, <1>4, <1>5, QuietStep, PoolKept
<1>7. Joins(x, y)
  BY <1>3, <1>4, <1>5 DEF Joins
<1>8. QED
  BY <1>2, <1>5, <1>6, <1>7, MovesNone DEF Lands

\* A round of synchronize.
LEMMA LandsSynchronize ==
  ASSUME Stepping, NEW c, NEW x, NEW y, Entered(c, x, y), Synchronize
  PROVE  Lands(c, y)
<1>0. (Then(<<>>) \/ todo' = todo) /\ frame.at = "synchronize" /\ UNCHANGED <<scopeVars, chunkVars>>
  BY Zenon DEF Synchronize, At
<1>1. /\ frame.at = "synchronize"
      /\ code' = code /\ UNCHANGED scopeVars /\ constants' = constants
  BY <1>0 DEF chunkVars
<1>2. frame.at \in PlainFrames /\ frame.at \notin FreeFrames /\ frame.at # "compile"
  BY <1>1, Kinds
<1>3. ToPatch(frame) = {} /\ y.d = x.d /\ (Fits' => x.h = x.b /\ y.h = y.b /\ y.b = x.b)
  BY <1>2, PlainStarts
<1>4. /\ y \in Spot /\ x \in Spot /\ x.d = scopeDepth' /\ frame \in Frame
      /\ FramesOK /\ todo # <<>> /\ (Fits' => x.b = OnStack)
  BY <1>1, StepStarts DEF scopeVars
<1>5. Joins(y, y)
  BY DEF Joins
<1>6. CASE Then(<<>>)
  <2>1. Pending(todo) \subseteq Pending(todo') /\ OnStack' = OnStack
    BY <1>1, <1>3, PendingKept, StackStays DEF scopeVars
  <2>2. Written(c, y, c)
    BY <1>1, <1>3, <1>4, <2>1, WrittenSame, PoolKept
  <2>3. QED
    BY <1>4, <1>5, <1>6, <2>2, MovesNone DEF Lands
<1>7. CASE todo' = todo
  <2>1. PICK f1 : f1 = frame
    OBVIOUS
  <2>2. Then(<<f1>>)
    <3>1. todo = <<Head(todo)>> \o Tail(todo)
      <4>1. \A s \in Seq(Frame) : s # <<>> => s = <<Head(s)>> \o Tail(s)
        OBVIOUS
      <4>2. QED
        BY <1>4, <4>1 DEF FramesOK
    <3>2. QED
      BY <1>7, <2>1, <3>1 DEF Then, frame
  <2>3. Written(c, x, c)
    BY <1>1, <1>3, <1>4, QuietStep, PoolKept
  <2>4. Goes(f1, x, y, c)
    BY <1>2, <1>3, <1>4, <2>1, GoesPlain
  <2>5. \E k \in 0 .. 4 : \E xs : Moves(c, y, c, k, xs)
    BY <1>2, <1>4, <1>5, <2>1, <2>2, <2>3, <2>4, MovesOne
  <2>6. QED
    BY <2>5 DEF Lands
<1>8. QED
  BY <1>0, <1>6, <1>7

\* The end of an expression that starts at a spot.
LEMMA Higher ==
  ASSUME NEW x \in Spot, NEW v \in Int
  PROVE  \E m \in Spot : m.h = x.h + v /\ m.b = x.b /\ m.d = x.d
<1>1. x.h \in Int /\ x.b \in Int /\ x.d \in Nat
  BY Marks
<1>2. PICK h, b, d : h = x.h + v /\ b = x.b /\ d = x.d
  OBVIOUS
<1>3. Mark(h, b, d) \in Spot /\ Mark(h, b, d).h = h /\ Mark(h, b, d).b = b /\ Mark(h, b, d).d = d
  BY <1>1, <1>2, Marks
<1>4. QED
  BY <1>2, <1>3

\* The calls that expressions are made of.
LEMMA ExpressionCalls ==
  /\ \A p \in PREC_ASSIGNMENT .. PREC_UNARY : Parse(p) \in Frame /\ Parse(p).at = "parse_precedence"
  /\ Expression \in Frame /\ Expression.at = "parse_precedence"
  /\ Parse(PREC_UNARY) \in Frame /\ Parse(PREC_UNARY).at = "parse_precedence"
  /\ Parse(PREC_AND) \in Frame /\ Parse(PREC_AND).at = "parse_precedence"
  /\ \A t \in {"identifier", ";", "(", ")", "}"} : Consume(t) \in Frame /\ Consume(t).at = "consume"
  /\ \A b \in Seq(Byte) : Emit(b) \in Frame /\ Emit(b).at = "emit" /\ Emit(b).bytes = b
  /\ \A j \in Int : Patch(j) \in Frame /\ Patch(j).at = "patch_jump" /\ Patch(j).jump = j
<1>1. (\A b : Emit(b).bytes = b) /\ (\A j : Patch(j).jump = j)
  BY DEF Emit, Patch
<1>2. /\ \A p \in PREC_ASSIGNMENT .. PREC_UNARY : Parse(p) \in Frame
      /\ \A t \in {"identifier", ";", "(", ")", "}"} : Consume(t) \in Frame
      /\ \A b \in Seq(Byte) : Emit(b) \in Frame
      /\ \A j \in Int : Patch(j) \in Frame
  BY MakesFrames, Zenon
<1>3. QED
  BY <1>1, <1>2, KindOf, Expressions, Zenon

-----------------------------------------------------------------------------
(***************************************************************************)
(* The calls that an action makes, in the order in which they run.         *)
(***************************************************************************)

\* What takes the place of the innermost call are frames.
LEMMA ThenFrames ==
  ASSUME FramesOK, FramesOK', todo # <<>>, NEW S, NEW s \in Seq(S), Then(s)
  PROVE  \A i \in 1 .. Len(s) : s[i] \in Frame
<1>1. PICK t : t = Tail(todo)
  OBVIOUS
<1>2. PICK u : u = todo'
  OBVIOUS
<1>3. u = s \o t /\ u \in Seq(Frame)
  BY <1>1, <1>2 DEF Then, FramesOK
<1>4. t \in Seq(Frame)
  BY <1>1, HeadTailProperties DEF FramesOK
<1>5. Len(u) = Len(s) + Len(t) /\ \A i \in 1 .. Len(s) : u[i] = s[i]
  BY <1>3, <1>4
<1>6. Len(s) \in Nat /\ Len(t) \in Nat /\ \A i \in 1 .. Len(u) : u[i] \in Frame
  BY <1>3, <1>4
<1>7. QED
  BY <1>5, <1>6

\* A call other than a declaration, in place of one other than compile.
Leaps(f, x, y, c) == f.at # "compile" /\ f.at \notin FreeFrames /\ Goes(f, x, y, c)

\* A step that pushes one call lands where that call is to lead.
LEMMA LeapsOne ==
  ASSUME Stepping, NEW c, NEW y \in Spot, NEW c2, NEW f1, Then(<<f1>>), NEW x1,
         Written(c, x1, c2), frame.at # "compile", Leaps(f1, x1, y, c2)
  PROVE  Lands(c, y)
<1>1. <<f1>> \in Seq({f1}) /\ Len(<<f1>>) = 1 /\ <<f1>>[1] = f1 /\ FramesOK /\ FramesOK' /\ todo # <<>>
  BY DEF Stepping, IInv, Types
<1>2. \A i \in 1 .. Len(<<f1>>) : <<f1>>[i] \in Frame
  BY <1>1, ThenFrames
<1>3. f1 \in Frame
  BY <1>1, <1>2
<1>4. f1.at # "compile" /\ f1.at \notin FreeFrames /\ Goes(f1, x1, y, c2) /\ Joins(y, y)
  BY DEF Leaps, Joins
<1>5. \E k \in 0 .. 4 : \E xs : Moves(c, y, c2, k, xs)
  BY <1>3, <1>4, MovesOne
<1>6. QED
  BY <1>5 DEF Lands

\* A step that pushes two calls lands where the second is to lead.
LEMMA LeapsTwo ==
  ASSUME Stepping, NEW c, NEW y \in Spot, NEW c2, NEW f1, NEW f2, Then(<<f1, f2>>), NEW x1, NEW x2,
         Written(c, x1, c2), frame.at # "compile", Leaps(f1, x1, x2, c2), Leaps(f2, x2, y, c2)
  PROVE  Lands(c, y)
<1>1. <<f1, f2>> \in Seq({f1, f2}) /\ Len(<<f1, f2>>) = 2 /\ <<f1, f2>>[1] = f1 /\ <<f1, f2>>[2] = f2
      /\ FramesOK /\ FramesOK' /\ todo # <<>>
  BY DEF Stepping, IInv, Types
<1>2. \A i \in 1 .. Len(<<f1, f2>>) : <<f1, f2>>[i] \in Frame
  BY <1>1, ThenFrames
<1>3. f1 \in Frame /\ f2 \in Frame
  BY <1>1, <1>2
<1>4. /\ f1.at # "compile" /\ f1.at \notin FreeFrames /\ Goes(f1, x1, x2, c2)
      /\ f2.at # "compile" /\ f2.at \notin FreeFrames /\ Goes(f2, x2, y, c2) /\ Joins(y, y)
  BY DEF Leaps, Joins
<1>5. \E k \in 0 .. 4 : \E xs : Moves(c, y, c2, k, xs)
  BY <1>3, <1>4, MovesTwo
<1>6. QED
  BY <1>5 DEF Lands

\* A step that pushes three calls lands where the last is to lead.
LEMMA LeapsThree ==
  ASSUME Stepping, NEW c, NEW y \in Spot, NEW c2, NEW f1, NEW f2, NEW f3, Then(<<f1, f2, f3>>),
         NEW x1, NEW x2, NEW x3, Written(c, x1, c2), frame.at # "compile",
         Leaps(f1, x1, x2, c2), Leaps(f2, x2, x3, c2), Leaps(f3, x3, y, c2)
  PROVE  Lands(c, y)
<1>1. /\ <<f1, f2, f3>> \in Seq({f1, f2, f3}) /\ Len(<<f1, f2, f3>>) = 3
      /\ <<f1, f2, f3>>[1] = f1 /\ <<f1, f2, f3>>[2] = f2 /\ <<f1, f2, f3>>[3] = f3
      /\ FramesOK /\ FramesOK' /\ todo # <<>>
  BY DEF Stepping, IInv, Types
<1>2. \A i \in 1 .. Len(<<f1, f2, f3>>) : <<f1, f2, f3>>[i] \in Frame
  BY <1>1, ThenFrames
<1>3. f1 \in Frame /\ f2 \in Frame /\ f3 \in Frame
  BY <1>1, <1>2
<1>4. /\ f1.at # "compile" /\ f1.at \notin FreeFrames /\ Goes(f1, x1, x2, c2)
      /\ f2.at # "compile" /\ f2.at \notin FreeFrames /\ Goes(f2, x2, x3, c2)
      /\ f3.at # "compile" /\ f3.at \notin FreeFrames /\ Goes(f3, x3, y, c2) /\ Joins(y, y)
  BY DEF Leaps, Joins
<1>5. \E k \in 0 .. 4 : \E xs : Moves(c, y, c2, k, xs)
  BY <1>3, <1>4, MovesThree
<1>6. QED
  BY <1>5 DEF Lands

\* A step that pushes four calls lands where the last is to lead.
LEMMA LeapsFour ==
  ASSUME Stepping, NEW c, NEW y \in Spot, NEW c2, NEW f1, NEW f2, NEW f3, NEW f4, Then(<<f1, f2, f3, f4>>),
         NEW x1, NEW x2, NEW x3, NEW x4, Written(c, x1, c2), frame.at # "compile",
         Leaps(f1, x1, x2, c2), Leaps(f2, x2, x3, c2), Leaps(f3, x3, x4, c2), Leaps(f4, x4, y, c2)
  PROVE  Lands(c, y)
<1>1. /\ <<f1, f2, f3, f4>> \in Seq({f1, f2, f3, f4}) /\ Len(<<f1, f2, f3, f4>>) = 4
      /\ <<f1, f2, f3, f4>>[1] = f1 /\ <<f1, f2, f3, f4>>[2] = f2
      /\ <<f1, f2, f3, f4>>[3] = f3 /\ <<f1, f2, f3, f4>>[4] = f4
      /\ FramesOK /\ FramesOK' /\ todo # <<>>
  BY DEF Stepping, IInv, Types
<1>2. \A i \in 1 .. Len(<<f1, f2, f3, f4>>) : <<f1, f2, f3, f4>>[i] \in Frame
  BY <1>1, ThenFrames
<1>3. f1 \in Frame /\ f2 \in Frame /\ f3 \in Frame /\ f4 \in Frame
  BY <1>1, <1>2
<1>4. /\ f1.at # "compile" /\ f1.at \notin FreeFrames /\ Goes(f1, x1, x2, c2)
      /\ f2.at # "compile" /\ f2.at \notin FreeFrames /\ Goes(f2, x2, x3, c2)
      /\ f3.at # "compile" /\ f3.at \notin FreeFrames /\ Goes(f3, x3, x4, c2)
      /\ f4.at # "compile" /\ f4.at \notin FreeFrames /\ Goes(f4, x4, y, c2) /\ Joins(y, y)
  BY DEF Leaps, Joins
<1>5. \E k \in 0 .. 4 : \E xs : Moves(c, y, c2, k, xs)
  BY <1>3, <1>4, MovesFour
<1>6. QED
  BY <1>5 DEF Lands

\* An expression, which pushes its value.
LEMMA LeapsParse ==
  ASSUME NEW p, NEW x1 \in Spot, NEW x2 \in Spot, x1.d = scopeDepth', x2.d = x1.d, NEW c,
         Fits' => x1.h >= x1.b /\ x2.h = x1.h + 1 /\ x2.b = x1.b
  PROVE  Leaps(Parse(p), x1, x2, c) /\ Leaps([at |-> "prefix", precedence |-> p], x1, x2, c)
<1>1. Parse(p).at = "parse_precedence" /\ [at |-> "prefix", precedence |-> p].at = "prefix"
  BY DEF Parse
<1>2. ASSUME NEW f, f.at = "parse_precedence" \/ f.at = "prefix"
      PROVE  Leaps(f, x1, x2, c)
  <2>1. f.at # "compile" /\ f.at \notin FreeFrames
    BY <1>2, Kinds
  <2>2. Goes(f, x1, x2, c)
    BY <1>2, GoesParse
  <2>3. QED
    BY <2>1, <2>2 DEF Leaps
<1>3. QED
  BY <1>1, <1>2

\* expression() pushes a value.
LEMMA LeapsExpression ==
  ASSUME NEW x1 \in Spot, NEW x2 \in Spot, x1.d = scopeDepth', x2.d = x1.d, NEW c,
         Fits' => x1.h >= x1.b /\ x2.h = x1.h + 1 /\ x2.b = x1.b
  PROVE  Leaps(Expression, x1, x2, c)
BY LeapsParse DEF Expression

\* consume.
LEMMA LeapsConsume ==
  ASSUME NEW t, NEW x1 \in Spot, NEW x2 \in Spot, x1.d = scopeDepth', x2.d = x1.d, NEW c,
         Fits' => x1.h >= x1.b /\ x2.h = x1.h /\ x2.b = x1.b
  PROVE  Leaps(Consume(t), x1, x2, c)
<1>1. PICK f : f = Consume(t)
  OBVIOUS
<1>2. f.at = "consume"
  BY <1>1 DEF Consume
<1>3. f.at # "compile" /\ f.at \notin FreeFrames
  BY <1>2, Kinds
<1>4. Goes(f, x1, x2, c)
  BY <1>2, GoesRest
<1>5. QED
  BY <1>1, <1>3, <1>4 DEF Leaps

\* The rest of an expression, when its value is on the stack.
LEMMA LeapsInfix ==
  ASSUME NEW x1 \in Spot, NEW x2 \in Spot, x1.d = scopeDepth', x2.d = x1.d, NEW c,
         Fits' => x1.h >= x1.b + 1 /\ x2.h = x1.h /\ x2.b = x1.b
  PROVE  Leaps(Infix, x1, x2, c)
<1>1. PICK f : f = Infix
  OBVIOUS
<1>2. f.at = "infix"
  BY <1>1 DEF Infix
<1>3. f.at # "compile" /\ f.at \notin FreeFrames
  BY <1>2, Kinds
<1>4. x1.h \in Int /\ x1.b \in Int
  BY Marks
<1>5. Goes(f, x1, x2, c)
  BY <1>2, <1>4, GoesRest
<1>6. QED
  BY <1>1, <1>3, <1>5 DEF Leaps

\* emit_byte and emit_bytes.
LEMMA LeapsEmit ==
  ASSUME NEW bytes, NEW x1 \in Spot, NEW x2 \in Spot, x1.d = scopeDepth', x2.d = x1.d, NEW c,
         EmitsPlain(bytes) \/ EmitsSet(bytes, Pool'),
         Fits' => /\ x1.h >= x1.b + Takes(bytes[1]) /\ x2.h = x1.h + Effect(bytes[1]) /\ x2.b = x1.b
                  /\ bytes[1] = OP_SET_LOCAL => bytes[2] < x1.b
  PROVE  Leaps(Emit(bytes), x1, x2, c)
<1>1. PICK f : f = Emit(bytes)
  OBVIOUS
<1>2. f.at = "emit" /\ f.bytes = bytes
  BY <1>1 DEF Emit
<1>3. f.at # "compile" /\ f.at \notin FreeFrames
  BY <1>2, Kinds
<1>4. Goes(f, x1, x2, c)
  BY <1>2, GoesEmit
<1>5. QED
  BY <1>1, <1>3, <1>4 DEF Leaps

\* The jump over the right operand of "and", and over an else branch.
LEMMA LeapsPatch ==
  ASSUME NEW j, NEW x1 \in Spot, NEW x2 \in Spot, x1.d = scopeDepth', x2.d = x1.d, NEW c,
         ForwardJump(code', DOMAIN c, j),
         Fits' => c[j - 1] = x1.h /\ x1.h >= x1.b /\ x2.h = x1.h /\ x2.b = x1.b
  PROVE  Leaps(Patch(j), x1, x2, c)
<1>1. PICK f : f = Patch(j)
  OBVIOUS
<1>2. f.at = "patch_jump" /\ f.jump = j
  BY <1>1 DEF Patch
<1>3. f.at # "compile" /\ f.at \notin FreeFrames
  BY <1>2, Kinds
<1>4. Goes(f, x1, x2, c)
  BY <1>2, GoesPatch
<1>5. QED
  BY <1>1, <1>3, <1>4 DEF Leaps

\* A statement.
LEMMA LeapsStatement ==
  ASSUME NEW x1 \in Spot, NEW x2 \in Spot, x1.d = scopeDepth', x2.d = x1.d, NEW c,
         Fits' => x1.h = x1.b /\ x2.h = x2.b /\ x2.b = x1.b
  PROVE  Leaps(Call("statement"), x1, x2, c) /\ Leaps(Call("expression_statement"), x1, x2, c)
         /\ Leaps(Call("synchronize"), x1, x2, c)
<1>1. ASSUME NEW f, f.at = "statement" \/ f.at = "expression_statement" \/ f.at = "synchronize"
      PROVE  Leaps(f, x1, x2, c)
  <2>1. f.at # "compile" /\ f.at \notin FreeFrames /\ f.at \in PlainFrames
    BY <1>1, Kinds
  <2>2. Goes(f, x1, x2, c)
    BY <2>1, GoesPlain
  <2>3. QED
    BY <2>1, <2>2 DEF Leaps
<1>2. \A f : Call(f).at = f
  BY DEF Call
<1>3. QED
  BY <1>1, <1>2

\* The end of a scope.
LEMMA LeapsScope ==
  ASSUME NEW x1 \in Spot, NEW x2 \in Spot, x1.d = scopeDepth', x2.d = x1.d - 1, NEW c,
         Fits' => x1.h = x1.b /\ x2.h = x2.b /\ x2.b = opened'[x1.d]
  PROVE  Leaps(Call("for_initializer"), x1, x2, c) /\ Leaps(Call("for_condition"), x1, x2, c)
         /\ Leaps(Call("end_scope"), x1, x2, c)
<1>1. ASSUME NEW f, f.at = "for_initializer" \/ f.at = "for_condition" \/ f.at = "end_scope"
      PROVE  Leaps(f, x1, x2, c)
  <2>1. f.at # "compile" /\ f.at \notin FreeFrames
    BY <1>1, Kinds
  <2>2. Goes(f, x1, x2, c)
    BY <1>1, GoesScope
  <2>3. QED
    BY <2>1, <2>2 DEF Leaps
<1>2. \A f : Call(f).at = f
  BY DEF Call
<1>3. QED
  BY <1>1, <1>2

\* The branches of an if.
LEMMA LeapsThen ==
  ASSUME NEW x1 \in Spot, NEW x2 \in Spot, x1.d = scopeDepth', x2.d = x1.d, NEW c,
         Fits' => x1.h = x1.b + 1 /\ x2.h = x2.b /\ x2.b = x1.b
  PROVE  Leaps(Call("if_then"), x1, x2, c)
<1>1. PICK f : f = Call("if_then")
  OBVIOUS
<1>2. f.at = "if_then"
  BY <1>1 DEF Call
<1>3. f.at # "compile" /\ f.at \notin FreeFrames /\ f.at # "if_else"
  BY <1>2, Kinds
<1>4. Goes(f, x1, x2, c)
  BY <1>2, <1>3, GoesIf
<1>5. QED
  BY <1>1, <1>3, <1>4 DEF Leaps

\* The rest of an if statement finds its condition again at then_jump.
LEMMA LeapsElse ==
  ASSUME NEW j, NEW x1 \in Spot, NEW x2 \in Spot, x1.d = scopeDepth', x2.d = x1.d, NEW c,
         ForwardJump(code', DOMAIN c, j),
         Fits' => x1.h = x1.b /\ x2.h = x2.b /\ x2.b = x1.b /\ c[j - 1] = x1.h + 1
  PROVE  Leaps([at |-> "if_else", then_jump |-> j], x1, x2, c)
<1>1. PICK f : f = [at |-> "if_else", then_jump |-> j]
  OBVIOUS
<1>2. f.at = "if_else" /\ f.then_jump = j
  BY <1>1
<1>3. f.at # "compile" /\ f.at \notin FreeFrames /\ f.at # "if_then"
  BY <1>2, Kinds
<1>4. Goes(f, x1, x2, c)
  BY <1>2, <1>3, GoesIf
<1>5. QED
  BY <1>1, <1>3, <1>4 DEF Leaps

\* The rest of a loop after its condition.
LEMMA LeapsWhile ==
  ASSUME NEW s, NEW x1 \in Spot, NEW x2 \in Spot, x1.d = scopeDepth', x2.d = x1.d, NEW c, s \in DOMAIN c,
         Fits' => x1.h = x1.b + 1 /\ c[s] = x1.b /\ x2.h = x2.b /\ x2.b = x1.b
  PROVE  Leaps([at |-> "while_body", loop_start |-> s], x1, x2, c)
<1>1. PICK f : f = [at |-> "while_body", loop_start |-> s]
  OBVIOUS
<1>2. f.at = "while_body" /\ f.loop_start = s
  BY <1>1
<1>3. f.at # "compile" /\ f.at \notin FreeFrames /\ f.at # "for_increment"
  BY <1>2, Kinds
<1>4. Goes(f, x1, x2, c)
  BY <1>2, <1>3, GoesCondition
<1>5. QED
  BY <1>1, <1>3, <1>4 DEF Leaps

\* The rest of a for statement after its condition ends the scope.
LEMMA LeapsIncrement ==
  ASSUME NEW s, NEW x1 \in Spot, NEW x2 \in Spot, x1.d = scopeDepth', x2.d = x1.d - 1, NEW c, s \in DOMAIN c,
         Fits' => x1.h = x1.b + 1 /\ c[s] = x1.b /\ x2.h = x2.b /\ x2.b = opened'[x1.d]
  PROVE  Leaps([at |-> "for_increment", loop_start |-> s], x1, x2, c)
<1>1. PICK f : f = [at |-> "for_increment", loop_start |-> s]
  OBVIOUS
<1>2. f.at = "for_increment" /\ f.loop_start = s
  BY <1>1
<1>3. f.at # "compile" /\ f.at \notin FreeFrames /\ f.at # "while_body"
  BY <1>2, Kinds
<1>4. Goes(f, x1, x2, c)
  BY <1>2, <1>3, GoesCondition
<1>5. QED
  BY <1>1, <1>3, <1>4 DEF Leaps

\* The end of a loop finds the heights of its start and of its exit.
LEMMA LeapsLoop ==
  ASSUME NEW s, NEW j, NEW x1 \in Spot, NEW x2 \in Spot, x1.d = scopeDepth', x2.d = x1.d, NEW c,
         s \in DOMAIN c, ForwardJump(code', DOMAIN c, j),
         Fits' => /\ x1.h = x1.b /\ x2.h = x2.b /\ x2.b = x1.b
                  /\ c[s] = x1.h /\ c[j - 1] = x1.h + 1
  PROVE  Leaps(LoopEnd(s, j), x1, x2, c)
<1>1. PICK f : f = LoopEnd(s, j)
  OBVIOUS
<1>2. f.at = "loop_end" /\ f.loop_start = s /\ f.exit_jump = j
  BY <1>1 DEF LoopEnd
<1>3. f.at # "compile" /\ f.at \notin FreeFrames
  BY <1>2, Kinds
<1>4. Goes(f, x1, x2, c)
  BY <1>2, GoesLoopEnd
<1>5. QED
  BY <1>1, <1>3, <1>4 DEF Leaps

\* The rest of a for statement finds the heights of all four places it jumps to or from.
LEMMA LeapsForBody ==
  ASSUME NEW s, NEW b, NEW i, NEW j, NEW x1 \in Spot, NEW x2 \in Spot, x1.d = scopeDepth', x2.d = x1.d - 1, NEW c,
         s \in DOMAIN c, i \in DOMAIN c, ForwardJump(code', DOMAIN c, j), ForwardJump(code', DOMAIN c, b),
         Fits' => /\ x1.h = x1.b /\ x2.h = x2.b /\ x2.b = opened'[x1.d]
                  /\ c[s] = x1.h /\ c[j - 1] = x1.h + 1 /\ c[b - 1] = x1.h /\ c[i] = x1.h
  PROVE  Leaps([at |-> "for_body", loop_start |-> s, body_jump |-> b, increment_start |-> i, exit_jump |-> j], x1, x2, c)
<1>1. PICK f : f = [at |-> "for_body", loop_start |-> s, body_jump |-> b, increment_start |-> i, exit_jump |-> j]
  OBVIOUS
<1>2. f.at = "for_body" /\ f.loop_start = s /\ f.body_jump = b /\ f.increment_start = i /\ f.exit_jump = j
  BY <1>1
<1>3. f.at # "compile" /\ f.at \notin FreeFrames
  BY <1>2, Kinds
<1>4. Goes(f, x1, x2, c)
  BY <1>2, GoesForBody
<1>5. QED
  BY <1>1, <1>3, <1>4 DEF Leaps

-----------------------------------------------------------------------------
(***************************************************************************)
(* Statements.                                                             *)
(***************************************************************************)

\* A spot with one more value, and one with one less.
LEMMA Higher1 ==
  ASSUME NEW x \in Spot
  PROVE  /\ \E m \in Spot : m.h = x.h + 1 /\ m.b = x.b /\ m.d = x.d
         /\ \E m \in Spot : m.h = x.h - 1 /\ m.b = x.b /\ m.d = x.d
<1>1. /\ 1 \in Int /\ -1 \in Int /\ x.h \in Int /\ x.h - 1 = x.h + (-1)
      /\ \A v \in Int : \E m \in Spot : m.h = x.h + v /\ m.b = x.b /\ m.d = x.d
  <2>1. 1 \in Int /\ -1 \in Int /\ x.h \in Int /\ x.h - 1 = x.h + (-1)
    BY Marks
  <2>2. \A v \in Int : \E m \in Spot : m.h = x.h + v /\ m.b = x.b /\ m.d = x.d
    BY Higher
  <2>3. QED
    BY <2>1, <2>2
<1>2. \E m \in Spot : m.h = x.h + 1 /\ m.b = x.b /\ m.d = x.d
  BY <1>1
<1>3. \E m \in Spot : m.h = x.h + (-1) /\ m.b = x.b /\ m.d = x.d
  BY <1>1
<1>4. QED
  BY <1>1, <1>2, <1>3

\* statement, with nothing but the locals on the stack.
LEMMA StatementStarts ==
  ASSUME Stepping, NEW c, NEW x, NEW y, Entered(c, x, y),
         frame.at = "statement" \/ frame.at = "expression_statement"
  PROVE  /\ x \in Spot /\ y \in Spot /\ x.h \in Int /\ x.b \in Int /\ x.d \in Nat
         /\ x.d = scopeDepth /\ y.d = x.d /\ frame.at # "compile" /\ ToPatch(frame) = {}
         /\ Fits' => x.h = x.b /\ y.h = y.b /\ y.b = x.b /\ x.h = c[Len(code)] /\ x.b = OnStack
         /\ Len(code) \in DOMAIN c /\ Len(code) \in Nat
<1>1. frame.at \in PlainFrames /\ frame.at \notin FreeFrames /\ frame.at # "compile"
  BY Kinds
<1>2. ToPatch(frame) = {} /\ y.d = x.d /\ (Fits' => x.h = x.b /\ y.h = y.b /\ y.b = x.b)
  BY <1>1, PlainStarts
<1>3. QED
  BY <1>1, <1>2, StepStarts

\* A statement that only chooses what to call emits nothing.
LEMMA StatementQuiet ==
  ASSUME Stepping, NEW c, NEW x, NEW y, Entered(c, x, y), code' = code, UNCHANGED scopeVars, constants' = constants,
         frame.at = "statement" \/ frame.at = "expression_statement"
  PROVE  Written(c, x, c) /\ x.d = scopeDepth'
<1>1. ToPatch(frame) = {} /\ x.d = scopeDepth /\ scopeDepth' = scopeDepth
  BY StatementStarts DEF scopeVars
<1>2. QED
  BY <1>1, QuietStep, PoolKept

\* print and an expression statement: the value goes when they end.
LEMMA LandsValue ==
  ASSUME Stepping, NEW c, NEW x, NEW y, Entered(c, x, y), code' = code, UNCHANGED scopeVars, constants' = constants,
         frame.at = "statement" \/ frame.at = "expression_statement",
         NEW op \in SimpleOps, Takes(op) = 1, Effect(op) = -1, op # OP_SET_LOCAL,
         NEW bytes, bytes = <<op>>, NEW t, Then(<<Expression, Consume(t), Emit(bytes)>>)
  PROVE  Lands(c, y)
<1>1. /\ x \in Spot /\ y \in Spot /\ x.h \in Int /\ x.b \in Int /\ y.d = x.d /\ frame.at # "compile"
      /\ Fits' => x.h = x.b /\ y.h = y.b /\ y.b = x.b
  BY StatementStarts
<1>2. Written(c, x, c) /\ x.d = scopeDepth'
  BY StatementQuiet
<1>3. PICK m \in Spot : m.h = x.h + 1 /\ m.b = x.b /\ m.d = x.d
  BY <1>1, Higher1
<1>4. Leaps(Expression, x, m, c)
  BY <1>1, <1>2, <1>3, LeapsExpression
<1>5. Leaps(Consume(t), m, m, c)
  BY <1>1, <1>2, <1>3, LeapsConsume
<1>7. EmitsPlain(bytes) /\ bytes[1] = op
  BY DEF EmitsPlain
<1>8. Fits' => m.h >= m.b + Takes(bytes[1]) /\ y.h = m.h + Effect(bytes[1]) /\ y.b = m.b
  BY <1>1, <1>3, <1>7
<1>9. Leaps(Emit(bytes), m, y, c)
  BY <1>1, <1>2, <1>3, <1>7, <1>8, LeapsEmit
<1>10. QED
  BY <1>1, <1>2, <1>4, <1>5, <1>9, LeapsThree

\* OP_PRINT and OP_POP take one value.
LEMMA PopsOne ==
  \A op \in {OP_PRINT, OP_POP} : op \in SimpleOps /\ Takes(op) = 1 /\ Effect(op) = -1 /\ op # OP_SET_LOCAL
<1>1. ASSUME NEW op \in {OP_PRINT, OP_POP}
      PROVE  op \in OpCodes /\ op # OP_RETURN /\ Length(op) = 1 /\ Takes(op) = 1 /\ Effect(op) = -1 /\ op # OP_SET_LOCAL
  BY DEF OpCodes, OP_PRINT, OP_POP, OP_CONSTANT, OP_RETURN, Length, JumpOps, ConstantOps, LocalOps, OP_JUMP,
     OP_JUMP_IF_FALSE, OP_LOOP, OP_GET_LOCAL, OP_SET_LOCAL, OP_GET_GLOBAL, OP_DEFINE_GLOBAL, OP_SET_GLOBAL,
     Takes, Effect, NumberOps, OP_EQUAL, OP_GREATER, OP_LESS, OP_ADD, OP_SUBTRACT, OP_MULTIPLY, OP_DIVIDE,
     OP_NOT, OP_NEGATE, OP_NIL, OP_TRUE, OP_FALSE
<1>2. QED
  BY <1>1 DEF SimpleOps

\* print_statement evaluates and prints: the stack is as before.
LEMMA LandsPrint ==
  ASSUME Stepping, NEW c, NEW x, NEW y, Entered(c, x, y), PrintStatement
  PROVE  Lands(c, y)
<1>1. frame.at = "statement" /\ code' = code /\ UNCHANGED scopeVars /\ constants' = constants
  BY Zenon DEF PrintStatement, At, chunkVars
<1>2. PICK bytes, t : bytes = <<OP_PRINT>> /\ Then(<<Expression, Consume(t), Emit(bytes)>>)
  BY Zenon DEF PrintStatement
<1>3. OP_PRINT \in SimpleOps /\ Takes(OP_PRINT) = 1 /\ Effect(OP_PRINT) = -1 /\ OP_PRINT # OP_SET_LOCAL
  BY PopsOne
<1>4. QED
  BY <1>1, <1>2, <1>3, LandsValue

\* expression_statement evaluates and pops: the stack is as before.
LEMMA LandsExpressionStatement ==
  ASSUME Stepping, NEW c, NEW x, NEW y, Entered(c, x, y), ExpressionStatement
  PROVE  Lands(c, y)
<1>1. /\ frame.at = "statement" \/ frame.at = "expression_statement"
      /\ code' = code /\ UNCHANGED scopeVars /\ constants' = constants
  BY Zenon DEF ExpressionStatement, At, chunkVars
<1>2. PICK bytes, t : bytes = <<OP_POP>> /\ Then(<<Expression, Consume(t), Emit(bytes)>>)
  BY Zenon DEF ExpressionStatement
<1>3. OP_POP \in SimpleOps /\ Takes(OP_POP) = 1 /\ Effect(OP_POP) = -1 /\ OP_POP # OP_SET_LOCAL
  BY PopsOne
<1>4. QED
  BY <1>1, <1>2, <1>3, LandsValue

\* The condition of an if, and that of a while.
LEMMA LandsIf ==
  ASSUME Stepping, NEW c, NEW x, NEW y, Entered(c, x, y), IfStatement
  PROVE  Lands(c, y)
<1>1. /\ frame.at = "statement" /\ code' = code /\ UNCHANGED scopeVars /\ constants' = constants
      /\ Then(<<Consume("("), Expression, Consume(")"), Call("if_then")>>)
  BY DEF IfStatement, At, chunkVars
<1>2. /\ x \in Spot /\ y \in Spot /\ x.h \in Int /\ x.b \in Int /\ y.d = x.d /\ frame.at # "compile"
      /\ Fits' => x.h = x.b /\ y.h = y.b /\ y.b = x.b
  BY <1>1, StatementStarts
<1>3. Written(c, x, c) /\ x.d = scopeDepth'
  BY <1>1, StatementQuiet
<1>4. PICK m \in Spot : m.h = x.h + 1 /\ m.b = x.b /\ m.d = x.d
  BY <1>2, Higher1
<1>5. Leaps(Consume("("), x, x, c)
  BY <1>2, <1>3, LeapsConsume
<1>6. Leaps(Expression, x, m, c)
  BY <1>2, <1>3, <1>4, LeapsExpression
<1>7. Leaps(Consume(")"), m, m, c)
  BY <1>2, <1>3, <1>4, LeapsConsume
<1>8. Leaps(Call("if_then"), m, y, c)
  BY <1>2, <1>3, <1>4, LeapsThen
<1>9. QED
  BY <1>1, <1>2, <1>3, <1>5, <1>6, <1>7, <1>8, LeapsFour

\* while_statement starts a loop here.
LEMMA LandsWhile ==
  ASSUME Stepping, NEW c, NEW x, NEW y, Entered(c, x, y), WhileStatement
  PROVE  Lands(c, y)
<1>1. /\ frame.at = "statement" /\ code' = code /\ UNCHANGED scopeVars /\ constants' = constants
      /\ Then(<<Consume("("), Expression, Consume(")"), [at |-> "while_body", loop_start |-> Len(code)]>>)
  BY DEF WhileStatement, At, chunkVars
<1>2. /\ x \in Spot /\ y \in Spot /\ x.h \in Int /\ x.b \in Int /\ y.d = x.d /\ frame.at # "compile"
      /\ Fits' => x.h = x.b /\ y.h = y.b /\ y.b = x.b /\ x.h = c[Len(code)]
      /\ Len(code) \in DOMAIN c
  BY <1>1, StatementStarts
<1>3. Written(c, x, c) /\ x.d = scopeDepth'
  BY <1>1, StatementQuiet
<1>4. PICK m \in Spot : m.h = x.h + 1 /\ m.b = x.b /\ m.d = x.d
  BY <1>2, Higher1
<1>5. Leaps(Consume("("), x, x, c)
  BY <1>2, <1>3, LeapsConsume
<1>6. Leaps(Expression, x, m, c)
  BY <1>2, <1>3, <1>4, LeapsExpression
<1>7. Leaps(Consume(")"), m, m, c)
  BY <1>2, <1>3, <1>4, LeapsConsume
<1>8. Leaps([at |-> "while_body", loop_start |-> Len(code)], m, y, c)
  BY <1>2, <1>3, <1>4, LeapsWhile
<1>9. QED
  BY <1>1, <1>2, <1>3, <1>5, <1>6, <1>7, <1>8, LeapsFour

-----------------------------------------------------------------------------
(***************************************************************************)
(* Blocks and the scopes that they open.                                   *)
(***************************************************************************)

\* The locals when no declaration is in progress: all have a depth.
LEMMA Settled ==
  ASSUME Stepping, frame.at \notin ExpressionFrames, frame.at \notin DeclarationFrames, Fits'
  PROVE  OnStack = Len(locals) /\ \A i \in 1 .. Len(locals) : locals[i].depth # NoDepth
<1>1. FramesOK /\ Nested /\ todo # <<>>
  BY DEF Stepping, IInv, Types
<1>2. ~Declaring
  BY <1>1, NotDeclaring
<1>3. LayersOK
  BY FitsBefore DEF Stepping, IInv
<1>4. \A i \in 1 .. Len(locals) : locals[i].depth # NoDepth
  BY <1>2, <1>3 DEF LayersOK
<1>5. QED
  BY <1>4 DEF OnStack

\* What begin_scope changes.
LEMMA OpenScope ==
  ASSUME Stepping, NEW c, NEW x, NEW y, Entered(c, x, y), frame.at = "statement",
         code' = code, constants' = constants, locals' = locals, scopeDepth' = scopeDepth + 1
  PROVE  \E x1 \in Spot : /\ Written(c, x1, c) /\ x1.h = x.h /\ x1.b = x.b /\ x1.d = x.d + 1 /\ x1.d = scopeDepth'
                          /\ Fits' => opened'[x1.d] = x.b
<1>1. /\ x \in Spot /\ x.h \in Int /\ x.b \in Int /\ x.d \in Nat /\ x.d = scopeDepth /\ ToPatch(frame) = {}
      /\ Fits' => x.b = OnStack
  BY StatementStarts
<1>2. PICK h, b, d : h = x.h /\ b = x.b /\ d = x.d + 1
  OBVIOUS
<1>3. PICK x1 : x1 = Mark(h, b, d)
  OBVIOUS
<1>4. x1 \in Spot /\ x1.h = x.h /\ x1.b = x.b /\ x1.d = x.d + 1 /\ x1.d = scopeDepth'
  BY <1>1, <1>2, <1>3, Marks
<1>5. Pending(todo) \subseteq Pending(todo')
  BY <1>1, PendingKept
<1>6. OnStack' = OnStack
  BY StackStays
<1>7. Written(c, x1, c)
  BY <1>1, <1>4, <1>5, <1>6, WrittenSame, PoolKept
<1>8. ASSUME Fits'
      PROVE  opened'[x1.d] = x.b
  <2>1. frame.at \notin ExpressionFrames /\ frame.at \notin DeclarationFrames
    BY DEF ExpressionFrames, DeclarationFrames
  <2>2. x.b = Len(locals)
    BY <1>1, <1>8, <2>1, Settled
  <2>3. Types /\ HistoryOK /\ HNext /\ CompileStep /\ scopeDepth' \in Nat
    BY <1>1 DEF Stepping, IInv
  <2>4. opened' = Append(opened, Len(locals)) /\ opened \in Seq(Nat) /\ Len(opened) = scopeDepth
    BY <2>3, HistorySteps DEF HistoryOK
  <2>5. opened'[Len(opened) + 1] = Len(locals)
    BY <2>4
  <2>6. QED
    BY <1>1, <1>4, <2>2, <2>4, <2>5
<1>9. QED
  BY <1>4, <1>7, <1>8

\* The header of a for.
LEMMA LandsFor ==
  ASSUME Stepping, NEW c, NEW x, NEW y, Entered(c, x, y), ForStatement
  PROVE  Lands(c, y)
<1>1. /\ frame.at = "statement" /\ code' = code /\ constants' = constants /\ locals' = locals
      /\ scopeDepth' = scopeDepth + 1 /\ Then(<<Consume("("), Call("for_initializer")>>)
  BY DEF ForStatement, At, chunkVars
<1>2. /\ x \in Spot /\ y \in Spot /\ x.h \in Int /\ x.b \in Int /\ x.d \in Nat /\ y.d = x.d /\ frame.at # "compile"
      /\ Fits' => x.h = x.b /\ y.h = y.b /\ y.b = x.b
  BY <1>1, StatementStarts
<1>3. PICK x1 \in Spot : /\ Written(c, x1, c) /\ x1.h = x.h /\ x1.b = x.b /\ x1.d = x.d + 1 /\ x1.d = scopeDepth'
                         /\ Fits' => opened'[x1.d] = x.b
  BY <1>1, OpenScope
<1>4. Leaps(Consume("("), x1, x1, c)
  BY <1>2, <1>3, LeapsConsume
<1>5. y.d = x1.d - 1 /\ (Fits' => x1.h = x1.b /\ y.h = y.b /\ y.b = opened'[x1.d])
  BY <1>2, <1>3
<1>6. Leaps(Call("for_initializer"), x1, y, c)
  BY <1>2, <1>3, <1>5, LeapsScope
<1>7. QED
  BY <1>1, <1>2, <1>3, <1>4, <1>6, LeapsTwo

\* A block: declarations, then the end of its scope.
LEMMA LandsBlock ==
  ASSUME Stepping, NEW c, NEW x, NEW y, Entered(c, x, y), Block
  PROVE  Lands(c, y)
<1>1. PICK f1, f2 : f1 = Call("block") /\ f2 = Call("end_scope")
  OBVIOUS
<1>2. /\ frame.at = "statement" /\ code' = code /\ constants' = constants /\ locals' = locals
      /\ scopeDepth' = scopeDepth + 1 /\ Then(<<f1, f2>>)
  BY <1>1, Zenon DEF Block, At, chunkVars
<1>3. /\ x \in Spot /\ y \in Spot /\ x.h \in Int /\ x.b \in Int /\ x.d \in Nat /\ y.d = x.d /\ frame.at # "compile"
      /\ Fits' => x.h = x.b /\ y.h = y.b /\ y.b = x.b
  BY <1>2, StatementStarts
<1>4. PICK x1 \in Spot : /\ Written(c, x1, c) /\ x1.h = x.h /\ x1.b = x.b /\ x1.d = x.d + 1 /\ x1.d = scopeDepth'
                         /\ Fits' => opened'[x1.d] = x.b
  BY <1>2, OpenScope
<1>5. f1 \in Frame /\ f2 \in Frame /\ f1.at = "block" /\ f2.at = "end_scope"
  BY <1>1, PlainCalls, Kinds
<1>6. Goes(f1, x1, x1, c)
  BY <1>3, <1>4, <1>5, GoesPlain, Kinds
<1>7. y.d = x1.d - 1 /\ (Fits' => x1.h = x1.b /\ y.h = y.b /\ y.b = opened'[x1.d])
  BY <1>3, <1>4
<1>8. Leaps(f2, x1, y, c)
  BY <1>1, <1>3, <1>4, <1>7, LeapsScope
<1>9. Goes(f2, x1, y, c) /\ f2.at \notin FreeFrames /\ f2.at # "compile" /\ Joins(y, y)
  BY <1>8 DEF Leaps, Joins
<1>10. f1.at # "compile" /\ f2.at \in LooseFrames
  BY <1>5, Kinds
<1>11. \E k \in 0 .. 4 : \E xs : Moves(c, y, c, k, xs)
  BY <1>2, <1>3, <1>4, <1>5, <1>6, <1>9, <1>10, MovesTwo
<1>12. QED
  BY <1>11 DEF Lands

\* A round of block_statement, and its end.
LEMMA LandsBlockStatement ==
  ASSUME Stepping, NEW c, NEW x, NEW y, Entered(c, x, y), BlockStatement
  PROVE  Lands(c, y)
<1>1. PICK f1, f2, t : /\ f1 = Call("declaration") /\ f2 = Call("block")
                       /\ Then(<<f1, f2>>) \/ Then(<<Consume(t)>>)
  BY Zenon DEF BlockStatement
<1>2. frame.at = "block" /\ UNCHANGED <<scopeVars, chunkVars>>
  BY Zenon DEF BlockStatement, At
<1>3. frame.at \in PlainFrames /\ frame.at \in FreeFrames /\ frame.at # "compile"
  BY <1>2, Kinds
<1>4. ToPatch(frame) = {} /\ y.d = x.d /\ (Fits' => x.h = x.b /\ y.h = y.b)
  BY <1>3, PlainStarts
<1>5. y \in Spot /\ x \in Spot /\ x.d = scopeDepth' /\ x.h \in Int /\ x.b \in Int
  BY <1>2, StepStarts DEF scopeVars
<1>6. Written(c, x, c)
  BY <1>2, <1>4, <1>5, QuietStep, PoolKept DEF chunkVars
<1>7. CASE Then(<<f1, f2>>)
  <2>1. /\ f1 \in Frame /\ f1.at \in PlainFrames /\ f1.at \in FreeFrames /\ f1.at # "compile"
        /\ f2 \in Frame /\ f2.at \in PlainFrames /\ f2.at \in FreeFrames /\ f2.at \in LooseFrames /\ f2.at # "compile"
    BY <1>1, PlainCalls, Kinds
  <2>2. Goes(f1, x, x, c) /\ Goes(f2, x, y, c)
    BY <1>4, <1>5, <2>1, GoesPlain
  <2>3. Joins(y, y)
    BY DEF Joins
  <2>4. \E k \in 0 .. 4 : \E xs : Moves(c, y, c, k, xs)
    BY <1>3, <1>5, <1>6, <1>7, <2>1, <2>2, <2>3, MovesTwo
  <2>5. QED
    BY <2>4 DEF Lands
<1>8. CASE Then(<<Consume(t)>>)
  <2>0. PICK f3 : f3 = Consume(t)
    OBVIOUS
  <2>1. Leaps(f3, x, x, c)
    BY <2>0, <1>4, <1>5, LeapsConsume
  <2>2. f3.at # "compile" /\ f3.at \notin FreeFrames /\ Goes(f3, x, x, c)
    BY <2>1 DEF Leaps
  <2>3. Joins(x, y)
    BY <1>3, <1>4, <1>5 DEF Joins
  <2>4. FramesOK /\ FramesOK' /\ todo # <<>> /\ <<f3>> \in Seq({f3})
    BY DEF Stepping, IInv, Types
  <2>5. f3 \in Frame
    <3>1. Then(<<f3>>) /\ Len(<<f3>>) = 1 /\ <<f3>>[1] = f3
      BY <1>8, <2>0
    <3>2. \A i \in 1 .. Len(<<f3>>) : <<f3>>[i] \in Frame
      BY <2>4, <3>1, ThenFrames
    <3>3. QED
      BY <3>1, <3>2
  <2>6. \E k \in 0 .. 4 : \E xs : Moves(c, y, c, k, xs)
    BY <1>3, <1>5, <1>6, <1>8, <2>0, <2>2, <2>3, <2>5, MovesOne
  <2>7. QED
    BY <2>6 DEF Lands
<1>9. QED
  BY <1>1, <1>7, <1>8

-----------------------------------------------------------------------------
(***************************************************************************)
(* The rest of for, while and if.                                          *)
(***************************************************************************)

\* The operands that the new calls are to patch.
LEMMA PendingThen ==
  ASSUME Stepping, NEW S, NEW s \in Seq(S), Then(s), NEW i \in 1 .. Len(s), NEW j \in Int, j \in ToPatch(s[i])
  PROVE  j \in Pending(todo')
<1>1. FramesOK /\ FramesOK' /\ todo # <<>>
  BY DEF Stepping, IInv, Types
<1>2. \A m \in 1 .. Len(s) : s[m] \in Frame
  BY <1>1, ThenFrames
<1>3. s \in Seq(Frame) /\ Len(s) \in Nat
  BY <1>2
<1>4. todo'[i] = s[i] /\ Grows(Len(s))
  BY <1>1, <1>3, ThenGrows
<1>5. Len(todo') = Len(todo) - 1 + Len(s) /\ Len(todo) \in Nat /\ Len(todo) > 0
  BY <1>1, <1>4, EmptySeq DEF Grows, FramesOK
<1>6. i \in 1 .. Len(todo')
  BY <1>3, <1>5
<1>7. QED
  BY <1>4, <1>6 DEF Pending

\* The jump that the second of two calls is to patch is pending.
LEMMA PendingSecond ==
  ASSUME Stepping, NEW f1, NEW f2, Then(<<f1, f2>>), NEW j \in Int, j \in ToPatch(f2)
  PROVE  j \in Pending(todo')
<1>1. PICK s : s = <<f1, f2>>
  OBVIOUS
<1>2. s \in Seq({f1, f2}) /\ Then(s) /\ 2 \in 1 .. Len(s) /\ s[2] = f2
  BY <1>1
<1>3. QED
  BY <1>2, PendingThen

\* So is that of the second of three.
LEMMA PendingMiddle ==
  ASSUME Stepping, NEW f1, NEW f2, NEW f3, Then(<<f1, f2, f3>>), NEW j \in Int, j \in ToPatch(f2)
  PROVE  j \in Pending(todo')
<1>1. PICK s : s = <<f1, f2, f3>>
  OBVIOUS
<1>2. s \in Seq({f1, f2, f3}) /\ Then(s) /\ 2 \in 1 .. Len(s) /\ s[2] = f2
  BY <1>1
<1>3. QED
  BY <1>2, PendingThen

\* So is that of the last of four.
LEMMA PendingFourth ==
  ASSUME Stepping, NEW f1, NEW f2, NEW f3, NEW f4, Then(<<f1, f2, f3, f4>>), NEW j \in Int, j \in ToPatch(f4)
  PROVE  j \in Pending(todo')
<1>1. PICK s : s = <<f1, f2, f3, f4>>
  OBVIOUS
<1>2. s \in Seq({f1, f2, f3, f4}) /\ Then(s) /\ 4 \in 1 .. Len(s) /\ s[4] = f4
  BY <1>1
<1>3. QED
  BY <1>2, PendingThen

\* So is that of a single one.
LEMMA PendingOnly ==
  ASSUME Stepping, NEW f1, Then(<<f1>>), NEW j \in Int, j \in ToPatch(f1)
  PROVE  j \in Pending(todo')
<1>1. PICK s : s = <<f1>>
  OBVIOUS
<1>2. s \in Seq({f1}) /\ Then(s) /\ 1 \in 1 .. Len(s) /\ s[1] = f1
  BY <1>1
<1>3. QED
  BY <1>2, PendingThen

\* What the new calls are to patch.
LEMMA PatchesAre ==
  /\ \A j : ToPatch(Patch(j)) = {j}
  /\ \A j : ToPatch([at |-> "if_else", then_jump |-> j]) = {j}
  /\ \A s, j : ToPatch(LoopEnd(s, j)) = {j}
  /\ \A s, b, i, j : ToPatch([at |-> "for_body", loop_start |-> s, body_jump |-> b, increment_start |-> i, exit_jump |-> j]) = {j, b}
<1>1. ASSUME NEW j, NEW f, f = Patch(j) PROVE ToPatch(f) = {j}
  BY <1>1 DEF ToPatch, Patch
<1>2. ASSUME NEW j, NEW f, f = [at |-> "if_else", then_jump |-> j] PROVE ToPatch(f) = {j}
  BY <1>2 DEF ToPatch
<1>3. ASSUME NEW s, NEW j, NEW f, f = LoopEnd(s, j) PROVE ToPatch(f) = {j}
  BY <1>3 DEF ToPatch, LoopEnd
<1>4. ASSUME NEW s, NEW b, NEW i, NEW j, NEW f,
             f = [at |-> "for_body", loop_start |-> s, body_jump |-> b, increment_start |-> i, exit_jump |-> j]
      PROVE  ToPatch(f) = {j, b}
  BY <1>4 DEF ToPatch
<1>5. QED
  BY <1>1, <1>2, <1>3, <1>4

\* The scopes that are open.
LEMMA OpenedStays ==
  ASSUME Stepping, scopeDepth' = scopeDepth
  PROVE  opened' = opened
<1>1. Types /\ HistoryOK /\ HNext /\ CompileStep /\ scopeDepth' \in Nat
  BY DEF Stepping, IInv, HistoryOK
<1>2. QED
  BY <1>1, HistorySteps

\* What ends with its scope.
LEMMA ScopeRuns ==
  ASSUME NEW f, f.at \in EndingFrames, NEW x, NEW y, NEW k, NEW c, NEW n, Runs(f, x, y, k, c, n)
  PROVE  y.d = x.d - 1
BY DEF Runs, Descends, EndingFrames, ScopeFrames, ForFrames

\* A call that ends a scope leads back to the locals there were before the scope.
LEMMA ScopeLeads ==
  ASSUME NEW f, f.at \in EndingFrames, NEW x, x.b \in Int, NEW y, NEW c, NEW opens, Leads(f, x, y, c, opens)
  PROVE  x.h = x.b /\ y.h = y.b /\ y.b = opens[x.d]
BY ScopeMeans

\* What is known when a call that ends a scope starts.
LEMMA ScopeStarts ==
  ASSUME Stepping, NEW c, NEW x, NEW y, Entered(c, x, y),
         frame.at = "for_initializer" \/ frame.at = "for_condition" \/ frame.at = "end_scope"
  PROVE  /\ x \in Spot /\ y \in Spot /\ x.h \in Int /\ x.b \in Int /\ x.d \in Nat
         /\ x.d = scopeDepth /\ y.d = x.d - 1 /\ frame.at # "compile" /\ ToPatch(frame) = {}
         /\ Fits' => x.h = x.b /\ y.h = y.b /\ y.b = opened[x.d] /\ x.h = c[Len(code)] /\ x.b = OnStack
         /\ Len(code) \in DOMAIN c /\ Len(code) \in Nat
<1>1. /\ x \in Spot /\ y \in Spot /\ x.h \in Int /\ x.b \in Int /\ x.d \in Nat /\ x.d = scopeDepth
      /\ Len(code) \in DOMAIN c /\ Len(code) \in Nat
      /\ Runs(frame, x, y, code, c, Pool)
      /\ Fits' => Leads(frame, x, y, c, opened) /\ x.h = c[Len(code)] /\ x.b = OnStack
  BY StepStarts
<1>2. /\ Runs(frame, x, y, code, c, Pool) => y.d = x.d - 1
      /\ Leads(frame, x, y, c, opened) => x.h = x.b /\ y.h = y.b /\ y.b = opened[x.d]
  <2>1. frame.at \in EndingFrames /\ x.b \in Int
    BY <1>1 DEF EndingFrames
  <2>2. Runs(frame, x, y, code, c, Pool) => y.d = x.d - 1
    BY <2>1, ScopeRuns, Zenon
  <2>3. Leads(frame, x, y, c, opened) => x.h = x.b /\ y.h = y.b /\ y.b = opened[x.d]
    BY <2>1, ScopeLeads
  <2>4. QED
    BY <2>2, <2>3
<1>3. ToPatch(frame) = {}
  BY NothingToPatch
<1>4. frame.at # "compile"
  OBVIOUS
<1>5. QED
  BY <1>1, <1>2, <1>3, <1>4

-----------------------------------------------------------------------------
(***************************************************************************)
(* What each kind of call relies on when it runs.                          *)
(***************************************************************************)

\* Where a call at "prefix" leads, and the places in the code that it works with.
LEMMA OperandRuns ==
  ASSUME NEW f, f.at = "prefix", NEW x, NEW y, NEW k, NEW c, NEW n, Runs(f, x, y, k, c, n)
  PROVE  /\ y.d = x.d
BY DEF Runs, Descends, ScopeFrames, ForFrames, Places, DeclarationFrames, ToPatch, Starting

\* The heights between which a call at "prefix" works.
LEMMA OperandLeads ==
  ASSUME NEW f, f.at = "prefix", NEW x, x.b \in Int, x.h \in Int, NEW y, NEW c, NEW opens, Leads(f, x, y, c, opens)
  PROVE  /\ x.h >= x.b
         /\ y.h = x.h + 1
         /\ y.b = x.b
<1>1. /\ f.at \in ExpressionFrames
      /\ f.at \notin ScopeFrames
      /\ f.at \notin FreeFrames
  BY DEF ExpressionFrames, ScopeFrames, ForFrames, FreeFrames, DeclarationFrames
<1>2. Above(f) = 0 /\ Gain(f) = 1
  BY DEF Above, Gain
<1>3. Meets(f, c, x.h)
  BY DEF Leads
<1>4. QED
  BY <1>1, <1>2, <1>3 DEF Leads, Meets

\* The prefix of an expression.
LEMMA OperandStarts ==
  ASSUME Stepping, NEW c, NEW x, NEW y, Entered(c, x, y), frame.at = "prefix"
  PROVE  /\ frame.at # "compile" /\ ToPatch(frame) = {}
         /\ y.d = x.d
         /\ Fits' => /\ x.h >= x.b
                     /\ y.h = x.h + 1
                     /\ y.b = x.b
<1>1. PICK f : f = frame
  OBVIOUS
<1>2. PICK k, n, opens : k = code /\ n = Pool /\ opens = opened
  OBVIOUS
<1>3. x.h \in Int /\ x.b \in Int /\ Runs(f, x, y, k, c, n) /\ (Fits' => Leads(f, x, y, c, opens)) /\ f.at = "prefix"
  BY <1>1, <1>2, StepStarts
<1>4. /\ y.d = x.d
  BY <1>3, OperandRuns
<1>5. ASSUME Fits'
      PROVE  /\ x.h >= x.b
             /\ y.h = x.h + 1
             /\ y.b = x.b
  BY <1>3, <1>5, OperandLeads
<1>6. ToPatch(f) = {} /\ f.at # "compile"
  BY <1>3 DEF ToPatch
<1>7. QED
  BY <1>1, <1>2, <1>4, <1>5, <1>6

\* Where a call at "parse_precedence" leads, and the places in the code that it works with.
LEMMA ParseRuns ==
  ASSUME NEW f, f.at = "parse_precedence", NEW x, NEW y, NEW k, NEW c, NEW n, Runs(f, x, y, k, c, n)
  PROVE  /\ y.d = x.d
BY DEF Runs, Descends, ScopeFrames, ForFrames, Places, DeclarationFrames, ToPatch, Starting

\* The heights between which a call at "parse_precedence" works.
LEMMA ParseLeads ==
  ASSUME NEW f, f.at = "parse_precedence", NEW x, x.b \in Int, x.h \in Int, NEW y, NEW c, NEW opens, Leads(f, x, y, c, opens)
  PROVE  /\ x.h >= x.b
         /\ y.h = x.h + 1
         /\ y.b = x.b
<1>1. /\ f.at \in ExpressionFrames
      /\ f.at \notin ScopeFrames
      /\ f.at \notin FreeFrames
  BY DEF ExpressionFrames, ScopeFrames, ForFrames, FreeFrames, DeclarationFrames
<1>2. Above(f) = 0 /\ Gain(f) = 1
  BY DEF Above, Gain
<1>3. Meets(f, c, x.h)
  BY DEF Leads
<1>4. QED
  BY <1>1, <1>2, <1>3 DEF Leads, Meets

\* The start of an expression.
LEMMA ParseStarts ==
  ASSUME Stepping, NEW c, NEW x, NEW y, Entered(c, x, y), frame.at = "parse_precedence"
  PROVE  /\ frame.at # "compile" /\ ToPatch(frame) = {}
         /\ y.d = x.d
         /\ Fits' => /\ x.h >= x.b
                     /\ y.h = x.h + 1
                     /\ y.b = x.b
<1>1. PICK f : f = frame
  OBVIOUS
<1>2. PICK k, n, opens : k = code /\ n = Pool /\ opens = opened
  OBVIOUS
<1>3. x.h \in Int /\ x.b \in Int /\ Runs(f, x, y, k, c, n) /\ (Fits' => Leads(f, x, y, c, opens)) /\ f.at = "parse_precedence"
  BY <1>1, <1>2, StepStarts
<1>4. /\ y.d = x.d
  BY <1>3, ParseRuns
<1>5. ASSUME Fits'
      PROVE  /\ x.h >= x.b
             /\ y.h = x.h + 1
             /\ y.b = x.b
  BY <1>3, <1>5, ParseLeads
<1>6. ToPatch(f) = {} /\ f.at # "compile"
  BY <1>3 DEF ToPatch
<1>7. QED
  BY <1>1, <1>2, <1>4, <1>5, <1>6

\* Where a call at "infix" leads, and the places in the code that it works with.
LEMMA InfixRuns ==
  ASSUME NEW f, f.at = "infix", NEW x, NEW y, NEW k, NEW c, NEW n, Runs(f, x, y, k, c, n)
  PROVE  /\ y.d = x.d
BY DEF Runs, Descends, ScopeFrames, ForFrames, Places, DeclarationFrames, ToPatch, Starting

\* The heights between which a call at "infix" works.
LEMMA InfixLeads ==
  ASSUME NEW f, f.at = "infix", NEW x, x.b \in Int, x.h \in Int, NEW y, NEW c, NEW opens, Leads(f, x, y, c, opens)
  PROVE  /\ x.h >= x.b + 1
         /\ y.h = x.h
         /\ y.b = x.b
<1>1. /\ f.at \in ExpressionFrames
      /\ f.at \notin ScopeFrames
      /\ f.at \notin FreeFrames
  BY DEF ExpressionFrames, ScopeFrames, ForFrames, FreeFrames, DeclarationFrames
<1>2. Above(f) = 1 /\ Gain(f) = 0
  BY DEF Above, Gain
<1>3. Meets(f, c, x.h)
  BY DEF Leads
<1>4. QED
  BY <1>1, <1>2, <1>3 DEF Leads, Meets

\* The rest of an expression.
LEMMA InfixStarts ==
  ASSUME Stepping, NEW c, NEW x, NEW y, Entered(c, x, y), frame.at = "infix"
  PROVE  /\ frame.at # "compile" /\ ToPatch(frame) = {}
         /\ y.d = x.d
         /\ Fits' => /\ x.h >= x.b + 1
                     /\ y.h = x.h
                     /\ y.b = x.b
<1>1. PICK f : f = frame
  OBVIOUS
<1>2. PICK k, n, opens : k = code /\ n = Pool /\ opens = opened
  OBVIOUS
<1>3. x.h \in Int /\ x.b \in Int /\ Runs(f, x, y, k, c, n) /\ (Fits' => Leads(f, x, y, c, opens)) /\ f.at = "infix"
  BY <1>1, <1>2, StepStarts
<1>4. /\ y.d = x.d
  BY <1>3, InfixRuns
<1>5. ASSUME Fits'
      PROVE  /\ x.h >= x.b + 1
             /\ y.h = x.h
             /\ y.b = x.b
  BY <1>3, <1>5, InfixLeads
<1>6. ToPatch(f) = {} /\ f.at # "compile"
  BY <1>3 DEF ToPatch
<1>7. QED
  BY <1>1, <1>2, <1>4, <1>5, <1>6

\* Where a call at "consume" leads, and the places in the code that it works with.
LEMMA ConsumeRuns ==
  ASSUME NEW f, f.at = "consume", NEW x, NEW y, NEW k, NEW c, NEW n, Runs(f, x, y, k, c, n)
  PROVE  /\ y.d = x.d
BY DEF Runs, Descends, ScopeFrames, ForFrames, Places, DeclarationFrames, ToPatch, Starting

\* The heights between which a call at "consume" works.
LEMMA ConsumeLeads ==
  ASSUME NEW f, f.at = "consume", NEW x, x.b \in Int, x.h \in Int, NEW y, NEW c, NEW opens, Leads(f, x, y, c, opens)
  PROVE  /\ x.h >= x.b
         /\ y.h = x.h
         /\ y.b = x.b
<1>1. /\ f.at \in ExpressionFrames
      /\ f.at \notin ScopeFrames
      /\ f.at \notin FreeFrames
  BY DEF ExpressionFrames, ScopeFrames, ForFrames, FreeFrames, DeclarationFrames
<1>2. Above(f) = 0 /\ Gain(f) = 0
  BY DEF Above, Gain
<1>3. Meets(f, c, x.h)
  BY DEF Leads
<1>4. QED
  BY <1>1, <1>2, <1>3 DEF Leads, Meets

\* consume.
LEMMA ConsumeStarts ==
  ASSUME Stepping, NEW c, NEW x, NEW y, Entered(c, x, y), frame.at = "consume"
  PROVE  /\ frame.at # "compile" /\ ToPatch(frame) = {}
         /\ y.d = x.d
         /\ Fits' => /\ x.h >= x.b
                     /\ y.h = x.h
                     /\ y.b = x.b
<1>1. PICK f : f = frame
  OBVIOUS
<1>2. PICK k, n, opens : k = code /\ n = Pool /\ opens = opened
  OBVIOUS
<1>3. x.h \in Int /\ x.b \in Int /\ Runs(f, x, y, k, c, n) /\ (Fits' => Leads(f, x, y, c, opens)) /\ f.at = "consume"
  BY <1>1, <1>2, StepStarts
<1>4. /\ y.d = x.d
  BY <1>3, ConsumeRuns
<1>5. ASSUME Fits'
      PROVE  /\ x.h >= x.b
             /\ y.h = x.h
             /\ y.b = x.b
  BY <1>3, <1>5, ConsumeLeads
<1>6. ToPatch(f) = {} /\ f.at # "compile"
  BY <1>3 DEF ToPatch
<1>7. QED
  BY <1>1, <1>2, <1>4, <1>5, <1>6

\* Where a call at "emit" leads, and the places in the code that it works with.
LEMMA EmitRuns ==
  ASSUME NEW f, f.at = "emit", NEW x, NEW y, NEW k, NEW c, NEW n, Runs(f, x, y, k, c, n)
  PROVE  /\ y.d = x.d
         /\ EmitsPlain(f.bytes) \/ EmitsSet(f.bytes, n)
BY DEF Runs, Descends, ScopeFrames, ForFrames, Places, DeclarationFrames, ToPatch, Starting

\* The heights between which a call at "emit" works.
LEMMA EmitLeads ==
  ASSUME NEW f, f.at = "emit", NEW x, x.b \in Int, x.h \in Int, NEW y, NEW c, NEW opens, Leads(f, x, y, c, opens)
  PROVE  /\ x.h >= x.b + Takes(f.bytes[1])
         /\ y.h = x.h + Effect(f.bytes[1])
         /\ y.b = x.b
         /\ f.bytes[1] = OP_SET_LOCAL => f.bytes[2] < x.b
<1>1. /\ f.at \in ExpressionFrames
      /\ f.at \notin ScopeFrames
      /\ f.at \notin FreeFrames
  BY DEF ExpressionFrames, ScopeFrames, ForFrames, FreeFrames, DeclarationFrames
<1>2. Above(f) = Takes(f.bytes[1]) /\ Gain(f) = Effect(f.bytes[1])
  BY DEF Above, Gain
<1>3. Meets(f, c, x.h)
  BY DEF Leads
<1>4. QED
  BY <1>1, <1>2, <1>3 DEF Leads, Meets

\* emit_byte and emit_bytes.
LEMMA EmitStarts ==
  ASSUME Stepping, NEW c, NEW x, NEW y, Entered(c, x, y), frame.at = "emit"
  PROVE  /\ frame.at # "compile" /\ ToPatch(frame) = {}
         /\ y.d = x.d
         /\ EmitsPlain(frame.bytes) \/ EmitsSet(frame.bytes, Pool)
         /\ Fits' => /\ x.h >= x.b + Takes(frame.bytes[1])
                     /\ y.h = x.h + Effect(frame.bytes[1])
                     /\ y.b = x.b
                     /\ frame.bytes[1] = OP_SET_LOCAL => frame.bytes[2] < x.b
<1>1. PICK f : f = frame
  OBVIOUS
<1>2. PICK k, n, opens : k = code /\ n = Pool /\ opens = opened
  OBVIOUS
<1>3. x.h \in Int /\ x.b \in Int /\ Runs(f, x, y, k, c, n) /\ (Fits' => Leads(f, x, y, c, opens)) /\ f.at = "emit"
  BY <1>1, <1>2, StepStarts
<1>4. /\ y.d = x.d
      /\ EmitsPlain(f.bytes) \/ EmitsSet(f.bytes, n)
  BY <1>3, EmitRuns
<1>5. ASSUME Fits'
      PROVE  /\ x.h >= x.b + Takes(f.bytes[1])
             /\ y.h = x.h + Effect(f.bytes[1])
             /\ y.b = x.b
             /\ f.bytes[1] = OP_SET_LOCAL => f.bytes[2] < x.b
  BY <1>3, <1>5, EmitLeads
<1>6. ToPatch(f) = {} /\ f.at # "compile"
  BY <1>3 DEF ToPatch
<1>7. QED
  BY <1>1, <1>2, <1>4, <1>5, <1>6

\* Where a call at "patch_jump" leads, and the places in the code that it works with.
LEMMA PatchRuns ==
  ASSUME NEW f, f.at = "patch_jump", NEW x, NEW y, NEW k, NEW c, NEW n, Runs(f, x, y, k, c, n)
  PROVE  /\ y.d = x.d
         /\ ForwardJump(k, DOMAIN c, f.jump)
BY DEF Runs, Descends, ScopeFrames, ForFrames, Places, DeclarationFrames, ToPatch, Starting

\* The heights between which a call at "patch_jump" works.
LEMMA PatchLeads ==
  ASSUME NEW f, f.at = "patch_jump", NEW x, x.b \in Int, x.h \in Int, NEW y, NEW c, NEW opens, Leads(f, x, y, c, opens)
  PROVE  /\ c[f.jump - 1] = x.h
         /\ x.h >= x.b
         /\ y.h = x.h
         /\ y.b = x.b
<1>1. /\ f.at \in ExpressionFrames
      /\ f.at \notin ScopeFrames
      /\ f.at \notin FreeFrames
  BY DEF ExpressionFrames, ScopeFrames, ForFrames, FreeFrames, DeclarationFrames
<1>2. Above(f) = 0 /\ Gain(f) = 0
  BY DEF Above, Gain
<1>3. Meets(f, c, x.h)
  BY DEF Leads
<1>4. QED
  BY <1>1, <1>2, <1>3 DEF Leads, Meets

\* patch_jump.
LEMMA PatchStarts ==
  ASSUME Stepping, NEW c, NEW x, NEW y, Entered(c, x, y), frame.at = "patch_jump"
  PROVE  /\ frame.at # "compile" /\ ToPatch(frame) = {frame.jump}
         /\ y.d = x.d
         /\ ForwardJump(code, DOMAIN c, frame.jump)
         /\ Fits' => /\ c[frame.jump - 1] = x.h
                     /\ x.h >= x.b
                     /\ y.h = x.h
                     /\ y.b = x.b
<1>1. PICK f : f = frame
  OBVIOUS
<1>2. PICK k, n, opens : k = code /\ n = Pool /\ opens = opened
  OBVIOUS
<1>3. x.h \in Int /\ x.b \in Int /\ Runs(f, x, y, k, c, n) /\ (Fits' => Leads(f, x, y, c, opens)) /\ f.at = "patch_jump"
  BY <1>1, <1>2, StepStarts
<1>4. /\ y.d = x.d
      /\ ForwardJump(k, DOMAIN c, f.jump)
  BY <1>3, PatchRuns
<1>5. ASSUME Fits'
      PROVE  /\ c[f.jump - 1] = x.h
             /\ x.h >= x.b
             /\ y.h = x.h
             /\ y.b = x.b
  BY <1>3, <1>5, PatchLeads
<1>6. ToPatch(f) = {f.jump} /\ f.at # "compile"
  BY <1>3 DEF ToPatch
<1>7. QED
  BY <1>1, <1>2, <1>4, <1>5, <1>6

\* Where a call at "initializer" leads, and the places in the code that it works with.
LEMMA InitializerRuns ==
  ASSUME NEW f, f.at = "initializer", NEW x, NEW y, NEW k, NEW c, NEW n, Runs(f, x, y, k, c, n)
  PROVE  /\ y.d = x.d
         /\ x.d > 0 \/ Listed(OP_DEFINE_GLOBAL, f.global, n)
BY DEF Runs, Descends, ScopeFrames, ForFrames, Places, DeclarationFrames, ToPatch, Starting

\* The heights between which a call at "initializer" works.
LEMMA InitializerLeads ==
  ASSUME NEW f, f.at = "initializer", NEW x, x.b \in Int, x.h \in Int, NEW y, NEW c, NEW opens, Leads(f, x, y, c, opens)
  PROVE  /\ x.h = x.b
         /\ y.h = y.b
<1>1. /\ f.at \notin ExpressionFrames
      /\ f.at \notin ScopeFrames
      /\ f.at \in FreeFrames
  BY DEF ExpressionFrames, ScopeFrames, ForFrames, FreeFrames, DeclarationFrames
<1>2. Above(f) = 0 /\ Gain(f) = 0
  BY DEF Above, Gain
<1>3. Meets(f, c, x.h)
  BY DEF Leads
<1>4. QED
  BY <1>1, <1>2, <1>3 DEF Leads, Meets

\* The initializer of a variable.
LEMMA InitializerStarts ==
  ASSUME Stepping, NEW c, NEW x, NEW y, Entered(c, x, y), frame.at = "initializer"
  PROVE  /\ frame.at # "compile" /\ ToPatch(frame) = {}
         /\ y.d = x.d
         /\ x.d > 0 \/ Listed(OP_DEFINE_GLOBAL, frame.global, Pool)
         /\ Fits' => /\ x.h = x.b
                     /\ y.h = y.b
<1>1. PICK f : f = frame
  OBVIOUS
<1>2. PICK k, n, opens : k = code /\ n = Pool /\ opens = opened
  OBVIOUS
<1>3. x.h \in Int /\ x.b \in Int /\ Runs(f, x, y, k, c, n) /\ (Fits' => Leads(f, x, y, c, opens)) /\ f.at = "initializer"
  BY <1>1, <1>2, StepStarts
<1>4. /\ y.d = x.d
      /\ x.d > 0 \/ Listed(OP_DEFINE_GLOBAL, f.global, n)
  BY <1>3, InitializerRuns
<1>5. ASSUME Fits'
      PROVE  /\ x.h = x.b
             /\ y.h = y.b
  BY <1>3, <1>5, InitializerLeads
<1>6. ToPatch(f) = {} /\ f.at # "compile"
  BY <1>3 DEF ToPatch
<1>7. QED
  BY <1>1, <1>2, <1>4, <1>5, <1>6

\* Where a call at "define_variable" leads, and the places in the code that it works with.
LEMMA DefineRuns ==
  ASSUME NEW f, f.at = "define_variable", NEW x, NEW y, NEW k, NEW c, NEW n, Runs(f, x, y, k, c, n)
  PROVE  /\ y.d = x.d
         /\ x.d > 0 \/ Listed(OP_DEFINE_GLOBAL, f.global, n)
BY DEF Runs, Descends, ScopeFrames, ForFrames, Places, DeclarationFrames, ToPatch, Starting

\* The heights between which a call at "define_variable" works.
LEMMA DefineLeads ==
  ASSUME NEW f, f.at = "define_variable", NEW x, x.b \in Int, x.h \in Int, NEW y, NEW c, NEW opens, Leads(f, x, y, c, opens)
  PROVE  /\ x.h = x.b + 1
         /\ y.h = y.b
<1>1. /\ f.at \notin ExpressionFrames
      /\ f.at \notin ScopeFrames
      /\ f.at \in FreeFrames
  BY DEF ExpressionFrames, ScopeFrames, ForFrames, FreeFrames, DeclarationFrames
<1>2. Above(f) = 1 /\ Gain(f) = 0
  BY DEF Above, Gain
<1>3. Meets(f, c, x.h)
  BY DEF Leads
<1>4. QED
  BY <1>1, <1>2, <1>3 DEF Leads, Meets

\* The end of a declaration.
LEMMA DefineStarts ==
  ASSUME Stepping, NEW c, NEW x, NEW y, Entered(c, x, y), frame.at = "define_variable"
  PROVE  /\ frame.at # "compile" /\ ToPatch(frame) = {}
         /\ y.d = x.d
         /\ x.d > 0 \/ Listed(OP_DEFINE_GLOBAL, frame.global, Pool)
         /\ Fits' => /\ x.h = x.b + 1
                     /\ y.h = y.b
<1>1. PICK f : f = frame
  OBVIOUS
<1>2. PICK k, n, opens : k = code /\ n = Pool /\ opens = opened
  OBVIOUS
<1>3. x.h \in Int /\ x.b \in Int /\ Runs(f, x, y, k, c, n) /\ (Fits' => Leads(f, x, y, c, opens)) /\ f.at = "define_variable"
  BY <1>1, <1>2, StepStarts
<1>4. /\ y.d = x.d
      /\ x.d > 0 \/ Listed(OP_DEFINE_GLOBAL, f.global, n)
  BY <1>3, DefineRuns
<1>5. ASSUME Fits'
      PROVE  /\ x.h = x.b + 1
             /\ y.h = y.b
  BY <1>3, <1>5, DefineLeads
<1>6. ToPatch(f) = {} /\ f.at # "compile"
  BY <1>3 DEF ToPatch
<1>7. QED
  BY <1>1, <1>2, <1>4, <1>5, <1>6

\* Where a call at "if_then" leads, and the places in the code that it works with.
LEMMA ThenRuns ==
  ASSUME NEW f, f.at = "if_then", NEW x, NEW y, NEW k, NEW c, NEW n, Runs(f, x, y, k, c, n)
  PROVE  /\ y.d = x.d
BY DEF Runs, Descends, ScopeFrames, ForFrames, Places, DeclarationFrames, ToPatch, Starting

\* The heights between which a call at "if_then" works.
LEMMA ThenLeads ==
  ASSUME NEW f, f.at = "if_then", NEW x, x.b \in Int, x.h \in Int, NEW y, NEW c, NEW opens, Leads(f, x, y, c, opens)
  PROVE  /\ x.h = x.b + 1
         /\ y.h = y.b
         /\ y.b = x.b
<1>1. /\ f.at \notin ExpressionFrames
      /\ f.at \notin ScopeFrames
      /\ f.at \notin FreeFrames
  BY DEF ExpressionFrames, ScopeFrames, ForFrames, FreeFrames, DeclarationFrames
<1>2. Above(f) = 1 /\ Gain(f) = 0
  BY DEF Above, Gain
<1>3. Meets(f, c, x.h)
  BY DEF Leads
<1>4. QED
  BY <1>1, <1>2, <1>3 DEF Leads, Meets

\* The branches of an if.
LEMMA ThenStarts ==
  ASSUME Stepping, NEW c, NEW x, NEW y, Entered(c, x, y), frame.at = "if_then"
  PROVE  /\ frame.at # "compile" /\ ToPatch(frame) = {}
         /\ y.d = x.d
         /\ Fits' => /\ x.h = x.b + 1
                     /\ y.h = y.b
                     /\ y.b = x.b
<1>1. PICK f : f = frame
  OBVIOUS
<1>2. PICK k, n, opens : k = code /\ n = Pool /\ opens = opened
  OBVIOUS
<1>3. x.h \in Int /\ x.b \in Int /\ Runs(f, x, y, k, c, n) /\ (Fits' => Leads(f, x, y, c, opens)) /\ f.at = "if_then"
  BY <1>1, <1>2, StepStarts
<1>4. /\ y.d = x.d
  BY <1>3, ThenRuns
<1>5. ASSUME Fits'
      PROVE  /\ x.h = x.b + 1
             /\ y.h = y.b
             /\ y.b = x.b
  BY <1>3, <1>5, ThenLeads
<1>6. ToPatch(f) = {} /\ f.at # "compile"
  BY <1>3 DEF ToPatch
<1>7. QED
  BY <1>1, <1>2, <1>4, <1>5, <1>6

\* Where a call at "if_else" leads, and the places in the code that it works with.
LEMMA ElseRuns ==
  ASSUME NEW f, f.at = "if_else", NEW x, NEW y, NEW k, NEW c, NEW n, Runs(f, x, y, k, c, n)
  PROVE  /\ y.d = x.d
         /\ ForwardJump(k, DOMAIN c, f.then_jump)
BY DEF Runs, Descends, ScopeFrames, ForFrames, Places, DeclarationFrames, ToPatch, Starting

\* The heights between which a call at "if_else" works.
LEMMA ElseLeads ==
  ASSUME NEW f, f.at = "if_else", NEW x, x.b \in Int, x.h \in Int, NEW y, NEW c, NEW opens, Leads(f, x, y, c, opens)
  PROVE  /\ x.h = x.b
         /\ y.h = y.b
         /\ y.b = x.b
         /\ c[f.then_jump - 1] = x.h + 1
<1>1. /\ f.at \notin ExpressionFrames
      /\ f.at \notin ScopeFrames
      /\ f.at \notin FreeFrames
  BY DEF ExpressionFrames, ScopeFrames, ForFrames, FreeFrames, DeclarationFrames
<1>2. Above(f) = 0 /\ Gain(f) = 0
  BY DEF Above, Gain
<1>3. Meets(f, c, x.h)
  BY DEF Leads
<1>4. QED
  BY <1>1, <1>2, <1>3 DEF Leads, Meets

\* The end of the first branch.
LEMMA ElseStarts ==
  ASSUME Stepping, NEW c, NEW x, NEW y, Entered(c, x, y), frame.at = "if_else"
  PROVE  /\ frame.at # "compile" /\ ToPatch(frame) = {frame.then_jump}
         /\ y.d = x.d
         /\ ForwardJump(code, DOMAIN c, frame.then_jump)
         /\ Fits' => /\ x.h = x.b
                     /\ y.h = y.b
                     /\ y.b = x.b
                     /\ c[frame.then_jump - 1] = x.h + 1
<1>1. PICK f : f = frame
  OBVIOUS
<1>2. PICK k, n, opens : k = code /\ n = Pool /\ opens = opened
  OBVIOUS
<1>3. x.h \in Int /\ x.b \in Int /\ Runs(f, x, y, k, c, n) /\ (Fits' => Leads(f, x, y, c, opens)) /\ f.at = "if_else"
  BY <1>1, <1>2, StepStarts
<1>4. /\ y.d = x.d
      /\ ForwardJump(k, DOMAIN c, f.then_jump)
  BY <1>3, ElseRuns
<1>5. ASSUME Fits'
      PROVE  /\ x.h = x.b
             /\ y.h = y.b
             /\ y.b = x.b
             /\ c[f.then_jump - 1] = x.h + 1
  BY <1>3, <1>5, ElseLeads
<1>6. ToPatch(f) = {f.then_jump} /\ f.at # "compile"
  BY <1>3 DEF ToPatch
<1>7. QED
  BY <1>1, <1>2, <1>4, <1>5, <1>6

\* Where a call at "while_body" leads, and the places in the code that it works with.
LEMMA WhileRuns ==
  ASSUME NEW f, f.at = "while_body", NEW x, NEW y, NEW k, NEW c, NEW n, Runs(f, x, y, k, c, n)
  PROVE  /\ y.d = x.d
         /\ f.loop_start \in DOMAIN c
BY DEF Runs, Descends, ScopeFrames, ForFrames, Places, DeclarationFrames, ToPatch, Starting

\* The heights between which a call at "while_body" works.
LEMMA WhileLeads ==
  ASSUME NEW f, f.at = "while_body", NEW x, x.b \in Int, x.h \in Int, NEW y, NEW c, NEW opens, Leads(f, x, y, c, opens)
  PROVE  /\ x.h = x.b + 1
         /\ y.h = y.b
         /\ y.b = x.b
         /\ c[f.loop_start] = x.b
<1>1. /\ f.at \notin ExpressionFrames
      /\ f.at \notin ScopeFrames
      /\ f.at \notin FreeFrames
  BY DEF ExpressionFrames, ScopeFrames, ForFrames, FreeFrames, DeclarationFrames
<1>2. Above(f) = 1 /\ Gain(f) = 0
  BY DEF Above, Gain
<1>3. Meets(f, c, x.h)
  BY DEF Leads
<1>4. QED
  BY <1>1, <1>2, <1>3 DEF Leads, Meets

\* The body of a while.
LEMMA WhileStarts ==
  ASSUME Stepping, NEW c, NEW x, NEW y, Entered(c, x, y), frame.at = "while_body"
  PROVE  /\ frame.at # "compile" /\ ToPatch(frame) = {}
         /\ y.d = x.d
         /\ frame.loop_start \in DOMAIN c
         /\ Fits' => /\ x.h = x.b + 1
                     /\ y.h = y.b
                     /\ y.b = x.b
                     /\ c[frame.loop_start] = x.b
<1>1. PICK f : f = frame
  OBVIOUS
<1>2. PICK k, n, opens : k = code /\ n = Pool /\ opens = opened
  OBVIOUS
<1>3. x.h \in Int /\ x.b \in Int /\ Runs(f, x, y, k, c, n) /\ (Fits' => Leads(f, x, y, c, opens)) /\ f.at = "while_body"
  BY <1>1, <1>2, StepStarts
<1>4. /\ y.d = x.d
      /\ f.loop_start \in DOMAIN c
  BY <1>3, WhileRuns
<1>5. ASSUME Fits'
      PROVE  /\ x.h = x.b + 1
             /\ y.h = y.b
             /\ y.b = x.b
             /\ c[f.loop_start] = x.b
  BY <1>3, <1>5, WhileLeads
<1>6. ToPatch(f) = {} /\ f.at # "compile"
  BY <1>3 DEF ToPatch
<1>7. QED
  BY <1>1, <1>2, <1>4, <1>5, <1>6

\* Where a call at "loop_end" leads, and the places in the code that it works with.
LEMMA LoopRuns ==
  ASSUME NEW f, f.at = "loop_end", NEW x, NEW y, NEW k, NEW c, NEW n, Runs(f, x, y, k, c, n)
  PROVE  /\ y.d = x.d
         /\ f.loop_start \in DOMAIN c
         /\ ForwardJump(k, DOMAIN c, f.exit_jump)
BY DEF Runs, Descends, ScopeFrames, ForFrames, Places, DeclarationFrames, ToPatch, Starting

\* The heights between which a call at "loop_end" works.
LEMMA LoopLeads ==
  ASSUME NEW f, f.at = "loop_end", NEW x, x.b \in Int, x.h \in Int, NEW y, NEW c, NEW opens, Leads(f, x, y, c, opens)
  PROVE  /\ x.h = x.b
         /\ y.h = y.b
         /\ y.b = x.b
         /\ c[f.loop_start] = x.h
         /\ c[f.exit_jump - 1] = x.h + 1
<1>1. /\ f.at \notin ExpressionFrames
      /\ f.at \notin ScopeFrames
      /\ f.at \notin FreeFrames
  BY DEF ExpressionFrames, ScopeFrames, ForFrames, FreeFrames, DeclarationFrames
<1>2. Above(f) = 0 /\ Gain(f) = 0
  BY DEF Above, Gain
<1>3. Meets(f, c, x.h)
  BY DEF Leads
<1>4. QED
  BY <1>1, <1>2, <1>3 DEF Leads, Meets

\* The end of a loop.
LEMMA LoopStarts ==
  ASSUME Stepping, NEW c, NEW x, NEW y, Entered(c, x, y), frame.at = "loop_end"
  PROVE  /\ frame.at # "compile" /\ ToPatch(frame) = {frame.exit_jump}
         /\ y.d = x.d
         /\ frame.loop_start \in DOMAIN c
         /\ ForwardJump(code, DOMAIN c, frame.exit_jump)
         /\ Fits' => /\ x.h = x.b
                     /\ y.h = y.b
                     /\ y.b = x.b
                     /\ c[frame.loop_start] = x.h
                     /\ c[frame.exit_jump - 1] = x.h + 1
<1>1. PICK f : f = frame
  OBVIOUS
<1>2. PICK k, n, opens : k = code /\ n = Pool /\ opens = opened
  OBVIOUS
<1>3. x.h \in Int /\ x.b \in Int /\ Runs(f, x, y, k, c, n) /\ (Fits' => Leads(f, x, y, c, opens)) /\ f.at = "loop_end"
  BY <1>1, <1>2, StepStarts
<1>4. /\ y.d = x.d
      /\ f.loop_start \in DOMAIN c
      /\ ForwardJump(k, DOMAIN c, f.exit_jump)
  BY <1>3, LoopRuns
<1>5. ASSUME Fits'
      PROVE  /\ x.h = x.b
             /\ y.h = y.b
             /\ y.b = x.b
             /\ c[f.loop_start] = x.h
             /\ c[f.exit_jump - 1] = x.h + 1
  BY <1>3, <1>5, LoopLeads
<1>6. ToPatch(f) = {f.exit_jump} /\ f.at # "compile"
  BY <1>3 DEF ToPatch
<1>7. QED
  BY <1>1, <1>2, <1>4, <1>5, <1>6

\* Where a call at "for_increment" leads, and the places in the code that it works with.
LEMMA IncrementRuns ==
  ASSUME NEW f, f.at = "for_increment", NEW x, NEW y, NEW k, NEW c, NEW n, Runs(f, x, y, k, c, n)
  PROVE  /\ y.d = x.d - 1
         /\ f.loop_start \in DOMAIN c
BY DEF Runs, Descends, ScopeFrames, ForFrames, Places, DeclarationFrames, ToPatch, Starting

\* The heights between which a call at "for_increment" works.
LEMMA IncrementLeads ==
  ASSUME NEW f, f.at = "for_increment", NEW x, x.b \in Int, x.h \in Int, NEW y, NEW c, NEW opens, Leads(f, x, y, c, opens)
  PROVE  /\ x.h = x.b + 1
         /\ y.h = y.b
         /\ y.b = opens[x.d]
         /\ c[f.loop_start] = x.b
<1>1. /\ f.at \notin ExpressionFrames
      /\ f.at \in ScopeFrames
      /\ f.at \notin FreeFrames
  BY DEF ExpressionFrames, ScopeFrames, ForFrames, FreeFrames, DeclarationFrames
<1>2. Above(f) = 1 /\ Gain(f) = 0
  BY DEF Above, Gain
<1>3. Meets(f, c, x.h)
  BY DEF Leads
<1>4. QED
  BY <1>1, <1>2, <1>3 DEF Leads, Meets

\* The rest of a for after its condition.
LEMMA IncrementStarts ==
  ASSUME Stepping, NEW c, NEW x, NEW y, Entered(c, x, y), frame.at = "for_increment"
  PROVE  /\ frame.at # "compile" /\ ToPatch(frame) = {}
         /\ y.d = x.d - 1
         /\ frame.loop_start \in DOMAIN c
         /\ Fits' => /\ x.h = x.b + 1
                     /\ y.h = y.b
                     /\ y.b = opened[x.d]
                     /\ c[frame.loop_start] = x.b
<1>1. PICK f : f = frame
  OBVIOUS
<1>2. PICK k, n, opens : k = code /\ n = Pool /\ opens = opened
  OBVIOUS
<1>3. x.h \in Int /\ x.b \in Int /\ Runs(f, x, y, k, c, n) /\ (Fits' => Leads(f, x, y, c, opens)) /\ f.at = "for_increment"
  BY <1>1, <1>2, StepStarts
<1>4. /\ y.d = x.d - 1
      /\ f.loop_start \in DOMAIN c
  BY <1>3, IncrementRuns
<1>5. ASSUME Fits'
      PROVE  /\ x.h = x.b + 1
             /\ y.h = y.b
             /\ y.b = opens[x.d]
             /\ c[f.loop_start] = x.b
  BY <1>3, <1>5, IncrementLeads
<1>6. ToPatch(f) = {} /\ f.at # "compile"
  BY <1>3 DEF ToPatch
<1>7. QED
  BY <1>1, <1>2, <1>4, <1>5, <1>6

\* Where a call at "for_body" leads, and the places in the code that it works with.
LEMMA ForBodyRuns ==
  ASSUME NEW f, f.at = "for_body", NEW x, NEW y, NEW k, NEW c, NEW n, Runs(f, x, y, k, c, n)
  PROVE  /\ y.d = x.d - 1
         /\ f.loop_start \in DOMAIN c
         /\ f.increment_start \in DOMAIN c
         /\ ForwardJump(k, DOMAIN c, f.exit_jump)
         /\ ForwardJump(k, DOMAIN c, f.body_jump)
BY DEF Runs, Descends, ScopeFrames, ForFrames, Places, DeclarationFrames, ToPatch, Starting

\* The heights between which a call at "for_body" works.
LEMMA ForBodyLeads ==
  ASSUME NEW f, f.at = "for_body", NEW x, x.b \in Int, x.h \in Int, NEW y, NEW c, NEW opens, Leads(f, x, y, c, opens)
  PROVE  /\ x.h = x.b
         /\ y.h = y.b
         /\ y.b = opens[x.d]
         /\ c[f.loop_start] = x.h
         /\ c[f.exit_jump - 1] = x.h + 1
         /\ c[f.body_jump - 1] = x.h
         /\ c[f.increment_start] = x.h
<1>1. /\ f.at \notin ExpressionFrames
      /\ f.at \in ScopeFrames
      /\ f.at \notin FreeFrames
  BY DEF ExpressionFrames, ScopeFrames, ForFrames, FreeFrames, DeclarationFrames
<1>2. Above(f) = 0 /\ Gain(f) = 0
  BY DEF Above, Gain
<1>3. Meets(f, c, x.h)
  BY DEF Leads
<1>4. QED
  BY <1>1, <1>2, <1>3 DEF Leads, Meets

\* The rest of a for after its increment.
LEMMA ForBodyStarts ==
  ASSUME Stepping, NEW c, NEW x, NEW y, Entered(c, x, y), frame.at = "for_body"
  PROVE  /\ frame.at # "compile" /\ ToPatch(frame) = {frame.exit_jump, frame.body_jump}
         /\ y.d = x.d - 1
         /\ frame.loop_start \in DOMAIN c
         /\ frame.increment_start \in DOMAIN c
         /\ ForwardJump(code, DOMAIN c, frame.exit_jump)
         /\ ForwardJump(code, DOMAIN c, frame.body_jump)
         /\ Fits' => /\ x.h = x.b
                     /\ y.h = y.b
                     /\ y.b = opened[x.d]
                     /\ c[frame.loop_start] = x.h
                     /\ c[frame.exit_jump - 1] = x.h + 1
                     /\ c[frame.body_jump - 1] = x.h
                     /\ c[frame.increment_start] = x.h
<1>1. PICK f : f = frame
  OBVIOUS
<1>2. PICK k, n, opens : k = code /\ n = Pool /\ opens = opened
  OBVIOUS
<1>3. x.h \in Int /\ x.b \in Int /\ Runs(f, x, y, k, c, n) /\ (Fits' => Leads(f, x, y, c, opens)) /\ f.at = "for_body"
  BY <1>1, <1>2, StepStarts
<1>4. /\ y.d = x.d - 1
      /\ f.loop_start \in DOMAIN c
      /\ f.increment_start \in DOMAIN c
      /\ ForwardJump(k, DOMAIN c, f.exit_jump)
      /\ ForwardJump(k, DOMAIN c, f.body_jump)
  BY <1>3, ForBodyRuns
<1>5. ASSUME Fits'
      PROVE  /\ x.h = x.b
             /\ y.h = y.b
             /\ y.b = opens[x.d]
             /\ c[f.loop_start] = x.h
             /\ c[f.exit_jump - 1] = x.h + 1
             /\ c[f.body_jump - 1] = x.h
             /\ c[f.increment_start] = x.h
  BY <1>3, <1>5, ForBodyLeads
<1>6. ToPatch(f) = {f.exit_jump, f.body_jump} /\ f.at # "compile"
  BY <1>3 DEF ToPatch
<1>7. QED
  BY <1>1, <1>2, <1>4, <1>5, <1>6

-----------------------------------------------------------------------------
(***************************************************************************)
(* The rest of for, while and if, action by action.                        *)
(***************************************************************************)

\* The first clause of a for.
LEMMA LandsForInitializer ==
  ASSUME Stepping, NEW c, NEW x, NEW y, Entered(c, x, y), ForInitializer
  PROVE  Lands(c, y)
<1>1. PICK f1, f2 : f1 = Call("var_declaration") /\ f2 = Call("for_condition")
  OBVIOUS
<1>2. frame.at = "for_initializer" /\ UNCHANGED <<scopeVars, chunkVars>>
  BY Zenon DEF ForInitializer, At
<1>3. Then(<<f2>>) \/ Then(<<f1, f2>>) \/ Then(<<Call("expression_statement"), f2>>)
  BY <1>1, Zenon DEF ForInitializer
<1>4. /\ x \in Spot /\ y \in Spot /\ x.h \in Int /\ x.b \in Int /\ x.d \in Nat
      /\ x.d = scopeDepth /\ y.d = x.d - 1 /\ frame.at # "compile" /\ ToPatch(frame) = {}
      /\ Fits' => x.h = x.b /\ y.h = y.b /\ y.b = opened[x.d]
  BY <1>2, ScopeStarts
<1>5. Written(c, x, c) /\ x.d = scopeDepth' /\ opened' = opened
  BY <1>2, <1>4, QuietStep, OpenedStays, PoolKept DEF scopeVars, chunkVars
<1>6. Leaps(f2, x, y, c)
  BY <1>1, <1>4, <1>5, LeapsScope
<1>7. CASE Then(<<f2>>)
  BY <1>4, <1>5, <1>6, <1>7, LeapsOne
<1>8. CASE Then(<<f1, f2>>)
  <2>1. /\ f1 \in Frame /\ f1.at \in PlainFrames /\ f1.at \in FreeFrames /\ f1.at # "compile"
        /\ f2 \in Frame /\ f2.at \in LooseFrames
    BY <1>1, PlainCalls, Kinds
  <2>2. Goes(f1, x, x, c)
    BY <1>4, <1>5, <2>1, GoesPlain
  <2>3. f2.at # "compile" /\ f2.at \notin FreeFrames /\ Goes(f2, x, y, c) /\ Joins(y, y)
    BY <1>6 DEF Leaps, Joins
  <2>4. \E k \in 0 .. 4 : \E xs : Moves(c, y, c, k, xs)
    BY <1>4, <1>5, <1>8, <2>1, <2>2, <2>3, MovesTwo
  <2>5. QED
    BY <2>4 DEF Lands
<1>9. CASE Then(<<Call("expression_statement"), f2>>)
  <2>1. Leaps(Call("expression_statement"), x, x, c)
    BY <1>4, <1>5, LeapsStatement
  <2>2. QED
    BY <1>4, <1>5, <1>6, <1>9, <2>1, LeapsTwo
<1>10. QED
  BY <1>3, <1>7, <1>8, <1>9

\* The second; without a condition the heights do not fit.
LEMMA LandsForCondition ==
  ASSUME Stepping, NEW c, NEW x, NEW y, Entered(c, x, y), ForCondition
  PROVE  Lands(c, y)
<1>1. PICK f1 : f1 = [at |-> "for_increment", loop_start |-> Len(code)]
  OBVIOUS
<1>2. frame.at = "for_condition" /\ UNCHANGED <<scopeVars, chunkVars>>
  BY Zenon DEF ForCondition, At
<1>3. PICK t : (Then(<<f1>>) /\ ~Fits') \/ Then(<<Expression, Consume(t), f1>>)
  <2>1. (At("for_condition") /\ Sees(";")) => bareFor'
    BY Zenon DEF Stepping, HNext, Note
  <2>2. At("for_condition") /\ (~Sees(";") => Then(<<Expression, Consume(";"), f1>>)) /\ (Sees(";") => Then(<<f1>>))
    BY <1>1, Zenon DEF ForCondition
  <2>3. QED
    BY <2>1, <2>2, Zenon DEF Fits
<1>4. /\ x \in Spot /\ y \in Spot /\ x.h \in Int /\ x.b \in Int /\ x.d \in Nat
      /\ x.d = scopeDepth /\ y.d = x.d - 1 /\ frame.at # "compile" /\ ToPatch(frame) = {}
      /\ Fits' => x.h = x.b /\ y.h = y.b /\ y.b = opened[x.d] /\ x.h = c[Len(code)]
      /\ Len(code) \in DOMAIN c
  BY <1>2, ScopeStarts
<1>5. Written(c, x, c) /\ x.d = scopeDepth' /\ opened' = opened
  BY <1>2, <1>4, QuietStep, OpenedStays, PoolKept DEF scopeVars, chunkVars
<1>6. CASE Then(<<f1>>) /\ ~Fits'
  <2>1. Leaps(f1, x, y, c)
    BY <1>1, <1>4, <1>5, <1>6, LeapsIncrement
  <2>2. QED
    BY <1>4, <1>5, <1>6, <2>1, LeapsOne
<1>7. CASE Then(<<Expression, Consume(t), f1>>)
  <2>1. PICK m \in Spot : m.h = x.h + 1 /\ m.b = x.b /\ m.d = x.d
    BY <1>4, Higher1
  <2>2. Leaps(Expression, x, m, c)
    BY <1>4, <1>5, <2>1, LeapsExpression
  <2>3. Leaps(Consume(t), m, m, c)
    BY <1>4, <1>5, <2>1, LeapsConsume
  <2>4. Leaps(f1, m, y, c)
    BY <1>1, <1>4, <1>5, <2>1, LeapsIncrement
  <2>5. QED
    BY <1>4, <1>5, <1>7, <2>2, <2>3, <2>4, LeapsThree
<1>8. QED
  BY <1>3, <1>6, <1>7

\* A jump over what comes next if the value on the stack is false.
LEMMA BranchStep ==
  ASSUME Stepping, NEW c, NEW x, NEW y, Entered(c, x, y), UNCHANGED scopeVars, constants' = constants,
         code' = code \o (EmitJump(OP_JUMP_IF_FALSE) \o <<OP_POP>>), ToPatch(frame) = {},
         Len(code) + 1 \in Pending(todo'), Fits' => x.h >= x.b + 1
  PROVE  \E c2 : \E l \in Spot :
           /\ Written(c, l, c2) /\ l.h = x.h - 1 /\ l.b = x.b /\ l.d = x.d /\ l.d = scopeDepth'
           /\ ForwardJump(code', DOMAIN c2, Len(code) + 1)
           /\ Fits' => c2[Len(code)] = x.h
           /\ \A i \in DOMAIN c : i \in DOMAIN c2 /\ c2[i] = c[i]
<1>1. /\ code \in Seq(Byte) /\ Chart(code, c, Pending(todo), Pool)
      /\ Len(code) \in Nat /\ Len(code) \in DOMAIN c
      /\ x \in Spot /\ x.h \in Int /\ x.b \in Int /\ x.d = scopeDepth
      /\ Fits' => Level(code, c, Pending(todo)) /\ x.h = c[Len(code)] /\ x.b = OnStack /\ 0 <= x.b
  BY StepStarts
<1>2. PICK k2 : k2 = code \o (EmitJump(OP_JUMP_IF_FALSE) \o <<OP_POP>>)
  OBVIOUS
<1>3. PICK P2, n : P2 = Pending(todo') /\ n = Pool
  OBVIOUS
<1>4. Pending(todo) \subseteq P2 /\ Len(code) + 1 \in P2
  BY <1>3, PendingKept
<1>5. PICK c2 : /\ Becomes(code, c, k2, c2, P2, n) /\ Len(k2) = Len(code) + 4
                /\ k2[Len(code) + 1] = OP_JUMP_IF_FALSE /\ Len(code) \in DOMAIN c2
                /\ Level(code, c, Pending(todo)) /\ 1 <= c[Len(code)] =>
                      /\ Level(k2, c2, P2) /\ c2[Len(k2)] = c[Len(code)] - 1
                      /\ c2[Len(code)] = c[Len(code)]
  BY <1>1, <1>2, <1>3, <1>4, AppendBranch
<1>6. PICK l \in Spot : l.h = x.h - 1 /\ l.b = x.b /\ l.d = x.d
  BY <1>1, Higher1
<1>7. Fits' => 1 <= c[Len(code)]
  BY <1>1
<1>8. OnStack' = OnStack /\ l.d = scopeDepth'
  BY <1>1, <1>6, StackStays DEF scopeVars
<1>9. Written(c, l, c2)
  <2>1. k2 = code' /\ Pool' = n
    BY <1>2, <1>3, PoolKept
  <2>2. Becomes(code, c, code', c2, Pending(todo'), Pool')
    BY <1>3, <1>5, <2>1
  <2>3. Fits' => Level(code', c2, Pending(todo')) /\ l.h = c2[Len(code')] /\ l.b = OnStack'
    BY <1>1, <1>3, <1>5, <1>6, <1>7, <1>8, <2>1
  <2>4. Pool \subseteq Pool'
    BY <1>1, PoolKept
  <2>5. QED
    BY <1>6, <1>8, <2>2, <2>3, <2>4, WrittenMore
<1>10. ForwardJump(code', DOMAIN c2, Len(code) + 1)
  <2>1. Len(code) + 1 \in Int /\ (Len(code) + 1) - 1 = Len(code) /\ k2 = code'
    BY <1>1, <1>2
  <2>2. QED
    BY <1>1, <1>5, <2>1 DEF ForwardJump
<1>11. \A i \in DOMAIN c : i \in DOMAIN c2 /\ c2[i] = c[i]
  BY <1>5 DEF Becomes, Extends
<1>12. QED
  BY <1>1, <1>5, <1>6, <1>7, <1>8, <1>9, <1>10, <1>11

\* The body of a while.
LEMMA LandsWhileBody ==
  ASSUME Stepping, NEW c, NEW x, NEW y, Entered(c, x, y), WhileBody
  PROVE  Lands(c, y)
<1>1. PICK f2 : f2 = LoopEnd(frame.loop_start, Len(code) + 1)
  OBVIOUS
<1>2. /\ frame.at = "while_body" /\ code' = code \o (EmitJump(OP_JUMP_IF_FALSE) \o <<OP_POP>>)
      /\ UNCHANGED scopeVars /\ constants' = constants /\ Then(<<Call("statement"), f2>>)
  BY <1>1, Zenon DEF WhileBody, At, EmitBytes
<1>3. /\ x \in Spot /\ y \in Spot /\ x.h \in Int /\ x.b \in Int /\ Len(code) \in Nat
  BY StepStarts
<1>4. /\ frame.at # "compile" /\ ToPatch(frame) = {} /\ y.d = x.d /\ frame.loop_start \in DOMAIN c
      /\ Fits' => x.h = x.b + 1 /\ y.h = y.b /\ y.b = x.b /\ c[frame.loop_start] = x.b
  BY <1>2, WhileStarts
<1>5. Len(code) + 1 \in Pending(todo')
  <2>1. Len(code) + 1 \in Int /\ Len(code) + 1 \in ToPatch(f2)
    BY <1>1, <1>3, PatchesAre
  <2>2. QED
    BY <1>2, <2>1, PendingSecond
<1>6. PICK c2 : \E l \in Spot :
           /\ Written(c, l, c2) /\ l.h = x.h - 1 /\ l.b = x.b /\ l.d = x.d /\ l.d = scopeDepth'
           /\ ForwardJump(code', DOMAIN c2, Len(code) + 1)
           /\ Fits' => c2[Len(code)] = x.h
           /\ \A i \in DOMAIN c : i \in DOMAIN c2 /\ c2[i] = c[i]
  BY <1>2, <1>3, <1>4, <1>5, BranchStep
<1>7. PICK l \in Spot :
           /\ Written(c, l, c2) /\ l.h = x.h - 1 /\ l.b = x.b /\ l.d = x.d /\ l.d = scopeDepth'
           /\ ForwardJump(code', DOMAIN c2, Len(code) + 1)
           /\ Fits' => c2[Len(code)] = x.h
           /\ \A i \in DOMAIN c : i \in DOMAIN c2 /\ c2[i] = c[i]
  BY <1>6
<1>8. Leaps(Call("statement"), l, l, c2)
  BY <1>3, <1>4, <1>7, LeapsStatement
<1>9. PICK s, j : s = frame.loop_start /\ j = Len(code) + 1
  OBVIOUS
<1>10. s \in DOMAIN c2 /\ ForwardJump(code', DOMAIN c2, j) /\ (Fits' => c2[s] = l.h /\ c2[j - 1] = l.h + 1)
  BY <1>3, <1>4, <1>7, <1>9
<1>11. Leaps(LoopEnd(s, j), l, y, c2)
  BY <1>3, <1>4, <1>7, <1>10, LeapsLoop
<1>12. Leaps(f2, l, y, c2)
  BY <1>1, <1>9, <1>11
<1>13. QED
  BY <1>2, <1>3, <1>4, <1>7, <1>8, <1>12, LeapsTwo

\* The first branch of an if.
LEMMA LandsIfThen ==
  ASSUME Stepping, NEW c, NEW x, NEW y, Entered(c, x, y), IfThen
  PROVE  Lands(c, y)
<1>1. PICK f2 : f2 = [at |-> "if_else", then_jump |-> Len(code) + 1]
  OBVIOUS
<1>2. /\ frame.at = "if_then" /\ code' = code \o (EmitJump(OP_JUMP_IF_FALSE) \o <<OP_POP>>)
      /\ UNCHANGED scopeVars /\ constants' = constants /\ Then(<<Call("statement"), f2>>)
  BY <1>1, Zenon DEF IfThen, At, EmitBytes
<1>3. /\ x \in Spot /\ y \in Spot /\ x.h \in Int /\ x.b \in Int /\ Len(code) \in Nat
  BY StepStarts
<1>4. /\ frame.at # "compile" /\ ToPatch(frame) = {} /\ y.d = x.d
      /\ Fits' => x.h = x.b + 1 /\ y.h = y.b /\ y.b = x.b
  BY <1>2, ThenStarts
<1>5. Len(code) + 1 \in Pending(todo')
  <2>1. Len(code) + 1 \in Int /\ Len(code) + 1 \in ToPatch(f2)
    BY <1>1, <1>3, PatchesAre
  <2>2. QED
    BY <1>2, <2>1, PendingSecond
<1>6. PICK c2 : \E l \in Spot :
           /\ Written(c, l, c2) /\ l.h = x.h - 1 /\ l.b = x.b /\ l.d = x.d /\ l.d = scopeDepth'
           /\ ForwardJump(code', DOMAIN c2, Len(code) + 1)
           /\ Fits' => c2[Len(code)] = x.h
           /\ \A i \in DOMAIN c : i \in DOMAIN c2 /\ c2[i] = c[i]
  BY <1>2, <1>3, <1>4, <1>5, BranchStep
<1>7. PICK l \in Spot :
           /\ Written(c, l, c2) /\ l.h = x.h - 1 /\ l.b = x.b /\ l.d = x.d /\ l.d = scopeDepth'
           /\ ForwardJump(code', DOMAIN c2, Len(code) + 1)
           /\ Fits' => c2[Len(code)] = x.h
           /\ \A i \in DOMAIN c : i \in DOMAIN c2 /\ c2[i] = c[i]
  BY <1>6
<1>8. Leaps(Call("statement"), l, l, c2)
  BY <1>3, <1>4, <1>7, LeapsStatement
<1>9. PICK j : j = Len(code) + 1
  OBVIOUS
<1>10. ForwardJump(code', DOMAIN c2, j) /\ (Fits' => c2[j - 1] = l.h + 1)
  BY <1>3, <1>4, <1>7, <1>9
<1>11. Leaps([at |-> "if_else", then_jump |-> j], l, y, c2)
  BY <1>3, <1>4, <1>7, <1>10, LeapsElse
<1>12. Leaps(f2, l, y, c2)
  BY <1>1, <1>9, <1>11
<1>13. QED
  BY <1>2, <1>3, <1>4, <1>7, <1>8, <1>12, LeapsTwo

\* A for without a third clause.
LEMMA LandsBareIncrement ==
  ASSUME Stepping, NEW c, NEW x, NEW y, Entered(c, x, y), ForIncrement, Sees(")")
  PROVE  Lands(c, y)
<1>1. PICK f2 : f2 = LoopEnd(frame.loop_start, Len(code) + 1)
  OBVIOUS
<1>2. /\ frame.at = "for_increment" /\ code' = code \o (EmitJump(OP_JUMP_IF_FALSE) \o <<OP_POP>>)
      /\ UNCHANGED scopeVars /\ constants' = constants /\ Then(<<Call("statement"), f2, Call("end_scope")>>)
  BY <1>1, Zenon DEF ForIncrement, At, EmitBytes
<1>3. /\ x \in Spot /\ y \in Spot /\ x.h \in Int /\ x.b \in Int /\ Len(code) \in Nat /\ x.d \in Nat /\ x.d = scopeDepth
  BY StepStarts
<1>4. /\ frame.at # "compile" /\ ToPatch(frame) = {} /\ y.d = x.d - 1 /\ frame.loop_start \in DOMAIN c
      /\ Fits' => x.h = x.b + 1 /\ y.h = y.b /\ y.b = opened[x.d] /\ c[frame.loop_start] = x.b
  BY <1>2, IncrementStarts
<1>5. Len(code) + 1 \in Pending(todo')
  <2>1. Len(code) + 1 \in Int /\ Len(code) + 1 \in ToPatch(f2)
    BY <1>1, <1>3, PatchesAre
  <2>2. QED
    BY <1>2, <2>1, PendingMiddle
<1>6. PICK c2 : \E l \in Spot :
           /\ Written(c, l, c2) /\ l.h = x.h - 1 /\ l.b = x.b /\ l.d = x.d /\ l.d = scopeDepth'
           /\ ForwardJump(code', DOMAIN c2, Len(code) + 1)
           /\ Fits' => c2[Len(code)] = x.h
           /\ \A i \in DOMAIN c : i \in DOMAIN c2 /\ c2[i] = c[i]
  BY <1>2, <1>3, <1>4, <1>5, BranchStep
<1>7. PICK l \in Spot :
           /\ Written(c, l, c2) /\ l.h = x.h - 1 /\ l.b = x.b /\ l.d = x.d /\ l.d = scopeDepth'
           /\ ForwardJump(code', DOMAIN c2, Len(code) + 1)
           /\ Fits' => c2[Len(code)] = x.h
           /\ \A i \in DOMAIN c : i \in DOMAIN c2 /\ c2[i] = c[i]
  BY <1>6
<1>8. Leaps(Call("statement"), l, l, c2)
  BY <1>3, <1>4, <1>7, LeapsStatement
<1>9. PICK s, j : s = frame.loop_start /\ j = Len(code) + 1
  OBVIOUS
<1>10. s \in DOMAIN c2 /\ ForwardJump(code', DOMAIN c2, j) /\ (Fits' => c2[s] = l.h /\ c2[j - 1] = l.h + 1)
  BY <1>3, <1>4, <1>7, <1>9
<1>11. Leaps(LoopEnd(s, j), l, l, c2)
  BY <1>3, <1>4, <1>7, <1>10, LeapsLoop
<1>12. Leaps(f2, l, l, c2)
  BY <1>1, <1>9, <1>11
<1>13. opened' = opened
  BY <1>2, OpenedStays DEF scopeVars
<1>14. Leaps(Call("end_scope"), l, y, c2)
  BY <1>3, <1>4, <1>7, <1>13, LeapsScope
<1>15. QED
  BY <1>2, <1>3, <1>4, <1>7, <1>8, <1>12, <1>14, LeapsThree

\* A for with a third clause: its increment is compiled before the body.
LEMMA LandsIncrement ==
  ASSUME Stepping, NEW c, NEW x, NEW y, Entered(c, x, y), ForIncrement, ~Sees(")")
  PROVE  Lands(c, y)
<1>1. PICK s, e, b, i : s = frame.loop_start /\ e = Len(code) + 1 /\ b = Len(code) + 5 /\ i = b + 2
  OBVIOUS
<1>2. PICK f4 : f4 = [at |-> "for_body", loop_start |-> s, body_jump |-> b, increment_start |-> i, exit_jump |-> e]
  OBVIOUS
<1>3. PICK bytes, t : bytes = <<OP_POP>> /\ t = ")"
  OBVIOUS
<1>4. /\ frame.at = "for_increment"
      /\ code' = code \o ((EmitJump(OP_JUMP_IF_FALSE) \o <<OP_POP>>) \o EmitJump(OP_JUMP))
      /\ UNCHANGED scopeVars /\ constants' = constants
  BY Zenon DEF ForIncrement, At, EmitBytes
<1>5. /\ x \in Spot /\ y \in Spot /\ x.h \in Int /\ x.b \in Int /\ Len(code) \in Nat /\ x.d \in Nat /\ x.d = scopeDepth
      /\ code \in Seq(Byte) /\ Chart(code, c, Pending(todo), Pool)
      /\ Fits' => Level(code, c, Pending(todo)) /\ x.h = c[Len(code)] /\ x.b = OnStack /\ 0 <= x.b
  BY StepStarts
<1>6. Len(EmitJump(OP_JUMP_IF_FALSE) \o <<OP_POP>>) = 4
  BY DEF EmitJump
<1>7. Then(<<Expression, Emit(bytes), Consume(t), f4>>)
  <2>1. Len(code) + 4 + 1 = Len(code) + 5
    BY <1>5
  <2>2. QED
    BY <1>1, <1>2, <1>3, <1>6, <2>1, Zenon DEF ForIncrement
<1>8. /\ frame.at # "compile" /\ ToPatch(frame) = {} /\ y.d = x.d - 1 /\ s \in DOMAIN c
      /\ Fits' => x.h = x.b + 1 /\ y.h = y.b /\ y.b = opened[x.d] /\ c[s] = x.b
  BY <1>1, <1>4, IncrementStarts
<1>9. e \in Pending(todo') /\ b \in Pending(todo')
  <2>1. e \in Int /\ b \in Int /\ ToPatch(f4) = {e, b}
    BY <1>1, <1>2, <1>5, PatchesAre
  <2>2. QED
    BY <1>7, <2>1, PendingFourth
<1>10. PICK k2 : k2 = code' /\ k2 = code \o ((EmitJump(OP_JUMP_IF_FALSE) \o <<OP_POP>>) \o EmitJump(OP_JUMP))
  BY <1>4
<1>11. PICK P2, n : P2 = Pending(todo') /\ n = Pool
  OBVIOUS
<1>12. Pending(todo) \subseteq P2 /\ Len(code) + 1 \in P2 /\ Len(code) + 5 \in P2
  BY <1>1, <1>8, <1>9, <1>11, PendingKept
<1>13. PICK c2 : /\ Becomes(code, c, k2, c2, P2, n) /\ Len(k2) = Len(code) + 7
                 /\ k2[Len(code) + 1] = OP_JUMP_IF_FALSE /\ k2[Len(code) + 5] = OP_JUMP
                 /\ Len(code) \in DOMAIN c2 /\ Len(code) + 4 \in DOMAIN c2
                 /\ Level(code, c, Pending(todo)) /\ 1 <= c[Len(code)] =>
                      /\ Level(k2, c2, P2) /\ c2[Len(code)] = c[Len(code)]
                      /\ c2[Len(code) + 4] = c[Len(code)] - 1 /\ c2[Len(k2)] = c[Len(code)] - 1
  <2>1. PICK k, P : k = code /\ P = Pending(todo)
    OBVIOUS
  <2>2. /\ k2 = k \o ((EmitJump(OP_JUMP_IF_FALSE) \o <<OP_POP>>) \o EmitJump(OP_JUMP))
        /\ Chart(k, c, P, n) /\ k \in Seq(Byte) /\ P \subseteq P2 /\ Len(k) + 1 \in P2 /\ Len(k) + 5 \in P2
    BY <1>5, <1>10, <1>11, <1>12, <2>1
  <2>3. PICK c2 : /\ Becomes(k, c, k2, c2, P2, n) /\ Len(k2) = Len(k) + 7
                  /\ k2[Len(k) + 1] = OP_JUMP_IF_FALSE /\ k2[Len(k) + 5] = OP_JUMP
                  /\ Len(k) \in DOMAIN c2 /\ Len(k) + 4 \in DOMAIN c2
                  /\ Level(k, c, P) /\ 1 <= c[Len(k)] =>
                      /\ Level(k2, c2, P2) /\ c2[Len(k)] = c[Len(k)]
                      /\ c2[Len(k) + 4] = c[Len(k)] - 1 /\ c2[Len(k2)] = c[Len(k)] - 1
    BY <2>2, AppendForJumps, SMTT(60)
  <2>4. QED
    BY <2>1, <2>3
<1>14. PICK l \in Spot : l.h = x.h - 1 /\ l.b = x.b /\ l.d = x.d
  BY <1>5, Higher1
<1>15. Fits' => 1 <= c[Len(code)]
  BY <1>5, <1>8
<1>16. OnStack' = OnStack /\ l.d = scopeDepth' /\ opened' = opened
  BY <1>4, <1>5, <1>14, StackStays, OpenedStays DEF scopeVars
<1>17. PICK j \in Spot : j.h = l.h + 1 /\ j.b = l.b /\ j.d = l.d
  BY <1>14, Higher1
<1>18. Written(c, l, c2)
  <2>1. Becomes(code, c, code', c2, Pending(todo'), Pool')
    BY <1>4, <1>10, <1>11, <1>13, PoolKept
  <2>2. Fits' => Level(code', c2, Pending(todo')) /\ l.h = c2[Len(code')] /\ l.b = OnStack'
    BY <1>5, <1>10, <1>11, <1>13, <1>14, <1>15, <1>16
  <2>3. Pool \subseteq Pool'
    BY <1>4, <1>5, PoolKept
  <2>4. QED
    BY <1>14, <1>16, <2>1, <2>2, <2>3, WrittenMore
<1>19. Leaps(Expression, l, j, c2)
  BY <1>5, <1>8, <1>14, <1>16, <1>17, LeapsExpression
<1>20. Leaps(Emit(bytes), j, l, c2)
  <2>1. OP_POP \in SimpleOps /\ Takes(OP_POP) = 1 /\ Effect(OP_POP) = -1 /\ OP_POP # OP_SET_LOCAL
    BY PopsOne
  <2>2. EmitsPlain(bytes) /\ bytes[1] = OP_POP
    BY <1>3, <2>1 DEF EmitsPlain
  <2>3. j.h \in Int /\ l.h \in Int /\ j.b \in Int /\ Takes(bytes[1]) = 1 /\ Effect(bytes[1]) = -1
    BY <2>1, <2>2, Marks
  <2>4. x.h \in Int /\ x.b \in Int /\ (Fits' => x.h = x.b + 1)
    BY <1>5, <1>8
  <2>5. Fits' => j.h >= j.b + Takes(bytes[1]) /\ l.h = j.h + Effect(bytes[1]) /\ l.b = j.b
    BY <1>14, <1>17, <2>3, <2>4
  <2>6. QED
    BY <1>14, <1>16, <1>17, <2>1, <2>2, <2>5, LeapsEmit
<1>21. Leaps(Consume(t), l, l, c2)
  BY <1>5, <1>8, <1>14, <1>16, LeapsConsume
<1>22. Leaps(f4, l, y, c2)
  <2>1. s \in DOMAIN c2 /\ i \in DOMAIN c2
    <3>1. s \in DOMAIN c2
      BY <1>8, <1>13 DEF Becomes, Extends
    <3>2. i = Len(k2) /\ code' \in Seq(Byte)
      BY <1>1, <1>5, <1>13, StepStarts
    <3>3. QED
      BY <1>10, <1>13, <3>1, <3>2, ChartEnd DEF Becomes
  <2>2. ForwardJump(code', DOMAIN c2, e) /\ ForwardJump(code', DOMAIN c2, b)
    <3>1. e - 1 = Len(code) /\ b - 1 = Len(code) + 4 /\ e \in Int /\ b \in Int
      BY <1>1, <1>5
    <3>2. Len(code) < Len(k2) /\ Len(code) + 4 < Len(k2) /\ k2[e] = OP_JUMP_IF_FALSE /\ k2[b] = OP_JUMP
      BY <1>1, <1>5, <1>13
    <3>3. k2 = code' /\ Len(code) \in DOMAIN c2 /\ Len(code) + 4 \in DOMAIN c2
      BY <1>10, <1>13
    <3>4. QED
      BY <3>1, <3>2, <3>3 DEF ForwardJump
  <2>3. ASSUME Fits'
        PROVE  /\ l.h = l.b /\ y.h = y.b /\ y.b = opened'[l.d]
               /\ c2[s] = l.h /\ c2[e - 1] = l.h + 1 /\ c2[b - 1] = l.h /\ c2[i] = l.h
    <3>1. c2[s] = c[s]
      BY <1>8, <1>13 DEF Becomes, Extends
    <3>2. e - 1 = Len(code) /\ b - 1 = Len(code) + 4 /\ i = Len(k2)
      BY <1>1, <1>5, <1>13
    <3>3. QED
      BY <1>5, <1>8, <1>13, <1>14, <1>15, <1>16, <2>3, <3>1, <3>2
  <2>4. y.d = l.d - 1
    BY <1>8, <1>14
  <2>5. QED
    BY <1>2, <1>5, <1>14, <1>16, <2>1, <2>2, <2>3, <2>4, LeapsForBody
<1>23. QED
  BY <1>5, <1>7, <1>8, <1>18, <1>19, <1>20, <1>21, <1>22, LeapsFour

\* Without an error no jump is too far.
LEMMA NoError ==
  ASSUME ~hadError', NEW p
  PROVE  (Report(p) => ~p) /\ (Advance(p) => ~p)
<1>1. Report(p) => ~p
  BY Zenon DEF Report
<1>2. ASSUME NEW bad, Report(p \/ bad)
      PROVE  ~p
  BY <1>2, Zenon DEF Report
<1>3. Advance(p) => ~p
  BY <1>2, Zenon DEF Advance
<1>4. QED
  BY <1>1, <1>3, Zenon

\* A distance that no error was reported for fits.
LEMMA NotTooFar ==
  ASSUME NEW a \in Int, ~(a > U16Max)
  PROVE  a <= U16Max
<1>1. U16Max \in Int
  BY U8Assumption DEF U16Max
<1>2. QED
  BY <1>1

\* Distances are numbers.
LEMMA DistanceTypes ==
  ASSUME NEW k \in Seq(Byte), NEW s \in Int, NEW j \in Int
  PROVE  LoopDistance(k, s) \in Int /\ Distance(k, j) \in Int /\ Distance(Looped(k, s), j) \in Int
<1>1. Looped(k, s) \in Seq(Byte)
  BY LoopedIsCode
<1>2. QED
  BY <1>1 DEF LoopDistance, Distance

\* The increment of a for: back to the condition, and the body starts here.
LEMMA LandsForBody ==
  ASSUME Stepping, NEW c, NEW x, NEW y, Entered(c, x, y), ForBody
  PROVE  Lands(c, y)
<1>1. PICK s, e : s = frame.loop_start /\ e = frame.exit_jump
  OBVIOUS
<1>2. PICK b, i : b = frame.body_jump /\ i = frame.increment_start
  OBVIOUS
<1>3. PICK f2 : f2 = LoopEnd(i, e)
  OBVIOUS
<1>4. frame.at = "for_body" /\ code' = Patched(Looped(code, s), b) /\ UNCHANGED scopeVars /\ constants' = constants
  BY <1>1, <1>2, Zenon DEF ForBody, At
<1>5. Then(<<Call("statement"), f2, Call("end_scope")>>)
  BY <1>1, <1>2, <1>3, Zenon DEF ForBody
<1>6. /\ x \in Spot /\ y \in Spot /\ x.h \in Int /\ x.b \in Int /\ Len(code) \in Nat /\ x.d \in Nat /\ x.d = scopeDepth
      /\ code \in Seq(Byte) /\ Chart(code, c, Pending(todo), Pool)
      /\ Fits' => Level(code, c, Pending(todo)) /\ x.h = c[Len(code)] /\ x.b = OnStack /\ 0 <= x.b
  BY StepStarts
<1>7. /\ frame.at # "compile" /\ ToPatch(frame) = {e, b} /\ y.d = x.d - 1
      /\ s \in DOMAIN c /\ i \in DOMAIN c /\ ForwardJump(code, DOMAIN c, e) /\ ForwardJump(code, DOMAIN c, b)
      /\ Fits' => /\ x.h = x.b /\ y.h = y.b /\ y.b = opened[x.d] /\ c[s] = x.h /\ c[e - 1] = x.h + 1
                  /\ c[b - 1] = x.h /\ c[i] = x.h
  BY <1>1, <1>2, <1>4, ForBodyStarts
<1>8. e \in Int /\ b \in Int /\ s \in Int
  BY <1>6, <1>7, ChartEnd DEF ForwardJump
<1>9. LoopDistance(code, s) <= U16Max /\ Distance(Looped(code, s), b) <= U16Max
  <2>1. Report(LoopDistance(code, s) > U16Max \/ Distance(Looped(code, s), b) > U16Max) /\ ~hadError'
    BY <1>1, <1>2, Zenon DEF ForBody, Stepping
  <2>2. ~(LoopDistance(code, s) > U16Max) /\ ~(Distance(Looped(code, s), b) > U16Max)
    BY <2>1, NoError, Zenon
  <2>3. QED
    BY <1>6, <1>8, <2>2, DistanceTypes, NotTooFar
<1>10. e \in Pending(todo')
  <2>1. e \in ToPatch(f2)
    BY <1>3, PatchesAre
  <2>2. QED
    BY <1>5, <1>8, <2>1, PendingMiddle
<1>11. PICK k, P, P2, n : k = code /\ P = Pending(todo) /\ P2 = Pending(todo') /\ n = Pool
  OBVIOUS
<1>12. PICK k2 : k2 = Patched(Looped(k, s), b)
  OBVIOUS
<1>13. PICK c2 : /\ Becomes(k, c, k2, c2, P2, n)
                 /\ Level(k, c, P) /\ c[s] = c[Len(k)] /\ 0 <= c[Len(k)] =>
                      Level(k2, c2, P2) /\ c2[Len(k2)] = c[b - 1]
  <2>1. But(P, b, P2)
    BY <1>7, <1>10, <1>11, PendingKept DEF But
  <2>2. /\ k \in Seq(Byte) /\ Chart(k, c, P, n) /\ s \in DOMAIN c /\ LoopDistance(k, s) <= U16Max
        /\ b \in Int /\ ForwardJump(k, DOMAIN c, b) /\ Distance(Looped(k, s), b) <= U16Max
    BY <1>6, <1>7, <1>8, <1>9, <1>11
  <2>3. \E c2 : /\ Becomes(k, c, Patched(Looped(k, s), b), c2, P2, n) /\ Len(Patched(Looped(k, s), b)) = Len(k) + 3
                /\ Level(k, c, P) /\ c[s] = c[Len(k)] /\ 0 <= c[Len(k)] =>
                     Level(Patched(Looped(k, s), b), c2, P2) /\ c2[Len(Patched(Looped(k, s), b))] = c[b - 1]
    BY <2>1, <2>2, LoopAndPatch
  <2>4. QED
    BY <1>12, <2>3, Zenon
<1>14. code' = k2 /\ x.d = scopeDepth' /\ OnStack' = OnStack /\ opened' = opened
  BY <1>4, <1>6, <1>11, <1>12, StackStays, OpenedStays DEF scopeVars
<1>15. Written(c, x, c2)
  <2>1. Becomes(code, c, code', c2, Pending(todo'), Pool') /\ Pool \subseteq Pool'
    BY <1>4, <1>6, <1>11, <1>13, <1>14, PoolKept
  <2>2. Fits' => Level(code', c2, Pending(todo')) /\ x.h = c2[Len(code')] /\ x.b = OnStack'
    BY <1>6, <1>7, <1>11, <1>13, <1>14
  <2>3. QED
    BY <1>6, <1>14, <2>1, <2>2, WrittenMore
<1>16. Leaps(Call("statement"), x, x, c2)
  BY <1>6, <1>7, <1>14, LeapsStatement
<1>17. Leaps(f2, x, x, c2)
  <2>1. Extends(k, c, k2, c2) /\ k2 \in Seq(Byte)
    BY <1>13, <1>14, StepStarts DEF Becomes
  <2>2. Len(k) \in Nat /\ Len(k2) \in Nat
    BY <1>6, <1>11, <2>1
  <2>3. /\ i \in DOMAIN c2 /\ ForwardJump(code', DOMAIN c2, e)
        /\ Fits' => c2[i] = x.h /\ c2[e - 1] = x.h + 1
    <3>1. i \in DOMAIN c2 /\ c2[i] = c[i] /\ e - 1 \in DOMAIN c
      BY <1>7, <2>1 DEF Extends, ForwardJump
    <3>2. e - 1 \in DOMAIN c2 /\ c2[e - 1] = c[e - 1]
      BY <2>1, <3>1 DEF Extends
    <3>3. e - 1 < Len(k) /\ k[e] \in {OP_JUMP, OP_JUMP_IF_FALSE}
      BY <1>7, <1>11 DEF ForwardJump
    <3>4. e - 1 < Len(k2) /\ k2[(e - 1) + 1] = k[(e - 1) + 1] /\ (e - 1) + 1 = e
      BY <1>8, <2>1, <2>2, <3>1, <3>3 DEF Extends
    <3>5. ForwardJump(k2, DOMAIN c2, e)
      BY <1>8, <3>2, <3>3, <3>4 DEF ForwardJump
    <3>6. QED
      BY <1>7, <1>14, <3>1, <3>2, <3>5
  <2>4. Leaps(LoopEnd(i, e), x, x, c2)
    BY <1>6, <1>7, <1>14, <2>3, LeapsLoop
  <2>5. QED
    BY <1>3, <2>4
<1>18. Leaps(Call("end_scope"), x, y, c2)
  BY <1>6, <1>7, <1>14, LeapsScope
<1>19. QED
  BY <1>5, <1>6, <1>7, <1>15, <1>16, <1>17, <1>18, LeapsThree

\* The end of a loop: back to its start, and what comes after it starts here.
LEMMA LandsEndLoop ==
  ASSUME Stepping, NEW c, NEW x, NEW y, Entered(c, x, y), EndLoop
  PROVE  Lands(c, y)
<1>1. PICK s, e : s = frame.loop_start /\ e = frame.exit_jump
  OBVIOUS
<1>2. /\ frame.at = "loop_end" /\ code' = Append(Patched(Looped(code, s), e), OP_POP)
      /\ UNCHANGED scopeVars /\ constants' = constants /\ Then(<<>>)
  BY <1>1, Zenon DEF EndLoop, At
<1>3. /\ x \in Spot /\ y \in Spot /\ x.h \in Int /\ x.b \in Int /\ y.h \in Int /\ Len(code) \in Nat /\ x.d \in Nat /\ x.d = scopeDepth
      /\ code \in Seq(Byte) /\ Chart(code, c, Pending(todo), Pool)
      /\ Fits' => Level(code, c, Pending(todo)) /\ x.h = c[Len(code)] /\ x.b = OnStack /\ 0 <= x.b
  BY StepStarts
<1>4. /\ frame.at # "compile" /\ ToPatch(frame) = {e} /\ y.d = x.d
      /\ s \in DOMAIN c /\ ForwardJump(code, DOMAIN c, e)
      /\ Fits' => x.h = x.b /\ y.h = y.b /\ y.b = x.b /\ c[s] = x.h /\ c[e - 1] = x.h + 1
  BY <1>1, <1>2, LoopStarts
<1>5. e \in Int /\ s \in Int
  BY <1>3, <1>4, ChartEnd DEF ForwardJump
<1>6. LoopDistance(code, s) <= U16Max /\ Distance(Looped(code, s), e) <= U16Max
  <2>1. Report(LoopDistance(code, s) > U16Max \/ Distance(Looped(code, s), e) > U16Max) /\ ~hadError'
    BY <1>1, Zenon DEF EndLoop, Stepping
  <2>2. ~(LoopDistance(code, s) > U16Max) /\ ~(Distance(Looped(code, s), e) > U16Max)
    BY <2>1, NoError, Zenon
  <2>3. QED
    BY <1>3, <1>5, <2>2, DistanceTypes, NotTooFar
<1>7. PICK k, P, P2, n : k = code /\ P = Pending(todo) /\ P2 = Pending(todo') /\ n = Pool
  OBVIOUS
<1>8. PICK k2 : k2 = Append(Patched(Looped(k, s), e), OP_POP)
  OBVIOUS
<1>9. PICK c2 : /\ Becomes(k, c, k2, c2, P2, n)
                /\ Level(k, c, P) /\ c[s] = c[Len(k)] /\ 0 <= c[Len(k)] /\ c[e - 1] = c[Len(k)] + 1 =>
                      Level(k2, c2, P2) /\ c2[Len(k2)] = c[Len(k)]
  <2>1. P \ {e} \subseteq P2
    BY <1>4, <1>7, PendingKept
  <2>2. /\ k \in Seq(Byte) /\ Chart(k, c, P, n) /\ s \in DOMAIN c /\ LoopDistance(k, s) <= U16Max
        /\ e \in Int /\ ForwardJump(k, DOMAIN c, e) /\ Distance(Looped(k, s), e) <= U16Max
    BY <1>3, <1>4, <1>5, <1>6, <1>7
  <2>3. \E c2 : /\ Becomes(k, c, Append(Patched(Looped(k, s), e), OP_POP), c2, P2, n)
                /\ Level(k, c, P) /\ c[s] = c[Len(k)] /\ 0 <= c[Len(k)] /\ c[e - 1] = c[Len(k)] + 1 =>
                     Level(Append(Patched(Looped(k, s), e), OP_POP), c2, P2)
                     /\ c2[Len(Append(Patched(Looped(k, s), e), OP_POP))] = c[Len(k)]
    BY <2>1, <2>2, AppendLoopEnd
  <2>4. QED
    BY <1>8, <2>3, Zenon
<1>10. code' = k2 /\ y.d = scopeDepth' /\ OnStack' = OnStack
  BY <1>2, <1>3, <1>4, <1>7, <1>8, StackStays DEF scopeVars
<1>11. Written(c, y, c2)
  <2>1. Becomes(code, c, code', c2, Pending(todo'), Pool') /\ Pool \subseteq Pool'
    BY <1>2, <1>3, <1>7, <1>9, <1>10, PoolKept
  <2>2. Fits' => Level(code', c2, Pending(todo')) /\ y.h = c2[Len(code')] /\ y.b = OnStack'
    BY <1>3, <1>4, <1>7, <1>9, <1>10
  <2>3. QED
    BY <1>3, <1>10, <2>1, <2>2, WrittenMore
<1>12. QED
  BY <1>2, <1>3, <1>11, MovesNone DEF Lands, Joins

\* The end of the first branch of an if.
LEMMA LandsIfElse ==
  ASSUME Stepping, NEW c, NEW x, NEW y, Entered(c, x, y), IfElse
  PROVE  Lands(c, y)
<1>1. PICK e, j : e = frame.then_jump /\ j = Len(code) + 1
  OBVIOUS
<1>2. PICK f1, f2 : f1 = Call("statement") /\ f2 = Patch(j)
  OBVIOUS
<1>3. /\ frame.at = "if_else" /\ code' = Append(Patched(code \o EmitJump(OP_JUMP), e), OP_POP)
      /\ UNCHANGED scopeVars /\ constants' = constants
  BY <1>1, Zenon DEF IfElse, At
<1>4. Then(<<f1, f2>>) \/ Then(<<f2>>)
  BY <1>1, <1>2, Zenon DEF IfElse
<1>5. /\ x \in Spot /\ y \in Spot /\ x.h \in Int /\ x.b \in Int /\ y.h \in Int /\ Len(code) \in Nat /\ x.d \in Nat /\ x.d = scopeDepth
      /\ code \in Seq(Byte) /\ Chart(code, c, Pending(todo), Pool)
      /\ Fits' => Level(code, c, Pending(todo)) /\ x.h = c[Len(code)] /\ x.b = OnStack /\ 0 <= x.b
  BY StepStarts
<1>6. /\ frame.at # "compile" /\ ToPatch(frame) = {e} /\ y.d = x.d /\ ForwardJump(code, DOMAIN c, e)
      /\ Fits' => x.h = x.b /\ y.h = y.b /\ y.b = x.b /\ c[e - 1] = x.h + 1
  BY <1>1, <1>3, ElseStarts
<1>7. e \in Int /\ j \in Int
  BY <1>1, <1>5, <1>6 DEF ForwardJump
<1>8. Distance(code \o EmitJump(OP_JUMP), e) <= U16Max
  <2>1. Advance(Distance(code \o EmitJump(OP_JUMP), e) > U16Max) \/ Report(Distance(code \o EmitJump(OP_JUMP), e) > U16Max)
    BY <1>1, Zenon DEF IfElse
  <2>2. ~(Distance(code \o EmitJump(OP_JUMP), e) > U16Max)
    BY <2>1, NoError, Zenon DEF Stepping
  <2>3. code \o EmitJump(OP_JUMP) \in Seq(Byte)
    BY <1>5, EmittedBytes
  <2>4. Distance(code \o EmitJump(OP_JUMP), e) \in Int
    BY <1>7, <2>3, DistanceTypes
  <2>5. QED
    BY <2>2, <2>4, NotTooFar
<1>9. j \in Pending(todo')
  <2>1. j \in ToPatch(f2)
    BY <1>2, PatchesAre
  <2>2. QED
    BY <1>4, <1>7, <2>1, PendingSecond, PendingOnly
<1>10. PICK k, P, P2, n : k = code /\ P = Pending(todo) /\ P2 = Pending(todo') /\ n = Pool
  OBVIOUS
<1>11. PICK k2 : k2 = Append(Patched(k \o EmitJump(OP_JUMP), e), OP_POP)
  OBVIOUS
<1>12. PICK c2 : /\ Becomes(k, c, k2, c2, P2, n) /\ Len(k) < Len(k2)
                 /\ k2[Len(k) + 1] = OP_JUMP /\ Len(k) \in DOMAIN c2
                 /\ Level(k, c, P) /\ 0 <= c[Len(k)] /\ c[e - 1] = c[Len(k)] + 1 =>
                       Level(k2, c2, P2) /\ c2[Len(k2)] = c[Len(k)] /\ c2[Len(k)] = c[Len(k)]
  <2>1. P \ {e} \subseteq P2 /\ Len(k) + 1 \in P2
    BY <1>1, <1>6, <1>9, <1>10, PendingKept
  <2>2. /\ k \in Seq(Byte) /\ Chart(k, c, P, n)
        /\ e \in Int /\ ForwardJump(k, DOMAIN c, e) /\ Distance(k \o EmitJump(OP_JUMP), e) <= U16Max
    BY <1>5, <1>6, <1>7, <1>8, <1>10
  <2>3. \E c2 : /\ Becomes(k, c, Append(Patched(k \o EmitJump(OP_JUMP), e), OP_POP), c2, P2, n)
                /\ Len(k) < Len(Append(Patched(k \o EmitJump(OP_JUMP), e), OP_POP))
                /\ Append(Patched(k \o EmitJump(OP_JUMP), e), OP_POP)[Len(k) + 1] = OP_JUMP /\ Len(k) \in DOMAIN c2
                /\ Level(k, c, P) /\ 0 <= c[Len(k)] /\ c[e - 1] = c[Len(k)] + 1 =>
                       Level(Append(Patched(k \o EmitJump(OP_JUMP), e), OP_POP), c2, P2)
                       /\ c2[Len(Append(Patched(k \o EmitJump(OP_JUMP), e), OP_POP))] = c[Len(k)]
                       /\ c2[Len(k)] = c[Len(k)]
    BY <2>1, <2>2, AppendElse, SMTT(30)
  <2>4. QED
    BY <1>11, <2>3, Zenon
<1>13. code' = k2 /\ x.d = scopeDepth' /\ OnStack' = OnStack
  BY <1>3, <1>5, <1>10, <1>11, StackStays DEF scopeVars
<1>14. Written(c, x, c2)
  <2>1. Becomes(code, c, code', c2, Pending(todo'), Pool') /\ Pool \subseteq Pool'
    BY <1>3, <1>5, <1>10, <1>12, <1>13, PoolKept
  <2>2. Fits' => Level(code', c2, Pending(todo')) /\ x.h = c2[Len(code')] /\ x.b = OnStack'
    BY <1>5, <1>6, <1>10, <1>12, <1>13
  <2>3. QED
    BY <1>5, <1>13, <2>1, <2>2, WrittenMore
<1>15. Leaps(f2, x, y, c2)
  <2>1. j - 1 = Len(k) /\ j - 1 < Len(k2) /\ j = Len(k) + 1
    BY <1>1, <1>5, <1>10, <1>12
  <2>2. ForwardJump(code', DOMAIN c2, j)
    BY <1>7, <1>12, <1>13, <2>1 DEF ForwardJump
  <2>3. Fits' => c2[j - 1] = x.h
    BY <1>5, <1>6, <1>10, <1>12, <2>1
  <2>4. Leaps(Patch(j), x, y, c2)
    BY <1>5, <1>6, <1>13, <2>2, <2>3, LeapsPatch
  <2>5. QED
    BY <1>2, <2>4
<1>16. CASE Then(<<f2>>)
  BY <1>5, <1>6, <1>14, <1>15, <1>16, LeapsOne
<1>17. CASE Then(<<f1, f2>>)
  <2>1. Leaps(f1, x, x, c2)
    BY <1>2, <1>5, <1>6, <1>13, LeapsStatement
  <2>2. QED
    BY <1>5, <1>6, <1>14, <1>15, <1>17, <2>1, LeapsTwo
<1>18. QED
  BY <1>4, <1>16, <1>17

\* patch_jump.
LEMMA LandsPatchJump ==
  ASSUME Stepping, NEW c, NEW x, NEW y, Entered(c, x, y), PatchJump
  PROVE  Lands(c, y)
<1>1. PICK j : j = frame.jump
  OBVIOUS
<1>2. /\ frame.at = "patch_jump" /\ code' = Patched(code, j)
      /\ UNCHANGED scopeVars /\ constants' = constants /\ Then(<<>>)
  BY <1>1, Zenon DEF PatchJump, At
<1>3. /\ x \in Spot /\ y \in Spot /\ x.h \in Int /\ x.b \in Int /\ y.h \in Int /\ Len(code) \in Nat /\ x.d \in Nat /\ x.d = scopeDepth
      /\ code \in Seq(Byte) /\ Chart(code, c, Pending(todo), Pool)
      /\ Fits' => Level(code, c, Pending(todo)) /\ x.h = c[Len(code)] /\ x.b = OnStack /\ 0 <= x.b
  BY StepStarts
<1>4. /\ frame.at # "compile" /\ ToPatch(frame) = {j} /\ y.d = x.d /\ ForwardJump(code, DOMAIN c, j)
      /\ Fits' => c[j - 1] = x.h /\ y.h = x.h /\ y.b = x.b
  BY <1>1, <1>2, PatchStarts
<1>5. j \in Int /\ j - 1 \in DOMAIN c /\ j - 1 < Len(code) /\ code[j] \in {OP_JUMP, OP_JUMP_IF_FALSE}
  BY <1>4 DEF ForwardJump
<1>6. Distance(code, j) <= U16Max
  <2>1. Report(Distance(code, j) > U16Max) /\ ~hadError'
    BY <1>1, Zenon DEF PatchJump, Stepping
  <2>2. ~(Distance(code, j) > U16Max)
    BY <2>1, NoError, Zenon
  <2>3. Distance(code, j) \in Int
    BY <1>3, <1>5, DistanceTypes
  <2>4. QED
    BY <2>2, <2>3, NotTooFar
<1>7. PICK k, P, P2, n : k = code /\ P = Pending(todo) /\ P2 = Pending(todo') /\ n = Pool
  OBVIOUS
<1>8. PICK k2 : k2 = Patched(k, j)
  OBVIOUS
<1>9. /\ k2 \in Seq(Byte) /\ Len(k2) = Len(k) /\ Chart(k2, c, P2, n) /\ Extends(k, c, k2, c)
      /\ Level(k, c, P) /\ c[Len(k)] = c[j - 1] => Level(k2, c, P2)
  <2>1. P \ {j} \subseteq P2
    BY <1>4, <1>7, PendingKept
  <2>2. /\ k \in Seq(Byte) /\ Chart(k, c, P, n)
        /\ j \in Int /\ j - 1 \in DOMAIN c /\ j - 1 < Len(k) /\ k[j] \in {OP_JUMP, OP_JUMP_IF_FALSE}
        /\ Distance(k, j) <= U16Max
    BY <1>3, <1>5, <1>6, <1>7
  <2>3. /\ Patched(k, j) \in Seq(Byte) /\ Len(Patched(k, j)) = Len(k)
        /\ Chart(Patched(k, j), c, P2, n) /\ Extends(k, c, Patched(k, j), c)
        /\ Level(k, c, P) /\ c[Len(k)] = c[j - 1] => Level(Patched(k, j), c, P2)
    BY <2>1, <2>2, PatchInstruction, SMTT(30)
  <2>4. QED
    BY <1>8, <2>3, Zenon
<1>10. code' = k2 /\ y.d = scopeDepth' /\ OnStack' = OnStack
  BY <1>2, <1>3, <1>4, <1>7, <1>8, StackStays DEF scopeVars
<1>11. Written(c, y, c)
  <2>1. Becomes(code, c, code', c, Pending(todo'), Pool') /\ Pool \subseteq Pool'
    BY <1>2, <1>3, <1>7, <1>9, <1>10, PoolKept DEF Becomes
  <2>2. Fits' => Level(code', c, Pending(todo')) /\ y.h = c[Len(code')] /\ y.b = OnStack'
    BY <1>3, <1>4, <1>7, <1>9, <1>10
  <2>3. QED
    BY <1>3, <1>10, <2>1, <2>2, WrittenMore
<1>12. QED
  BY <1>2, <1>3, <1>11, MovesNone DEF Lands, Joins

\* consume, and the end of parse_precedence.
LEMMA LandsConsume ==
  ASSUME Stepping, NEW c, NEW x, NEW y, Entered(c, x, y), ConsumeToken \/ EndExpression
  PROVE  Lands(c, y)
<1>1. /\ frame.at = "consume" \/ frame.at = "infix"
      /\ code' = code /\ UNCHANGED scopeVars /\ constants' = constants /\ Then(<<>>)
  BY Zenon DEF ConsumeToken, EndExpression, At, chunkVars
<1>2. ToPatch(frame) = {} /\ y.d = x.d /\ (Fits' => y.h = x.h /\ y.b = x.b)
  BY <1>1, ConsumeStarts, InfixStarts
<1>3. x \in Spot /\ y \in Spot
  BY StepStarts
<1>4. Written(c, x, c)
  BY <1>1, <1>2, <1>3, QuietStep, PoolKept
<1>5. Written(c, y, c)
  BY <1>2, <1>3, <1>4 DEF Written
<1>6. QED
  BY <1>1, <1>3, <1>5, MovesNone DEF Lands, Joins

\* The first token of an expression.
LEMMA LandsParse ==
  ASSUME Stepping, NEW c, NEW x, NEW y, Entered(c, x, y), ParsePrecedence
  PROVE  Lands(c, y)
<1>1. PICK p : p = frame.precedence
  OBVIOUS
<1>2. /\ frame.at = "parse_precedence" /\ Then(<<[at |-> "prefix", precedence |-> p]>>)
      /\ code' = code /\ UNCHANGED scopeVars /\ constants' = constants
  BY <1>1, Zenon DEF ParsePrecedence, At, chunkVars
<1>3. /\ frame.at # "compile" /\ ToPatch(frame) = {} /\ y.d = x.d
      /\ Fits' => x.h >= x.b /\ y.h = x.h + 1 /\ y.b = x.b
  BY <1>2, ParseStarts
<1>4. x \in Spot /\ y \in Spot
  BY StepStarts
<1>5. Written(c, x, c)
  BY <1>2, <1>3, <1>4, QuietStep, PoolKept
<1>6. x.d = scopeDepth'
  BY <1>5 DEF Written
<1>7. Leaps([at |-> "prefix", precedence |-> p], x, y, c)
  BY <1>3, <1>4, <1>6, LeapsParse
<1>8. QED
  BY <1>2, <1>3, <1>4, <1>5, <1>7, LeapsOne

\* An operand starts where the value is to be pushed.
LEMMA OperandQuiet ==
  ASSUME Stepping, NEW c, NEW x, NEW y, Entered(c, x, y), frame.at = "prefix",
         code' = code, UNCHANGED scopeVars, Pool \subseteq Pool'
  PROVE  /\ Written(c, x, c) /\ x \in Spot /\ y \in Spot /\ x.h \in Int /\ x.b \in Int /\ y.h \in Int /\ y.b \in Int
         /\ x.d = scopeDepth' /\ y.d = x.d /\ frame.at # "compile"
         /\ Fits' => x.h >= x.b /\ y.h = x.h + 1 /\ y.b = x.b
<1>1. /\ frame.at # "compile" /\ ToPatch(frame) = {} /\ y.d = x.d
      /\ Fits' => x.h >= x.b /\ y.h = x.h + 1 /\ y.b = x.b
  BY OperandStarts
<1>2. x \in Spot /\ y \in Spot /\ x.h \in Int /\ x.b \in Int /\ y.h \in Int /\ y.b \in Int
  BY StepStarts
<1>3. Written(c, x, c)
  BY <1>1, <1>2, QuietStep
<1>4. x.d = scopeDepth'
  BY <1>3 DEF Written
<1>5. QED
  BY <1>1, <1>2, <1>3, <1>4

\* An expression in parentheses.
LEMMA LandsGrouping ==
  ASSUME Stepping, NEW c, NEW x, NEW y, Entered(c, x, y), Grouping
  PROVE  Lands(c, y)
<1>1. PICK f3, t : f3 = Infix /\ t = ")"
  OBVIOUS
<1>2. /\ frame.at = "prefix" /\ Then(<<Expression, Consume(t), f3>>)
      /\ code' = code /\ UNCHANGED scopeVars /\ constants' = constants
  BY <1>1, Zenon DEF Grouping, Prefix, At, chunkVars
<1>3. Pool \subseteq Pool'
  BY <1>2, StepStarts, PoolKept
<1>4. /\ Written(c, x, c) /\ x \in Spot /\ y \in Spot /\ x.h \in Int /\ x.b \in Int /\ y.h \in Int /\ y.b \in Int
      /\ x.d = scopeDepth' /\ y.d = x.d /\ frame.at # "compile"
      /\ Fits' => x.h >= x.b /\ y.h = x.h + 1 /\ y.b = x.b
  BY <1>2, <1>3, OperandQuiet
<1>5. Leaps(Expression, x, y, c)
  BY <1>4, LeapsExpression
<1>6. Leaps(Consume(t), y, y, c)
  BY <1>4, LeapsConsume
<1>7. Leaps(f3, y, y, c)
  <2>1. Leaps(Infix, y, y, c)
    BY <1>4, LeapsInfix
  <2>2. QED
    BY <1>1, <2>1
<1>8. QED
  BY <1>2, <1>4, <1>5, <1>6, <1>7, LeapsThree

\* The instructions of operators.
LEMMA OperatorOps ==
  /\ OP_NOT \in SimpleOps /\ Takes(OP_NOT) = 1 /\ Effect(OP_NOT) = 0 /\ OP_NOT # OP_SET_LOCAL
  /\ OP_NEGATE \in SimpleOps /\ Takes(OP_NEGATE) = 1 /\ Effect(OP_NEGATE) = 0 /\ OP_NEGATE # OP_SET_LOCAL
  /\ \A op \in {OP_NIL, OP_TRUE, OP_FALSE} : op \in SimpleOps /\ Takes(op) = 0 /\ Effect(op) = 1
  /\ \A op \in NumberOps \union {OP_EQUAL, OP_ADD} :
       op \in SimpleOps /\ Takes(op) = 2 /\ Effect(op) = -1 /\ op # OP_SET_LOCAL
BY DEF SimpleOps, OpCodes, OP_PRINT, OP_POP, OP_CONSTANT, OP_RETURN, Length, JumpOps, ConstantOps, LocalOps, OP_JUMP,
       OP_JUMP_IF_FALSE, OP_LOOP, OP_GET_LOCAL, OP_SET_LOCAL, OP_GET_GLOBAL, OP_DEFINE_GLOBAL, OP_SET_GLOBAL,
       Takes, Effect, NumberOps, OP_EQUAL, OP_GREATER, OP_LESS, OP_ADD, OP_SUBTRACT, OP_MULTIPLY, OP_DIVIDE,
       OP_NOT, OP_NEGATE, OP_NIL, OP_TRUE, OP_FALSE

\* The operand of a prefix operator, and its instruction.
LEMMA LandsUnary ==
  ASSUME Stepping, NEW c, NEW x, NEW y, Entered(c, x, y), Unary
  PROVE  Lands(c, y)
<1>1. PICK f3, bytes, p : f3 = Infix /\ bytes = UnaryCode(previous.type) /\ p = PREC_UNARY
  OBVIOUS
<1>2. /\ frame.at = "prefix" /\ Then(<<Parse(p), Emit(bytes), f3>>)
      /\ code' = code /\ UNCHANGED scopeVars /\ constants' = constants
  BY <1>1, Zenon DEF Unary, Prefix, At, chunkVars
<1>3. Pool \subseteq Pool'
  BY <1>2, StepStarts, PoolKept
<1>4. /\ Written(c, x, c) /\ x \in Spot /\ y \in Spot /\ x.h \in Int /\ x.b \in Int /\ y.h \in Int /\ y.b \in Int
      /\ x.d = scopeDepth' /\ y.d = x.d /\ frame.at # "compile"
      /\ Fits' => x.h >= x.b /\ y.h = x.h + 1 /\ y.b = x.b
  BY <1>2, <1>3, OperandQuiet
<1>5. Leaps(Parse(p), x, y, c)
  BY <1>4, LeapsParse
<1>6. Leaps(Emit(bytes), y, y, c)
  <2>1. PICK op : bytes = <<op>> /\ (op = OP_NOT \/ op = OP_NEGATE)
    BY <1>1 DEF UnaryCode
  <2>2. op \in SimpleOps /\ Takes(op) = 1 /\ Effect(op) = 0 /\ op # OP_SET_LOCAL
    BY <2>1, OperatorOps
  <2>3. EmitsPlain(bytes) /\ bytes[1] = op
    BY <2>1, <2>2 DEF EmitsPlain
  <2>4. Fits' => y.h >= y.b + Takes(bytes[1]) /\ y.h = y.h + Effect(bytes[1]) /\ y.b = y.b
    <3>1. Takes(bytes[1]) = 1 /\ Effect(bytes[1]) = 0
      BY <2>2, <2>3
    <3>2. QED
      BY <1>4, <3>1
  <2>5. QED
    BY <1>4, <2>2, <2>3, <2>4, LeapsEmit
<1>7. Leaps(f3, y, y, c)
  <2>1. Leaps(Infix, y, y, c)
    BY <1>4, LeapsInfix
  <2>2. QED
    BY <1>1, <2>1
<1>8. QED
  BY <1>2, <1>4, <1>5, <1>6, <1>7, LeapsThree

\* A value that an operand's code has pushed is followed by infix operators.
LEMMA OperandLands ==
  ASSUME Stepping, NEW c, NEW x \in Spot, NEW y \in Spot, frame.at # "compile", NEW k2, code' = k2, NEW c2,
         Becomes(code, c, k2, c2, Pending(todo'), Pool'), Pool \subseteq Pool',
         y.d = scopeDepth', x.h \in Int, x.b \in Int, y.h \in Int, y.b \in Int,
         Fits' => /\ Level(k2, c2, Pending(todo')) /\ c2[Len(k2)] = x.h + 1
                  /\ x.h >= x.b /\ y.h = x.h + 1 /\ y.b = x.b /\ y.b = OnStack',
         Then(<<Infix>>)
  PROVE  Lands(c, y)
<1>1. PICK f : f = Infix
  OBVIOUS
<1>2. Written(c, y, c2)
  <2>1. Fits' => Level(code', c2, Pending(todo')) /\ y.h = c2[Len(code')] /\ y.b = OnStack'
    OBVIOUS
  <2>2. QED
    BY <2>1, WrittenMore
<1>3. Leaps(f, y, y, c2)
  <2>1. Leaps(Infix, y, y, c2)
    BY LeapsInfix
  <2>2. QED
    BY <1>1, <2>1
<1>4. Then(<<f>>)
  BY <1>1
<1>5. QED
  BY <1>2, <1>3, <1>4, LeapsOne

\* nil, true and false.
LEMMA LandsLiteral ==
  ASSUME Stepping, NEW c, NEW x, NEW y, Entered(c, x, y), Literal
  PROVE  Lands(c, y)
<1>1. PICK op : LiteralCode(previous.type) = <<op>> /\ op \in {OP_NIL, OP_TRUE, OP_FALSE}
  BY DEF Literal, Prefix, Literals, LiteralCode
<1>2. /\ frame.at = "prefix" /\ code' = code \o <<op>>
      /\ UNCHANGED scopeVars /\ constants' = constants /\ Then(<<Infix>>)
  BY <1>1, Zenon DEF Literal, Prefix, At, EmitBytes
<1>3. op \in SimpleOps /\ Takes(op) = 0 /\ Effect(op) = 1
  BY <1>1, OperatorOps
<1>4. /\ x \in Spot /\ y \in Spot /\ x.h \in Int /\ x.b \in Int /\ y.h \in Int /\ y.b \in Int /\ Len(code) \in Nat /\ x.d \in Nat /\ x.d = scopeDepth
      /\ code \in Seq(Byte) /\ Chart(code, c, Pending(todo), Pool)
      /\ Fits' => Level(code, c, Pending(todo)) /\ x.h = c[Len(code)] /\ x.b = OnStack /\ 0 <= x.b
  BY StepStarts
<1>5. /\ frame.at # "compile" /\ ToPatch(frame) = {} /\ y.d = x.d
      /\ Fits' => x.h >= x.b /\ y.h = x.h + 1 /\ y.b = x.b
  BY <1>2, OperandStarts
<1>6. PICK k, P, P2, n : k = code /\ P = Pending(todo) /\ P2 = Pending(todo') /\ n = Pool
  OBVIOUS
<1>7. PICK k2 : k2 = k \o <<op>>
  OBVIOUS
<1>8. k \in Seq(Byte) /\ Chart(k, c, P, n) /\ Pool' = n /\ P \subseteq P2
  BY <1>2, <1>4, <1>5, <1>6, PendingKept, PoolKept
<1>9. PICK c2 : /\ Becomes(k, c, k2, c2, P, n) /\ Len(k2) = Len(k) + 1
                /\ Level(k, c, P) /\ Takes(op) <= c[Len(k)] =>
                     Level(k2, c2, P) /\ c2[Len(k) + 1] = c[Len(k)] + Effect(op)
  <2>1. \E c2 : /\ Becomes(k, c, k \o <<op>>, c2, P, n) /\ Len(k \o <<op>>) = Len(k) + 1
                /\ Level(k, c, P) /\ Takes(op) <= c[Len(k)] =>
                     Level(k \o <<op>>, c2, P) /\ c2[Len(k) + 1] = c[Len(k)] + Effect(op)
    BY <1>3, <1>8, AppendSimple, SMTT(30)
  <2>2. QED
    BY <1>7, <2>1, Zenon
<1>10. Becomes(k, c, k2, c2, P2, n) /\ (Level(k2, c2, P) => Level(k2, c2, P2))
  BY <1>8, <1>9, ChartWeakens DEF Becomes
<1>11. code' = k2 /\ y.d = scopeDepth' /\ OnStack' = OnStack
  BY <1>2, <1>4, <1>5, <1>6, <1>7, StackStays DEF scopeVars
<1>12. Fits' => /\ Level(k2, c2, P2) /\ c2[Len(k2)] = x.h + 1
                /\ x.h >= x.b /\ y.h = x.h + 1 /\ y.b = x.b /\ y.b = OnStack'
  <2>1. Fits' => Takes(op) <= c[Len(k)] /\ c[Len(k)] + Effect(op) = x.h + 1
    BY <1>3, <1>4, <1>5, <1>6
  <2>2. QED
    BY <1>4, <1>5, <1>6, <1>9, <1>10, <1>11, <2>1
<1>13. Becomes(code, c, k2, c2, Pending(todo'), Pool') /\ Pool \subseteq Pool'
  BY <1>6, <1>8, <1>10
<1>14. QED
  BY <1>2, <1>4, <1>5, <1>6, <1>11, <1>12, <1>13, OperandLands

\* An operand with the index of a constant or a slot.
LEMMA LandsIndexed ==
  ASSUME Stepping, NEW c, NEW x, NEW y, Entered(c, x, y), frame.at = "prefix",
         NEW op, op \in ConstantOps \union LocalOps, Takes(op) = 0, Effect(op) = 1, NEW arg \in 0 .. (U8 - 1),
         code' = code \o <<op, arg>>, UNCHANGED scopeVars, Pool \subseteq Pool',
         op \in ConstantOps => Listed(op, arg, Pool'),
         op \in LocalOps => (Fits' => arg < OnStack),
         Then(<<Infix>>)
  PROVE  Lands(c, y)
<1>4. /\ x \in Spot /\ y \in Spot /\ x.h \in Int /\ x.b \in Int /\ y.h \in Int /\ y.b \in Int /\ Len(code) \in Nat /\ x.d \in Nat /\ x.d = scopeDepth
      /\ code \in Seq(Byte) /\ Chart(code, c, Pending(todo), Pool)
      /\ Fits' => Level(code, c, Pending(todo)) /\ x.h = c[Len(code)] /\ x.b = OnStack /\ 0 <= x.b
  BY StepStarts
<1>5. /\ frame.at # "compile" /\ ToPatch(frame) = {} /\ y.d = x.d
      /\ Fits' => x.h >= x.b /\ y.h = x.h + 1 /\ y.b = x.b
  BY OperandStarts
<1>6. PICK k, P, P2, n, n2 : k = code /\ P = Pending(todo) /\ P2 = Pending(todo') /\ n = Pool /\ n2 = Pool'
  OBVIOUS
<1>7. PICK k2 : k2 = k \o <<op, arg>>
  OBVIOUS
<1>8. /\ k \in Seq(Byte) /\ Chart(k, c, P, n2) /\ P \subseteq P2 /\ (op \in ConstantOps => Listed(op, arg, n2))
  <2>1. n \subseteq n2 /\ k \in Seq(Byte) /\ Chart(k, c, P, n)
    BY <1>4, <1>6
  <2>2. Chart(k, c, P, n2)
    BY <2>1, ChartWeakens
  <2>3. P \subseteq P2
    BY <1>5, <1>6, PendingKept
  <2>4. QED
    BY <1>6, <2>1, <2>2, <2>3
<1>9. PICK c2 : /\ Becomes(k, c, k2, c2, P, n2) /\ Len(k2) = Len(k) + 2
                /\ Level(k, c, P) /\ Takes(op) <= c[Len(k)] /\ (op \in LocalOps => arg < c[Len(k)]) =>
                     Level(k2, c2, P) /\ c2[Len(k) + 2] = c[Len(k)] + Effect(op)
  <2>1. \E c2 : /\ Becomes(k, c, k \o <<op, arg>>, c2, P, n2) /\ Len(k \o <<op, arg>>) = Len(k) + 2
                /\ Level(k, c, P) /\ Takes(op) <= c[Len(k)] /\ (op \in LocalOps => arg < c[Len(k)]) =>
                     Level(k \o <<op, arg>>, c2, P) /\ c2[Len(k) + 2] = c[Len(k)] + Effect(op)
    BY <1>8, AppendOperand, SMTT(30)
  <2>2. QED
    BY <1>7, <2>1, Zenon
<1>10. Becomes(k, c, k2, c2, P2, n2) /\ (Level(k2, c2, P) => Level(k2, c2, P2))
  <2>1. k2 \in Seq(Byte) /\ Chart(k2, c2, P, n2) /\ Extends(k, c, k2, c2) /\ n2 \subseteq n2
    BY <1>8, <1>9 DEF Becomes
  <2>2. Chart(k2, c2, P2, n2) /\ (Level(k2, c2, P) => Level(k2, c2, P2))
    BY <1>8, <2>1, ChartWeakens
  <2>3. QED
    BY <2>1, <2>2 DEF Becomes
<1>11. code' = k2 /\ y.d = scopeDepth' /\ OnStack' = OnStack
  BY <1>4, <1>5, <1>6, <1>7, StackStays DEF scopeVars
<1>12. Fits' => /\ Level(k2, c2, P2) /\ c2[Len(k2)] = x.h + 1
                /\ x.h >= x.b /\ y.h = x.h + 1 /\ y.b = x.b /\ y.b = OnStack'
  <2>0. Takes(op) = 0 /\ Effect(op) = 1 /\ (Fits' => c[Len(k)] = x.h /\ x.h >= x.b /\ 0 <= x.b) /\ x.h \in Int /\ x.b \in Int
    BY <1>4, <1>5, <1>6
  <2>1. Fits' => Takes(op) <= c[Len(k)] /\ c[Len(k)] + Effect(op) = x.h + 1
    BY <2>0
  <2>2. Fits' => (op \in LocalOps => arg < c[Len(k)])
    <3>1. arg \in Int
      OBVIOUS
    <3>2. op \in LocalOps => (Fits' => arg < x.b)
      BY <1>4
    <3>3. QED
      BY <2>0, <3>1, <3>2
  <2>3. QED
    BY <1>4, <1>5, <1>6, <1>9, <1>10, <1>11, <2>1, <2>2
<1>13. Becomes(code, c, k2, c2, Pending(todo'), Pool')
  BY <1>6, <1>10
<1>14. QED
  BY <1>4, <1>5, <1>6, <1>11, <1>12, <1>13, OperandLands

\* A constant that was added without an error has the index of the operand.
LEMMA ConstantAdded ==
  ASSUME Stepping, NEW v, MakeConstant(v), ~TooManyConstants
  PROVE  /\ ConstantIndex \in 0 .. (U8 - 1) /\ Pool \subseteq Pool'
         /\ \A op \in ConstantOps : v \in Nameable(op) => Listed(op, ConstantIndex, Pool')
<1>1. constants' = Append(constants, v) /\ ~(Len(constants) > U8 - 1)
  BY DEF MakeConstant, TooManyConstants
<1>2. constants \in Seq({t.lexeme : t \in Token}) /\ Types
  BY DEF Stepping, IInv, Types, ChunkOK
<1>3. Len(constants') = Len(constants) + 1 /\ Len(constants) \in Nat
  <2>1. Len(constants) \in Nat
    BY <1>2
  <2>2. Len(Append(constants, v)) = Len(constants) + 1
    BY <1>2
  <2>3. QED
    BY <1>1, <2>1, <2>2
<1>4. ConstantIndex = Len(constants)
  BY <1>1 DEF ConstantIndex
<1>5. ConstantIndex \in 0 .. (U8 - 1)
  BY <1>2, ConstantIndexType
<1>6. /\ \A i \in 1 .. Len(constants) : constants'[i] = constants[i]
      /\ constants'[Len(constants) + 1] = v
  BY <1>1, <1>2
<1>7. \A op : Nameable(op)' = Nameable(op)
  BY DEF Stepping, Nameable, Lexemes
<1>8. \A p \in Pool : p \in Pool'
  <2>1. SUFFICES ASSUME NEW p \in Pool
                 PROVE  p \in Pool'
    OBVIOUS
  <2>2. p \in ConstantOps \X Nat /\ p[2] < Len(constants) /\ constants[p[2] + 1] \in Nameable(p[1])
    BY DEF Pool
  <2>3. p[2] \in Nat /\ p[2] + 1 \in 1 .. Len(constants) /\ p[2] < Len(constants')
    BY <1>3, <2>2
  <2>4. constants'[p[2] + 1] \in Nameable(p[1])'
    BY <1>6, <1>7, <2>2, <2>3
  <2>5. QED
    BY <2>2, <2>3, <2>4 DEF Pool
<1>9. ASSUME NEW op \in ConstantOps, v \in Nameable(op)
      PROVE  Listed(op, ConstantIndex, Pool')
  <2>1. <<op, ConstantIndex>> \in ConstantOps \X Nat /\ ConstantIndex < Len(constants')
    BY <1>3, <1>4
  <2>2. constants'[ConstantIndex + 1] \in Nameable(op)'
    BY <1>4, <1>6, <1>7, <1>9
  <2>3. QED
    BY <2>1, <2>2 DEF Pool, Listed
<1>10. QED
  BY <1>5, <1>8, <1>9

\* A token that is not the end of the file comes from the source.
LEMMA FromSource ==
  ASSUME Types, previous.type \in Constants \union {"identifier"}
  PROVE  previous \in source.tokens
<1>1. EOF.type \notin Constants \union {"identifier"}
  BY DEF EOF, Constants
<1>2. previous # EOF
  BY <1>1
<1>3. QED
  BY <1>2 DEF Types, ParserOK, Token

\* A name that was added is one for every instruction on globals.
LEMMA NameAdded ==
  ASSUME Stepping, MakeConstant(previous.lexeme), ~TooManyConstants, previous.type = "identifier"
  PROVE  /\ ConstantIndex \in 0 .. (U8 - 1) /\ Pool \subseteq Pool'
         /\ \A op \in NameOps : Listed(op, ConstantIndex, Pool')
<1>1. previous \in source.tokens
  BY FromSource DEF Stepping, IInv
<1>2. \A op \in NameOps : op \in ConstantOps /\ previous.lexeme \in Nameable(op)
  BY <1>1 DEF NameOps, Nameable, Lexemes
<1>3. QED
  BY <1>2, ConstantAdded

\* The instructions that name globals.
LEMMA Names ==
  /\ {OP_GET_GLOBAL, OP_DEFINE_GLOBAL, OP_SET_GLOBAL} = NameOps
  /\ NameOps \subseteq ConstantOps /\ OP_CONSTANT \notin NameOps /\ OP_GET_LOCAL \notin ConstantOps
BY DEF NameOps, ConstantOps, OP_CONSTANT, OP_GET_LOCAL, OP_GET_GLOBAL, OP_DEFINE_GLOBAL, OP_SET_GLOBAL

\* The instructions that read.
LEMMA ReadingOps ==
  /\ \A op \in {OP_CONSTANT, OP_GET_GLOBAL} : op \in ConstantOps /\ op \notin LocalOps /\ Takes(op) = 0 /\ Effect(op) = 1
  /\ OP_GET_LOCAL \in LocalOps /\ OP_GET_LOCAL \notin ConstantOps /\ Takes(OP_GET_LOCAL) = 0 /\ Effect(OP_GET_LOCAL) = 1
BY DEF ConstantOps, LocalOps, OP_CONSTANT, OP_GET_LOCAL, OP_SET_LOCAL, OP_GET_GLOBAL, OP_DEFINE_GLOBAL, OP_SET_GLOBAL,
       Takes, Effect, NumberOps, OP_EQUAL, OP_GREATER, OP_LESS, OP_ADD, OP_SUBTRACT, OP_MULTIPLY, OP_DIVIDE,
       OP_NOT, OP_NEGATE, OP_NIL, OP_TRUE, OP_FALSE, OP_POP, OP_PRINT, OP_JUMP_IF_FALSE

\* A number or a string.
LEMMA LandsConstantLiteral ==
  ASSUME Stepping, NEW c, NEW x, NEW y, Entered(c, x, y), ConstantLiteral
  PROVE  Lands(c, y)
<1>1. PICK op, arg : op = OP_CONSTANT /\ arg = ConstantIndex
  OBVIOUS
<1>2. /\ frame.at = "prefix" /\ code' = code \o <<op, arg>> /\ UNCHANGED scopeVars /\ Then(<<Infix>>)
      /\ MakeConstant(previous.lexeme) /\ Report(TooManyConstants) /\ ~hadError'
  BY <1>1, Zenon DEF ConstantLiteral, Prefix, At, EmitBytes, Stepping
<1>3. ~TooManyConstants
  BY <1>2, NoError, Zenon
<1>4. arg \in 0 .. (U8 - 1) /\ Listed(op, arg, Pool') /\ Pool \subseteq Pool'
  <2>1. previous \in source.tokens /\ previous.type \in Constants
    BY FromSource DEF ConstantLiteral, Prefix, Stepping, IInv
  <2>2. op \in ConstantOps /\ previous.lexeme \in Nameable(op)
    BY <1>1, <2>1 DEF Nameable, Lexemes, ConstantOps
  <2>3. QED
    BY <1>1, <1>2, <1>3, <2>2, ConstantAdded
<1>5. op \in ConstantOps /\ op \notin LocalOps /\ Takes(op) = 0 /\ Effect(op) = 1
  BY <1>1, ReadingOps
<1>6. QED
  BY <1>2, <1>4, <1>5, LandsIndexed

\* emit.
LEMMA LandsEmit ==
  ASSUME Stepping, NEW c, NEW x, NEW y, Entered(c, x, y), EmitCode
  PROVE  Lands(c, y)
<1>1. PICK bytes : bytes = frame.bytes
  OBVIOUS
<1>2. /\ frame.at = "emit" /\ code' = code \o bytes /\ UNCHANGED scopeVars /\ constants' = constants /\ Then(<<>>)
  BY <1>1, Zenon DEF EmitCode, At, EmitBytes
<1>3. /\ x \in Spot /\ y \in Spot /\ x.h \in Int /\ x.b \in Int /\ y.h \in Int /\ y.b \in Int /\ Len(code) \in Nat /\ x.d \in Nat /\ x.d = scopeDepth
      /\ code \in Seq(Byte) /\ Chart(code, c, Pending(todo), Pool)
      /\ Fits' => Level(code, c, Pending(todo)) /\ x.h = c[Len(code)] /\ x.b = OnStack /\ 0 <= x.b
  BY StepStarts
<1>4. /\ ToPatch(frame) = {} /\ y.d = x.d
      /\ EmitsPlain(bytes) \/ EmitsSet(bytes, Pool)
      /\ Fits' => /\ x.h >= x.b + Takes(bytes[1]) /\ y.h = x.h + Effect(bytes[1]) /\ y.b = x.b
                  /\ bytes[1] = OP_SET_LOCAL => bytes[2] < x.b
  BY <1>1, <1>2, EmitStarts
<1>5. PICK k, P, P2, n : k = code /\ P = Pending(todo) /\ P2 = Pending(todo') /\ n = Pool
  OBVIOUS
<1>6. PICK k2 : k2 = k \o bytes
  OBVIOUS
<1>7. k \in Seq(Byte) /\ Chart(k, c, P, n) /\ P \subseteq P2
  BY <1>3, <1>4, <1>5, PendingKept
<1>8. Takes(bytes[1]) \in 0 .. 2 /\ Effect(bytes[1]) \in {-1, 0, 1}
  BY Lengths
<1>9. PICK c2 : /\ Becomes(k, c, k2, c2, P, n)
                /\ Level(k, c, P) /\ Takes(bytes[1]) <= c[Len(k)] /\ (bytes[1] = OP_SET_LOCAL => bytes[2] < c[Len(k)]) =>
                     Level(k2, c2, P) /\ c2[Len(k2)] = c[Len(k)] + Effect(bytes[1])
  <2>1. CASE EmitsPlain(bytes)
    <3>1. \E c2 : /\ Becomes(k, c, k \o bytes, c2, P, n)
                  /\ Level(k, c, P) /\ Takes(bytes[1]) <= c[Len(k)] =>
                       Level(k \o bytes, c2, P) /\ c2[Len(k \o bytes)] = c[Len(k)] + Effect(bytes[1])
      BY <1>7, <2>1, AppendPlain, SMTT(30)
    <3>2. QED
      BY <1>6, <3>1, Zenon
  <2>2. CASE EmitsSet(bytes, n)
    <3>0. PICK arg \in 0 .. (U8 - 1) : bytes = <<OP_SET_LOCAL, arg>> \/ (bytes = <<OP_SET_GLOBAL, arg>> /\ Listed(OP_SET_GLOBAL, arg, n))
      BY <2>2 DEF EmitsSet
    <3>1. PICK op : /\ bytes = <<op, arg>> /\ op \in ConstantOps \union LocalOps
                    /\ op \in ConstantOps => Listed(op, arg, n)
                    /\ op \in LocalOps => op = OP_SET_LOCAL
      <4>1. OP_SET_LOCAL \in LocalOps /\ OP_SET_LOCAL \notin ConstantOps
            /\ OP_SET_GLOBAL \in ConstantOps /\ OP_SET_GLOBAL \notin LocalOps
        BY DEF ConstantOps, LocalOps, OP_CONSTANT, OP_GET_LOCAL, OP_SET_LOCAL, OP_GET_GLOBAL, OP_DEFINE_GLOBAL, OP_SET_GLOBAL
      <4>2. PICK op : \/ op = OP_SET_LOCAL /\ bytes = <<op, arg>>
                      \/ op = OP_SET_GLOBAL /\ bytes = <<op, arg>> /\ Listed(op, arg, n)
        BY <3>0
      <4>3. /\ bytes = <<op, arg>> /\ op \in ConstantOps \union LocalOps
            /\ op \in ConstantOps => Listed(op, arg, n)
            /\ op \in LocalOps => op = OP_SET_LOCAL
        BY <4>1, <4>2
      <4>4. QED
        BY <4>3
    <3>2. \E c2 : /\ Becomes(k, c, k \o <<op, arg>>, c2, P, n) /\ Len(k \o <<op, arg>>) = Len(k) + 2
                  /\ Level(k, c, P) /\ Takes(op) <= c[Len(k)] /\ (op \in LocalOps => arg < c[Len(k)]) =>
                       Level(k \o <<op, arg>>, c2, P) /\ c2[Len(k) + 2] = c[Len(k)] + Effect(op)
      BY <1>7, <3>1, AppendOperand, SMTT(30)
    <3>3. bytes[1] = op /\ bytes[2] = arg /\ bytes = <<op, arg>> /\ (op \in LocalOps => op = OP_SET_LOCAL)
      BY <3>1
    <3>4. QED
      BY <1>6, <3>2, <3>3
  <2>3. QED
    BY <1>4, <1>5, <2>1, <2>2
<1>10. Becomes(k, c, k2, c2, P2, n) /\ (Level(k2, c2, P) => Level(k2, c2, P2))
  <2>1. k2 \in Seq(Byte) /\ Chart(k2, c2, P, n) /\ Extends(k, c, k2, c2) /\ n \subseteq n
    BY <1>7, <1>9 DEF Becomes
  <2>2. Chart(k2, c2, P2, n) /\ (Level(k2, c2, P) => Level(k2, c2, P2))
    BY <1>7, <2>1, ChartWeakens
  <2>3. QED
    BY <2>1, <2>2 DEF Becomes
<1>11. code' = k2 /\ y.d = scopeDepth' /\ OnStack' = OnStack
  BY <1>2, <1>3, <1>4, <1>5, <1>6, StackStays DEF scopeVars
<1>12. Fits' => Level(k2, c2, P2) /\ y.h = c2[Len(k2)] /\ y.b = OnStack'
  <2>1. bytes[1] = OP_SET_LOCAL => bytes[2] \in Int
    <3>1. OP_SET_LOCAL # OP_RETURN /\ Length(OP_SET_LOCAL) = 2
      BY DEF Length, JumpOps, ConstantOps, LocalOps, OP_JUMP, OP_JUMP_IF_FALSE, OP_LOOP, OP_CONSTANT, OP_RETURN,
             OP_GET_LOCAL, OP_SET_LOCAL, OP_GET_GLOBAL, OP_DEFINE_GLOBAL, OP_SET_GLOBAL
    <3>2. OP_SET_LOCAL \notin SimpleOps
      BY <3>1 DEF SimpleOps
    <3>3. EmitsPlain(bytes) => bytes[1] \in SimpleOps
      BY DEF EmitsPlain
    <3>4. EmitsSet(bytes, Pool) => bytes[2] \in Int
      BY U8Assumption DEF EmitsSet
    <3>5. QED
      BY <1>4, <3>2, <3>3, <3>4
  <2>2. Fits' => /\ Takes(bytes[1]) <= c[Len(k)] /\ c[Len(k)] + Effect(bytes[1]) = y.h
                 /\ bytes[1] = OP_SET_LOCAL => bytes[2] < c[Len(k)]
    BY <1>3, <1>4, <1>5, <1>8, <2>1
  <2>3. QED
    BY <1>3, <1>4, <1>5, <1>9, <1>10, <1>11, <2>2
<1>13. Written(c, y, c2)
  <2>1. Becomes(code, c, code', c2, Pending(todo'), Pool') /\ Pool \subseteq Pool'
    BY <1>2, <1>3, <1>5, <1>10, <1>11, PoolKept
  <2>2. QED
    BY <1>3, <1>5, <1>11, <1>12, <2>1, WrittenMore
<1>14. QED
  BY <1>2, <1>3, <1>13, MovesNone DEF Lands, Joins

\* The local that a name is resolved to is on the stack.
LEMMA ResolvedOnStack ==
  ASSUME Stepping, Called(locals, previous) # {}, locals[Resolved(locals, previous)].depth # NoDepth
  PROVE  /\ Resolved(locals, previous) - 1 \in 0 .. (U8 - 1)
         /\ Fits' => Resolved(locals, previous) - 1 < OnStack
<1>1. Types /\ Len(locals) \in Nat /\ (Fits' => LayersOK)
  BY FitsBefore DEF Stepping, IInv, Types, LocalsOK
<1>2. Resolved(locals, previous) - 1 \in 0 .. (U8 - 1)
  BY <1>1, VariableBytes
<1>3. PICK i : i = Resolved(locals, previous)
  OBVIOUS
<1>4. i \in 1 .. Len(locals) /\ locals[i].depth # NoDepth
  BY <1>1, <1>3, ResolvedIsInnermost
<1>5. ASSUME Fits' PROVE i - 1 < OnStack
  <2>1. \A j \in 1 .. Len(locals) : locals[j].depth = NoDepth => j = Len(locals)
    BY <1>1, <1>5 DEF LayersOK, Layered
  <2>2. CASE \E j \in 1 .. Len(locals) : locals[j].depth = NoDepth
    <3>1. locals[Len(locals)].depth = NoDepth
      BY <2>1, <2>2
    <3>2. i # Len(locals) /\ OnStack = Len(locals) - 1
      BY <1>4, <2>2, <3>1 DEF OnStack
    <3>3. QED
      BY <1>1, <1>4, <3>2
  <2>3. CASE ~\E j \in 1 .. Len(locals) : locals[j].depth = NoDepth
    <3>1. OnStack = Len(locals)
      BY <2>3 DEF OnStack
    <3>2. QED
      BY <1>1, <1>4, <3>1
  <2>4. QED
    BY <2>2, <2>3
<1>6. QED
  BY <1>2, <1>3, <1>5

\* The assignment of a variable: its value is an expression.
LEMMA LandsSet ==
  ASSUME Stepping, NEW c, NEW x, NEW y, Entered(c, x, y), frame.at = "prefix",
         code' = code, UNCHANGED scopeVars, Pool \subseteq Pool',
         NEW bytes, EmitsSet(bytes, Pool'), bytes[1] = OP_SET_LOCAL => (Fits' => bytes[2] < OnStack),
         Then(<<Expression, Emit(bytes), Infix>>)
  PROVE  Lands(c, y)
<1>1. PICK f3 : f3 = Infix
  OBVIOUS
<1>2. Then(<<Expression, Emit(bytes), f3>>)
  BY <1>1
<1>3. /\ Written(c, x, c) /\ x \in Spot /\ y \in Spot /\ x.h \in Int /\ x.b \in Int /\ y.h \in Int /\ y.b \in Int
      /\ x.d = scopeDepth' /\ y.d = x.d /\ frame.at # "compile"
      /\ Fits' => x.h >= x.b /\ y.h = x.h + 1 /\ y.b = x.b
  BY OperandQuiet
<1>4. Fits' => x.b = OnStack
  BY StepStarts
<1>5. Leaps(Expression, x, y, c)
  BY <1>3, LeapsExpression
<1>6. Leaps(Emit(bytes), y, y, c)
  <2>1. Takes(bytes[1]) = 1 /\ Effect(bytes[1]) = 0
    <3>1. bytes[1] = OP_SET_LOCAL \/ bytes[1] = OP_SET_GLOBAL
      BY DEF EmitsSet
    <3>2. Takes(OP_SET_LOCAL) = 1 /\ Takes(OP_SET_GLOBAL) = 1
      BY DEF Takes, NumberOps, OP_CONSTANT, OP_GET_LOCAL, OP_SET_LOCAL, OP_GET_GLOBAL, OP_DEFINE_GLOBAL,
         OP_SET_GLOBAL, OP_EQUAL, OP_GREATER, OP_LESS, OP_ADD, OP_SUBTRACT, OP_MULTIPLY, OP_DIVIDE,
         OP_NOT, OP_NEGATE, OP_NIL, OP_TRUE, OP_FALSE, OP_POP, OP_PRINT, OP_JUMP_IF_FALSE
    <3>3. Effect(OP_SET_LOCAL) = 0 /\ Effect(OP_SET_GLOBAL) = 0
      BY DEF Effect, NumberOps, OP_CONSTANT, OP_GET_LOCAL, OP_SET_LOCAL, OP_GET_GLOBAL, OP_DEFINE_GLOBAL,
         OP_SET_GLOBAL, OP_EQUAL, OP_GREATER, OP_LESS, OP_ADD, OP_SUBTRACT, OP_MULTIPLY, OP_DIVIDE,
         OP_NOT, OP_NEGATE, OP_NIL, OP_TRUE, OP_FALSE, OP_POP, OP_PRINT, OP_JUMP_IF_FALSE
    <3>4. QED
      BY <3>1, <3>2, <3>3
  <2>2. Fits' => y.h >= y.b + Takes(bytes[1]) /\ y.h = y.h + Effect(bytes[1]) /\ y.b = y.b
    BY <1>3, <2>1
  <2>3. Fits' => (bytes[1] = OP_SET_LOCAL => bytes[2] < y.b)
    BY <1>3, <1>4
  <2>4. QED
    BY <1>3, <2>2, <2>3, LeapsEmit
<1>7. Leaps(f3, y, y, c)
  <2>1. Leaps(Infix, y, y, c)
    BY <1>3, LeapsInfix
  <2>2. QED
    BY <1>1, <2>1
<1>8. QED
  BY <1>2, <1>3, <1>5, <1>6, <1>7, LeapsThree

\* A variable, read or assigned.
LEMMA LandsVariable ==
  ASSUME Stepping, NEW c, NEW x, NEW y, Entered(c, x, y), NamedVariable
  PROVE  Lands(c, y)
<1>1. PICK isLocal, local, fails, arg, get, set :
        /\ isLocal = (Called(locals, previous) # {})
        /\ local   = Resolved(locals, previous)
        /\ fails   = (IF isLocal THEN locals[local].depth = NoDepth ELSE TooManyConstants)
        /\ arg     = (IF isLocal THEN local - 1 ELSE ConstantIndex)
        /\ get     = (IF isLocal THEN OP_GET_LOCAL ELSE OP_GET_GLOBAL)
        /\ set     = (IF isLocal THEN OP_SET_LOCAL ELSE OP_SET_GLOBAL)
  OBVIOUS
<1>2. /\ frame.at = "prefix" /\ UNCHANGED scopeVars
      /\ IF isLocal THEN UNCHANGED constants ELSE MakeConstant(previous.lexeme)
      /\ \/ Advance(fails) /\ Then(<<Expression, Emit(<<set, arg>>), Infix>>) /\ code' = code
         \/ Report(fails) /\ code' = code \o <<get, arg>> /\ Then(<<Infix>>)
  BY <1>1, Zenon DEF NamedVariable, Prefix, At, EmitBytes
<1>3. ~fails
  BY <1>2, NoError, Zenon DEF Stepping
<1>4. previous.type = "identifier"
  BY DEF NamedVariable, Prefix
<1>5. /\ arg \in 0 .. (U8 - 1) /\ Pool \subseteq Pool'
      /\ isLocal => (Fits' => arg < OnStack)
      /\ ~isLocal => \A op \in NameOps : Listed(op, arg, Pool')
  <2>1. CASE isLocal
    <3>1. Called(locals, previous) # {} /\ locals[Resolved(locals, previous)].depth # NoDepth
          /\ arg = Resolved(locals, previous) - 1 /\ constants' = constants
      BY <1>1, <1>2, <1>3, <2>1
    <3>2. QED
      BY <2>1, <3>1, PoolKept, ResolvedOnStack
  <2>2. CASE ~isLocal
    <3>1. ~TooManyConstants /\ arg = ConstantIndex /\ MakeConstant(previous.lexeme)
      BY <1>1, <1>2, <1>3, <2>2
    <3>2. QED
      BY <1>4, <2>2, <3>1, NameAdded
  <2>3. QED
    BY <2>1, <2>2
<1>6. CASE Then(<<Expression, Emit(<<set, arg>>), Infix>>) /\ code' = code
  <2>1. PICK bytes : bytes = <<set, arg>>
    OBVIOUS
  <2>2. OP_SET_LOCAL # OP_SET_GLOBAL
    BY DEF OP_SET_LOCAL, OP_SET_GLOBAL
  <2>3. EmitsSet(bytes, Pool') /\ (bytes[1] = OP_SET_LOCAL => (Fits' => bytes[2] < OnStack))
    <3>1. CASE isLocal
      <4>1. bytes = <<OP_SET_LOCAL, arg>>
        BY <1>1, <2>1, <3>1
      <4>2. QED
        BY <1>5, <3>1, <4>1 DEF EmitsSet
    <3>2. CASE ~isLocal
      <4>1. bytes = <<OP_SET_GLOBAL, arg>>
        BY <1>1, <2>1, <3>2
      <4>2. QED
        BY <1>5, <2>2, <3>2, <4>1, Names DEF EmitsSet
    <3>3. QED
      BY <3>1, <3>2
  <2>4. Then(<<Expression, Emit(bytes), Infix>>)
    BY <1>6, <2>1
  <2>5. QED
    BY <1>2, <1>5, <1>6, <2>3, <2>4, LandsSet
<1>7. CASE code' = code \o <<get, arg>> /\ Then(<<Infix>>)
  <2>1. get \in ConstantOps \union LocalOps /\ Takes(get) = 0 /\ Effect(get) = 1
        /\ (get \in ConstantOps => ~isLocal /\ get \in NameOps) /\ (get \in LocalOps => isLocal)
    BY <1>1, ReadingOps, Names
  <2>2. QED
    BY <1>2, <1>5, <1>7, <2>1, LandsIndexed
<1>8. QED
  BY <1>2, <1>6, <1>7

\* What a binary operator emits.
LEMMA BinaryEmits ==
  ASSUME NEW t, InfixPrecedence(t) > 0, t # "and"
  PROVE  LET bytes == BinaryCode(t)
         IN  EmitsPlain(bytes) /\ Takes(bytes[1]) = 2 /\ Effect(bytes[1]) = -1 /\ bytes[1] # OP_SET_LOCAL
<1>1. PICK op \in NumberOps \union {OP_EQUAL, OP_ADD} : BinaryCode(t) = <<op>> \/ BinaryCode(t) = <<op, OP_NOT>>
  BY DEF InfixPrecedence, BinaryCode, NumberOps, PREC_NONE
<1>2. op \in SimpleOps /\ Takes(op) = 2 /\ Effect(op) = -1 /\ op # OP_SET_LOCAL
  BY OperatorOps
<1>3. BinaryCode(t)[1] = op
  BY <1>1
<1>4. EmitsPlain(BinaryCode(t))
  BY <1>1, <1>2 DEF EmitsPlain
<1>5. QED
  BY <1>2, <1>3, <1>4

\* The right operand of an operator, and its instruction.
LEMMA LandsBinary ==
  ASSUME Stepping, NEW c, NEW x, NEW y, Entered(c, x, y), Binary
  PROVE  Lands(c, y)
<1>1. PICK f3, bytes, p : f3 = Infix /\ bytes = BinaryCode(current.type) /\ p = InfixPrecedence(current.type) + 1
  OBVIOUS
<1>2. /\ frame.at = "infix" /\ Then(<<Parse(p), Emit(bytes), f3>>)
      /\ code' = code /\ UNCHANGED scopeVars /\ constants' = constants
      /\ frame.precedence <= InfixPrecedence(current.type) /\ current.type # "and"
  BY <1>1, Zenon DEF Binary, TakesInfix, Sees, At, chunkVars
<1>3. InfixPrecedence(current.type) > 0
  <2>1. frame.precedence \in PREC_ASSIGNMENT .. PREC_UNARY
    BY <1>2, StepStarts, FrameFields
  <2>2. InfixPrecedence(current.type) \in Int
    BY DEF InfixPrecedence, PREC_NONE, PREC_AND, PREC_EQUALITY, PREC_COMPARISON, PREC_TERM, PREC_FACTOR
  <2>3. QED
    BY <1>2, <2>1, <2>2 DEF PREC_ASSIGNMENT, PREC_UNARY
<1>4. EmitsPlain(bytes) /\ Takes(bytes[1]) = 2 /\ Effect(bytes[1]) = -1 /\ bytes[1] # OP_SET_LOCAL
  BY <1>1, <1>2, <1>3, BinaryEmits
<1>5. /\ frame.at # "compile" /\ ToPatch(frame) = {} /\ y.d = x.d
      /\ Fits' => x.h >= x.b + 1 /\ y.h = x.h /\ y.b = x.b
  BY <1>2, InfixStarts
<1>6. x \in Spot /\ y \in Spot /\ x.h \in Int /\ x.b \in Int /\ y.h \in Int /\ y.b \in Int
  BY StepStarts
<1>7. Written(c, x, c)
  BY <1>2, <1>5, <1>6, QuietStep, PoolKept
<1>8. x.d = scopeDepth'
  BY <1>7 DEF Written
<1>9. PICK m \in Spot : m.h = x.h + 1 /\ m.b = x.b /\ m.d = x.d
  BY <1>6, Higher1
<1>10. Leaps(Parse(p), x, m, c)
  <2>1. Fits' => x.h >= x.b /\ m.h = x.h + 1 /\ m.b = x.b
    BY <1>5, <1>6, <1>9
  <2>2. QED
    BY <1>6, <1>8, <1>9, <2>1, LeapsParse
<1>11. Leaps(Emit(bytes), m, x, c)
  <2>1. Fits' => m.h >= m.b + Takes(bytes[1]) /\ x.h = m.h + Effect(bytes[1]) /\ x.b = m.b
    BY <1>4, <1>5, <1>6, <1>9
  <2>2. QED
    BY <1>4, <1>6, <1>8, <1>9, <2>1, LeapsEmit
<1>12. Leaps(f3, x, y, c)
  <2>1. Leaps(Infix, x, y, c)
    BY <1>5, <1>6, <1>8, LeapsInfix
  <2>2. QED
    BY <1>1, <2>1
<1>13. QED
  BY <1>2, <1>5, <1>6, <1>7, <1>10, <1>11, <1>12, LeapsThree

\* and: its right operand is jumped over.
LEMMA LandsAnd ==
  ASSUME Stepping, NEW c, NEW x, NEW y, Entered(c, x, y), And
  PROVE  Lands(c, y)
<1>1. PICK f3, j, p : f3 = Infix /\ j = Len(code) + 1 /\ p = PREC_AND
  OBVIOUS
<1>2. /\ frame.at = "infix" /\ code' = code \o (EmitJump(OP_JUMP_IF_FALSE) \o <<OP_POP>>)
      /\ UNCHANGED scopeVars /\ constants' = constants /\ Then(<<Parse(p), Patch(j), f3>>)
  BY <1>1, Zenon DEF And, TakesInfix, At, EmitBytes
<1>3. /\ x \in Spot /\ y \in Spot /\ x.h \in Int /\ x.b \in Int /\ y.h \in Int /\ y.b \in Int /\ Len(code) \in Nat
  BY StepStarts
<1>4. /\ frame.at # "compile" /\ ToPatch(frame) = {} /\ y.d = x.d
      /\ Fits' => x.h >= x.b + 1 /\ y.h = x.h /\ y.b = x.b
  BY <1>2, InfixStarts
<1>5. j \in Pending(todo')
  <2>1. j \in Int /\ j \in ToPatch(Patch(j))
    BY <1>1, <1>3, PatchesAre
  <2>2. QED
    BY <1>2, <2>1, PendingMiddle
<1>6. PICK c2 : \E l \in Spot :
           /\ Written(c, l, c2) /\ l.h = x.h - 1 /\ l.b = x.b /\ l.d = x.d /\ l.d = scopeDepth'
           /\ ForwardJump(code', DOMAIN c2, Len(code) + 1)
           /\ Fits' => c2[Len(code)] = x.h
           /\ \A i \in DOMAIN c : i \in DOMAIN c2 /\ c2[i] = c[i]
  BY <1>1, <1>2, <1>3, <1>4, <1>5, BranchStep
<1>7. PICK l \in Spot :
           /\ Written(c, l, c2) /\ l.h = x.h - 1 /\ l.b = x.b /\ l.d = x.d /\ l.d = scopeDepth'
           /\ ForwardJump(code', DOMAIN c2, Len(code) + 1)
           /\ Fits' => c2[Len(code)] = x.h
           /\ \A i \in DOMAIN c : i \in DOMAIN c2 /\ c2[i] = c[i]
  BY <1>6
<1>8. ForwardJump(code', DOMAIN c2, j) /\ (Fits' => c2[j - 1] = x.h)
  BY <1>1, <1>3, <1>7
<1>9. Leaps(Parse(p), l, x, c2)
  <2>1. Fits' => l.h >= l.b /\ x.h = l.h + 1 /\ x.b = l.b
    BY <1>3, <1>4, <1>7
  <2>2. x.d = l.d
    BY <1>7
  <2>3. QED
    BY <1>3, <1>7, <2>1, <2>2, LeapsParse
<1>10. x.d = scopeDepth'
  BY <1>7
<1>11. Leaps(Patch(j), x, x, c2)
  BY <1>3, <1>4, <1>8, <1>10, LeapsPatch
<1>12. Leaps(f3, x, y, c2)
  <2>1. Leaps(Infix, x, y, c2)
    BY <1>3, <1>4, <1>10, LeapsInfix
  <2>2. QED
    BY <1>1, <2>1
<1>13. QED
  BY <1>2, <1>3, <1>4, <1>7, <1>9, <1>11, <1>12, LeapsThree

\* end_scope leaves the locals that there were when its scope was opened.
LEMMA OuterIsOpened ==
  ASSUME Stepping, frame.at = "end_scope", Fits', scopeDepth \in Nat \ {0}
  PROVE  LET outer == Outer(locals, scopeDepth - 1)
         IN  /\ outer = opened[scopeDepth]
             /\ Len(SubSeq(locals, 1, outer)) = outer /\ outer \in 0 .. Len(locals)
             /\ \A i \in 1 .. outer : SubSeq(locals, 1, outer)[i] = locals[i]
<1> DEFINE outer == Outer(locals, scopeDepth - 1)
<1>1. deepest < U8 /\ Types /\ CompileStep /\ ~hadError'
  BY FitsBefore DEF Stepping, IInv
<1>2. ~hadError
  BY <1>1, ParserSteps
<1>3. LayersOK /\ OwnersOK /\ HistoryOK
  BY <1>1, <1>2 DEF Stepping, IInv
<1>4. frame.at \notin ExpressionFrames /\ frame.at \notin DeclarationFrames
  BY DEF ExpressionFrames, DeclarationFrames
<1>5. \A i \in 1 .. Len(locals) : locals[i].depth # NoDepth
  BY <1>4, Settled
<1>6. locals \in Seq(Local) /\ Len(locals) \in Nat
  BY <1>1 DEF Types, LocalsOK
<1>7. /\ Len(SubSeq(locals, 1, outer)) = outer /\ outer \in 0 .. Len(locals)
      /\ \A i \in 1 .. outer : SubSeq(locals, 1, outer)[i] = locals[i]
      /\ Layered(SubSeq(locals, 1, outer), scopeDepth - 1)
      /\ \A i \in 1 .. Len(locals) : i > outer => locals[i].depth = scopeDepth
  BY <1>3, <1>5, <1>6, LayersDropped DEF LayersOK
<1>8. PICK o, d : o = opened[scopeDepth] /\ d = scopeDepth
  OBVIOUS
<1>9. o \in Nat /\ o <= Len(locals) /\ d \in 1 .. Len(opened) /\ d \in Nat
  BY <1>3, <1>8 DEF OwnersOK, HistoryOK
<1>10. \A i \in 1 .. Len(locals) : o < i <=> d <= locals[i].depth
  BY <1>3, <1>5, <1>8, <1>9 DEF OwnersOK
<1>11. \A i \in 1 .. outer : i <= o
  <2>1. ASSUME NEW i \in 1 .. outer PROVE i <= o
    <3>1. i \in 1 .. Len(locals) /\ i \in 1 .. Len(SubSeq(locals, 1, outer)) /\ SubSeq(locals, 1, outer)[i] = locals[i]
      BY <1>6, <1>7
    <3>2. locals[i].depth \in 1 .. (d - 1)
      BY <1>5, <1>7, <1>8, <3>1 DEF Layered
    <3>3. ~(o < i)
      BY <1>9, <1>10, <3>1, <3>2
    <3>4. QED
      BY <1>9, <3>1, <3>3
  <2>2. QED
    BY <2>1
<1>12. ~(o > outer)
  <2>1. ASSUME o > outer PROVE FALSE
    <3>1. o \in 1 .. Len(locals) /\ locals[o].depth = d
      BY <1>6, <1>7, <1>8, <1>9, <2>1
    <3>2. o < o
      BY <1>9, <1>10, <3>1
    <3>3. QED
      BY <1>9, <3>2
  <2>2. QED
    BY <2>1
<1>13. outer = o
  <2>1. outer \in Nat
    BY <1>6, <1>7
  <2>2. outer <= o
    BY <1>9, <1>11, <2>1
  <2>3. QED
    BY <1>9, <1>12, <2>1, <2>2
<1>14. QED
  BY <1>7, <1>8, <1>13

\* The end of a scope.
LEMMA LandsEndScope ==
  ASSUME Stepping, NEW c, NEW x, NEW y, Entered(c, x, y), EndScope
  PROVE  Lands(c, y)
<1>1. PICK outer : outer = Outer(locals, scopeDepth - 1)
  OBVIOUS
<1>2. PICK m : m = Len(locals) - outer
  OBVIOUS
<1>3. PICK s : s = [i \in 1 .. m |-> OP_POP]
  OBVIOUS
<1>4. /\ frame.at = "end_scope" /\ scopeDepth' = scopeDepth - 1 /\ code' = code \o s
      /\ locals' = SubSeq(locals, 1, outer) /\ Then(<<>>) /\ constants' = constants
  BY <1>1, <1>2, <1>3, Zenon DEF EndScope, At, EmitBytes
<1>5. /\ x \in Spot /\ y \in Spot /\ x.h \in Int /\ x.b \in Int /\ y.h \in Int /\ y.b \in Int /\ y.d \in Nat /\ Len(code) \in Nat /\ x.d \in Nat /\ x.d = scopeDepth
      /\ code \in Seq(Byte) /\ Chart(code, c, Pending(todo), Pool)
      /\ Fits' => Level(code, c, Pending(todo)) /\ x.h = c[Len(code)] /\ x.b = OnStack /\ 0 <= x.b
  BY StepStarts
<1>6. /\ ToPatch(frame) = {} /\ y.d = x.d - 1
      /\ Fits' => x.h = x.b /\ y.h = y.b /\ y.b = opened[x.d]
  BY <1>4, ScopeStarts
<1>7. Len(locals) \in Nat /\ outer \in 0 .. Len(locals)
  <2>1. Len(locals) \in Nat
    BY DEF Stepping, IInv, Types, LocalsOK
  <2>2. QED
    BY <1>1, <2>1, OuterIsPosition
<1>8. m \in Nat /\ s \in Seq(Byte) /\ Len(s) = m /\ \A i \in 1 .. m : s[i] = OP_POP
  <2>1. m \in Nat
    BY <1>2, <1>7
  <2>2. OP_POP \in Byte
    BY DEF Byte, OpCodes, OP_POP, OP_CONSTANT, OP_RETURN
  <2>3. QED
    BY <1>3, <2>1, <2>2
<1>9. PICK k, P, P2, n : k = code /\ P = Pending(todo) /\ P2 = Pending(todo') /\ n = Pool
  OBVIOUS
<1>10. PICK k2 : k2 = k \o s
  OBVIOUS
<1>11. k \in Seq(Byte) /\ Chart(k, c, P, n) /\ P \subseteq P2
  BY <1>5, <1>6, <1>9, PendingKept
<1>12. PICK c2 : /\ Becomes(k, c, k2, c2, P, n) /\ Len(k2) = Len(k) + m
                 /\ Level(k, c, P) /\ m <= c[Len(k)] =>
                      Level(k2, c2, P) /\ c2[Len(k) + m] = c[Len(k)] - m
  <2>1. \E c2 : /\ Becomes(k, c, k \o s, c2, P, n) /\ Len(k \o s) = Len(k) + m
                /\ Level(k, c, P) /\ m <= c[Len(k)] =>
                      Level(k \o s, c2, P) /\ c2[Len(k) + m] = c[Len(k)] - m
    BY <1>8, <1>11, AppendPops, SMTT(30)
  <2>2. QED
    BY <1>10, <2>1, Zenon
<1>13. Becomes(k, c, k2, c2, P2, n) /\ (Level(k2, c2, P) => Level(k2, c2, P2))
  <2>1. k2 \in Seq(Byte) /\ Chart(k2, c2, P, n) /\ Extends(k, c, k2, c2) /\ n \subseteq n
    BY <1>11, <1>12 DEF Becomes
  <2>2. Chart(k2, c2, P2, n) /\ (Level(k2, c2, P) => Level(k2, c2, P2))
    BY <1>11, <2>1, ChartWeakens
  <2>3. QED
    BY <2>1, <2>2 DEF Becomes
<1>14. code' = k2 /\ y.d = scopeDepth'
  BY <1>4, <1>5, <1>6, <1>9, <1>10
<1>15. ASSUME Fits'
       PROVE  OnStack = Len(locals) /\ OnStack' = outer /\ outer = opened[x.d]
  <2>1. scopeDepth \in Nat \ {0}
    BY <1>5, <1>6
  <2>2. /\ outer = opened[scopeDepth] /\ Len(SubSeq(locals, 1, outer)) = outer
        /\ \A i \in 1 .. outer : SubSeq(locals, 1, outer)[i] = locals[i]
    BY <1>1, <1>4, <1>15, <2>1, OuterIsOpened
  <2>3. frame.at \notin ExpressionFrames /\ frame.at \notin DeclarationFrames
    BY <1>4 DEF ExpressionFrames, DeclarationFrames
  <2>4. OnStack = Len(locals) /\ \A i \in 1 .. Len(locals) : locals[i].depth # NoDepth
    BY <1>15, <2>3, Settled
  <2>5. Len(locals') = outer /\ \A i \in 1 .. Len(locals') : i \in 1 .. Len(locals) /\ locals'[i] = locals[i]
    BY <1>4, <1>7, <2>2
  <2>6. \A i \in 1 .. Len(locals') : locals'[i].depth # NoDepth
    BY <2>4, <2>5
  <2>7. OnStack' = outer
    BY <2>5, <2>6 DEF OnStack
  <2>8. QED
    BY <1>5, <2>2, <2>4, <2>7
<1>16. Fits' => Level(k2, c2, P2) /\ y.h = c2[Len(k2)] /\ y.b = OnStack'
  <2>1. ASSUME Fits'
        PROVE  m <= c[Len(k)] /\ c[Len(k)] - m = y.h /\ y.b = OnStack'
    <3>1. PICK l, e : l = Len(locals) /\ e = c[Len(k)]
      OBVIOUS
    <3>2. l \in Nat /\ outer \in 0 .. l /\ m = l - outer
      BY <1>2, <1>7, <3>1
    <3>3. e = x.h /\ x.h = x.b /\ x.b = OnStack
      BY <1>5, <1>6, <1>9, <2>1, <3>1
    <3>4. OnStack = l /\ OnStack' = outer /\ y.h = y.b /\ y.b = outer
      BY <1>6, <1>15, <2>1, <3>1
    <3>5. e = l /\ y.h = outer /\ y.b = OnStack'
      BY <3>3, <3>4
    <3>6. m <= e /\ e - m = y.h
      BY <3>2, <3>5
    <3>7. QED
      BY <3>1, <3>5, <3>6
  <2>2. QED
    BY <1>5, <1>9, <1>12, <1>13, <2>1
<1>17. Written(c, y, c2)
  <2>1. Becomes(code, c, code', c2, Pending(todo'), Pool') /\ Pool \subseteq Pool'
    BY <1>4, <1>5, <1>9, <1>13, <1>14, PoolKept
  <2>2. QED
    BY <1>5, <1>9, <1>14, <1>16, <2>1, WrittenMore
<1>18. QED
  BY <1>4, <1>5, <1>17, MovesNone DEF Lands, Joins

\* The name of a variable.
LEMMA LandsVarDeclaration ==
  ASSUME Stepping, NEW c, NEW x, NEW y, Entered(c, x, y), VarDeclaration
  PROVE  Lands(c, y)
<1>1. PICK f1, f2 : f1 = Consume("identifier") /\ f2 = Call("parse_variable")
  OBVIOUS
<1>2. /\ frame.at = "var_declaration" /\ Then(<<f1, f2>>)
      /\ code' = code /\ UNCHANGED scopeVars /\ constants' = constants
  BY <1>1 DEF VarDeclaration, At, chunkVars
<1>3. frame.at \in PlainFrames /\ frame.at \in FreeFrames /\ frame.at # "compile"
  BY <1>2, Kinds
<1>4. ToPatch(frame) = {} /\ y.d = x.d /\ (Fits' => x.h = x.b /\ y.h = y.b)
  BY <1>3, PlainStarts
<1>5. y \in Spot /\ x \in Spot /\ x.d = scopeDepth' /\ x.h \in Int /\ x.b \in Int
  BY <1>2, StepStarts DEF scopeVars
<1>6. Written(c, x, c)
  BY <1>2, <1>4, <1>5, QuietStep, PoolKept
<1>7. f1 \in Frame /\ f1.at = "consume" /\ f1.at \notin FreeFrames
  <2>1. f1.at = "consume"
    BY <1>1 DEF Consume
  <2>2. f1 \in Frame
    BY <1>1, ExpressionCalls, Zenon
  <2>3. QED
    BY <2>1, <2>2, Kinds
<1>8. f2 \in Frame /\ f2.at = "parse_variable" /\ f2.at \in PlainFrames /\ f2.at \in FreeFrames
  BY <1>1, PlainCalls, Kinds
<1>9. Goes(f1, x, x, c)
  BY <1>4, <1>5, <1>7, GoesRest
<1>10. Goes(f2, x, y, c)
  BY <1>4, <1>5, <1>8, GoesPlain
<1>11. Joins(y, y)
  BY DEF Joins
<1>12. \E k \in 0 .. 4 : \E xs : Moves(c, y, c, k, xs)
  BY <1>2, <1>3, <1>5, <1>6, <1>7, <1>8, <1>9, <1>10, <1>11, MovesTwo
<1>13. QED
  BY <1>12 DEF Lands

\* The frames of a declaration.
LEMMA DeclarationCalls ==
  ASSUME NEW g \in 0 .. (U8 - 1), NEW f, NEW at \in DeclarationFrames, f = [at |-> at, global |-> g]
  PROVE  f \in Frame /\ f.at = at /\ f.global = g /\ f.at \in DeclarationFrames /\ f.at \in FreeFrames /\ f.at # "compile"
<1>1. f \in Frame
  <2>1. [at |-> at, global |-> g] \in [at : DeclarationFrames, global : 0 .. (U8 - 1)]
    OBVIOUS
  <2>2. QED
    BY <2>1, Zenon DEF Frame
<1>2. f.at \in DeclarationFrames /\ f.at \in FreeFrames /\ f.at # "compile"
  BY DEF DeclarationFrames, FreeFrames
<1>3. QED
  BY <1>1, <1>2

\* A declared local has no value yet.
LEMMA DeclaredStack ==
  ASSUME Stepping, NEW name, locals' = AddLocal(locals, name), ~Full(locals),
         \A i \in 1 .. Len(locals) : locals[i].depth # NoDepth
  PROVE  OnStack' = Len(locals)
<1>1. locals \in Seq(Local) /\ Len(locals) \in Nat
  BY DEF Stepping, IInv, Types, LocalsOK
<1>2. locals' = Append(locals, [name |-> name, depth |-> NoDepth])
  BY DEF AddLocal
<1>3. Len(locals') = Len(locals) + 1 /\ locals'[Len(locals) + 1] = [name |-> name, depth |-> NoDepth]
  BY <1>1, <1>2
<1>4. Len(locals) + 1 \in 1 .. Len(locals') /\ locals'[Len(locals) + 1].depth = NoDepth
  BY <1>1, <1>3
<1>5. OnStack' = Len(locals') - 1
  BY <1>4 DEF OnStack
<1>6. QED
  BY <1>1, <1>3, <1>5

\* What is declared is a name.
LEMMA Declares ==
  ASSUME Types, NamesInv, ~hadError, todo # <<>>, frame.at = "parse_variable"
  PROVE  previous.type = "identifier"
<1>1. frame = todo[1] /\ 1 \in 1 .. Len(todo)
  BY EmptySeq DEF Types, FramesOK, frame
<1>2. Named(1)
  BY <1>1 DEF NamesInv
<1>3. QED
  BY <1>2 DEF Named

\* A declared name, which gets a slot or becomes a constant.
LEMMA LandsParseVariable ==
  ASSUME Stepping, NEW c, NEW x, NEW y, Entered(c, x, y), ParseVariable
  PROVE  Lands(c, y)
<1>1. PICK g : g = IF scopeDepth > 0 THEN 0 ELSE ConstantIndex
  OBVIOUS
<1>2. PICK f : f = [at |-> "initializer", global |-> g]
  OBVIOUS
<1>3. /\ frame.at = "parse_variable" /\ Then(<<f>>) /\ code' = code /\ scopeDepth' = scopeDepth
      /\ scopeDepth > 0 => /\ Report(Redeclares(locals, previous, scopeDepth) \/ Full(locals))
                           /\ locals' = AddLocal(locals, previous) /\ constants' = constants
      /\ ~(scopeDepth > 0) => /\ Report(TooManyConstants) /\ MakeConstant(previous.lexeme) /\ locals' = locals
  BY <1>1, <1>2, Zenon DEF ParseVariable, At
<1>4. frame.at \in PlainFrames /\ frame.at \in FreeFrames /\ frame.at # "compile"
  BY <1>3, Kinds
<1>5. ToPatch(frame) = {} /\ y.d = x.d /\ (Fits' => x.h = x.b /\ y.h = y.b)
  BY <1>4, PlainStarts
<1>6. /\ x \in Spot /\ y \in Spot /\ x.h \in Int /\ x.b \in Int /\ x.d \in Nat /\ x.d = scopeDepth /\ x.d = scopeDepth'
      /\ (Fits' => x.b = OnStack) /\ ~hadError'
  BY <1>3, StepStarts DEF Stepping
<1>7. Pending(todo) \subseteq Pending(todo')
  BY <1>5, PendingKept
<1>8. /\ g \in 0 .. (U8 - 1) /\ Pool \subseteq Pool' /\ (x.d > 0 \/ Listed(OP_DEFINE_GLOBAL, g, Pool'))
      /\ Fits' => OnStack' = OnStack
  <2>1. CASE scopeDepth > 0
    <3>1. ~(Redeclares(locals, previous, scopeDepth) \/ Full(locals))
      BY <1>3, <1>6, <2>1, NoError, Zenon
    <3>2. ~Full(locals) /\ locals' = AddLocal(locals, previous) /\ constants' = constants
      BY <1>3, <2>1, <3>1, Zenon
    <3>3. frame.at \notin ExpressionFrames /\ frame.at \notin DeclarationFrames
      BY <1>3 DEF ExpressionFrames, DeclarationFrames
    <3>4. Fits' => OnStack = Len(locals) /\ \A i \in 1 .. Len(locals) : locals[i].depth # NoDepth
      BY <3>3, Settled
    <3>5. Fits' => OnStack' = OnStack
      BY <3>2, <3>4, DeclaredStack
    <3>6. g = 0 /\ 0 \in 0 .. (U8 - 1)
      BY <1>1, <2>1, U8Assumption
    <3>7. QED
      BY <1>6, <2>1, <3>2, <3>5, <3>6, PoolKept
  <2>2. CASE ~(scopeDepth > 0)
    <3>1. ~TooManyConstants /\ MakeConstant(previous.lexeme)
      BY <1>3, <1>6, <2>2, NoError, Zenon
    <3>2. previous.type = "identifier"
      <4>1. Types /\ NamesInv /\ ~hadError /\ todo # <<>>
        BY ParserSteps DEF Stepping, IInv
      <4>2. QED
        BY <1>3, <4>1, Declares
    <3>3. g \in 0 .. (U8 - 1) /\ Listed(OP_DEFINE_GLOBAL, g, Pool') /\ Pool \subseteq Pool'
      BY <1>1, <2>2, <3>1, <3>2, Names, NameAdded
    <3>4. OnStack' = OnStack
      BY <1>3, <2>2, StackStays
    <3>5. QED
      BY <3>3, <3>4
  <2>3. QED
    BY <2>1, <2>2
<1>9. Written(c, x, c)
  BY <1>3, <1>6, <1>7, <1>8, WrittenSame
<1>10. "initializer" \in DeclarationFrames
  BY Kinds
<1>11. f \in Frame /\ f.at = "initializer" /\ f.global = g /\ f.at \in DeclarationFrames /\ f.at \in FreeFrames /\ f.at # "compile"
  BY <1>2, <1>8, <1>10, DeclarationCalls
<1>12. Goes(f, x, y, c)
  <2>1. Fits' => x.h = x.b + (IF f.at = "define_variable" THEN 1 ELSE 0) /\ y.h = y.b
    BY <1>5, <1>6, <1>11
  <2>2. QED
    BY <1>5, <1>6, <1>8, <1>11, <2>1, GoesDeclaration
<1>13. Joins(y, y)
  BY DEF Joins
<1>14. \E k \in 0 .. 4 : \E xs : Moves(c, y, c, k, xs)
  BY <1>3, <1>4, <1>6, <1>9, <1>11, <1>12, <1>13, MovesOne
<1>15. QED
  BY <1>14 DEF Lands

\* Sequences one after the other.
LEMMA ConcatOf ==
  ASSUME NEW S, NEW s \in Seq(S), NEW s2 \in Seq(S)
  PROVE  /\ s \o s2 \in Seq(S) /\ Len(s \o s2) = Len(s) + Len(s2)
         /\ \A i \in 1 .. Len(s) : (s \o s2)[i] = s[i]
         /\ \A i \in 1 .. Len(s2) : (s \o s2)[Len(s) + i] = s2[i]
OBVIOUS

\* Two sequences of calls, one after the other.
LEMMA ThreeCalls ==
  ASSUME NEW a, NEW b, NEW d
  PROVE  <<a>> \o <<b, d>> = <<a, b, d>>
<1>1. PICK S : S = {a, b, d}
  OBVIOUS
<1>2. <<a>> \in Seq(S) /\ <<b, d>> \in Seq(S) /\ Len(<<a>>) = 1 /\ Len(<<b, d>>) = 2
      /\ <<a>>[1] = a /\ <<b, d>>[1] = b /\ <<b, d>>[2] = d
  BY <1>1
<1>3. PICK s, s2 : s = <<a>> /\ s2 = <<b, d>>
  OBVIOUS
<1>4. s[1] = a /\ s2[1] = b /\ s2[2] = d /\ s \in Seq(S) /\ s2 \in Seq(S) /\ Len(s) = 1 /\ Len(s2) = 2
  BY <1>2, <1>3
<1>5. PICK s3 : s3 = s \o s2
  OBVIOUS
<1>6. s3 \in Seq(S) /\ Len(s3) = 3 /\ s3[1] = a /\ s3[2] = b /\ s3[3] = d
  <2>1. s3 \in Seq(S) /\ Len(s3) = Len(s) + Len(s2)
    BY <1>4, <1>5, ConcatOf
  <2>2. \A i \in 1 .. Len(s) : s3[i] = s[i]
    BY <1>4, <1>5, ConcatOf
  <2>3. \A i \in 1 .. Len(s2) : s3[Len(s) + i] = s2[i]
    <3>1. \A i \in 1 .. Len(s2) : (s \o s2)[Len(s) + i] = s2[i]
      BY <1>4, ConcatOf
    <3>2. QED
      BY <1>5, <3>1, Zenon
  <2>4. 1 \in 1 .. Len(s) /\ 1 \in 1 .. Len(s2) /\ 2 \in 1 .. Len(s2) /\ Len(s) + 1 = 2 /\ Len(s) + 2 = 3
    BY <1>4
  <2>5. QED
    BY <1>4, <2>1, <2>2, <2>3, <2>4
<1>7. s3 = <<a, b, d>>
  BY <1>6
<1>8. QED
  BY <1>3, <1>5, <1>7

\* After the initializer of a variable, the variable is defined.
LEMMA ThenDefines ==
  ASSUME NEW t, NEW g \in 0 .. (U8 - 1), NEW m \in Spot, NEW y \in Spot, NEW c, m.d = scopeDepth', y.d = m.d,
         m.d > 0 \/ Listed(OP_DEFINE_GLOBAL, g, Pool'), Fits' => m.h = m.b + 1 /\ y.h = y.b,
         NEW f, f = Consume(t), NEW f2, f2 = [at |-> "define_variable", global |-> g]
  PROVE  /\ Goes(f, m, m, c) /\ f.at # "compile" /\ f.at \notin FreeFrames
         /\ Goes(f2, m, y, c) /\ f2.at # "compile" /\ f2 \in Frame
<1>1. f.at = "consume"
  BY DEF Consume
<1>2. f.at # "compile" /\ f.at \notin FreeFrames /\ f.at # "infix"
  BY <1>1, Kinds
<1>3. m.h \in Int /\ m.b \in Int
  BY Marks
<1>4. Fits' => m.h >= m.b
  BY <1>3
<1>5. Goes(f, m, m, c)
  BY <1>1, <1>2, <1>4, GoesRest
<1>6. "define_variable" \in DeclarationFrames
  BY Kinds
<1>7. f2 \in Frame /\ f2.at = "define_variable" /\ f2.global = g /\ f2.at \in DeclarationFrames /\ f2.at # "compile"
  BY <1>6, DeclarationCalls
<1>8. Fits' => m.h = m.b + (IF f2.at = "define_variable" THEN 1 ELSE 0) /\ y.h = y.b
  BY <1>7
<1>9. Goes(f2, m, y, c)
  BY <1>7, <1>8, GoesDeclaration
<1>10. QED
  BY <1>2, <1>5, <1>7, <1>9

\* The initializer of a variable, or nil.
LEMMA LandsInitializer ==
  ASSUME Stepping, NEW c, NEW x, NEW y, Entered(c, x, y), VarInitializer
  PROVE  Lands(c, y)
<1>1. PICK g : g = frame.global
  OBVIOUS
<1>2. PICK t, f, f2 : /\ f = Consume(t) /\ f2 = [at |-> "define_variable", global |-> g]
                      /\ frame.at = "initializer" /\ UNCHANGED scopeVars /\ constants' = constants
                      /\ \/ Then(<<Expression>> \o <<f, f2>>) /\ code' = code
                         \/ Then(<<f, f2>>) /\ code' = code \o <<OP_NIL>>
  <2>1. PICK t :
          /\ frame.at = "initializer" /\ UNCHANGED scopeVars /\ constants' = constants
          /\ \/ Then(<<Expression>> \o <<Consume(t), [at |-> "define_variable", global |-> frame.global]>>) /\ code' = code
             \/ Then(<<Consume(t), [at |-> "define_variable", global |-> frame.global]>>) /\ code' = code \o <<OP_NIL>>
    BY Zenon DEF VarInitializer, At, EmitBytes
  <2>2. QED
    BY <1>1, <2>1, Zenon
<1>3. /\ x \in Spot /\ y \in Spot /\ x.h \in Int /\ x.b \in Int /\ y.h \in Int /\ y.b \in Int /\ Len(code) \in Nat /\ x.d \in Nat /\ x.d = scopeDepth
      /\ code \in Seq(Byte) /\ Chart(code, c, Pending(todo), Pool)
      /\ Fits' => Level(code, c, Pending(todo)) /\ x.h = c[Len(code)] /\ x.b = OnStack
      /\ FramesOK /\ FramesOK' /\ todo # <<>>
  BY StepStarts
<1>4. /\ frame.at # "compile" /\ ToPatch(frame) = {} /\ y.d = x.d
      /\ x.d > 0 \/ Listed(OP_DEFINE_GLOBAL, g, Pool)
      /\ Fits' => x.h = x.b /\ y.h = y.b
  BY <1>1, <1>2, InitializerStarts
<1>5. frame.at \in FreeFrames /\ frame.at \in DeclarationFrames
  BY <1>2, Kinds
<1>6. g \in 0 .. (U8 - 1)
  <2>1. frame.at \in DeclarationFrames => frame.global \in 0 .. (U8 - 1)
    BY <1>3, FrameFields, Zenon
  <2>2. QED
    BY <1>1, <1>5, <2>1
<1>7. PICK m \in Spot : m.h = x.h + 1 /\ m.b = x.b /\ m.d = x.d
  BY <1>3, Higher1
<1>8. m.d = scopeDepth' /\ x.d = scopeDepth' /\ y.d = m.d /\ (m.d > 0 \/ Listed(OP_DEFINE_GLOBAL, g, Pool'))
      /\ (Fits' => m.h = m.b + 1 /\ y.h = y.b)
  BY <1>2, <1>3, <1>4, <1>7, PoolKept DEF scopeVars
<1>9. ASSUME NEW c2
      PROVE  /\ Goes(f, m, m, c2) /\ f.at # "compile" /\ f.at \notin FreeFrames
             /\ Goes(f2, m, y, c2) /\ f2.at # "compile" /\ f2 \in Frame
  BY <1>2, <1>3, <1>6, <1>8, ThenDefines
<1>10. Joins(y, y)
  BY DEF Joins
<1>11. CASE Then(<<Expression>> \o <<f, f2>>) /\ code' = code
  <2>1. PICK e : e = Expression
    OBVIOUS
  <2>2. <<e>> \o <<f, f2>> = <<e, f, f2>>
    BY ThreeCalls
  <2>3. Then(<<e, f, f2>>)
    BY <1>11, <2>1, <2>2
  <2>4. <<e, f, f2>> \in Seq({e, f, f2}) /\ Len(<<e, f, f2>>) = 3 /\ <<e, f, f2>>[2] = f
    OBVIOUS
  <2>5. \A i \in 1 .. Len(<<e, f, f2>>) : <<e, f, f2>>[i] \in Frame
    BY <1>3, <2>3, <2>4, ThenFrames
  <2>6. f \in Frame /\ f2 \in Frame /\ e \in Frame /\ e.at = "parse_precedence"
    BY <1>9, <2>1, <2>4, <2>5, Expressions
  <2>7. e.at # "compile" /\ e.at \notin FreeFrames
    BY <2>6, Kinds
  <2>8. Written(c, x, c)
    BY <1>2, <1>3, <1>4, <1>11, QuietStep, PoolKept
  <2>9. Goes(e, x, m, c)
    <3>1. Fits' => x.h >= x.b /\ m.h = x.h + 1 /\ m.b = x.b
      BY <1>3, <1>4, <1>7
    <3>2. QED
      BY <1>3, <1>7, <1>8, <2>6, <3>1, GoesParse
  <2>10. \E k \in 0 .. 4 : \E xs : Moves(c, y, c, k, xs)
    BY <1>3, <1>4, <1>5, <1>9, <1>10, <2>3, <2>6, <2>7, <2>8, <2>9, MovesThree
  <2>11. QED
    BY <2>10 DEF Lands
<1>12. CASE Then(<<f, f2>>) /\ code' = code \o <<OP_NIL>>
  <2>1. <<f, f2>> \in Seq({f, f2}) /\ Len(<<f, f2>>) = 2 /\ <<f, f2>>[1] = f
    OBVIOUS
  <2>2. \A i \in 1 .. Len(<<f, f2>>) : <<f, f2>>[i] \in Frame
    BY <1>3, <1>12, <2>1, ThenFrames
  <2>3. f \in Frame
    BY <2>1, <2>2
  <2>4. PICK op : op = OP_NIL
    OBVIOUS
  <2>5. op \in SimpleOps /\ Takes(op) = 0 /\ Effect(op) = 1
    BY <2>4, OperatorOps
  <2>6. PICK k, P, P2, n : k = code /\ P = Pending(todo) /\ P2 = Pending(todo') /\ n = Pool
    OBVIOUS
  <2>7. PICK k2 : k2 = k \o <<op>>
    OBVIOUS
  <2>8. k \in Seq(Byte) /\ Chart(k, c, P, n) /\ P \subseteq P2
    BY <1>3, <1>4, <2>6, PendingKept
  <2>9. PICK c2 : /\ Becomes(k, c, k2, c2, P, n) /\ Len(k2) = Len(k) + 1
                  /\ Level(k, c, P) /\ Takes(op) <= c[Len(k)] =>
                       Level(k2, c2, P) /\ c2[Len(k) + 1] = c[Len(k)] + Effect(op)
    <3>1. \E c2 : /\ Becomes(k, c, k \o <<op>>, c2, P, n) /\ Len(k \o <<op>>) = Len(k) + 1
                  /\ Level(k, c, P) /\ Takes(op) <= c[Len(k)] =>
                       Level(k \o <<op>>, c2, P) /\ c2[Len(k) + 1] = c[Len(k)] + Effect(op)
      BY <2>5, <2>8, AppendSimple, SMTT(30)
    <3>2. QED
      BY <2>7, <3>1, Zenon
  <2>10. Becomes(k, c, k2, c2, P2, n) /\ (Level(k2, c2, P) => Level(k2, c2, P2))
    <3>1. k2 \in Seq(Byte) /\ Chart(k2, c2, P, n) /\ Extends(k, c, k2, c2) /\ n \subseteq n
      BY <2>8, <2>9 DEF Becomes
    <3>2. Chart(k2, c2, P2, n) /\ (Level(k2, c2, P) => Level(k2, c2, P2))
      BY <2>8, <3>1, ChartWeakens
    <3>3. QED
      BY <3>1, <3>2 DEF Becomes
  <2>11. code' = k2 /\ OnStack' = OnStack
    BY <1>2, <1>12, <2>4, <2>6, <2>7, StackStays DEF scopeVars
  <2>12. ASSUME Fits'
         PROVE  Level(k2, c2, P2) /\ m.h = c2[Len(k2)] /\ m.b = OnStack'
    <3>1. x.h = c[Len(k)] /\ x.h = x.b /\ x.b = OnStack /\ 0 <= x.b
      BY <1>3, <1>4, <2>6, <2>12, StepStarts
    <3>2. Takes(op) <= c[Len(k)] /\ c[Len(k)] + Effect(op) = m.h
      BY <1>3, <1>7, <2>5, <3>1
    <3>3. QED
      BY <1>3, <1>7, <2>6, <2>9, <2>10, <2>11, <2>12, <3>1, <3>2
  <2>13. Written(c, m, c2)
    <3>1. Becomes(code, c, code', c2, Pending(todo'), Pool') /\ Pool \subseteq Pool'
      BY <1>2, <1>3, <2>6, <2>10, <2>11, PoolKept
    <3>2. Fits' => Level(code', c2, Pending(todo')) /\ m.h = c2[Len(code')] /\ m.b = OnStack'
      BY <2>6, <2>11, <2>12
    <3>3. QED
      BY <1>8, <3>1, <3>2, WrittenMore
  <2>14. \E k3 \in 0 .. 4 : \E xs : Moves(c, y, c2, k3, xs)
    BY <1>3, <1>4, <1>5, <1>9, <1>10, <1>12, <2>3, <2>13, MovesTwo
  <2>15. QED
    BY <2>14 DEF Lands
<1>13. QED
  BY <1>2, <1>11, <1>12

\* The local being declared counts as on the stack once it is initialized.
LEMMA InitializedStack ==
  ASSUME Stepping, Fits', frame.at = "define_variable", scopeDepth > 0,
         locals' = MarkInitialized(locals, scopeDepth)
  PROVE  OnStack' = OnStack + 1
<1>1. deepest < U8 /\ Types /\ CompileStep /\ ~hadError' /\ FramesOK /\ todo # <<>> /\ HistoryOK
  BY FitsBefore DEF Stepping, IInv, Types
<1>2. ~hadError
  BY <1>1, ParserSteps
<1>3. LayersOK /\ OwnersOK
  BY <1>1, <1>2 DEF Stepping, IInv
<1>4. Declaring
  <2>1. frame = todo[1] /\ 1 \in 1 .. Len(todo)
    <3>1. Len(todo) \in Nat /\ Len(todo) > 0
      BY <1>1, EmptySeq DEF FramesOK
    <3>2. frame = todo[1]
      BY <1>1, HeadTailProperties DEF FramesOK, frame
    <3>3. QED
      BY <3>1, <3>2
  <2>2. frame.at \in DeclarationFrames
    BY Kinds
  <2>3. QED
    BY <2>1, <2>2 DEF Declaring
<1>5. Len(locals) > 0 /\ locals[Len(locals)].depth = NoDepth
  BY <1>3, <1>4 DEF OwnersOK
<1>6. locals \in Seq(Local) /\ Len(locals) \in Nat
  BY <1>1 DEF Types, LocalsOK
<1>7. OnStack = Len(locals) - 1
  <2>1. Len(locals) \in 1 .. Len(locals)
    BY <1>5, <1>6
  <2>2. QED
    BY <1>5, <2>1 DEF OnStack
<1>8. scopeDepth \in 1 .. (U8 - 1)
  <2>1. scopeDepth <= deepest /\ deepest \in Nat /\ Len(opened) = scopeDepth /\ opened \in Seq(Nat)
    BY <1>1 DEF HistoryOK
  <2>2. scopeDepth \in Nat
    BY <2>1
  <2>3. QED
    BY <1>1, <2>1, <2>2, U8Assumption
<1>9. /\ \A i \in 1 .. Len(locals) : MarkInitialized(locals, scopeDepth)[i].depth # NoDepth
      /\ Len(MarkInitialized(locals, scopeDepth)) = Len(locals)
  BY <1>3, <1>6, <1>8, LayersMarked DEF LayersOK
<1>10. Len(locals') = Len(locals) /\ \A i \in 1 .. Len(locals') : locals'[i].depth # NoDepth
  BY <1>9
<1>11. OnStack' = Len(locals)
  BY <1>10 DEF OnStack
<1>12. QED
  BY <1>6, <1>7, <1>11

\* The instruction that defines a global.
LEMMA DefiningOp ==
  OP_DEFINE_GLOBAL \in ConstantOps /\ OP_DEFINE_GLOBAL \notin LocalOps
  /\ Takes(OP_DEFINE_GLOBAL) = 1 /\ Effect(OP_DEFINE_GLOBAL) = -1
BY DEF ConstantOps, LocalOps, OP_CONSTANT, OP_GET_LOCAL, OP_SET_LOCAL, OP_GET_GLOBAL, OP_DEFINE_GLOBAL, OP_SET_GLOBAL,
       Takes, Effect, NumberOps, OP_EQUAL, OP_GREATER, OP_LESS, OP_ADD, OP_SUBTRACT, OP_MULTIPLY, OP_DIVIDE,
       OP_NOT, OP_NEGATE, OP_NIL, OP_TRUE, OP_FALSE, OP_POP, OP_PRINT, OP_JUMP_IF_FALSE

\* A variable gets the value on top of the stack.
LEMMA LandsDefine ==
  ASSUME Stepping, NEW c, NEW x, NEW y, Entered(c, x, y), DefineVariable
  PROVE  Lands(c, y)
<1>1. PICK g, op : g = frame.global /\ op = OP_DEFINE_GLOBAL
  OBVIOUS
<1>2. /\ frame.at = "define_variable" /\ Then(<<>>) /\ constants' = constants /\ scopeDepth' = scopeDepth
      /\ scopeDepth > 0 => locals' = MarkInitialized(locals, scopeDepth) /\ code' = code
      /\ ~(scopeDepth > 0) => locals' = locals /\ code' = code \o <<op, g>>
  BY <1>1, Zenon DEF DefineVariable, At, EmitBytes
<1>3. /\ x \in Spot /\ y \in Spot /\ x.h \in Int /\ x.b \in Int /\ y.h \in Int /\ y.b \in Int /\ Len(code) \in Nat /\ x.d \in Nat /\ x.d = scopeDepth
      /\ code \in Seq(Byte) /\ Chart(code, c, Pending(todo), Pool)
      /\ Fits' => Level(code, c, Pending(todo)) /\ x.h = c[Len(code)] /\ x.b = OnStack /\ 0 <= x.b
      /\ FramesOK /\ todo # <<>>
  BY StepStarts
<1>4. /\ frame.at # "compile" /\ ToPatch(frame) = {} /\ y.d = x.d
      /\ x.d > 0 \/ Listed(OP_DEFINE_GLOBAL, g, Pool)
      /\ Fits' => x.h = x.b + 1 /\ y.h = y.b
  BY <1>1, <1>2, DefineStarts
<1>5. frame.at \in FreeFrames /\ frame.at \in DeclarationFrames
  BY <1>2, Kinds
<1>6. g \in 0 .. (U8 - 1)
  <2>1. frame.at \in DeclarationFrames => frame.global \in 0 .. (U8 - 1)
    BY <1>3, FrameFields, Zenon
  <2>2. QED
    BY <1>1, <1>5, <2>1
<1>7. CASE scopeDepth > 0
  <2>1. PICK h, b, d : h = x.h /\ b = x.h /\ d = x.d
    OBVIOUS
  <2>2. PICK m : m = Mark(h, b, d)
    OBVIOUS
  <2>3. m \in Spot /\ m.h = x.h /\ m.b = x.h /\ m.d = x.d
    <3>1. h \in Int /\ b \in Int /\ d \in Nat
      BY <1>3, <2>1
    <3>2. Mark(h, b, d) \in Spot /\ Mark(h, b, d).h = h /\ Mark(h, b, d).b = b /\ Mark(h, b, d).d = d
      BY <3>1, Marks
    <3>3. QED
      BY <2>1, <2>2, <3>2
  <2>4. Fits' => m.b = OnStack'
    <3>1. ASSUME Fits' PROVE OnStack' = OnStack + 1
      BY <1>2, <1>7, <3>1, InitializedStack
    <3>2. QED
      BY <1>3, <1>4, <2>3, <3>1
  <2>5. Pending(todo) \subseteq Pending(todo')
    BY <1>4, PendingKept
  <2>6. Written(c, m, c)
    <3>1. code' = code /\ Pool \subseteq Pool' /\ m.d = scopeDepth' /\ (Fits' => m.h = x.h /\ m.b = OnStack')
      BY <1>2, <1>3, <1>7, <2>3, <2>4, PoolKept
    <3>2. QED
      BY <2>3, <2>5, <3>1, WrittenSame
  <2>7. Joins(m, y)
    BY <1>4, <1>5, <2>3 DEF Joins
  <2>8. QED
    BY <1>2, <1>3, <2>6, <2>7, MovesNone DEF Lands
<1>8. CASE ~(scopeDepth > 0)
  <2>1. op \in ConstantOps /\ op \notin LocalOps /\ Takes(op) = 1 /\ Effect(op) = -1 /\ Listed(op, g, Pool)
    BY <1>1, <1>3, <1>4, <1>8, DefiningOp
  <2>2. PICK m \in Spot : m.h = x.h - 1 /\ m.b = x.b /\ m.d = x.d
    BY <1>3, Higher1
  <2>3. PICK k, P, P2, n : k = code /\ P = Pending(todo) /\ P2 = Pending(todo') /\ n = Pool
    OBVIOUS
  <2>4. PICK k2 : k2 = k \o <<op, g>>
    OBVIOUS
  <2>5. k \in Seq(Byte) /\ Chart(k, c, P, n) /\ P \subseteq P2 /\ (op \in ConstantOps => Listed(op, g, n))
    BY <1>3, <1>4, <2>1, <2>3, PendingKept
  <2>6. PICK c2 : /\ Becomes(k, c, k2, c2, P, n) /\ Len(k2) = Len(k) + 2
                  /\ Level(k, c, P) /\ Takes(op) <= c[Len(k)] /\ (op \in LocalOps => g < c[Len(k)]) =>
                       Level(k2, c2, P) /\ c2[Len(k) + 2] = c[Len(k)] + Effect(op)
    <3>1. \E c2 : /\ Becomes(k, c, k \o <<op, g>>, c2, P, n) /\ Len(k \o <<op, g>>) = Len(k) + 2
                  /\ Level(k, c, P) /\ Takes(op) <= c[Len(k)] /\ (op \in LocalOps => g < c[Len(k)]) =>
                       Level(k \o <<op, g>>, c2, P) /\ c2[Len(k) + 2] = c[Len(k)] + Effect(op)
      BY <1>6, <2>1, <2>5, AppendOperand, SMTT(30)
    <3>2. QED
      BY <2>4, <3>1, Zenon
  <2>7. Becomes(k, c, k2, c2, P2, n) /\ (Level(k2, c2, P) => Level(k2, c2, P2))
    <3>1. k2 \in Seq(Byte) /\ Chart(k2, c2, P, n) /\ Extends(k, c, k2, c2) /\ n \subseteq n
      BY <2>5, <2>6 DEF Becomes
    <3>2. Chart(k2, c2, P2, n) /\ (Level(k2, c2, P) => Level(k2, c2, P2))
      BY <2>5, <3>1, ChartWeakens
    <3>3. QED
      BY <3>1, <3>2 DEF Becomes
  <2>8. code' = k2 /\ OnStack' = OnStack /\ m.d = scopeDepth'
    BY <1>2, <1>3, <1>8, <2>2, <2>3, <2>4, StackStays
  <2>9. ASSUME Fits'
        PROVE  Level(k2, c2, P2) /\ m.h = c2[Len(k2)] /\ m.b = OnStack'
    <3>1. x.h = c[Len(k)] /\ x.h = x.b + 1 /\ x.b = OnStack /\ 0 <= x.b
      BY <1>3, <1>4, <2>3, <2>9
    <3>2. Takes(op) <= c[Len(k)] /\ c[Len(k)] + Effect(op) = m.h
      BY <1>3, <2>1, <2>2, <3>1
    <3>3. QED
      BY <1>3, <2>1, <2>2, <2>3, <2>6, <2>7, <2>8, <2>9, <3>1, <3>2
  <2>10. Written(c, m, c2)
    <3>1. Becomes(code, c, code', c2, Pending(todo'), Pool') /\ Pool \subseteq Pool'
      BY <1>2, <1>3, <2>3, <2>7, <2>8, PoolKept
    <3>2. Fits' => Level(code', c2, Pending(todo')) /\ m.h = c2[Len(code')] /\ m.b = OnStack'
      BY <2>3, <2>8, <2>9
    <3>3. QED
      BY <2>8, <3>1, <3>2, WrittenMore
  <2>11. Joins(m, y)
    <3>1. Fits' => m.h = m.b
      BY <1>3, <1>4, <2>2
    <3>2. m \in Spot /\ m.d = y.d
      BY <1>4, <2>2
    <3>3. QED
      BY <1>5, <3>1, <3>2 DEF Joins
  <2>12. QED
    BY <1>2, <1>3, <2>10, <2>11, MovesNone DEF Lands
<1>9. QED
  BY <1>7, <1>8

-----------------------------------------------------------------------------
(***************************************************************************)
(* The invariant.                                                          *)
(***************************************************************************)

\* Every step but the last.
LEMMA LandsAll ==
  ASSUME Stepping, NEW c, NEW x, NEW y, Entered(c, x, y), ~(Compile /\ Sees("eof"))
  PROVE  Lands(c, y)
<1>1. CompileStep /\ ~hadError'
  BY DEF Stepping
<1>2. ~NoPrefix
  <2>1. ASSUME NoPrefix PROVE FALSE
    <3>1. Report(TRUE)
      BY <2>1, Zenon DEF NoPrefix
    <3>2. QED
      BY <1>1, <3>1, NoError, Zenon
  <2>2. QED
    BY <2>1
<1>3. CASE \/ FirstAdvance \/ Compile \/ Declaration \/ Recover \/ Synchronize
           \/ VarDeclaration \/ ParseVariable \/ VarInitializer \/ DefineVariable
  BY <1>3, LandsFirstAdvance, LandsCompile, LandsDeclaration, LandsRecover, LandsSynchronize, LandsVarDeclaration,
     LandsParseVariable, LandsInitializer, LandsDefine, Zenon
<1>4. CASE \/ PrintStatement \/ ForStatement \/ IfStatement \/ WhileStatement \/ Block
           \/ ExpressionStatement \/ BlockStatement \/ EndScope
  BY <1>4, LandsPrint, LandsFor, LandsIf, LandsWhile, LandsBlock, LandsExpressionStatement, LandsBlockStatement,
     LandsEndScope, Zenon
<1>5. CASE \/ ForInitializer \/ ForCondition \/ ForIncrement \/ ForBody \/ WhileBody \/ EndLoop
           \/ IfThen \/ IfElse
  BY <1>5, LandsForInitializer, LandsForCondition, LandsBareIncrement, LandsIncrement, LandsForBody, LandsWhileBody,
     LandsEndLoop, LandsIfThen, LandsIfElse, Zenon
<1>6. CASE \/ ParsePrecedence \/ Grouping \/ Unary \/ Literal \/ ConstantLiteral
           \/ NamedVariable \/ Binary \/ And \/ EndExpression
  BY <1>6, LandsParse, LandsGrouping, LandsUnary, LandsLiteral, LandsConstantLiteral, LandsVariable, LandsBinary,
     LandsAnd, LandsConsume, Zenon
<1>7. CASE ConsumeToken \/ EmitCode \/ PatchJump
  BY <1>7, LandsConsume, LandsEmit, LandsPatchJump, Zenon
<1>8. QED
  BY <1>1, <1>2, <1>3, <1>4, <1>5, <1>6, <1>7, Zenon DEF CompileStep

\* When compile returns, OP_RETURN ends the code.
LEMMA FinishedSteps ==
  ASSUME Stepping, Stacked(todo), NEW c, NEW st, Charted(c, st), Compile, Sees("eof")
  PROVE  todo' = <<>> /\ \E k : Finished(k, c)'
<1>1. /\ frame.at = "compile" /\ Then(<<>>) /\ code' = code \o <<OP_RETURN>>
      /\ UNCHANGED scopeVars /\ constants' = constants
  BY Zenon DEF Compile, At, EmitBytes
<1>2. FramesOK /\ FramesOK' /\ todo # <<>> /\ Types
  BY DEF Stepping, IInv, Types
<1>3. PICK x, y : x = st[1] /\ y = st[2]
  OBVIOUS
<1>4. Entered(c, x, y)
  BY <1>2, <1>3, ChartedEntered
<1>5. frame.at \in PlainFrames
  BY <1>1, Kinds
<1>6. Len(todo) = 1 /\ frame = todo[1]
  <2>1. frame = todo[1] /\ 1 \in 1 .. Len(todo)
    <3>1. Len(todo) \in Nat /\ Len(todo) > 0
      BY <1>2, EmptySeq DEF FramesOK
    <3>2. frame = todo[1]
      BY <1>2, HeadTailProperties DEF FramesOK, frame
    <3>3. QED
      BY <3>1, <3>2
  <2>2. 1 = Len(todo)
    BY <1>1, <2>1, Zenon DEF Stacked
  <2>3. QED
    BY <2>1, <2>2
<1>7. todo' = <<>>
  <2>1. Grows(0)
    BY <1>1, <1>2, ThenNone
  <2>2. Len(todo') = 0 /\ todo' \in Seq(Frame)
    BY <1>2, <1>6, <2>1 DEF Grows, FramesOK
  <2>3. QED
    BY <2>2
<1>8. ToPatch(frame) = {} /\ y.d = x.d /\ (Fits' => x.h = x.b)
  BY <1>4, <1>5, PlainStarts
<1>9. Pending(todo) = {}
  BY <1>6, <1>8 DEF Pending
<1>10. x.d = scopeDepth /\ y.d = 0
  <2>1. Len(todo) + 1 = 2
    BY <1>6
  <2>2. st[2].d = 0 /\ st[1].d = scopeDepth
    BY <2>1 DEF Charted
  <2>3. QED
    BY <1>3, <2>2
<1>11. scopeDepth = 0
  BY <1>8, <1>10
<1>12. /\ code \in Seq(Byte) /\ Chart(code, c, {}, Pool)
       /\ Fits' => Level(code, c, {}) /\ x.h = c[Len(code)] /\ x.b = OnStack
  BY <1>4, <1>9, StepStarts
<1>13. Fits' => OnStack = 0
  <2>1. ASSUME Fits' PROVE Len(locals) = 0
    <3>1. LayersOK /\ locals \in Seq(Local)
      BY <2>1, FitsBefore DEF Stepping, IInv, Types, LocalsOK
    <3>2. \A i \in 1 .. Len(locals) : FALSE
      <4>1. ASSUME NEW i \in 1 .. Len(locals) PROVE FALSE
        <5>1. locals[i].depth # NoDepth
          BY <1>11, <3>1 DEF LayersOK
        <5>2. locals[i].depth \in 1 .. 0
          BY <1>11, <3>1, <5>1 DEF LayersOK, Layered
        <5>3. QED
          BY <5>2
      <4>2. QED
        BY <4>1
    <3>3. Len(locals) \in Nat
      BY <3>1
    <3>4. QED
      BY <3>2, <3>3
  <2>2. Fits' => ~ \E i \in 1 .. Len(locals) : locals[i].depth = NoDepth
    BY <2>1
  <2>3. QED
    BY <2>1, <2>2 DEF OnStack
<1>14. PICK k, n, b : k = code /\ n = Pool /\ b = OnStack
  OBVIOUS
<1>15. k \in Seq(Byte) /\ code' = k \o <<OP_RETURN>> /\ Chart(k, c, {}, n) /\ n = Pool'
  <2>1. Stepping /\ constants' = constants
    BY <1>1
  <2>2. QED
    BY <1>1, <1>12, <1>14, <2>1, PoolKept
<1>16. Fits' => Level(k, c, {}) /\ c[Len(k)] = 0
  BY <1>8, <1>12, <1>13, <1>14
<1>17. Finished(k, c)'
  BY <1>15, <1>16 DEF Finished
<1>18. QED
  BY <1>7, <1>17

\* A compiler that has not started.
LEMMA CodeInvInit ==
  ASSUME HInit
  PROVE  CodeInv
<1>1. /\ code = <<>> /\ constants = <<>> /\ locals = <<>> /\ scopeDepth = 0 /\ opened = <<>>
      /\ todo = <<Call("advance"), Call("compile")>>
  BY DEF HInit, Init, NewCompiler
<1>2. /\ Len(todo) = 2 /\ todo[1] = Call("advance") /\ todo[2] = Call("compile") /\ todo # <<>>
      /\ 1 .. Len(todo) = {1, 2}
  BY <1>1
<1>3. todo[1].at = "advance" /\ todo[2].at = "compile"
  BY <1>2 DEF Call
<1>4. Stacked(todo)
  BY <1>2, <1>3, Kinds DEF Stacked
<1>5. PICK x : x = Mark(0, 0, 0)
  OBVIOUS
<1>6. x \in Spot /\ x.h = 0 /\ x.b = 0 /\ x.d = 0
  BY <1>5, Marks
<1>7. PICK st : st = [i \in 1 .. 3 |-> x]
  OBVIOUS
<1>8. PICK c : c = [i \in {0} |-> 0]
  OBVIOUS
<1>9. todo[1].at \in PlainFrames /\ todo[2].at \in PlainFrames
  BY <1>3, Kinds
<1>10. Pending(todo) = {}
  <2>1. ToPatch(todo[1]) = {} /\ ToPatch(todo[2]) = {}
    BY <1>3, NothingToPatch
  <2>2. QED
    BY <1>2, <2>1 DEF Pending
<1>11. DOMAIN c = {0} /\ c[0] = 0 /\ Len(code) = 0 /\ 0 \in 0 .. 0
  BY <1>1, <1>8
<1>12. Chart(code, c, Pending(todo), Pool)
  <2>1. LaidOut(code, {0}, {}, Pool)
    BY <1>11 DEF LaidOut
  <2>2. c \in [DOMAIN c -> Int]
    BY <1>8
  <2>3. QED
    BY <1>10, <1>11, <2>1, <2>2 DEF Chart
<1>13. Level(code, c, Pending(todo))
  BY <1>11 DEF Level
<1>14. OnStack = 0
  BY <1>1 DEF OnStack
<1>15. \A i \in 1 .. Len(todo) : st[i] = x /\ st[i + 1] = x
  BY <1>2, <1>7
<1>16. ASSUME NEW i \in 1 .. Len(todo)
       PROVE  Runs(todo[i], st[i], st[i + 1], code, c, Pool) /\ Leads(todo[i], st[i], st[i + 1], c, opened)
  <2>1. PICK f : f = todo[i]
    OBVIOUS
  <2>2. f.at \in PlainFrames
    BY <1>2, <1>9, <2>1
  <2>3. /\ Runs(f, x, x, code, c, Pool) <=> x.d = x.d
        /\ x.b \in Int => (Leads(f, x, x, c, opened) <=> x.h = x.b /\ x.h = x.b /\ (f.at \in FreeFrames \/ x.b = x.b))
    BY <2>2, PlainMeans, Zenon
  <2>4. QED
    BY <1>6, <1>15, <2>1, <2>3
<1>17. Charted(c, st)
  <2>1. st \in [1 .. Len(todo) + 1 -> Spot] /\ st[1] = x /\ \A i \in 1 .. Len(todo) + 1 : st[i].d = 0
    BY <1>2, <1>6, <1>7
  <2>2. st[Len(todo) + 1].d = 0 /\ st[1].d = scopeDepth
    BY <1>1, <1>2, <2>1
  <2>3. \A i, j \in 1 .. Len(todo) + 1 : i <= j => st[j].d <= st[i].d
    BY <2>1
  <2>4. st[1].h = c[Len(code)] /\ st[1].b = OnStack
    BY <1>6, <1>11, <1>14, <2>1
  <2>5. QED
    BY <1>12, <1>13, <1>16, <2>1, <2>2, <2>3, <2>4 DEF Charted
<1>18. QED
  BY <1>2, <1>4, <1>17 DEF CodeInv

\* What runs when compile is the innermost call.
LEMMA OnlyCompile ==
  ASSUME Types, CompileStep, frame.at = "compile"
  PROVE  Compile
<1>1. CASE \/ ParsePrecedence \/ NoPrefix \/ Grouping \/ Unary \/ Literal \/ ConstantLiteral
           \/ NamedVariable \/ Binary \/ And \/ EndExpression \/ ConsumeToken \/ EmitCode \/ PatchJump
  BY <1>1, ExpressionKind DEF ExpressionFrames
<1>2. CASE \/ FirstAdvance \/ Declaration \/ Recover \/ Synchronize \/ VarDeclaration
           \/ PrintStatement \/ IfStatement \/ WhileStatement \/ ExpressionStatement \/ BlockStatement
           \/ WhileBody \/ EndLoop \/ IfThen \/ IfElse
  BY <1>2 DEF FirstAdvance, Declaration, Recover, Synchronize, VarDeclaration, PrintStatement, IfStatement,
              WhileStatement, ExpressionStatement, BlockStatement, WhileBody, EndLoop, IfThen, IfElse, At
<1>3. CASE ForInitializer \/ ForCondition \/ ForIncrement \/ ForBody
  BY <1>3, ForKind DEF ForFrames
<1>4. CASE ForStatement \/ Block \/ EndScope \/ DefineVariable \/ ParseVariable \/ VarInitializer
  BY <1>4 DEF ForStatement, Block, EndScope, DefineVariable, ParseVariable, VarInitializer, At
<1>5. QED
  BY <1>1, <1>2, <1>3, <1>4, Zenon DEF CompileStep

\* The compiler goes on until compile returns.
LEMMA GoesOn ==
  ASSUME Stepping, Stacked(todo), NEW c, NEW y, NEW c2, NEW k \in 0 .. 4, NEW xs, Moves(c, y, c2, k, xs),
         ~(Compile /\ Sees("eof"))
  PROVE  todo' # <<>>
<1>1. FramesOK /\ FramesOK' /\ todo # <<>> /\ Types /\ CompileStep /\ Grows(k)
  BY DEF Stepping, IInv, Types, Moves
<1>2. Len(todo) \in Nat /\ Len(todo) > 0 /\ frame = todo[1] /\ Len(todo') = Len(todo) - 1 + k
  <2>1. Len(todo) \in Nat /\ Len(todo) > 0
    BY <1>1, EmptySeq DEF FramesOK
  <2>2. frame = todo[1]
    BY <1>1, HeadTailProperties DEF FramesOK, frame
  <2>3. QED
    BY <1>1, <2>1, <2>2 DEF Grows
<1>3. CASE Len(todo) = 1
  <2>1. frame.at = "compile"
    <3>1. 1 \in 1 .. Len(todo)
      BY <1>2
    <3>2. QED
      BY <1>2, <1>3, <3>1, Zenon DEF Stacked
  <2>2. ~Sees("eof") /\ Compile
    BY <1>1, <2>1, OnlyCompile
  <2>3. Then(<<Call("declaration"), Call("compile")>>)
    BY <2>2, Zenon DEF Compile
  <2>4. Call("declaration") \in Frame /\ Call("compile") \in Frame
    BY PlainCalls, Kinds
  <2>5. Grows(2)
    BY <1>1, <2>3, <2>4, ThenTwo
  <2>6. Len(todo') > 0
    BY <1>2, <2>5 DEF Grows
  <2>7. QED
    BY <2>6
<1>4. CASE Len(todo) # 1
  <2>1. PICK l : l = Len(todo)
    OBVIOUS
  <2>2. l \in Nat /\ l > 0 /\ l # 1 /\ k \in Nat /\ Len(todo') = l - 1 + k
    BY <1>2, <1>4, <2>1
  <2>3. Len(todo') > 0
    BY <2>2
  <2>4. QED
    BY <2>3
<1>5. QED
  BY <1>3, <1>4

\* A compiler that has not started declares nothing.
LEMMA NamesInit ==
  ASSUME HInit
  PROVE  NamesInv
<1>1. constants = <<>> /\ todo = <<Call("advance"), Call("compile")>>
  BY DEF HInit, Init, NewCompiler
<1>2. \A i \in 1 .. Len(todo) : todo[i].at # "parse_variable"
  BY <1>1 DEF Call
<1>3. QED
  BY <1>1, <1>2 DEF NamesInv

\* Only a step of consume consumes.
LEMMA OnlyConsume ==
  ASSUME Types, CompileStep, frame.at = "consume"
  PROVE  ConsumeToken
<1>1. CASE \/ ParsePrecedence \/ NoPrefix \/ Grouping \/ Unary \/ Literal \/ ConstantLiteral
           \/ NamedVariable \/ Binary \/ And \/ EndExpression \/ EmitCode \/ PatchJump
  BY <1>1 DEF ParsePrecedence, NoPrefix, Grouping, Unary, Literal, ConstantLiteral, NamedVariable, Binary, And,
              EndExpression, EmitCode, PatchJump, Prefix, TakesInfix, At
<1>2. CASE \/ FirstAdvance \/ Compile \/ Declaration \/ Recover \/ Synchronize
           \/ PrintStatement \/ IfStatement \/ WhileStatement \/ ExpressionStatement \/ BlockStatement
           \/ WhileBody \/ EndLoop \/ IfThen \/ IfElse \/ VarDeclaration
  BY <1>2, OtherKind, NameKind DEF OtherFrames, PlainFrames
<1>3. CASE ForInitializer \/ ForCondition \/ ForIncrement \/ ForBody
  BY <1>3, ForKind DEF ForFrames
<1>4. CASE ForStatement \/ Block \/ EndScope \/ DefineVariable \/ ParseVariable \/ VarInitializer
  BY <1>4 DEF ForStatement, Block, EndScope, DefineVariable, ParseVariable, VarInitializer, At
<1>5. QED
  BY <1>1, <1>2, <1>3, <1>4, Zenon DEF CompileStep

\* Constants are added in three actions only.
LEMMA ConstantsChange ==
  ASSUME CompileStep
  PROVE  \/ UNCHANGED constants
         \/ (ParseVariable \/ ConstantLiteral \/ NamedVariable) /\ MakeConstant(previous.lexeme)
BY DEF CompileStep, FirstAdvance, Compile, Declaration, Recover, Synchronize, VarDeclaration, ParseVariable,
   VarInitializer, DefineVariable, PrintStatement, ForStatement, IfStatement, WhileStatement, Block,
   ExpressionStatement, BlockStatement, EndScope, ForInitializer, ForCondition, ForIncrement, ForBody,
   WhileBody, EndLoop, IfThen, IfElse, ParsePrecedence, NoPrefix, Grouping, Unary, Literal, ConstantLiteral,
   NamedVariable, Binary, And, EndExpression, ConsumeToken, EmitCode, PatchJump, chunkVars

\* Every step keeps the names.
LEMMA NamesNext ==
  ASSUME IInv, IInv', NamesInv, [HNext]_hvars
  PROVE  NamesInv'
<1>1. CASE CompileStep /\ ~hadError'
  <2>1. Types /\ Types' /\ FramesOK /\ ~hadError /\ source' = source
    BY <1>1, ParserSteps, SourceStays DEF IInv, Types
  <2>2. todo # <<>>
    BY <1>1, <2>1, StepKinds
  <2>3. frame = todo[1] /\ Len(todo) \in Nat /\ Len(todo) > 0
    BY <2>1, <2>2, EmptySeq DEF FramesOK, frame
  <2>4. \A i \in 1 .. Len(todo) : todo[i].at = "parse_variable" => Named(i)
    BY <2>1 DEF NamesInv
  <2>5. \A i \in 1 .. Len(todo') : todo'[i].at = "parse_variable" => Named(i)'
    <3>1. CASE VarDeclaration
      <4>1. /\ Grows(2) /\ todo'[1].at = "consume" /\ todo'[1].type = "identifier"
            /\ frame.at \in OtherFrames \ {"parse_variable"}
        BY <2>1, <3>1, NameKind
      <4>2. Named(2)'
        BY <4>1 DEF Named
      <4>3. frame.at # "consume" /\ frame.at # "parse_variable"
        BY <4>1 DEF OtherFrames, PlainFrames
      <4>4. ASSUME NEW i \in 1 .. Len(todo'), todo'[i].at = "parse_variable"
            PROVE  i = 2
        <5>1. CASE i > 2
          <6>1. i - 1 \in 2 .. Len(todo) /\ (i - 1) - 1 + 2 = i
            BY <2>3, <4>1, <5>1 DEF Grows
          <6>2. todo'[i] = todo[i - 1]
            BY <4>1, <6>1 DEF Grows
          <6>3. Named(i - 1) /\ i - 1 # 1
            BY <2>4, <4>4, <6>1, <6>2
          <6>4. QED
            BY <2>3, <4>3, <6>3 DEF Named
        <5>2. CASE i = 1
          BY <4>1, <4>4, <5>2
        <5>3. QED
          BY <5>1, <5>2
      <4>5. QED
        BY <4>2, <4>4
    <3>2. CASE ~VarDeclaration
      <4>1. PICK k \in 0 .. 4 : Grows(k) /\ \A i \in 1 .. k : todo'[i].at # "parse_variable"
        BY <1>1, <2>1, <3>2, NamesCalled
      <4>2. ASSUME NEW i \in 1 .. Len(todo'), todo'[i].at = "parse_variable"
            PROVE  Named(i)'
        <5>1. i > k /\ i + 1 - k \in 2 .. Len(todo) /\ (i + 1 - k) - 1 + k = i
          BY <2>3, <4>1, <4>2 DEF Grows
        <5>2. todo'[i] = todo[i + 1 - k]
          BY <4>1, <5>1 DEF Grows
        <5>3. Named(i + 1 - k) /\ i + 1 - k # 1
          BY <2>4, <4>2, <5>1, <5>2
        <5>4. i + 1 - k = 2 /\ frame.at = "consume" /\ frame.type = "identifier"
          BY <2>3, <5>3 DEF Named
        <5>5. ConsumeToken
          BY <1>1, <2>1, <5>4, OnlyConsume
        <5>6. Len(todo') = Len(todo) - 1
          <6>1. Grows(0)
            BY <2>1, <2>2, <5>5, ThenNone DEF ConsumeToken, Types
          <6>2. QED
            BY <2>3, <6>1 DEF Grows
        <5>7. i = 1
          BY <2>3, <4>1, <5>4, <5>6 DEF Grows
        <5>8. Sees(frame.type) /\ Advance(FALSE)
          <6>1. ~Report(TRUE)
            BY <1>1 DEF Report
          <6>2. QED
            BY <5>5, <6>1 DEF ConsumeToken
        <5>9. previous'.type = "identifier"
          BY <5>4, <5>8 DEF Sees, Advance
        <5>10. QED
          BY <5>7, <5>9 DEF Named
      <4>3. QED
        BY <4>2
    <3>3. QED
      BY <3>1, <3>2
  <2>6. constants' \in Seq(Lexemes(Constants \union {"identifier"})')
    <3> DEFINE S == Lexemes(Constants \union {"identifier"})
    <3>1. Lexemes(Constants \union {"identifier"})' = S
      BY <2>1 DEF Lexemes
    <3>2. constants \in Seq(S)
      BY <2>1 DEF NamesInv
    <3>3. CASE (ParseVariable \/ ConstantLiteral \/ NamedVariable) /\ MakeConstant(previous.lexeme)
      <4>1. previous.type \in Constants \union {"identifier"}
        <5>1. CASE ParseVariable
          BY <2>1, <2>2, <5>1, Declares DEF ParseVariable, At
        <5>2. CASE ConstantLiteral \/ NamedVariable
          BY <5>2 DEF ConstantLiteral, NamedVariable, Prefix
        <5>3. QED
          BY <3>3, <5>1, <5>2
      <4>2. previous \in source.tokens
        BY <2>1, <4>1, FromSource
      <4>3. previous.lexeme \in S
        BY <4>1, <4>2 DEF Lexemes
      <4> HIDE DEF S
      <4>4. constants' \in Seq(S)
        BY <3>2, <3>3, <4>3 DEF MakeConstant
      <4>5. QED
        BY <3>1, <4>4
    <3> HIDE DEF S
    <3>4. CASE UNCHANGED constants
      BY <3>1, <3>2, <3>4
    <3>5. QED
      BY <1>1, <3>1, <3>3, <3>4, ConstantsChange DEF S
  <2>7. QED
    BY <2>5, <2>6 DEF NamesInv
<1>2. CASE hadError'
  BY <1>2 DEF NamesInv
<1>3. CASE UNCHANGED hvars \/ Stay
  <2>1. UNCHANGED <<source, previous, constants, todo, hadError>>
    BY <1>3 DEF hvars, vars, Stay, chunkVars, parserVars, errorVars
  <2>2. Lexemes(Constants \union {"identifier"})' = Lexemes(Constants \union {"identifier"})
        /\ \A i : Named(i)' <=> Named(i)
    BY <2>1 DEF Lexemes, Named
  <2>3. QED
    BY <2>1, <2>2 DEF NamesInv
<1>4. QED
  BY <1>1, <1>2, <1>3, Zenon DEF HNext, Next

\* Every step keeps the invariant.
LEMMA CodeInvNext ==
  ASSUME IInv, IInv', NamesInv, CodeInv, [HNext]_hvars
  PROVE  CodeInv'
<1>1. CASE CompileStep /\ HNext /\ ~hadError'
  <2>1. Types /\ FramesOK /\ ~hadError
    BY <1>1, ParserSteps DEF IInv, Types
  <2>2. todo # <<>>
    BY <1>1, <2>1, StepKinds
  <2>3. Stepping
    BY <1>1, <2>2, SourceStays DEF Stepping
  <2>4. Stacked(todo)
    BY <2>1 DEF CodeInv
  <2>5. PICK c, st : Charted(c, st)
    BY <2>1, <2>2 DEF CodeInv
  <2>6. CASE Compile /\ Sees("eof")
    <3>1. todo' = <<>> /\ \E k : Finished(k, c)'
      BY <2>3, <2>4, <2>5, <2>6, FinishedSteps, Zenon
    <3>2. Stacked(<<>>)
      BY DEF Stacked
    <3>3. QED
      BY <3>1, <3>2 DEF CodeInv
  <2>7. CASE ~(Compile /\ Sees("eof"))
    <3>1. PICK x, y : x = st[1] /\ y = st[2]
      OBVIOUS
    <3>2. Entered(c, x, y)
      BY <2>1, <2>2, <2>5, <3>1, ChartedEntered
    <3>3. Lands(c, y)
      BY <2>3, <2>7, <3>2, LandsAll
    <3>4. PICK c2 : \E k \in 0 .. 4 : \E xs : Moves(c, y, c2, k, xs)
      BY <3>3 DEF Lands
    <3>5. PICK k \in 0 .. 4 : \E xs : Moves(c, y, c2, k, xs)
      BY <3>4
    <3>6. PICK xs : Moves(c, y, c2, k, xs)
      BY <3>5
    <3>7. Stacked(todo')
      BY <2>3, <2>4, <3>6, StackedSteps
    <3>8. \E st2 : Charted(c2, st2)'
      BY <2>3, <2>4, <2>5, <3>1, <3>6, ChartedSteps
    <3>9. todo' # <<>>
      BY <2>3, <2>4, <2>7, <3>6, GoesOn
    <3>10. QED
      BY <3>7, <3>8, <3>9 DEF CodeInv
  <2>8. QED
    BY <2>6, <2>7
<1>2. CASE hadError'
  BY <1>2 DEF CodeInv
<1>3. CASE UNCHANGED hvars
  <2>1. UNCHANGED <<source, code, constants, todo, locals, scopeDepth, hadError, opened, bareFor, deepest>>
    BY <1>3 DEF hvars, vars, parserVars, chunkVars, scopeVars, errorVars
  <2>2. (OnStack' = OnStack) /\ (Fits' <=> Fits) /\ Pool' = Pool
    BY <2>1 DEF OnStack, Fits, Pool, Nameable, Lexemes
  <2>3. (\A k, c : Finished(k, c)' <=> Finished(k, c)) /\ (\A c, st : Charted(c, st)' <=> Charted(c, st))
    BY <2>1, <2>2 DEF Finished, Charted
  <2>4. QED
    BY <2>1, <2>3 DEF CodeInv
<1>4. CASE Stay /\ HNext
  <2>1. UNCHANGED <<source, code, constants, todo, scopeDepth, hadError>> /\ todo = <<>>
    BY <1>4 DEF Stay, Compiled, vars, parserVars, chunkVars, scopeVars, errorVars
  <2>2. Fits' => Fits
    <3>0. HNext
      BY <1>4
    <3>1. (bareFor => bareFor') /\ deepest' = IF scopeDepth' > deepest THEN scopeDepth' ELSE deepest
      BY <3>0, Zenon DEF HNext, Note
    <3>2. deepest \in Nat /\ scopeDepth <= deepest /\ scopeDepth \in Int
      BY DEF IInv, HistoryOK, Types
    <3>3. deepest' = deepest
      BY <2>1, <3>1, <3>2
    <3>4. QED
      BY <3>1, <3>3 DEF Fits
  <2>3. Pool' = Pool
    BY <2>1 DEF Pool, Nameable, Lexemes
  <2>4. \A k, c : Finished(k, c) => Finished(k, c)'
    BY <2>1, <2>2, <2>3 DEF Finished
  <2>5. QED
    BY <2>1, <2>4 DEF CodeInv
<1>5. HNext => CompileStep \/ Stay
  BY Zenon DEF HNext, Next
<1>6. HNext \/ UNCHANGED hvars
  OBVIOUS
<1>7. QED
  BY <1>1, <1>2, <1>3, <1>4, <1>5, <1>6, Zenon

\* NamesInv and CodeInv always hold.
LEMMA CodeInvAlways == HSpec => [](NamesInv /\ CodeInv)
<1>1. HInit => NamesInv /\ CodeInv
  BY NamesInit, CodeInvInit
<1>2. NamesInv /\ CodeInv /\ IInv /\ IInv' /\ [HNext]_hvars => NamesInv' /\ CodeInv'
  BY NamesNext, CodeInvNext
<1>3. QED
  BY <1>1, <1>2, IInvAlways, PTL DEF HSpec

-----------------------------------------------------------------------------
(***************************************************************************)
(* What the rounds of Heights and Starts compute.                          *)
(***************************************************************************)

\* Numbers have a least one.
LEMMA LeastOf ==
  ASSUME NEW T \in SUBSET Nat, T # {}
  PROVE  \E b \in T : \A d \in T : b <= d
<1>1. PICK t \in T : TRUE
  OBVIOUS
<1> DEFINE back == {i \in 1 .. (t + 1) : (t + 1) - i \in T}
<1>2. t + 1 \in Nat /\ back \in SUBSET (1 .. (t + 1)) /\ 1 \in back
  BY <1>1
<1>3. PICK i \in back : \A j \in back : j <= i
  <2> HIDE DEF back
  <2>1. QED
    BY <1>2, LastPosition
<1> DEFINE b == (t + 1) - i
<1>4. b \in T /\ b \in Nat /\ b <= t
  BY <1>1, <1>3
<1>5. ASSUME NEW d \in T, d <= t
      PROVE  b <= d
  <2>1. d \in Nat /\ (t + 1) - d \in 1 .. (t + 1) /\ (t + 1) - ((t + 1) - d) = d
    BY <1>1, <1>5
  <2>2. (t + 1) - d \in back
    BY <2>1, <1>5
  <2>3. (t + 1) - d <= i
    BY <1>3, <2>2
  <2>4. QED
    BY <1>1, <1>2, <1>3, <2>1, <2>3
<1>6. \A d \in T : d <= t \/ b <= d
  BY <1>1, <1>4
<1>7. QED
  BY <1>4, <1>5, <1>6

\* A set with 0 and with the successor of each of its numbers has all of them.
LEMMA Inducts ==
  ASSUME NEW S, 0 \in S, \A n \in Nat : n \in S => n + 1 \in S
  PROVE  \A n \in Nat : n \in S
<1>1. SUFFICES ASSUME Nat \ S # {}
               PROVE  FALSE
  OBVIOUS
<1>2. PICK b \in Nat \ S : \A d \in Nat \ S : b <= d
  <2>1. Nat \ S \in SUBSET Nat
    OBVIOUS
  <2>2. QED
    BY <1>1, <2>1, LeastOf
<1>3. b \in Nat /\ b # 0
  OBVIOUS
<1>4. b - 1 \in Nat /\ b - 1 < b /\ (b - 1) + 1 = b
  BY <1>3
<1>5. b - 1 \in S
  BY <1>2, <1>4
<1>6. b \in S
  BY <1>4, <1>5
<1>7. QED
  BY <1>6

\* The first m values of what starts as v and goes on with the functions F.
FirstValues(v, F, g, m) == g[0] = v /\ \A x \in Nat : x < m => g[x + 1] = F[x][g[x]]

\* Such values agree as far as they go.
LEMMA ValuesAgree ==
  ASSUME NEW v, NEW F, NEW g, NEW h, NEW m \in Nat, NEW m2 \in Nat,
         FirstValues(v, F, g, m), FirstValues(v, F, h, m2), NEW x \in Nat, x <= m, x <= m2
  PROVE  g[x] = h[x]
<1> DEFINE S == {y \in Nat : y <= m /\ y <= m2 => g[y] = h[y]}
<1>1. 0 \in S
  BY DEF FirstValues
<1>2. ASSUME NEW y \in Nat, y \in S
      PROVE  y + 1 \in S
  <2>1. SUFFICES ASSUME y + 1 <= m, y + 1 <= m2
                 PROVE  g[y + 1] = h[y + 1]
    OBVIOUS
  <2>2. y < m /\ y < m2 /\ y <= m /\ y <= m2
    BY <2>1
  <2>3. g[y] = h[y]
    BY <1>2, <2>2
  <2>4. g[y + 1] = F[y][g[y]] /\ h[y + 1] = F[y][h[y]]
    BY <2>2 DEF FirstValues
  <2>5. QED
    BY <2>3, <2>4
<1> HIDE DEF S
<1>3. x \in S
  BY <1>1, <1>2, Inducts
<1>4. QED
  BY <1>3 DEF S

\* There are such values, as many as one likes.
LEMMA ValuesExist ==
  ASSUME NEW V, NEW v \in V, NEW F \in [Nat -> [V -> V]], NEW m \in Nat
  PROVE  \E g \in [0 .. m -> V] : FirstValues(v, F, g, m)
<1> DEFINE S == {y \in Nat : \E g \in [0 .. y -> V] : FirstValues(v, F, g, y)}
<1>1. 0 \in S
  <2> DEFINE g == [x \in 0 .. 0 |-> v]
  <2>1. g \in [0 .. 0 -> V] /\ FirstValues(v, F, g, 0)
    BY DEF FirstValues
  <2>2. QED
    BY <2>1
<1>2. ASSUME NEW y \in Nat, y \in S
      PROVE  y + 1 \in S
  <2>1. PICK g \in [0 .. y -> V] : FirstValues(v, F, g, y)
    BY <1>2
  <2> DEFINE g2 == [x \in 0 .. (y + 1) |-> IF x = y + 1 THEN F[y][g[y]] ELSE g[x]]
  <2>2. F[y][g[y]] \in V
    OBVIOUS
  <2>3. g2 \in [0 .. (y + 1) -> V]
    BY <2>2
  <2>4. g2[0] = v
    BY <2>1 DEF FirstValues
  <2>5. ASSUME NEW x \in Nat, x < y + 1
        PROVE  g2[x + 1] = F[x][g2[x]]
    <3>1. x \in 0 .. (y + 1) /\ x + 1 \in 0 .. (y + 1) /\ x # y + 1 /\ g2[x] = g[x]
      BY <2>5
    <3>2. CASE x = y
      BY <3>1, <3>2
    <3>3. CASE x # y
      <4>1. x < y /\ x + 1 # y + 1
        BY <2>5, <3>3
      <4>2. g[x + 1] = F[x][g[x]]
        BY <2>1, <4>1 DEF FirstValues
      <4>3. g2[x + 1] = g[x + 1]
        BY <3>1, <4>1
      <4>4. QED
        BY <3>1, <4>2, <4>3
    <3>4. QED
      BY <3>2, <3>3
  <2> HIDE DEF g2
  <2>6. FirstValues(v, F, g2, y + 1)
    BY <2>4, <2>5 DEF FirstValues
  <2>7. QED
    BY <2>3, <2>6
<1> HIDE DEF S
<1>3. m \in S
  BY <1>1, <1>2, Inducts
<1>4. QED
  BY <1>3 DEF S

Steps(V)          == [Nat -> [V -> V]]
Values(V, v, F)   == {f \in [Nat -> V] : f[0] = v /\ \A n \in Nat : f[n + 1] = F[n][f[n]]}

\* A recursive definition over the numbers has a function that satisfies it.
LEMMA Iterates ==
  ASSUME NEW V, NEW v \in V, NEW F \in Steps(V)
  PROVE  \E f : f \in Values(V, v, F)
<1> DEFINE G(m) == CHOOSE g \in [0 .. m -> V] : FirstValues(v, F, g, m)
           f    == [m \in Nat |-> G(m)[m]]
<1>1. \A m \in Nat : G(m) \in [0 .. m -> V] /\ FirstValues(v, F, G(m), m)
  BY ValuesExist DEF Steps
<1> HIDE DEF G
<1>2. f \in [Nat -> V]
  <2>1. \A m \in Nat : m \in 0 .. m
    OBVIOUS
  <2>2. QED
    BY <1>1, <2>1
<1>3. f[0] = v
  BY <1>1 DEF FirstValues
<1>4. ASSUME NEW n \in Nat
      PROVE  f[n + 1] = F[n][f[n]]
  <2>1. n + 1 \in Nat /\ n < n + 1 /\ n <= n /\ n <= n + 1
    OBVIOUS
  <2>2. G(n + 1)[n + 1] = F[n][G(n + 1)[n]]
    BY <1>1, <2>1 DEF FirstValues
  <2>3. FirstValues(v, F, G(n), n) /\ FirstValues(v, F, G(n + 1), n + 1)
    BY <1>1, <2>1
  <2>4. G(n + 1)[n] = G(n)[n]
    BY <2>1, <2>3, ValuesAgree
  <2>5. QED
    BY <2>1, <2>2, <2>4
<1> HIDE DEF f
<1>5. QED
  BY <1>2, <1>3, <1>4 DEF Values

\* The rounds, when what they find stays in X.
LEMMA RoundsAre ==
  ASSUME NEW K, NEW X, <<0, 0>> \in X, \A r \in X : Onward(K, r) \subseteq X
  PROVE  /\ Rounds(K)[0] = [all |-> {<<0, 0>>}, new |-> {<<0, 0>>}]
         /\ \A n \in Nat : /\ Rounds(K)[n + 1] = Further(K, Rounds(K)[n])
                           /\ Rounds(K)[n].all \subseteq X /\ Rounds(K)[n].new \subseteq Rounds(K)[n].all
<1> DEFINE V == [all : SUBSET X, new : SUBSET X]
           v == [all |-> {<<0, 0>>}, new |-> {<<0, 0>>}]
           F == [n \in Nat |-> [w \in V |-> Further(K, w)]]
           Rule(f) == f = [n \in Nat |-> IF n = 0 THEN v ELSE Further(K, f[n - 1])]
<1>1. \A w \in V : Further(K, w) \in V
  <2>1. ASSUME NEW w \in V
        PROVE  Further(K, w) \in V
    <3>1. w.all \subseteq X /\ w.new \subseteq X
      OBVIOUS
    <3>2. UNION {Onward(K, r) : r \in w.new} \subseteq X
      BY <3>1
    <3>3. QED
      BY <3>1, <3>2 DEF Further
  <2>2. QED
    BY <2>1
<1>2. v \in V /\ F \in Steps(V)
  BY <1>1 DEF Steps
<1>3. PICK f \in [Nat -> V] : f[0] = v /\ \A n \in Nat : f[n + 1] = F[n][f[n]]
  <2> HIDE DEF V, F, v
  <2>1. \E f : f \in Values(V, v, F)
    BY <1>2, Iterates
  <2>2. QED
    BY <2>1 DEF Values
<1>4. Rule(f)
  <2>1. ASSUME NEW n \in Nat, n # 0
        PROVE  f[n] = Further(K, f[n - 1])
    <3>1. n - 1 \in Nat /\ (n - 1) + 1 = n
      BY <2>1
    <3>2. f[(n - 1) + 1] = F[n - 1][f[n - 1]]
      BY <1>3, <3>1, Zenon
    <3>3. F[n - 1][f[n - 1]] = Further(K, f[n - 1])
      BY <3>1
    <3>4. QED
      BY <3>1, <3>2, <3>3
  <2> HIDE DEF F, v
  <2>2. QED
    BY <1>3, <2>1
<1>5. Rule(Rounds(K))
  BY <1>4 DEF Rounds
<1> DEFINE R == Rounds(K)
<1> HIDE DEF R
<1>6. R[0] = v /\ \A n \in Nat : R[n + 1] = Further(K, R[n])
  <2>1. R = [n \in Nat |-> IF n = 0 THEN v ELSE Further(K, R[n - 1])]
    BY <1>5 DEF R
  <2> HIDE DEF v
  <2>2. R[0] = v
    BY <2>1
  <2>3. ASSUME NEW n \in Nat
        PROVE  R[n + 1] = Further(K, R[n])
    <3>1. n + 1 \in Nat /\ n + 1 # 0 /\ (n + 1) - 1 = n
      OBVIOUS
    <3>2. R[n + 1] = IF n + 1 = 0 THEN v ELSE Further(K, R[(n + 1) - 1])
      BY <2>1, <3>1
    <3>3. QED
      BY <3>1, <3>2
  <2>4. QED
    BY <2>2, <2>3
<1> DEFINE S == {n \in Nat : R[n] \in V /\ R[n].new \subseteq R[n].all}
<1>7. 0 \in S
  <2>1. v \in V /\ R[0] = v /\ 0 \in Nat /\ v.new = v.all
    BY <1>2, <1>6
  <2> HIDE DEF v, V
  <2>2. QED
    BY <2>1
<1>8. ASSUME NEW n \in Nat, n \in S
      PROVE  n + 1 \in S
  <2>1. R[n + 1] = Further(K, R[n]) /\ n + 1 \in Nat
    BY <1>6
  <2>2. Further(K, R[n]).new \subseteq Further(K, R[n]).all
    BY DEF Further
  <2>3. QED
    BY <1>1, <1>8, <2>1, <2>2
<1>9. \A n \in Nat : n \in S
  <2> HIDE DEF S
  <2>1. QED
    BY <1>7, <1>8, Inducts
<1>10. \A n \in Nat : R[n].all \subseteq X /\ R[n].new \subseteq R[n].all
  BY <1>9
<1>11. QED
  BY <1>6, <1>10 DEF R

\* The starts of instructions.
LEMMA StartsAre ==
  ASSUME NEW K
  PROVE  Starts(K)[0] = {0} /\ \A n \in Nat : Starts(K)[n + 1] = StartsAfter(K, n, Starts(K)[n])
<1> DEFINE V == SUBSET Nat
           F == [n \in Nat |-> [w \in V |-> StartsAfter(K, n, w)]]
           Rule(f) == f = [n \in Nat |-> IF n = 0 THEN {0} ELSE StartsAfter(K, n - 1, f[n - 1])]
<1>1. \A n \in Nat : \A w \in V : StartsAfter(K, n, w) \in V
  <2>1. \A n \in Nat : n + Length(K[n + 1]) \in Nat
    BY Lengths
  <2>2. QED
    BY <2>1 DEF StartsAfter
<1>2. {0} \in V /\ F \in Steps(V)
  BY <1>1 DEF Steps
<1>3. PICK f \in [Nat -> V] : f[0] = {0} /\ \A n \in Nat : f[n + 1] = F[n][f[n]]
  <2> HIDE DEF V, F
  <2>1. \E f : f \in Values(V, {0}, F)
    BY <1>2, Iterates
  <2>2. QED
    BY <2>1 DEF Values
<1>4. Rule(f)
  <2>1. ASSUME NEW n \in Nat, n # 0
        PROVE  f[n] = StartsAfter(K, n - 1, f[n - 1])
    <3>1. n - 1 \in Nat /\ (n - 1) + 1 = n
      BY <2>1
    <3>2. f[(n - 1) + 1] = F[n - 1][f[n - 1]]
      BY <1>3, <3>1, Zenon
    <3>3. F[n - 1][f[n - 1]] = StartsAfter(K, n - 1, f[n - 1])
      BY <3>1
    <3>4. QED
      BY <3>1, <3>2, <3>3
  <2> HIDE DEF F
  <2>2. QED
    BY <1>3, <2>1
<1>5. Rule(Starts(K))
  BY <1>4 DEF Starts
<1> DEFINE B == Starts(K)
<1> HIDE DEF B
<1>6. B = [n \in Nat |-> IF n = 0 THEN {0} ELSE StartsAfter(K, n - 1, B[n - 1])]
  BY <1>5 DEF B
<1>7. B[0] = {0}
  BY <1>6
<1>8. ASSUME NEW n \in Nat
      PROVE  B[n + 1] = StartsAfter(K, n, B[n])
  <2>1. n + 1 \in Nat /\ n + 1 # 0 /\ (n + 1) - 1 = n
    OBVIOUS
  <2>2. B[n + 1] = IF n + 1 = 0 THEN {0} ELSE StartsAfter(K, (n + 1) - 1, B[(n + 1) - 1])
    BY <1>6, <2>1
  <2>3. QED
    BY <2>1, <2>2
<1>9. QED
  BY <1>7, <1>8 DEF B

-----------------------------------------------------------------------------
(***************************************************************************)
(* How the VM reads a chart: the code with the OP_RETURN that ends it.     *)
(***************************************************************************)

\* In K the instructions at the offsets in D are whole and lead to such offsets
\* only; those that name a constant are in n with its index.
Legible(K, D, n) ==
  /\ D \subseteq 0 .. (Len(K) - 1) /\ 0 \in D
  /\ \A i \in D : Whole(K, i) /\ Successors(K, i) \subseteq D
  /\ \A i \in D : K[i + 1] \in ConstantOps => Listed(K[i + 1], K[i + 2], n)

\* The heights of c are right for each instruction of K.
Balanced(K, c) ==
  /\ c[0] = 0
  /\ \A i \in DOMAIN c :
       /\ Takes(K[i + 1]) <= c[i]
       /\ K[i + 1] \in LocalOps => K[i + 2] < c[i]
       /\ K[i + 1] = OP_RETURN => c[i] = 0
       /\ \A j \in Successors(K, i) : c[j] = c[i] + Effect(K[i + 1])

\* The bytes of the code and of its OP_RETURN.
LEMMA ReturnAppended ==
  ASSUME NEW k \in Seq(Byte)
  PROVE  LET K == k \o <<OP_RETURN>>
         IN  /\ K \in Seq(Byte) /\ Len(K) = Len(k) + 1 /\ Len(k) \in Nat
             /\ \A i \in 1 .. Len(k) : K[i] = k[i]
             /\ K[Len(k) + 1] = OP_RETURN
<1>1. OP_RETURN \in Byte
  BY DEF Byte, OpCodes, OP_CONSTANT, OP_RETURN
<1>2. <<OP_RETURN>> \in Seq(Byte) /\ Len(<<OP_RETURN>>) = 1 /\ <<OP_RETURN>>[1] = OP_RETURN
  BY <1>1
<1>3. QED
  BY <1>2, ConcatBytes

\* The opcodes that are not OP_RETURN, and what OP_RETURN does.
LEMMA ReturnIsLast ==
  /\ Length(OP_RETURN) = 1 /\ Takes(OP_RETURN) = 0 /\ OP_RETURN \in OpCodes
  /\ OP_RETURN \notin ConstantOps \union LocalOps \union JumpOps
  /\ JumpOps = {OP_JUMP, OP_JUMP_IF_FALSE, OP_LOOP}
  /\ \A op \in JumpOps : Effect(op) = 0
BY DEF Length, Takes, Effect, NumberOps, OpCodes, ConstantOps, LocalOps, JumpOps, OP_RETURN, OP_CONSTANT, OP_NIL,
   OP_TRUE, OP_FALSE, OP_POP, OP_GET_LOCAL, OP_SET_LOCAL, OP_GET_GLOBAL, OP_DEFINE_GLOBAL, OP_SET_GLOBAL,
   OP_EQUAL, OP_GREATER, OP_LESS, OP_ADD, OP_SUBTRACT, OP_MULTIPLY, OP_DIVIDE, OP_NOT, OP_NEGATE, OP_PRINT,
   OP_JUMP, OP_JUMP_IF_FALSE, OP_LOOP

\* What an instruction of a chart leads to is what the VM continues with.
LEMMA SuccessorsInChart ==
  ASSUME NEW K, NEW i, K[i + 1] # OP_RETURN
  PROVE  \A j \in Successors(K, i) :
           \/ j = After(K, i) /\ K[i + 1] \notin {OP_JUMP, OP_LOOP}
           \/ j = Target(K, i) /\ K[i + 1] \in JumpOps
<1>1. OP_JUMP # OP_LOOP /\ OP_JUMP_IF_FALSE # OP_LOOP /\ OP_JUMP_IF_FALSE # OP_JUMP
  BY DEF OP_JUMP, OP_LOOP, OP_JUMP_IF_FALSE
<1>2. CASE K[i + 1] = OP_JUMP
  BY <1>1, <1>2, ReturnIsLast DEF Successors, Target, After
<1>3. CASE K[i + 1] = OP_LOOP
  BY <1>1, <1>3, ReturnIsLast DEF Successors, Target, After
<1>4. CASE K[i + 1] = OP_JUMP_IF_FALSE
  BY <1>1, <1>4, ReturnIsLast DEF Successors, Target, After
<1>5. CASE K[i + 1] \notin {OP_JUMP, OP_LOOP, OP_JUMP_IF_FALSE}
  BY <1>5 DEF Successors, After
<1>6. QED
  BY <1>2, <1>3, <1>4, <1>5

\* A chart in which no jump is left to patch can be read.
LEMMA ChartIsLegible ==
  ASSUME NEW k \in Seq(Byte), NEW c, NEW n, Chart(k, c, {}, n)
  PROVE  LET K == k \o <<OP_RETURN>>
         IN  /\ Legible(K, DOMAIN c, n)
             /\ Level(k, c, {}) /\ c[Len(k)] = 0 => Balanced(K, c)
<1> DEFINE K == k \o <<OP_RETURN>>
           D == DOMAIN c
           L == Len(k)
<1>1. /\ Len(K) = L + 1 /\ L \in Nat /\ K[L + 1] = OP_RETURN
      /\ \A i \in 1 .. L : K[i] = k[i]
  BY ReturnAppended
<1>2. LaidOut(k, D, {}, n)
  BY DEF Chart
<1>3. D \subseteq 0 .. L /\ 0 \in D /\ L \in D
  BY <1>2 DEF LaidOut
<1> HIDE DEF K, L
<1>4. ASSUME NEW i \in D, i < L
      PROVE  /\ i \in Nat /\ K[i + 1] = k[i + 1] /\ k[i + 1] \in OpCodes \ {OP_RETURN}
             /\ After(K, i) = After(k, i) /\ After(k, i) = i + Length(k[i + 1]) /\ After(k, i) <= L
             /\ After(k, i) \in D
             /\ k[i + 1] \in JumpOps => Target(K, i) = Target(k, i) /\ Target(k, i) \in D
             /\ k[i + 1] \in ConstantOps \union LocalOps => K[i + 2] = k[i + 2]
             /\ k[i + 1] \in ConstantOps => Listed(k[i + 1], k[i + 2], n)
  <2>1. /\ i \in Nat /\ i + 1 \in 1 .. L
        /\ After(k, i) = i + Length(k[i + 1]) /\ After(k, i) <= L /\ After(k, i) \in D
        /\ k[i + 1] \in ConstantOps \union LocalOps => i + 2 \in 1 .. L
        /\ k[i + 1] \in JumpOps => i + 2 \in 1 .. L /\ i + 3 \in 1 .. L
    BY <1>2, <1>4, ChartedInstruction DEF L
  <2>2. /\ k[i + 1] \in OpCodes \ {OP_RETURN}
        /\ k[i + 1] \in ConstantOps => Listed(k[i + 1], k[i + 2], n)
        /\ k[i + 1] \in JumpOps => Target(k, i) \in D
    BY <1>2, <1>4 DEF LaidOut, L
  <2>3. /\ K[i + 1] = k[i + 1]
        /\ k[i + 1] \in JumpOps => K[i + 2] = k[i + 2] /\ K[i + 3] = k[i + 3]
        /\ k[i + 1] \in ConstantOps \union LocalOps => K[i + 2] = k[i + 2]
    BY <1>1, <2>1
  <2>4. After(K, i) = After(k, i) /\ (k[i + 1] \in JumpOps => Target(K, i) = Target(k, i))
    BY <2>1, <2>3, SameInstruction
  <2>5. QED
    BY <2>1, <2>2, <2>3, <2>4
<1>5. \A i \in D : i = L \/ i < L
  BY <1>1, <1>3
<1>6. Successors(K, L) = {} /\ Whole(K, L)
  <2>1. Successors(K, L) = {}
    BY <1>1 DEF Successors, OP_RETURN, OP_JUMP, OP_LOOP, OP_JUMP_IF_FALSE
  <2>2. Whole(K, L)
    BY <1>1, ReturnIsLast DEF Whole
  <2>3. QED
    BY <2>1, <2>2
<1>7. ASSUME NEW i \in D, i < L
      PROVE  /\ Whole(K, i)
             /\ \A j \in Successors(K, i) :
                  \/ j = After(k, i) /\ k[i + 1] \notin {OP_JUMP, OP_LOOP}
                  \/ j = Target(k, i) /\ k[i + 1] \in JumpOps
  <2>1. Length(k[i + 1]) \in 1 .. 3
    BY Lengths
  <2>2. Whole(K, i)
    BY <1>1, <1>4, <1>7, <2>1 DEF Whole
  <2>3. K[i + 1] # OP_RETURN
    BY <1>4, <1>7
  <2>4. QED
    BY <1>4, <1>7, <2>2, <2>3, SuccessorsInChart
<1>8. Legible(K, D, n)
  <2>1. D \subseteq 0 .. (Len(K) - 1) /\ 0 \in D
    BY <1>1, <1>3
  <2>2. ASSUME NEW i \in D
        PROVE  Whole(K, i) /\ Successors(K, i) \subseteq D /\ (K[i + 1] \in ConstantOps => Listed(K[i + 1], K[i + 2], n))
    <3>1. CASE i = L
      BY <1>1, <1>6, <3>1, ReturnIsLast
    <3>2. CASE i < L
      BY <1>4, <1>7, <3>2
    <3>3. QED
      BY <1>5, <3>1, <3>2
  <2>3. QED
    BY <2>1, <2>2 DEF Legible
<1>9. ASSUME Level(k, c, {}), c[L] = 0
      PROVE  Balanced(K, c)
  <2>1. c[0] = 0
    BY <1>9 DEF Level
  <2>2. ASSUME NEW i \in D
        PROVE  /\ Takes(K[i + 1]) <= c[i]
               /\ K[i + 1] \in LocalOps => K[i + 2] < c[i]
               /\ K[i + 1] = OP_RETURN => c[i] = 0
               /\ \A j \in Successors(K, i) : c[j] = c[i] + Effect(K[i + 1])
    <3>1. CASE i = L
      BY <1>1, <1>6, <1>9, <3>1, ReturnIsLast
    <3>2. CASE i < L
      <4>1. /\ Takes(k[i + 1]) <= c[i]
            /\ k[i + 1] \in LocalOps => k[i + 2] < c[i]
            /\ k[i + 1] \notin {OP_JUMP, OP_LOOP} => c[After(k, i)] = c[i] + Effect(k[i + 1])
            /\ k[i + 1] \in JumpOps => c[Target(k, i)] = c[i]
        BY <1>9, <3>2 DEF Level, L
      <4>2. k[i + 1] \in JumpOps => c[Target(k, i)] = c[i] + Effect(k[i + 1])
        <5>1. c[i] \in Int
          BY DEF Chart
        <5>2. QED
          BY <4>1, <5>1, ReturnIsLast
      <4>3. \A j \in Successors(K, i) : c[j] = c[i] + Effect(K[i + 1])
        BY <1>4, <1>7, <3>2, <4>1, <4>2
      <4>4. QED
        BY <1>4, <3>2, <4>1, <4>3
    <3>3. QED
      BY <1>5, <3>1, <3>2
  <2>3. QED
    BY <2>1, <2>2 DEF Balanced
<1>10. QED
  BY <1>8, <1>9 DEF K, L

\* A run through legible code stays at the offsets of its instructions.
LEMMA RunStays ==
  ASSUME NEW K \in Seq(Byte), NEW D, NEW n, Legible(K, D, n)
  PROVE  /\ Rounds(K)[0] = [all |-> {<<0, 0>>}, new |-> {<<0, 0>>}]
         /\ \A m \in Nat : /\ Rounds(K)[m + 1] = Further(K, Rounds(K)[m])
                           /\ Rounds(K)[m].all \subseteq D \X Int
                           /\ Rounds(K)[m].new \subseteq Rounds(K)[m].all
<1> DEFINE X == D \X Int
<1>1. <<0, 0>> \in X
  BY DEF Legible
<1>2. ASSUME NEW r \in X
      PROVE  Onward(K, r) \subseteq X
  <2>1. r[1] \in D /\ r[2] \in Int /\ Successors(K, r[1]) \subseteq D
    BY DEF Legible
  <2>2. r[2] + Effect(K[r[1] + 1]) \in Int
    <3>1. Effect(K[r[1] + 1]) \in {-1, 0, 1}
      BY Lengths
    <3>2. QED
      BY <2>1, <3>1
  <2>3. QED
    BY <2>1, <2>2 DEF Onward
<1> HIDE DEF X
<1>3. QED
  BY <1>1, <1>2, RoundsAre DEF X

\* So do the pairs that Heights finds.
LEMMA HeightsStay ==
  ASSUME NEW K \in Seq(Byte), NEW D, NEW n, Legible(K, D, n)
  PROVE  \A r \in Heights(K) : r[1] \in D /\ r[2] \in Int
<1>1. Len(K) \in Nat
  OBVIOUS
<1>2. Rounds(K)[Len(K)].all \subseteq D \X Int
  BY <1>1, RunStays
<1>3. QED
  BY <1>2 DEF Heights

\* Reading the instructions one after the other finds those of a chart.
LEMMA StartsFound ==
  ASSUME NEW k \in Seq(Byte), NEW c, NEW n, Chart(k, c, {}, n)
  PROVE  DOMAIN c \subseteq Boundaries(k \o <<OP_RETURN>>)
<1> DEFINE K == k \o <<OP_RETURN>>
           D == DOMAIN c
           L == Len(k)
           B == Starts(K)
           Passed(m) == \A d \in D : /\ d <= m => d \in B[m]
                                     /\ d < m /\ d < L => After(K, d) \in B[m]
           S == {m \in Nat : Passed(m)}
<1>1. /\ Len(K) = L + 1 /\ L \in Nat /\ \A i \in 1 .. L : K[i] = k[i]
  BY ReturnAppended
<1>2. LaidOut(k, D, {}, n) /\ D \subseteq 0 .. L
  BY DEF Chart, LaidOut
<1>3. Legible(K, D, n)
  BY ChartIsLegible
<1>4. \A i \in D : i \in Nat /\ Whole(K, i)
  BY <1>1, <1>2, <1>3 DEF Legible
<1>5. \A d \in D : d # 0 => \E i \in D : i < L /\ i < d /\ d = After(K, i)
  <2>1. ASSUME NEW d \in D, d # 0
        PROVE  \E i \in D : i < L /\ i < d /\ d = After(K, i)
    <3>1. PICK i \in D : i < L /\ d = After(k, i)
      BY <1>2, <2>1 DEF LaidOut
    <3>2. i \in Nat /\ i + 1 \in 1 .. L
      BY <1>1, <1>2, <3>1
    <3>3. After(K, i) = After(k, i)
      BY <1>1, <3>2 DEF After
    <3>4. i < After(K, i)
      <4>1. Length(K[i + 1]) \in 1 .. 3
        BY Lengths
      <4>2. QED
        BY <3>2, <4>1 DEF After
    <3>5. QED
      BY <3>1, <3>3, <3>4
  <2>2. QED
    BY <2>1
<1> HIDE DEF K, L, B, Passed
<1>6. /\ B[0] = {0}
      /\ \A m \in Nat : B[m + 1] = StartsAfter(K, m, B[m])
  BY StartsAre DEF B
<1>7. \A m \in Nat : B[m] \subseteq B[m + 1] /\ (m \in B[m] /\ Whole(K, m) => After(K, m) \in B[m + 1])
  BY <1>6 DEF StartsAfter, After
<1>8. Passed(0)
  <2>1. \A d \in D : d \in Nat /\ ~(d < 0) /\ (d <= 0 => d = 0)
    BY <1>4
  <2>2. QED
    BY <1>6, <2>1 DEF Passed
<1>9. ASSUME NEW m \in Nat, Passed(m)
      PROVE  Passed(m + 1)
  <2>1. ASSUME NEW d \in D, d < m + 1, d < L
        PROVE  After(K, d) \in B[m + 1]
    <3>1. d = m \/ d < m
      BY <1>4, <2>1
    <3>2. CASE d < m
      BY <1>7, <1>9, <2>1, <3>2 DEF Passed
    <3>3. CASE d = m
      <4>1. d \in B[m]
        BY <1>4, <1>9, <3>3 DEF Passed
      <4>2. QED
        BY <1>4, <1>7, <3>3, <4>1
    <3>4. QED
      BY <3>1, <3>2, <3>3
  <2>2. ASSUME NEW d \in D, d <= m + 1
        PROVE  d \in B[m + 1]
    <3>1. CASE d <= m
      BY <1>7, <1>9, <3>1 DEF Passed
    <3>2. CASE d = m + 1
      <4>1. PICK i \in D : i < L /\ i < d /\ d = After(K, i)
        BY <1>5, <3>2
      <4>2. i < m + 1
        BY <3>2, <4>1
      <4>3. QED
        BY <2>1, <4>1, <4>2
    <3>3. QED
      BY <1>4, <2>2, <3>1, <3>2
  <2>3. QED
    BY <2>1, <2>2 DEF Passed
<1>10. Passed(L + 1)
  <2>1. 0 \in S /\ \A m \in Nat : m \in S => m + 1 \in S
    BY <1>8, <1>9
  <2> HIDE DEF S
  <2>2. \A m \in Nat : m \in S
    BY <2>1, Inducts
  <2>3. L + 1 \in S
    BY <1>1, <2>2
  <2> USE DEF S
  <2>4. QED
    BY <2>3
<1>11. \A d \in D : d <= L + 1
  BY <1>1, <1>2 DEF L
<1>12. QED
  BY <1>1, <1>10, <1>11 DEF Passed, B, Boundaries, K

\* The jumps of a chart land.
LEMMA ChartLands ==
  ASSUME NEW k \in Seq(Byte), NEW c, NEW n, Chart(k, c, {}, n)
  PROVE  JumpsLand(k \o <<OP_RETURN>>)
<1> DEFINE K == k \o <<OP_RETURN>>
<1>1. K \in Seq(Byte) /\ Len(K) = Len(k) + 1 /\ Len(k) \in Nat
  BY ReturnAppended
<1>2. Legible(K, DOMAIN c, n)
  BY ChartIsLegible
<1>3. DOMAIN c \subseteq Boundaries(K)
  BY StartsFound
<1> HIDE DEF K
<1>4. \A r \in Heights(K) : r[1] \in DOMAIN c
  BY <1>1, <1>2, HeightsStay
<1>5. Len(K) \notin DOMAIN c
  BY <1>1, <1>2 DEF Legible
<1>6. \A r \in Heights(K) : Whole(K, r[1]) /\ Successors(K, r[1]) \subseteq DOMAIN c
  BY <1>2, <1>4 DEF Legible
<1>7. \A r \in Heights(K) : K[r[1] + 1] = OP_RETURN => r[1] = Len(K) - 1
  <2>1. ASSUME NEW i \in DOMAIN c, K[i + 1] = OP_RETURN
        PROVE  i = Len(K) - 1
    <3>1. LaidOut(k, DOMAIN c, {}, n)
      BY DEF Chart
    <3>2. i \in 0 .. Len(k) /\ (i < Len(k) => k[i + 1] # OP_RETURN)
      BY <3>1 DEF LaidOut
    <3>3. i < Len(k) => K[i + 1] = k[i + 1]
      <4>1. \A j \in 1 .. Len(k) : K[j] = k[j]
        BY ReturnAppended DEF K
      <4>2. QED
        BY <1>1, <3>2, <4>1
    <3>4. QED
      BY <1>1, <2>1, <3>2, <3>3
  <2>2. QED
    BY <1>4, <2>1
<1>8. JumpsLand(K)
  BY <1>3, <1>5, <1>6, <1>7 DEF JumpsLand
<1>9. QED
  BY <1>8 DEF K

\* The constants of a chart are there.
LEMMA ChartHasConstants ==
  ASSUME NEW k \in Seq(Byte), NEW c, NEW n, Chart(k, c, {}, n)
  PROVE  LET K == k \o <<OP_RETURN>>
         IN  \A r \in Heights(K) : K[r[1] + 1] \in ConstantOps => Listed(K[r[1] + 1], K[r[1] + 2], n)
<1> DEFINE K == k \o <<OP_RETURN>>
<1>1. K \in Seq(Byte)
  BY ReturnAppended
<1>2. Legible(K, DOMAIN c, n)
  BY ChartIsLegible
<1> HIDE DEF K
<1>3. \A r \in Heights(K) : r[1] \in DOMAIN c
  BY <1>1, <1>2, HeightsStay
<1>4. \A r \in Heights(K) : K[r[1] + 1] \in ConstantOps => Listed(K[r[1] + 1], K[r[1] + 2], n)
  BY <1>2, <1>3 DEF Legible
<1>5. QED
  BY <1>4 DEF K

\* The offsets of the instructions that pairs in found are of.
Offsets(found) == {r[1] : r \in found}

\* With balanced heights, every instruction is reached with its height in the chart.
LEMMA HeightsOfChart ==
  ASSUME NEW K \in Seq(Byte), NEW c, NEW n, Legible(K, DOMAIN c, n), Balanced(K, c)
  PROVE  /\ Rounds(K)[0] = [all |-> {<<0, 0>>}, new |-> {<<0, 0>>}]
         /\ \A m \in Nat : /\ Rounds(K)[m + 1] = Further(K, Rounds(K)[m])
                           /\ Rounds(K)[m].new \subseteq Rounds(K)[m].all
                           /\ \A r \in Rounds(K)[m].all : r[1] \in DOMAIN c /\ r = <<r[1], c[r[1]]>>
<1> DEFINE D == DOMAIN c
           X == {<<i, c[i]>> : i \in D}
<1>1. <<0, 0>> \in X
  <2>1. 0 \in D /\ c[0] = 0
    BY DEF Legible, Balanced
  <2>2. QED
    BY <2>1
<1>2. ASSUME NEW i \in D
      PROVE  Onward(K, <<i, c[i]>>) \subseteq X
  <2>1. Successors(K, i) \subseteq D /\ \A j \in Successors(K, i) : c[j] = c[i] + Effect(K[i + 1])
    BY DEF Legible, Balanced
  <2>2. ASSUME NEW j \in Successors(K, i)
        PROVE  <<j, c[i] + Effect(K[i + 1])>> \in X
    <3>1. j \in D /\ <<j, c[i] + Effect(K[i + 1])>> = <<j, c[j]>>
      BY <2>1
    <3>2. QED
      BY <3>1, Zenon
  <2> HIDE DEF X
  <2>3. QED
    BY <2>2 DEF Onward
<1>3. \A r \in X : Onward(K, r) \subseteq X
  BY <1>2, Zenon
<1>4. ASSUME NEW r \in X
      PROVE  r[1] \in D /\ r = <<r[1], c[r[1]]>>
  <2>1. PICK i \in D : r = <<i, c[i]>>
    OBVIOUS
  <2>2. r[1] = i
    BY <2>1
  <2>3. QED
    BY <2>1, <2>2
<1> HIDE DEF X
<1>5. QED
  BY <1>1, <1>3, <1>4, RoundsAre

\* Each round with something new has the offset of one more instruction, so that
\* the rounds come to an end: then all that the pairs lead to is found.
LEMMA HeightsClosed ==
  ASSUME NEW K \in Seq(Byte), NEW c, NEW n, Legible(K, DOMAIN c, n), Balanced(K, c)
  PROVE  /\ <<0, 0>> \in Heights(K)
         /\ \A r \in Heights(K) : Onward(K, r) \subseteq Heights(K)
<1> DEFINE D == DOMAIN c
           R == Rounds(K)
           O(m) == Offsets(R[m].all)
           Counted(m) == /\ <<0, 0>> \in R[m].all
                         /\ \A r \in R[m].all \ R[m].new : Onward(K, r) \subseteq R[m].all
                         /\ R[m].new # {} => Cardinality(O(m)) >= m + 1
           S == {m \in Nat : Counted(m)}
<1>0. Len(K) \in Nat
  OBVIOUS
<1>1. /\ R[0] = [all |-> {<<0, 0>>}, new |-> {<<0, 0>>}]
      /\ \A m \in Nat : /\ R[m + 1] = Further(K, R[m])
                        /\ R[m].new \subseteq R[m].all
                        /\ \A r \in R[m].all : r[1] \in D /\ r = <<r[1], c[r[1]]>>
  BY HeightsOfChart
<1>2. IsFiniteSet(0 .. (Len(K) - 1)) /\ Cardinality(0 .. (Len(K) - 1)) <= Len(K)
  <2>1. 0 \in Int /\ Len(K) - 1 \in Int
    BY <1>0
  <2>2. /\ IsFiniteSet(0 .. (Len(K) - 1))
        /\ Cardinality(0 .. (Len(K) - 1)) = IF 0 > Len(K) - 1 THEN 0 ELSE (Len(K) - 1) - 0 + 1
    BY <2>1, FS_Interval
  <2>3. QED
    BY <1>0, <2>2
<1> HIDE DEF R
<1>3. \A m \in Nat : IsFiniteSet(O(m)) /\ Cardinality(O(m)) \in Nat /\ Cardinality(O(m)) <= Len(K)
  <2>1. ASSUME NEW m \in Nat
        PROVE  IsFiniteSet(O(m)) /\ Cardinality(O(m)) \in Nat /\ Cardinality(O(m)) <= Len(K)
    <3>1. O(m) \subseteq D
      BY <1>1 DEF Offsets
    <3>2. O(m) \in SUBSET (0 .. (Len(K) - 1))
      BY <3>1 DEF Legible
    <3> HIDE DEF O
    <3>3. IsFiniteSet(O(m)) /\ Cardinality(O(m)) <= Cardinality(0 .. (Len(K) - 1))
      BY <1>2, <3>2, FS_Subset
    <3>4. Cardinality(O(m)) \in Nat /\ Cardinality(0 .. (Len(K) - 1)) \in Nat
      BY <1>2, <3>3, FS_CardinalityType
    <3>5. QED
      BY <1>0, <1>2, <3>3, <3>4
  <2>2. QED
    BY <2>1
<1>4. \A m \in Nat : /\ R[m + 1].all = R[m].all \union R[m + 1].new
                     /\ R[m + 1].new = (UNION {Onward(K, r) : r \in R[m].new}) \ R[m].all
  <2>1. ASSUME NEW found
        PROVE  /\ Further(K, found).new = (UNION {Onward(K, r) : r \in found.new}) \ found.all
               /\ Further(K, found).all = found.all \union Further(K, found).new
    BY DEF Further
  <2>2. ASSUME NEW m \in Nat
        PROVE  /\ R[m + 1].all = R[m].all \union R[m + 1].new
               /\ R[m + 1].new = (UNION {Onward(K, r) : r \in R[m].new}) \ R[m].all
    <3>1. R[m + 1] = Further(K, R[m])
      BY <1>1
    <3>2. QED
      BY <2>1, <3>1, Zenon
  <2>3. QED
    BY <2>2
<1>5. Counted(0)
  <2>1. R[0].all = {<<0, 0>>} /\ R[0].new = {<<0, 0>>}
    BY <1>1
  <2>2. O(0) = {0}
    BY <2>1 DEF Offsets
  <2>3. Cardinality({0}) = 1
    BY FS_Singleton
  <2>4. Cardinality(O(0)) >= 0 + 1
    BY <2>2, <2>3
  <2>5. <<0, 0>> \in R[0].all /\ R[0].all \ R[0].new = {}
    BY <2>1
  <2> HIDE DEF O
  <2>6. QED
    BY <2>4, <2>5
<1>6. ASSUME NEW m \in Nat, Counted(m)
      PROVE  Counted(m + 1)
  <2>1. /\ R[m + 1].all = R[m].all \union R[m + 1].new
        /\ R[m + 1].new = (UNION {Onward(K, r) : r \in R[m].new}) \ R[m].all
    BY <1>4
  <2>2. <<0, 0>> \in R[m + 1].all
    BY <1>6, <2>1
  <2>3. ASSUME NEW r \in R[m + 1].all \ R[m + 1].new
        PROVE  Onward(K, r) \subseteq R[m + 1].all
    <3>1. r \in R[m].all
      BY <2>1, <2>3
    <3>2. CASE r \in R[m].new
      <4>1. Onward(K, r) \subseteq UNION {Onward(K, q) : q \in R[m].new}
        BY <3>2
      <4>2. QED
        BY <2>1, <4>1
    <3>3. CASE r \notin R[m].new
      BY <1>6, <2>1, <3>1, <3>3
    <3>4. QED
      BY <3>2, <3>3
  <2>4. ASSUME R[m + 1].new # {}
        PROVE  Cardinality(O(m + 1)) >= (m + 1) + 1
    <3>1. PICK q : q \in R[m + 1].new
      BY <2>4
    <3>2. q \in R[m + 1].all /\ q \notin R[m].all /\ m + 1 \in Nat
      BY <2>1, <3>1
    <3>3. R[m].new # {}
      BY <2>1, <3>1
    <3>4. q[1] \notin O(m)
      <4>1. SUFFICES ASSUME NEW r \in R[m].all, r[1] = q[1]
                     PROVE  FALSE
        BY DEF Offsets
      <4>2. r = <<r[1], c[r[1]]>> /\ q = <<q[1], c[q[1]]>>
        BY <1>1, <3>2
      <4>3. r = q
        BY <4>1, <4>2
      <4>4. QED
        BY <3>2, <4>3
    <3>5. O(m) \union {q[1]} \subseteq O(m + 1)
      BY <2>1, <3>2 DEF Offsets
    <3>6. Cardinality(O(m)) >= m + 1
      BY <1>6, <3>3
    <3> HIDE DEF O
    <3>7. IsFiniteSet(O(m)) /\ Cardinality(O(m)) \in Nat /\ IsFiniteSet(O(m + 1)) /\ Cardinality(O(m + 1)) \in Nat
      BY <1>3, <3>2
    <3>8. IsFiniteSet(O(m) \union {q[1]}) /\ Cardinality(O(m) \union {q[1]}) = Cardinality(O(m)) + 1
      BY <3>4, <3>7, FS_AddElement
    <3>9. O(m) \union {q[1]} \in SUBSET O(m + 1)
      BY <3>5
    <3>10. Cardinality(O(m) \union {q[1]}) <= Cardinality(O(m + 1))
      BY <3>7, <3>9, FS_Subset
    <3>11. QED
      BY <3>6, <3>7, <3>8, <3>10
  <2>5. QED
    BY <2>2, <2>3, <2>4
<1>7. Counted(Len(K))
  <2>1. 0 \in S /\ \A m \in Nat : m \in S => m + 1 \in S
    <3> HIDE DEF Counted
    <3>1. QED
      BY <1>5, <1>6
  <2> HIDE DEF S
  <2>2. \A m \in Nat : m \in S
    BY <2>1, Inducts
  <2>3. Len(K) \in S
    BY <1>0, <2>2
  <2> HIDE DEF Counted
  <2> USE DEF S
  <2>4. QED
    BY <2>3
<1>8. R[Len(K)].new = {}
  <2>1. Cardinality(O(Len(K))) \in Nat /\ Cardinality(O(Len(K))) <= Len(K)
    BY <1>0, <1>3
  <2> HIDE DEF O
  <2>2. ~(Cardinality(O(Len(K))) >= Len(K) + 1)
    BY <1>0, <2>1
  <2>3. QED
    BY <1>7, <2>2
<1>9. <<0, 0>> \in R[Len(K)].all /\ \A r \in R[Len(K)].all : Onward(K, r) \subseteq R[Len(K)].all
  BY <1>7, <1>8
<1>10. QED
  BY <1>9 DEF Heights, R

\* A level chart is balanced, and its locals are on the stack.
LEMMA LevelIsBalanced ==
  ASSUME NEW k \in Seq(Byte), NEW c, NEW n, Chart(k, c, {}, n), Level(k, c, {}), c[Len(k)] = 0
  PROVE  StackBalanced(k \o <<OP_RETURN>>) /\ LocalsThere(k \o <<OP_RETURN>>)
<1> DEFINE K == k \o <<OP_RETURN>>
           H == Heights(K)
<1>1. K \in Seq(Byte) /\ Len(K) \in Nat
  BY ReturnAppended
<1>2. Legible(K, DOMAIN c, n) /\ Balanced(K, c)
  BY ChartIsLegible
<1>3. c \in [DOMAIN c -> Int]
  BY DEF Chart
<1> HIDE DEF K
<1>4. \A r \in H : r[1] \in DOMAIN c /\ r = <<r[1], c[r[1]]>> /\ r[2] = c[r[1]]
  <2>1. \A r \in Rounds(K)[Len(K)].all : r[1] \in DOMAIN c /\ r = <<r[1], c[r[1]]>>
    BY <1>1, <1>2, HeightsOfChart
  <2>2. ASSUME NEW r, r = <<r[1], c[r[1]]>>
        PROVE  r[2] = c[r[1]]
    BY <2>2
  <2>3. QED
    BY <2>1, <2>2 DEF Heights
<1>5. <<0, 0>> \in H /\ \A r \in H : Onward(K, r) \subseteq H
  BY <1>1, <1>2, HeightsClosed
<1> HIDE DEF H
<1>6. ASSUME NEW r \in H
      PROVE  /\ Whole(K, r[1])
             /\ r[2] \in Nat /\ r[2] >= Takes(K[r[1] + 1])
             /\ K[r[1] + 1] = OP_RETURN => r[2] = 0
             /\ \A j \in Successors(K, r[1]) : <<j, r[2] + Effect(K[r[1] + 1])>> \in H
             /\ K[r[1] + 1] \in LocalOps => K[r[1] + 2] < r[2]
  <2>1. r[1] \in DOMAIN c /\ r[2] = c[r[1]] /\ c[r[1]] \in Int
    BY <1>3, <1>4
  <2>2. Whole(K, r[1])
    BY <1>2, <2>1 DEF Legible
  <2>3. /\ Takes(K[r[1] + 1]) <= c[r[1]]
        /\ K[r[1] + 1] \in LocalOps => K[r[1] + 2] < c[r[1]]
        /\ K[r[1] + 1] = OP_RETURN => c[r[1]] = 0
    BY <1>2, <2>1 DEF Balanced
  <2>4. Takes(K[r[1] + 1]) \in Nat
    BY Lengths
  <2>5. r[2] \in Nat /\ r[2] >= Takes(K[r[1] + 1])
    BY <2>1, <2>3, <2>4
  <2>6. \A j \in Successors(K, r[1]) : <<j, r[2] + Effect(K[r[1] + 1])>> \in H
    BY <1>5, <2>2 DEF Onward
  <2>7. QED
    BY <2>1, <2>2, <2>3, <2>5, <2>6
<1>7. \A r, q \in H : r[1] = q[1] => r[2] = q[2]
  BY <1>4
<1>8. StackBalanced(K)
  BY <1>5, <1>6, <1>7 DEF StackBalanced, H
<1>9. LocalsThere(K)
  BY <1>6 DEF LocalsThere, H
<1>10. QED
  BY <1>8, <1>9 DEF K

-----------------------------------------------------------------------------
(***************************************************************************)
(* The disassembler, which reads the instructions one after the other.     *)
(***************************************************************************)

\* What the disassembler reads of a chunk, round by round, and that a line it
\* prints is one for an offset.
LEMMA ListingsAre ==
  ASSUME NEW K, NEW cs
  PROVE  /\ Listings(K, cs)[0] = [lines |-> <<>>, offset |-> 0, threw |-> FALSE]
         /\ \A n \in Nat : /\ Listings(K, cs)[n + 1] = Printed(K, cs, n, Listings(K, cs)[n])
                           /\ Listings(K, cs)[n] \in [lines : Seq({Shown(K, cs, i) : i \in Nat}),
                                                      offset : Nat, threw : BOOLEAN]
<1> DEFINE Y == {Shown(K, cs, i) : i \in Nat}
           V == [lines : Seq(Y), offset : Nat, threw : BOOLEAN]
           v == [lines |-> <<>>, offset |-> 0, threw |-> FALSE]
           F == [n \in Nat |-> [w \in V |-> Printed(K, cs, n, w)]]
           Rule(f) == f = [n \in Nat |-> IF n = 0 THEN v ELSE Printed(K, cs, n - 1, f[n - 1])]
<1>1. \A n \in Nat : \A w \in V : Printed(K, cs, n, w) \in V
  <2>1. ASSUME NEW n \in Nat, NEW w \in V
        PROVE  Printed(K, cs, n, w) \in V
    <3>1. Shown(K, cs, n) \in Y /\ Size(K[n + 1]) \in Nat
      BY DEF Size
    <3> HIDE DEF Y
    <3>2. w.lines \in Seq(Y) /\ w.offset \in Nat /\ w.threw \in BOOLEAN
      OBVIOUS
    <3>3. Append(w.lines, Shown(K, cs, n)) \in Seq(Y) /\ w.offset + Size(K[n + 1]) \in Nat
      BY <3>1, <3>2
    <3>4. QED
      BY <3>3 DEF Printed
  <2>2. QED
    BY <2>1
<1>2. v \in V /\ F \in Steps(V)
  <2>1. <<>> \in Seq(Y)
    OBVIOUS
  <2>2. QED
    BY <1>1, <2>1 DEF Steps
<1>3. PICK f \in [Nat -> V] : f[0] = v /\ \A n \in Nat : f[n + 1] = F[n][f[n]]
  <2> HIDE DEF V, F, v
  <2>1. \E f : f \in Values(V, v, F)
    BY <1>2, Iterates
  <2>2. QED
    BY <2>1 DEF Values
<1>4. Rule(f)
  <2>1. ASSUME NEW n \in Nat, n # 0
        PROVE  f[n] = Printed(K, cs, n - 1, f[n - 1])
    <3>1. n - 1 \in Nat /\ (n - 1) + 1 = n
      BY <2>1
    <3>2. f[(n - 1) + 1] = F[n - 1][f[n - 1]]
      BY <1>3, <3>1, Zenon
    <3>3. F[n - 1][f[n - 1]] = Printed(K, cs, n - 1, f[n - 1])
      <4> HIDE DEF V
      <4>1. f[n - 1] \in V
        BY <3>1
      <4>2. QED
        BY <3>1, <4>1
    <3>4. QED
      BY <3>1, <3>2, <3>3
  <2> HIDE DEF F, v
  <2>2. QED
    BY <1>3, <2>1
<1>5. Rule(Listings(K, cs))
  BY <1>4 DEF Listings
<1> DEFINE R == Listings(K, cs)
<1> HIDE DEF R
<1>6. R[0] = v /\ \A n \in Nat : R[n + 1] = Printed(K, cs, n, R[n])
  <2>1. R = [n \in Nat |-> IF n = 0 THEN v ELSE Printed(K, cs, n - 1, R[n - 1])]
    BY <1>5 DEF R
  <2> HIDE DEF v
  <2>2. R[0] = v
    BY <2>1
  <2>3. ASSUME NEW n \in Nat
        PROVE  R[n + 1] = Printed(K, cs, n, R[n])
    <3>1. n + 1 \in Nat /\ n + 1 # 0 /\ (n + 1) - 1 = n
      OBVIOUS
    <3>2. R[n + 1] = IF n + 1 = 0 THEN v ELSE Printed(K, cs, (n + 1) - 1, R[(n + 1) - 1])
      BY <2>1, <3>1
    <3>3. QED
      BY <3>1, <3>2
  <2>4. QED
    BY <2>2, <2>3
<1> DEFINE S == {n \in Nat : R[n] \in V}
<1>7. 0 \in S
  BY <1>2, <1>6
<1>8. ASSUME NEW n \in Nat, n \in S
      PROVE  n + 1 \in S
  <2> HIDE DEF V
  <2>1. R[n] \in V /\ R[n + 1] = Printed(K, cs, n, R[n]) /\ n + 1 \in Nat
    BY <1>6, <1>8
  <2>2. QED
    BY <1>1, <2>1
<1>9. \A n \in Nat : n \in S
  <2> HIDE DEF S
  <2>1. QED
    BY <1>7, <1>8, Inducts
<1>10. \A n \in Nat : R[n] \in V
  BY <1>9
<1>11. QED
  BY <1>6, <1>10 DEF R

\* The table of the disassembler is that of the instruction set.
LEMMA SizesAgree ==
  /\ ConstantInstructions = ConstantOps /\ JumpInstructions = JumpOps
  /\ \A op : Size(op) = Length(op)
BY DEF Size, Length, ConstantInstructions, ByteInstructions, JumpInstructions, ConstantOps, LocalOps, JumpOps

\* The instructions of a chart follow one another up to the end of the code.
Follows(K, D) ==
  /\ D \subseteq 0 .. (Len(K) - 1) /\ 0 \in D
  /\ \A i \in D : /\ Whole(K, i)
                  /\ After(K, i) \in D \union {Len(K)}
                  /\ \A j \in D : j <= i \/ After(K, i) <= j

LEMMA ChartFollows ==
  ASSUME NEW k \in Seq(Byte), NEW c, NEW n, Chart(k, c, {}, n)
  PROVE  Follows(k \o <<OP_RETURN>>, DOMAIN c)
<1> DEFINE K == k \o <<OP_RETURN>>
           D == DOMAIN c
           L == Len(k)
<1>1. /\ Len(K) = L + 1 /\ L \in Nat /\ K[L + 1] = OP_RETURN
      /\ \A i \in 1 .. L : K[i] = k[i]
  BY ReturnAppended
<1>2. LaidOut(k, D, {}, n) /\ D \subseteq 0 .. L
  BY DEF Chart, LaidOut
<1>3. Legible(K, D, n)
  BY ChartIsLegible
<1> HIDE DEF K
<1>4. ASSUME NEW i \in D
      PROVE  After(K, i) \in D \union {Len(K)} /\ \A j \in D : j <= i \/ After(K, i) <= j
  <2>1. CASE i < L
    <3>1. i + 1 \in 1 .. L
      BY <1>1, <1>2, <2>1
    <3>2. After(K, i) = After(k, i)
      BY <1>1, <3>1 DEF After
    <3>3. QED
      BY <1>2, <2>1, <3>2 DEF LaidOut
  <2>2. CASE i = L
    <3>1. After(K, i) = Len(K)
      BY <1>1, <2>2, ReturnIsLast DEF After
    <3>2. \A j \in D : j <= i
      BY <1>1, <1>2, <2>2
    <3>3. QED
      BY <3>1, <3>2
  <2>3. QED
    BY <1>1, <1>2, <2>1, <2>2
<1>5. QED
  BY <1>3, <1>4 DEF Legible, Follows, K

\* So the starts of instructions are those of the chart, and the end.
LEMMA StartsOnly ==
  ASSUME NEW K \in Seq(Byte), NEW D, Follows(K, D)
  PROVE  Boundaries(K) \subseteq D \union {Len(K)}
<1> DEFINE B == Starts(K)
           S == {n \in Nat : B[n] \subseteq D \union {Len(K)}}
<1> HIDE DEF B
<1>1. B[0] = {0} /\ \A n \in Nat : B[n + 1] = StartsAfter(K, n, B[n])
  BY StartsAre DEF B
<1>2. 0 \in S
  BY <1>1 DEF Follows
<1>3. ASSUME NEW n \in Nat, n \in S
      PROVE  n + 1 \in S
  <2>1. n \in B[n] /\ Whole(K, n) => n + Length(K[n + 1]) \in D \union {Len(K)}
    <3>1. SUFFICES ASSUME n \in B[n], Whole(K, n)
                   PROVE  n + Length(K[n + 1]) \in D \union {Len(K)}
      OBVIOUS
    <3>2. n \in D
      <4>1. n # Len(K)
        BY <3>1 DEF Whole
      <4>2. QED
        BY <1>3, <3>1, <4>1
    <3>3. QED
      BY <3>2 DEF Follows, After
  <2>2. StartsAfter(K, n, B[n]) \subseteq D \union {Len(K)}
    BY <1>3, <2>1 DEF StartsAfter
  <2>3. QED
    BY <1>1, <2>2
<1>4. \A n \in Nat : n \in S
  <2> HIDE DEF S
  <2>1. QED
    BY <1>2, <1>3, Inducts
<1>5. Len(K) \in Nat
  OBVIOUS
<1>6. QED
  BY <1>4, <1>5 DEF B, Boundaries

\* After n rounds the instructions before offset n are listed, and the next one
\* is where the listing goes on.
Reads(K, D, n, l) ==
  /\ ~l.threw
  /\ {x.offset : x \in ToSet(l.lines)} = {d \in D : d < n}
  /\ n <= l.offset /\ l.offset \in D \union {Len(K)}
  /\ \A d \in D : d < n \/ l.offset <= d

LEMMA ReadsOn ==
  ASSUME NEW K \in Seq(Byte), NEW cs, NEW D, Follows(K, D),
         \A i \in D : K[i + 1] \in ConstantOps => K[i + 2] < Len(cs),
         NEW n \in Nat, n < Len(K), NEW Y, NEW l \in [lines : Seq(Y), offset : Nat, threw : BOOLEAN],
         Reads(K, D, n, l)
  PROVE  Reads(K, D, n + 1, Printed(K, cs, n, l))
<1>1. Len(K) \in Nat /\ D \subseteq Nat
  BY DEF Follows
<1>2. l.offset \in Nat /\ l.lines \in Seq(Y)
  OBVIOUS
<1>3. CASE l.offset # n
  <2>1. Printed(K, cs, n, l) = l
    BY <1>3 DEF Printed
  <2>2. n \notin D
    BY <1>1, <1>2, <1>3 DEF Reads
  <2>3. {d \in D : d < n + 1} = {d \in D : d < n}
    <3>1. \A d \in D : d < n + 1 <=> d < n
      BY <1>1, <2>2
    <3>2. QED
      BY <3>1, Zenon
  <2>4. n + 1 <= l.offset
    BY <1>2, <1>3 DEF Reads
  <2>5. \A d \in D : d < n + 1 \/ l.offset <= d
    BY <1>1 DEF Reads
  <2>6. QED
    BY <2>1, <2>3, <2>4, <2>5 DEF Reads
<1>4. CASE l.offset = n
  <2>1. n \in D
    BY <1>1, <1>4 DEF Reads
  <2>2. /\ n + Size(K[n + 1]) = After(K, n) /\ After(K, n) <= Len(K) /\ After(K, n) > n
        /\ After(K, n) \in Nat
    <3>1. Length(K[n + 1]) \in 1 .. 3
      BY Lengths
    <3>2. QED
      BY <2>1, <3>1, SizesAgree DEF Follows, Whole, After
  <2>3. Readable(K, cs, n)
    BY <2>1, <2>2, SizesAgree DEF Readable
  <2> DEFINE e == Shown(K, cs, n)
             p == Printed(K, cs, n, l)
  <2>4. p.lines = Append(l.lines, e) /\ p.offset = After(K, n) /\ p.threw = FALSE
    BY <1>4, <2>2, <2>3 DEF Printed, Reads
  <2>5. e.offset = n
    BY DEF Shown
  <2> HIDE DEF e, p
  <2>6. ToSet(Append(l.lines, e)) = ToSet(l.lines) \union {e}
    <3>1. /\ Len(l.lines) \in Nat /\ DOMAIN l.lines = 1 .. Len(l.lines)
          /\ DOMAIN Append(l.lines, e) = 1 .. (Len(l.lines) + 1)
      BY <1>2
    <3>2. /\ \A j \in 1 .. Len(l.lines) : Append(l.lines, e)[j] = l.lines[j]
          /\ Append(l.lines, e)[Len(l.lines) + 1] = e
      BY <1>2
    <3>3. \A j \in 1 .. (Len(l.lines) + 1) : j \in 1 .. Len(l.lines) \/ j = Len(l.lines) + 1
      BY <3>1
    <3>4. \A j \in 1 .. Len(l.lines) : j \in 1 .. (Len(l.lines) + 1)
      BY <3>1
    <3>5. Len(l.lines) + 1 \in 1 .. (Len(l.lines) + 1)
      BY <3>1
    <3>6. ToSet(Append(l.lines, e)) \subseteq ToSet(l.lines) \union {e}
      BY <3>1, <3>2, <3>3 DEF ToSet
    <3>7. ToSet(l.lines) \subseteq ToSet(Append(l.lines, e))
      BY <3>1, <3>2, <3>4 DEF ToSet
    <3>8. e \in ToSet(Append(l.lines, e))
      BY <3>1, <3>2, <3>5 DEF ToSet
    <3>9. QED
      BY <3>6, <3>7, <3>8
  <2>7. {x.offset : x \in ToSet(p.lines)} = {d \in D : d < n} \union {n}
    <3>1. {x.offset : x \in ToSet(l.lines)} = {d \in D : d < n}
      BY DEF Reads
    <3>2. QED
      BY <2>4, <2>5, <2>6, <3>1
  <2>8. {d \in D : d < n} \union {n} = {d \in D : d < n + 1}
    <3>1. \A d \in D : d < n + 1 <=> d < n \/ d = n
      BY <1>1, <2>1
    <3>2. QED
      BY <2>1, <3>1, Zenon
  <2>9. \A d \in D : d < n + 1 \/ After(K, n) <= d
    <3>1. ASSUME NEW d \in D, ~(After(K, n) <= d)
          PROVE  d < n + 1
      <4>1. d <= n /\ d \in Nat
        BY <1>1, <2>1, <3>1 DEF Follows
      <4>2. QED
        BY <4>1
    <3>2. QED
      BY <3>1
  <2>10. n + 1 <= After(K, n) /\ After(K, n) \in D \union {Len(K)}
    BY <2>1, <2>2 DEF Follows
  <2>11. QED
    BY <2>4, <2>7, <2>8, <2>9, <2>10 DEF Reads, p
<1>5. QED
  BY <1>3, <1>4

\* The whole listing is of the instructions.
LEMMA ListingReads ==
  ASSUME NEW K \in Seq(Byte), NEW cs, NEW D, Follows(K, D),
         \A i \in D : K[i + 1] \in ConstantOps => K[i + 2] < Len(cs)
  PROVE  Reads(K, D, Len(K), Listing(K, cs))
<1> DEFINE R == Listings(K, cs)
           S == {n \in Nat : n <= Len(K) => Reads(K, D, n, R[n])}
           Y == {Shown(K, cs, i) : i \in Nat}
<1> HIDE DEF R, Y
<1>1. /\ R[0] = [lines |-> <<>>, offset |-> 0, threw |-> FALSE]
      /\ \A n \in Nat : /\ R[n + 1] = Printed(K, cs, n, R[n])
                        /\ R[n] \in [lines : Seq(Y), offset : Nat, threw : BOOLEAN]
  BY ListingsAre DEF R, Y
<1>2. Len(K) \in Nat /\ D \subseteq Nat /\ 0 \in D
  BY DEF Follows
<1>3. 0 \in S
  <2>1. ToSet(R[0].lines) = {} /\ R[0].offset = 0 /\ ~R[0].threw
    BY <1>1 DEF ToSet
  <2>2. {x.offset : x \in ToSet(R[0].lines)} = {}
    BY <2>1
  <2>3. {d \in D : d < 0} = {} /\ \A d \in D : 0 <= d
    <3>1. \A d \in D : ~(d < 0) /\ 0 <= d
      BY <1>2
    <3>2. QED
      BY <3>1, Zenon
  <2>4. QED
    BY <1>2, <2>1, <2>2, <2>3 DEF Reads
<1>4. ASSUME NEW n \in Nat, n \in S
      PROVE  n + 1 \in S
  <2>1. SUFFICES ASSUME n + 1 <= Len(K)
                 PROVE  Reads(K, D, n + 1, R[n + 1])
    OBVIOUS
  <2>2. n < Len(K) /\ Reads(K, D, n, R[n])
    BY <1>2, <1>4, <2>1
  <2>3. Reads(K, D, n + 1, Printed(K, cs, n, R[n]))
    BY <1>1, <2>2, ReadsOn
  <2>4. QED
    BY <1>1, <2>3
<1>5. \A n \in Nat : n \in S
  <2> HIDE DEF S
  <2>1. QED
    BY <1>3, <1>4, Inducts
<1>6. QED
  BY <1>2, <1>5 DEF R, Listing

\* What a line shows of a jump is where it goes.
LEMMA JumpsShown ==
  ASSUME NEW K, NEW cs, NEW i \in Nat, K[i + 1] \in JumpOps
  PROVE  LET shows == Shown(K, cs, i).shows
         IN  shows[1] = "jump" /\ shows[2] \in Successors(K, i)
<1> DEFINE op == K[i + 1]
           far == Short(K, i + 1)
<1>1. /\ op \notin ConstantInstructions /\ op \notin ByteInstructions
      /\ op \in JumpInstructions /\ op \in {OP_JUMP, OP_JUMP_IF_FALSE, OP_LOOP}
      /\ OP_JUMP # OP_LOOP /\ OP_JUMP_IF_FALSE # OP_LOOP /\ OP_JUMP_IF_FALSE # OP_JUMP
  BY DEF JumpOps, ConstantInstructions, ByteInstructions, JumpInstructions, OP_JUMP, OP_JUMP_IF_FALSE, OP_LOOP,
     OP_CONSTANT, OP_GET_GLOBAL, OP_DEFINE_GLOBAL, OP_SET_GLOBAL, OP_GET_LOCAL, OP_SET_LOCAL
<1>2. Length(op) = 3
  BY Lengths
<1>3. Shown(K, cs, i).shows = IF op = OP_LOOP THEN <<"jump", (i + 3) - far>> ELSE <<"jump", i + 3 + far>>
  <2>1. CASE op = OP_LOOP
    BY <1>1, <2>1 DEF Shown
  <2>2. CASE op # OP_LOOP
    BY <1>1, <2>2 DEF Shown
  <2>3. QED
    BY <2>1, <2>2
<1>4. CASE op = OP_LOOP
  <2>1. (i + Length(op)) - far \in Successors(K, i)
    BY <1>1, <1>4, ReturnIsLast DEF Successors
  <2>2. QED
    BY <1>2, <1>3, <1>4, <2>1
<1>5. CASE op # OP_LOOP
  <2>1. i + Length(op) + far \in Successors(K, i)
    <3>1. CASE op = OP_JUMP
      BY <1>1, <3>1, ReturnIsLast DEF Successors
    <3>2. CASE op = OP_JUMP_IF_FALSE
      BY <1>1, <3>2, ReturnIsLast DEF Successors
    <3>3. QED
      BY <1>1, <1>5, <3>1, <3>2
  <2>2. QED
    BY <1>2, <1>3, <1>5, <2>1
<1>6. QED
  BY <1>4, <1>5

-----------------------------------------------------------------------------
(***************************************************************************)
(* What is true of the code that the compiler accepts.                     *)
(***************************************************************************)

\* Once compile has returned without an error, the code is a chart's and its OP_RETURN.
LEMMA AcceptedIsFinished ==
  ASSUME CodeInv, Accepted
  PROVE  \E k, c : Finished(k, c)
BY Zenon DEF CodeInv, Accepted, Compiled

\* Its jumps land.
LEMMA AcceptedLands == CodeInv => JumpsPatched
<1> SUFFICES ASSUME CodeInv PROVE JumpsPatched
  OBVIOUS
<1>1. SUFFICES ASSUME Accepted
               PROVE  JumpsLand(code)
  BY DEF JumpsPatched
<1>2. PICK k, c : Finished(k, c)
  BY <1>1, AcceptedIsFinished
<1>3. k \in Seq(Byte) /\ code = k \o <<OP_RETURN>> /\ Chart(k, c, {}, Pool)
  BY <1>2 DEF Finished
<1>4. JumpsLand(k \o <<OP_RETURN>>)
  BY <1>3, ChartLands
<1>5. QED
  BY <1>3, <1>4

\* Its constants are there.
LEMMA AcceptedHasConstants == CodeInv => ConstantsThere
<1> SUFFICES ASSUME CodeInv PROVE ConstantsThere
  OBVIOUS
<1>1. SUFFICES ASSUME Accepted, NEW r \in Heights(code), code[r[1] + 1] \in ConstantOps
               PROVE  /\ code[r[1] + 2] < Len(constants)
                      /\ constants[code[r[1] + 2] + 1] \in Nameable(code[r[1] + 1])
  BY Zenon DEF ConstantsThere
<1>2. PICK k, c : Finished(k, c)
  BY <1>1, AcceptedIsFinished
<1>3. k \in Seq(Byte) /\ code = k \o <<OP_RETURN>> /\ Chart(k, c, {}, Pool)
  BY <1>2 DEF Finished
<1>4. LET K == k \o <<OP_RETURN>>
      IN  \A q \in Heights(K) : K[q[1] + 1] \in ConstantOps => Listed(K[q[1] + 1], K[q[1] + 2], Pool)
  BY <1>3, ChartHasConstants
<1>5. Listed(code[r[1] + 1], code[r[1] + 2], Pool)
  BY <1>1, <1>3, <1>4
<1>6. QED
  BY <1>5 DEF Pool, Listed

\* Its stack is balanced.
LEMMA AcceptedIsBalanced == CodeInv => CodeBalanced
<1> SUFFICES ASSUME CodeInv PROVE CodeBalanced
  OBVIOUS
<1>1. SUFFICES ASSUME Accepted, ~bareFor, deepest < U8
               PROVE  StackBalanced(code) /\ LocalsThere(code)
  BY DEF CodeBalanced
<1>2. PICK k, c : Finished(k, c)
  BY <1>1, AcceptedIsFinished
<1>3. /\ k \in Seq(Byte) /\ code = k \o <<OP_RETURN>> /\ Chart(k, c, {}, Pool)
      /\ Level(k, c, {}) /\ c[Len(k)] = 0
  BY <1>1, <1>2 DEF Finished, Fits
<1>4. StackBalanced(k \o <<OP_RETURN>>) /\ LocalsThere(k \o <<OP_RETURN>>)
  BY <1>3, LevelIsBalanced
<1>5. QED
  BY <1>3, <1>4

\* Its listing is of its instructions.
LEMMA AcceptedIsListed == CodeInv => ListingIsProgram
<1> SUFFICES ASSUME CodeInv, Accepted
             PROVE  LET listing == Listing(code, constants)
                    IN  /\ ~listing.threw
                        /\ {l.offset : l \in ToSet(listing.lines)} = Boundaries(code) \ {Len(code)}
                        /\ \A l \in ToSet(listing.lines) :
                             code[l.offset + 1] \in JumpOps =>
                               l.shows[1] = "jump" /\ l.shows[2] \in Successors(code, l.offset)
  BY DEF ListingIsProgram
<1>1. PICK k, c : Finished(k, c)
  BY AcceptedIsFinished
<1>2. k \in Seq(Byte) /\ code = k \o <<OP_RETURN>> /\ Chart(k, c, {}, Pool)
  BY <1>1 DEF Finished
<1> DEFINE D == DOMAIN c
           listing == Listing(code, constants)
<1>3. Follows(code, D) /\ Legible(code, D, Pool) /\ D \subseteq Boundaries(code)
  BY <1>2, ChartFollows, ChartIsLegible, StartsFound
<1>4. code \in Seq(Byte)
  BY <1>2, ReturnAppended
<1>5. \A i \in D : code[i + 1] \in ConstantOps => code[i + 2] < Len(constants)
  BY <1>3 DEF Legible, Listed, Pool
<1>6. Reads(code, D, Len(code), listing)
  BY <1>3, <1>4, <1>5, ListingReads
<1>7. Len(code) \in Nat /\ \A d \in D : d \in Nat /\ d < Len(code)
  BY <1>3, <1>4 DEF Follows
<1>8. {l.offset : l \in ToSet(listing.lines)} = Boundaries(code) \ {Len(code)}
  <2>1. {d \in D : d < Len(code)} = D
    BY <1>7
  <2>2. Boundaries(code) \subseteq D \union {Len(code)}
    BY <1>3, <1>4, StartsOnly
  <2>3. Len(code) \notin D
    BY <1>7
  <2>4. D = Boundaries(code) \ {Len(code)}
    BY <1>3, <2>2, <2>3
  <2>5. {l.offset : l \in ToSet(listing.lines)} = {d \in D : d < Len(code)}
    BY <1>6 DEF Reads
  <2>6. QED
    BY <2>1, <2>4, <2>5
<1>9. ASSUME NEW l \in ToSet(listing.lines), code[l.offset + 1] \in JumpOps
      PROVE  l.shows[1] = "jump" /\ l.shows[2] \in Successors(code, l.offset)
  <2> DEFINE Y == {Shown(code, constants, i) : i \in Nat}
  <2>1. \A n \in Nat : Listings(code, constants)[n] \in [lines : Seq(Y), offset : Nat, threw : BOOLEAN]
    BY ListingsAre
  <2>2. l \in Y
    <3> HIDE DEF Y
    <3>1. listing.lines \in Seq(Y)
      BY <1>7, <2>1 DEF Listing
    <3>2. QED
      BY <1>9, <3>1 DEF ToSet
  <2>3. PICK i \in Nat : l = Shown(code, constants, i)
    BY <2>2
  <2>4. l.offset = i
    BY <2>3 DEF Shown
  <2>5. QED
    BY <1>9, <2>3, <2>4, JumpsShown
<1>10. QED
  BY <1>6, <1>8, <1>9 DEF Reads

\* Every jump of an accepted chunk was patched, or computed, to land on an
\* instruction of the chunk, for every source: patch_jump and emit_loop of
\* compiler.cpp never miss, however statements nest.
THEOREM JumpsArePatched == HSpec => []JumpsPatched
  BY AcceptedLands, CodeInvAlways, PTL

\* The operand of each instruction of an accepted chunk that names a constant is
\* the index of one of its kind, for every source: no byte is too small for its
\* index, and what define, get and set global name is always a name.
THEOREM ConstantsAreThere == HSpec => []ConstantsThere
  BY AcceptedHasConstants, CodeInvAlways, PTL

\* Every path through an accepted chunk finds the stack at the same height, with
\* the values and locals its instructions take, and leaves nothing on it, for
\* every source in which no for statement lacks its condition and no local is too
\* deep for a u8: begin_scope, end_scope and the pops after conditions pair up.
THEOREM CodeIsBalanced == HSpec => []CodeBalanced
  BY AcceptedIsBalanced, CodeInvAlways, PTL

\* What a debug build prints of an accepted chunk is its instructions, one line
\* each, with constants that are there and jumps that go where they are shown to,
\* for every source: debug.cpp reads lengths as the compiler writes them.
THEOREM ListingShowsProgram == HSpec => []ListingIsProgram
  BY AcceptedIsListed, CodeInvAlways, PTL
=============================================================================
