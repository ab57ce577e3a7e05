------------------------------- MODULE Locals -------------------------------
(***************************************************************************)
(* The array m_locals of compiler::Compiler, which resolves a name to the  *)
(* stack slot that the value will be in (src/src/compiler.cpp).  A local   *)
(* keeps its depth in a u8, while the scope depth is an int: depth 256 is  *)
(* stored as 0.                                                            *)
(***************************************************************************)
EXTENDS Bytecode

CONSTANT NoDepth  \* nullopt: declared, its initializer not yet compiled

ASSUME NoDepthAssumption == NoDepth \notin Int

\* Positions (from 1) of the locals called name.
Called(locals, name) == {i \in 1 .. Len(locals) : locals[i].name = name}

\* Mutant: an outer local hides an inner one.
ResolvedOutermost(locals, name) == CHOOSE i \in Called(locals, name) :
                                     \A j \in Called(locals, name) : i <= j

\* resolve_local: the innermost local of that name.
Resolved(locals, name) == CHOOSE i \in Called(locals, name) :
                            \A j \in Called(locals, name) : j <= i

\* The duplicate check of declare_variable looks from the top down to the
\* first local that an enclosing scope owns.
Redeclares(locals, name, depth) ==
  \E i \in Called(locals, name) :
    \A j \in i .. Len(locals) : locals[j].depth = NoDepth \/ locals[j].depth >= depth

\* Mutant: the array is found full one local too late.
FullLate(locals) == Len(locals) > U8

\* add_local.
Full(locals) == Len(locals) = U8
AddLocal(locals, name) ==
  IF Full(locals) THEN locals ELSE Append(locals, [name |-> name, depth |-> NoDepth])

\* Mutant: the local is taken to belong to a scope further in.
MarkInitializedInner(locals, depth) == [locals EXCEPT ![Len(locals)].depth = (depth + 1) % U8]

MarkInitialized(locals, depth) == [locals EXCEPT ![Len(locals)].depth = depth % U8]

\* Mutant: end_scope forgets the locals.
OuterAll(locals, depth) == Len(locals)

\* end_scope: how many locals of the enclosing scope at depth remain, those
\* above the topmost one that does not belong to an inner scope being dropped.
Outer(locals, depth) ==
  LET kept == {i \in 1 .. Len(locals) : locals[i].depth = NoDepth \/ locals[i].depth <= depth}
  IN  IF kept = {} THEN 0 ELSE CHOOSE i \in kept : \A j \in kept : j <= i
=============================================================================
