\* Jump distances, constant indexes and slots at their limits, bytes of three values;
\* and errors anywhere, and what follows them.
CONSTANTS
  U8 = 3
  NoDepth = NoDepth
  Sources <- LimitSources
SPECIFICATION HFairSpec
INVARIANTS TypeOK JumpsPatched CodeBalanced ConstantsThere ScopesClosed
PROPERTIES ErrorsKept CompileEnds
