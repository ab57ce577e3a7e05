\* A for statement without a condition.
CONSTANTS
  U8 = 16
  NoDepth = NoDepth
  Sources <- BareForSources
SPECIFICATION HSpec
INVARIANT LocalSlotsMatch
