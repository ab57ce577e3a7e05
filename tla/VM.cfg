\* Chunks of jumps, operators on every kind of value, and three chunks one after the
\* other that define, use and concatenate names, in tables of two slots.
CONSTANTS
  U8 = 3
  UsizeCount = 1000
  Null = "null"
  Nil = "nil"
  True = "true"
  False = "false"
  Zero = "0"
  EmptyString = ""
  NoSlot = NoSlot
  Keys <- MCStrings
  Values <- MCValues
  Numbers <- MCNumbers
  Arithmetic <- MCArithmetic
  Less <- MCLess
  Minus <- MCMinus
  Concat <- MCConcat
  Hash <- MCHash
  Capacity = 2
  Chunks <- MCChunks
  InitialTops = {0}
  Families <- MCFamilies
SPECIFICATION HSpec
CHECK_DEADLOCK FALSE
INVARIANTS TypeOK VerifiedIsSafe StackIsStatic NoNameTwice
PROPERTIES ErrorsKeepGlobals NamesStay
