\* A line that fails, and the next.
CONSTANTS
  Trees <- MCTrees
  Sessions <- FailingSessions
  U8 = 16
  UsizeCount = 1000
  InitialTops = {0}
  NoDepth = NoDepth
  Null = "null"
  Nil = "nil"
  True = "true"
  False = "false"
  Zero = "0"
  EmptyString = ""
  NoSlot = NoSlot
  Keys <- MCStrings
  Values <- MCValues
  Numbers <- MCNumbers
  Arithmetic <- MCArithmetic
  Less <- MCLess
  Minus <- MCMinus
  Concat <- MCConcat
  Hash <- MCHash
  Capacity = 8
SPECIFICATION HSpec
CHECK_DEADLOCK FALSE
INVARIANT StacksMatch
