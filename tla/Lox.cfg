\* Scripts in a file, some with as many locals as the stack has slots, and four lines
\* of the REPL wherever the stack starts.
CONSTANTS
  Trees <- MCTrees
  Sessions <- MCSessions
  U8 = 16
  UsizeCount = 1000
  InitialTops = {0, 1, 7}
  NoDepth = NoDepth
  Null = "null"
  Nil = "nil"
  True = "true"
  False = "false"
  Zero = "0"
  EmptyString = ""
  NoSlot = NoSlot
  Keys <- MCStrings
  Values <- MCValues
  Numbers <- MCNumbers
  Arithmetic <- MCArithmetic
  Less <- MCLess
  Minus <- MCMinus
  Concat <- MCConcat
  Hash <- MCHash
  Capacity = 8
SPECIFICATION HFairSpec
CHECK_DEADLOCK FALSE
INVARIANTS HeightsMatch NeverUndefined LineLeavesStack RunsAsMeant
PROPERTIES EveryLineEnds ExactlyProgramsRun
