\* The operator or.
CONSTANTS
  U8 = 16
  NoDepth = NoDepth
  Sources <- OrSources
SPECIFICATION HSpec
INVARIANT TranslatesGrammar
