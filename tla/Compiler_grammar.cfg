\* Every text of eight kinds of source.
CONSTANTS
  U8 = 16
  NoDepth = NoDepth
  Sources <- GrammarSources
SPECIFICATION HSpec
INVARIANTS TranslatesGrammar CodeBalanced DepthIsScope ScopesClosed ListingIsProgram
