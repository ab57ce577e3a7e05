\* Every text over five small sets of characters.
CONSTANTS
  Alphas <- MCAlphas
  Numerals <- MCNumerals
  Texts <- MCTexts
  UsizeCount = 1000
SPECIFICATION HFairSpec
INVARIANTS TypeOK LinesCounted ThrowsOnlyOnSlash
PROPERTIES ImplementsLexical TokensRunOut CallsReturn
CHECK_DEADLOCK FALSE
