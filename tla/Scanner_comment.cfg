\* A comment that is followed by a newline.
CONSTANTS
  Alphas <- MCAlphas
  Numerals <- MCNumerals
  Texts <- CommentTexts
  UsizeCount = 1000
SPECIFICATION HFairSpec
PROPERTY ImplementsIntended
CHECK_DEADLOCK FALSE
