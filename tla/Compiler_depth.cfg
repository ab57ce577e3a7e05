\* More open scopes than a byte can count.
CONSTANTS
  U8 = 3
  NoDepth = NoDepth
  Sources <- DepthSources
SPECIFICATION HSpec
INVARIANT DepthIsScope
