\* Every walk, on blocks of 12 words, with device failures.
SPECIFICATION FairSpec
CONSTANTS
  W = 12
  NB = 2
  Names <- MCNames
  NoName = NoName
  Hidden <- MCHidden
  Len4 <- MCLen
  Inos = {5, 6}
  Image <- MCImage
  MaxSize = 12
  MaxCalls = 4
INVARIANTS Tiling FindCorrect AddGivesUpLate 
PROPERTIES AddCorrect WalksEnd
CHECK_DEADLOCK FALSE
