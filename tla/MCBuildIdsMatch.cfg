SPECIFICATION Spec
CONSTANTS
  ConnFiles <- MCConnFiles
  PosTables <- MCPosTables
  Lexicons <- MCLexicons
  UserLexicons <- MCUserLexicons
  NormalizedText <- MCNormalizedText
  MaxPosIds = 2
  NoLimit = 9
  MaxRows = 3
CHECK_DEADLOCK FALSE
INVARIANT IdsMatch
