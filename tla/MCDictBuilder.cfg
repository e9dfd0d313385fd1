SPECIFICATION Spec
CONSTANTS
  ConnFiles <- MCConnFiles
  PosTables <- MCPosTables
  Lexicons <- MCLexicons
  UserLexicons <- MCUserLexicons
  NormalizedText <- MCNormalizedText
  MaxPosIds = 2
  NoLimit = 9
  MaxRows = 4
INVARIANTS
  TableAsWritten
  RefsLeadToNamed
  PosKept
  DumpRebuilds
CHECK_DEADLOCK FALSE
