SPECIFICATION Spec
CONSTANTS
  Texts <- MCTexts
  Included <- MCIncluded
  YY_BUF_SIZE = 2
  YY_READ_BUF_SIZE = 3
  MAX_INCLUDE_DEPTH = 2
INVARIANTS
  ScannerTypeOK
  LinesCounted
PROPERTIES
  MatchesAreLongest
  ScanEnds
CHECK_DEADLOCK FALSE
