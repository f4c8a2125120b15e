SPECIFICATION ApiSpec
CONSTANTS
  ValidNames = {"a", "true"}
  OtherNames = {"-"}
  ReservedNames = {"true"}
  INT_MAX = 3
  FLT_EXACT = 2
  OutOfRange = 0
  NULL = NULL
  Values <- FewValues
  Texts <- FewTexts
  MaxSettings = 4
  Wrappers = {1, 2, 3, 4}
  AddedTypes = {"group", "array", "list", "int", "string", "none"}
INVARIANTS
  ApiTypeOK
  PathsFindSettings
  ArraysHaveOneType
  WrittenReadsBack
  WrappersFollowSettings
CHECK_DEADLOCK FALSE
