SPECIFICATION ApiSpec
CONSTANTS
  ValidNames = {"a", "b", "true"}
  OtherNames = {"-"}
  ReservedNames = {"true"}
  INT_MAX = 12
  FLT_EXACT = 5
  OutOfRange = 0
  NULL = NULL
  Values <- ManyValues
  Texts <- FewTexts
  MaxSettings = 3
  Wrappers = {1, 2, 3}
  AddedTypes = {"group", "array", "list", "int", "int64", "float", "bool", "string"}
INVARIANTS
  CutLosesTheEnd
  SettersReadBack
CHECK_DEADLOCK FALSE
