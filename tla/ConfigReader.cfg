SPECIFICATION HSpec
CONSTANTS
  ValidNames = {"a", "b", "c", "*"}
  ReservedNames = {}
  INT_MAX = 3
  YYMAXDEPTH = 16
  FLT_EXACT = 2
  OutOfRange = 0
  NULL = NULL
  MAX_INCLUDE_DEPTH = 2
  Streams = {1, 2, 3, 4}
  FileNames = {"top", "x", "y"}
  TopFile = "top"
  IncludeFn <- FewPaths
  Disks <- FewDisks
  Edits <- FewEdits
INVARIANTS
  ReaderTypeOK
  StreamsFollowStack
  StackFollowsNesting
  TablesFollowGrammar
  IncludesInline
  SourcesShowTheSetting
PROPERTY
  ReadEnds
