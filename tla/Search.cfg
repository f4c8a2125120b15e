SPECIFICATION SearchSpec
CONSTANTS
  ConfigFiles <- SearchLeagues
  PoolFiles <- SearchPools
  ThinkTimes = {1, 2}
  VisitCap = 5
  Reach = 2
  TradeCap = 1
  LoadCap = 0
  SlotNames <- NamesOfSlots
  PlayerNames <- Names
  MAX_NUM_SLOTS = 3
  MAX_PLAYERS = 5
  Garbage = {0}
  NoName = NoName
  Malformed = Malformed
  NoPlayer = NoPlayer
  NoNode = NoNode
INVARIANTS
  SearchTypeOK
  ContextFollowsTree
  BranchesAreLegal
  RolloutCountsEveryPick
  OnlyTimeStopsIt
CHECK_DEADLOCK FALSE
