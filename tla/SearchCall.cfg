SPECIFICATION SearchSpec
CONSTANTS
  ConfigFiles <- LoadLeagues
  PoolFiles <- LoadPools
  ThinkTimes = {1, 2}
  VisitCap = 3
  Reach = 2
  TradeCap = 2
  LoadCap = 2
  SlotNames <- NamesOfSlots
  PlayerNames <- Names
  MAX_NUM_SLOTS = 3
  MAX_PLAYERS = 3
  Garbage = {0}
  NoName = NoName
  Malformed = Malformed
  NoPlayer = NoPlayer
  NoNode = NoNode
PROPERTIES
  AnswersAsPromised
  SearchEnds
CHECK_DEADLOCK FALSE
