SPECIFICATION HSpec
CONSTANTS
  ConfigFiles <- FlexLeagues
  PoolFiles <- JustDual
  SaveFiles = {}
  ThinkTimes = {}
  SlotNames <- NamesOfSlots
  PlayerNames <- Names
  MAX_NUM_SLOTS = 3
  MAX_PLAYERS = 3
  Garbage = {0, 7}
  NoName = NoName
  Malformed = Malformed
  NoPlayer = NoPlayer
  NoConfig = NoConfig
  NoFile = NoFile
INVARIANTS
  TypeOK
  PicksFollowOrder
  SlotsFollowPicks
  AgreesWithSearch
PROPERTIES
  ImplementsDraft
  SimCompletesUntraded
