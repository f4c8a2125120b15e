SPECIFICATION Spec
CONSTANTS
  ConfigFiles <- ManyOrNone
  PoolFiles <- GrowingPool
  SaveFiles = {f1}
  ThinkTimes = {}
  SlotNames <- NamesOfSlots
  PlayerNames <- Names
  MAX_NUM_SLOTS = 3
  MAX_PLAYERS = 1
  Garbage = {0, 7}
  NoName = NoName
  Malformed = Malformed
  NoPlayer = NoPlayer
  NoConfig = NoConfig
  NoFile = NoFile
PROPERTIES
  IdsKeepTheirPlayer
  CommandsFinish
