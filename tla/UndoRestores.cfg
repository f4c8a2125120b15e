SPECIFICATION Spec
CONSTANTS
  ConfigFiles <- JustStandard
  PoolFiles <- JustMixed
  SaveFiles = {}
  ThinkTimes = {}
  SlotNames <- NamesOfSlots
  PlayerNames <- Names
  MAX_NUM_SLOTS = 3
  MAX_PLAYERS = 4
  Garbage = {0, 7}
  NoName = NoName
  Malformed = Malformed
  NoPlayer = NoPlayer
  NoConfig = NoConfig
  NoFile = NoFile
PROPERTY
  UndoRestores
