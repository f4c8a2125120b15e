SPECIFICATION HSpec
CONSTANTS
  ConfigFiles <- JustOptional
  PoolFiles <- TwoPools
  SaveFiles = {f1}
  ThinkTimes = {}
  SlotNames <- NamesOfSlots
  PlayerNames <- Names
  MAX_NUM_SLOTS = 2
  MAX_PLAYERS = 1
  Garbage = {0, 7}
  NoName = NoName
  Malformed = Malformed
  NoPlayer = NoPlayer
  NoConfig = NoConfig
  NoFile = NoFile
INVARIANTS
  NoPlayerTwice
  AgreesWithSearch
PROPERTY
  SavedDraftResumes
