SPECIFICATION PSpec
CONSTANTS
  ConfigFiles <- PoolLeagues
  PoolFiles <- Files
  SlotNames <- NamesOfSlots
  PlayerNames <- Names
  MAX_NUM_SLOTS = 3
  MAX_PLAYERS = 3
  Garbage = {0}
  NoName = NoName
  Malformed = Malformed
  NoPlayer = NoPlayer
  NoConfig = NoConfig
INVARIANTS
  PoolTypeOK
  HighestIsBest
  FlexIsBestOfItsSlots
PROPERTY
  PoolKeepsItsPlayers
