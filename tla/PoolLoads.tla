------------------------------ MODULE PoolLoads ------------------------------
(***************************************************************************)
(* The player pool on its own, through every sequence of configurations    *)
(* and loads of csv files, with the memory its properties need: whether    *)
(* the array is in the order the queries rely on.                          *)
(***************************************************************************)
EXTENDS Players

CONSTANT NoConfig   \* no configuration has been loaded

VARIABLES
  config,    \* engine->config
  grouped    \* the last load succeeded, under this configuration, and every
             \* player in the array has a real slot for position

loadVars == <<config, grouped, poolVars>>

PInit ==
  /\ PoolInit
  /\ config = NoConfig
  /\ grouped = FALSE

(* A new configuration leaves the pool as it is.                           *)
Configure(file) ==
  /\ Loadable(file)
  /\ \E unwritten \in UnwrittenValues(file) : config' = load_config(file, unwritten)
  /\ grouped' = FALSE
  /\ UNCHANGED poolVars

AllHaveRealSlot(all) == \A i \in DOMAIN all : all[i].position \in RealSlots(config)

Load(file) ==
  /\ config # NoConfig
  /\ load_players(config, file)
  /\ grouped' = AllHaveRealSlot(players \o RecordsOf(config, file))
  /\ UNCHANGED config

LoadFails(file) ==
  /\ config # NoConfig
  /\ load_players_Fails(config, file)
  /\ grouped' = FALSE
  /\ UNCHANGED config

PNext ==
  \/ \E file \in ConfigFiles : Configure(file)
  \/ \E file \in PoolFiles : Load(file) \/ LoadFails(file)

PSpec == PInit /\ [][PNext]_loadVars

-----------------------------------------------------------------------------
FreeAt(s, takenIds) ==
  { id \in Ids \ takenIds : players[id + 1].position = s }

Best(id, among) == id \in among /\ \A other \in among : points(other) <= points(id)

(* The query stops at the first free player after the slot's marker.  That *)
(* is the best free player of the position, whoever is taken and whatever  *)
(* was loaded before, as long as one is left.                              *)
HighestIsBest ==
  grouped =>
    \A s \in RealSlots(config), takenIds \in SUBSET Ids :
      FreeAt(s, takenIds) # {} =>
        Best(whos_highest_projected(config, s, takenIds), FreeAt(s, takenIds))

(* For a flex slot it is the best free player of all its options.          *)
FlexIsBestOfItsSlots ==
  grouped =>
    \A s \in Slots(config) \ RealSlots(config), takenIds \in SUBSET Ids :
      LET free == UNION { FreeAt(option, takenIds) : option \in Range(config.flex[s]) } IN
      /\ \A option \in Range(config.flex[s]) : FreeAt(option, takenIds) # {}
      /\ \E id \in free : points(id) > 0
      => /\ ~FlexFaults(config, s, takenIds)
         /\ Best(whos_highest_projected(config, s, takenIds), free)

Count(all, record) == Cardinality({ i \in DOMAIN all : all[i] = record })

NumberWithSlot(all) == Cardinality({ i \in DOMAIN all : all[i].position \in RealSlots(config) })

(* Sorting, grouping and renumbering lose no player of a real slot and     *)
(* copy none, whoever else is in the array: after a load it begins with    *)
(* those it held and those of the file, each as often as there were, so    *)
(* that ids and markers count them alone.  A player whose position is a    *)
(* flex slot, or none of this configuration, is dropped, and unwritten     *)
(* records fill the array to its length.  (That the players held before    *)
(* stay is what the code does; README.md:20 says that load_players sets    *)
(* the pool.)                                                              *)
PoolKeepsItsPlayers ==
  [][\A file \in PoolFiles :
       Load(file) =>
         LET all == players \o RecordsOf(config, file) IN
         /\ Len(players') = Len(all)
         /\ \A record \in Range(all) :
              record.position \in RealSlots(config) =>
                Count(SubSeq(players', 1, NumberWithSlot(all)), record) = Count(all, record)
    ]_loadVars
=============================================================================
