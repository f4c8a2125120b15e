------------------------- MODULE DraftEngine_proofs -------------------------
(***************************************************************************)
(* Proofs about DraftEngine, for every set of configurations, pools, names *)
(* and save files: its type invariant, that no player is drafted twice,    *)
(* that picks are recorded for the teams the order of picks names, that it *)
(* implements the abstract draft, and what becomes of the pool of players. *)
(***************************************************************************)
EXTENDS DraftEngine, Drafter_proofs

-----------------------------------------------------------------------------
(* Configurations.                                                         *)

Sound(c) == c # NoConfig /\ WellShaped(c)

LEMMA LoadedConfigIsSound ==
  ASSUME NEW file \in ConfigFiles, NEW c \in ConfigsOf(file)
  PROVE  Sound(c)
<1>1. PICK g \in UnwrittenValues(file) : c = load_config(file, g)
  BY Zenon DEF ConfigsOf
<1>2. WellShaped(c)
  BY <1>1, LoadedConfigIsWellShaped, Zenon
<1>3. c # NoConfig
  BY <1>1, NoConfigAssumption, Zenon
<1> QED
  BY <1>2, <1>3, Zenon DEF Sound

LEMMA InitialRequirementsType ==
  ASSUME NEW c, Sound(c)
  PROVE  InitialRequirements(c) \in [Teams(c) -> [Slots(c) -> Int]]
<1>1. c.num_required \in [Slots(c) -> Int]
  BY DEF Sound, WellShaped
<1> QED
  BY <1>1, Zenon DEF InitialRequirements

LEMMA ResetRequirementsType ==
  ASSUME NEW c, Sound(c)
  PROVE  ResetRequirements(c) \in [Teams(c) -> [Slots(c) -> Int]]
<1>1. ASSUME NEW t \in Teams(c) PROVE RequiredAtIndex(c, t) \in Int
  <2>1. CASE t < c.num_slots
    <3>1. t \in Slots(c)
      BY <2>1 DEF Sound, WellShaped, Teams, Slots
    <3> QED
      BY <2>1, <3>1 DEF Sound, WellShaped, RequiredAtIndex
  <2>2. CASE ~(t < c.num_slots)
    <3>1. t >= c.num_slots
      BY <2>2 DEF Sound, WellShaped, Teams
    <3> QED
      BY <2>2, <3>1, Zenon DEF Sound, WellShaped, RequiredAtIndex
  <2> QED
    BY <2>1, <2>2
<1> QED
  BY <1>1, Zenon DEF ResetRequirements

(* The players the search may return are in the pool and not yet drafted.  *)
LEMMA BestPickIsFree ==
  ASSUME Sound(config), NEW id \in BestPick.players \ {NoPlayer}
  PROVE  id \in Ids \ TakenIds
<1> DEFINE row == create_search_context(config, taken)[order[Len(taken)]]
<1>1. /\ ~RootFaults(config, row, TakenIds)
      /\ id \in BestPicks(config, row, TakenIds)
  <2>1. BestPick.players =
          IF RootFaults(config, row, TakenIds) THEN {}
          ELSE BestPicks(config, row, TakenIds) \cup
                 (IF NullPossible(config, row, TakenIds, think_time)
                    THEN {NoPlayer} ELSE {})
    BY Zenon DEF BestPick, calculate_best_pick, TakenIds
  <2> QED
    BY <2>1, Zenon
<1>2. PICK s \in RootChildren(config, row, TakenIds) :
        id = whos_highest_projected(config, s, TakenIds)
  BY <1>1, Zenon DEF BestPicks
<1>3. s \in Slots(config) /\ row[s] > 0
  BY <1>2, Zenon DEF RootChildren
<1>4. ~FlexFaults(config, s, TakenIds)
  BY <1>1, <1>3, Zenon DEF RootFaults
<1>5. DOMAIN config.flex[s] \subseteq Nat
  BY <1>3, Zenon DEF Sound, WellShaped
<1> QED
  BY <1>2, <1>4, <1>5, HighestProjectedIsFree, Zenon

-----------------------------------------------------------------------------
(* The type invariant.                                                     *)

Loops == {"undo", "load", "sim"}

(* A configuration that is loaded is sound, and one is loaded whenever a   *)
(* command loops.                                                          *)
LEMMA DraftIsSound ==
  ASSUME TypeOK, config # NoConfig \/ pc \in Loops
  PROVE  DraftTypeOK /\ Sound(config)
<1>1. DraftTypeOK
  BY Zenon DEF TypeOK, NoDraft, Loops
<1> QED
  BY <1>1, LoadedConfigIsSound, Zenon DEF DraftTypeOK

LEMMA TeamWithPickType ==
  ASSUME DraftTypeOK, NEW p, NEW team \in team_with_pick(p)
  PROVE  team \in Teams(config)
<1>1. order \in [0 .. n_picks - 1 -> Teams(config)]
  BY Zenon DEF DraftTypeOK
<1>2. CASE p \in DOMAIN order
  BY <1>1, <1>2, Zenon DEF team_with_pick
<1>3. CASE p \notin DOMAIN order
  BY <1>3, Zenon DEF team_with_pick
<1> QED
  BY <1>2, <1>3

(* Charging one player to one team's row keeps the table of requirements.  *)
LEMMA ChargeTeamType ==
  ASSUME DraftTypeOK, NEW team \in Teams(config), NEW position
  PROVE  [still_required EXCEPT ![team] = fill_slot(config, @, position)]
           \in [Teams(config) -> [Slots(config) -> Int]]
<1> DEFINE Counts == [Slots(config) -> Int]
           row == fill_slot(config, still_required[team], position)
<1>1. still_required \in [Teams(config) -> Counts]
  BY Zenon DEF DraftTypeOK
<1>2. row \in Counts
  BY <1>1, FillSlotType, Zenon
<1> HIDE DEF Counts, row
<1>3. [still_required EXCEPT ![team] = row] \in [Teams(config) -> Counts]
  BY <1>1, <1>2
<1> QED
  BY <1>3, Zenon DEF Counts, row

LEMMA AppendPickType ==
  ASSUME DraftTypeOK, NEW id \in Nat, NEW team \in Teams(config)
  PROVE  Append(taken, [player_id |-> id, by_team |-> team]) \in Seq(Pick(config))
<1>1. [player_id |-> id, by_team |-> team] \in Pick(config)
  BY Zenon DEF Pick
<1>2. taken \in Seq(Pick(config))
  BY Zenon DEF DraftTypeOK
<1> HIDE DEF Pick
<1> QED
  BY <1>1, <1>2

LEMMA DraftPlayerType ==
  ASSUME DraftTypeOK, NEW id \in Nat, NEW position, DraftPlayer(id, position)
  PROVE  /\ taken' \in Seq(Pick(config))
         /\ still_required' \in [Teams(config) -> [Slots(config) -> Int]]
<1>1. PICK team \in team_with_pick(pick) :
        /\ still_required' = [still_required EXCEPT ![team] = fill_slot(config, @, position)]
        /\ taken' = Append(taken, [player_id |-> id, by_team |-> team])
  BY Zenon DEF DraftPlayer
<1>2. team \in Teams(config)
  BY TeamWithPickType, Zenon
<1> QED
  BY <1>1, <1>2, ChargeTeamType, AppendPickType, Zenon

(* What a step has to show about the draft if it keeps the configuration.  *)
LEMMA SameConfigType ==
  ASSUME DraftTypeOK,
         config' = config,
         order' \in [0 .. n_picks - 1 -> Teams(config)],
         taken' \in Seq(Pick(config)),
         still_required' \in [Teams(config) -> [Slots(config) -> Int]]
  PROVE  DraftTypeOK'
<1>1. n_picks' = n_picks
  BY Zenon DEF n_picks
<1> QED
  BY <1>1, Zenon DEF DraftTypeOK

LEMMA SameDraftType ==
  ASSUME TypeOK,
         UNCHANGED <<config, order, taken, still_required>>,
         pc' \in Loops => config # NoConfig \/ pc \in Loops
  PROVE  (NoDraft \/ DraftTypeOK)'
<1>1. CASE config # NoConfig \/ pc \in Loops
  <2>1. DraftTypeOK
    BY <1>1, DraftIsSound, Zenon
  <2>2. DraftTypeOK'
    BY <2>1, Zenon DEF DraftTypeOK, n_picks
  <2> QED
    BY <2>2, Zenon
<1>2. CASE ~(config # NoConfig \/ pc \in Loops)
  <2>1. NoDraft
    <3>1. ~DraftTypeOK
      BY <1>2, LoadedConfigIsSound, Zenon DEF DraftTypeOK, Sound, WellShaped
    <3> QED
      BY <3>1, Zenon DEF TypeOK
  <2> QED
    BY <1>2, <2>1, Zenon DEF NoDraft, Loops
<1> QED
  BY <1>1, <1>2

(* What it has to show about the rest.                                     *)
RestTypeOK ==
  /\ pc \in {"prompt", "undo", "load", "sim", "exited", "crashed"}
  /\ think_time \in Nat \ {0}
  /\ cursor \in Nat
  /\ open_file \in SaveFiles \cup {NoFile}
  /\ pc = "load" => open_file \in SaveFiles /\ disk[open_file] # NoFile
  /\ disk \in [SaveFiles -> Seq(Nat) \cup {NoFile}]

LEMMA CrashType ==
  ASSUME TypeOK, Crash
  PROVE  TypeOK'
<1>1. RestTypeOK'
  BY Zenon DEF TypeOK, RestTypeOK, Crash
<1>2. (NoDraft \/ DraftTypeOK)'
  BY SameDraftType, Zenon DEF Crash, Loops, draftStateVars
<1> QED
  BY <1>1, <1>2, Zenon DEF TypeOK, RestTypeOK

LEMMA TypeInit == Init => TypeOK
<1> SUFFICES ASSUME Init PROVE TypeOK
  OBVIOUS
<1>1. NoDraft
  BY DEF Init, NoDraft
<1>2. RestTypeOK
  BY SaveFilesAssumption DEF Init, RestTypeOK
<1> QED
  BY <1>1, <1>2, Zenon DEF TypeOK, RestTypeOK

(* The commands that start a new draft.                                    *)
LEMMA NewDraftType ==
  ASSUME TypeOK, NewDraft
  PROVE  TypeOK'
<1>1. ASSUME NEW file \in ConfigFiles, load_draft_config(file)
      PROVE  TypeOK'
  <2>1. PICK g \in UnwrittenValues(file) :
          /\ config' = load_config(file, g)
          /\ order' = build_snake_order(get_number_of_picks(config'), config'.num_teams)
          /\ taken' = <<>>
          /\ still_required' = InitialRequirements(config')
    BY <1>1, Zenon DEF load_draft_config, init_draftstate
  <2>2. config' \in ConfigsOf(file) /\ Loadable(file)
    BY <1>1, <2>1, Zenon DEF ConfigsOf, load_draft_config
  <2>3. Sound(config')
    BY <2>2, LoadedConfigIsSound, Zenon
  <2>4. order' \in [0 .. n_picks' - 1 -> Teams(config')]
    BY <2>1, <2>3, SnakeOrderType DEF n_picks, Sound, WellShaped, Teams
  <2>5. still_required' \in [Teams(config') -> [Slots(config') -> Int]]
    BY <2>1, <2>3, InitialRequirementsType, Zenon
  <2>6. taken' \in Seq(Pick(config'))
    BY <2>1
  <2>7. DraftTypeOK'
    BY <2>2, <2>4, <2>5, <2>6, Zenon DEF DraftTypeOK
  <2>8. RestTypeOK'
    BY <1>1, Zenon DEF TypeOK, RestTypeOK, load_draft_config
  <2> QED
    BY <2>7, <2>8, Zenon DEF TypeOK, RestTypeOK
<1>2. ASSUME config # NoConfig, config' = config, order' = order,
             init_draftstate(config)
      PROVE  DraftTypeOK'
  <2>1. DraftTypeOK /\ Sound(config)
    BY <1>2, DraftIsSound
  <2>2. taken' = <<>> /\ still_required' = InitialRequirements(config)
    BY <1>2, Zenon DEF init_draftstate
  <2>3. taken' \in Seq(Pick(config))
    BY <2>2
  <2>4. still_required' \in [Teams(config) -> [Slots(config) -> Int]]
    BY <2>1, <2>2, InitialRequirementsType, Zenon
  <2>5. order' \in [0 .. n_picks - 1 -> Teams(config)]
    BY <1>2, <2>1, Zenon DEF DraftTypeOK
  <2> QED
    BY <1>2, <2>1, <2>3, <2>4, <2>5, SameConfigType, Zenon
<1>3. ASSUME NEW file \in PoolFiles, load_player_pool(file)
      PROVE  TypeOK'
  <2>1. DraftTypeOK'
    BY <1>2, <1>3, Zenon DEF load_player_pool, Ready
  <2>2. RestTypeOK'
    BY <1>3, Zenon DEF TypeOK, RestTypeOK, load_player_pool
  <2> QED
    BY <2>1, <2>2, Zenon DEF TypeOK, RestTypeOK
<1>4. ASSUME NEW file \in SaveFiles, load(file)
      PROVE  TypeOK'
  <2>1. DraftTypeOK'
    BY <1>2, <1>4, Zenon DEF load, Ready
  <2>2. RestTypeOK'
    BY <1>4, Zenon DEF TypeOK, RestTypeOK, load
  <2> QED
    BY <2>1, <2>2, Zenon DEF TypeOK, RestTypeOK
<1>5. ASSUME Restart
      PROVE  TypeOK'
  <2>1. NoDraft'
    BY <1>5 DEF Restart, NoDraft
  <2>2. RestTypeOK'
    BY <1>5 DEF TypeOK, RestTypeOK, Restart
  <2> QED
    BY <2>1, <2>2, Zenon DEF TypeOK, RestTypeOK
<1> QED
  BY <1>1, <1>3, <1>4, <1>5, Zenon DEF NewDraft

(* The picks a user makes.                                                 *)
LEMMA PickedIdIsNatural ==
  ASSUME NEW name, get_player_by_name(name) # NoPlayer
  PROVE  get_player_by_name(name) \in Nat
  BY PlayerByNameIsInPool, IdsAreNaturals, Zenon

LEMMA BenchType ==
  ASSUME TypeOK, Bench
  PROVE  TypeOK'
<1>1. PICK name \in PlayerNames : bench(name)
  BY Zenon DEF Bench
<1> DEFINE id == get_player_by_name(name)
<1>2. DraftTypeOK
  BY <1>1, DraftIsSound, Zenon DEF bench, Ready
<1>3. id \in Nat
  BY <1>1, PickedIdIsNatural, Zenon DEF bench
<1>4. PICK team \in team_with_pick(pick) :
        taken' = Append(taken, [player_id |-> id, by_team |-> team])
  BY <1>1, Zenon DEF bench
<1>5. taken' \in Seq(Pick(config))
  BY <1>2, <1>3, <1>4, TeamWithPickType, AppendPickType, Zenon
<1>6. DraftTypeOK'
  BY <1>1, <1>2, <1>5, Zenon DEF bench, DraftTypeOK, n_picks
<1>7. RestTypeOK'
  BY <1>1, Zenon DEF TypeOK, RestTypeOK, bench
<1> QED
  BY <1>6, <1>7, Zenon DEF TypeOK, RestTypeOK

LEMMA MakePickType ==
  ASSUME TypeOK, NEW name \in PlayerNames, make_pick(name)
  PROVE  TypeOK'
<1> DEFINE id == get_player_by_name(name)
<1>1. DraftTypeOK
  BY DraftIsSound, Zenon DEF make_pick, Ready
<1>2. id \in Nat
  BY PickedIdIsNatural, Zenon DEF make_pick
<1>3. DraftPlayer(id, PositionOf(id))
  BY Zenon DEF make_pick
<1>4. DraftTypeOK'
  BY <1>1, <1>2, <1>3, DraftPlayerType, Zenon DEF make_pick, DraftTypeOK, n_picks
<1>5. RestTypeOK'
  BY Zenon DEF TypeOK, RestTypeOK, make_pick
<1> QED
  BY <1>4, <1>5, Zenon DEF TypeOK, RestTypeOK

LEMMA GivePickType ==
  ASSUME TypeOK, NEW p, NEW team, give_pick(p, team)
  PROVE  TypeOK'
<1>1. DraftTypeOK
  BY DraftIsSound, Zenon DEF give_pick, Ready
<1>2. order' = [order EXCEPT ![p] = team] /\ team \in Teams(config)
  BY Zenon DEF give_pick
<1>3. order' \in [0 .. n_picks - 1 -> Teams(config)]
  <2>1. order \in [0 .. n_picks - 1 -> Teams(config)]
    BY <1>1, Zenon DEF DraftTypeOK
  <2> QED
    BY <1>2, <2>1, Zenon
<1>4. DraftTypeOK'
  BY <1>1, <1>3, Zenon DEF give_pick, draftStateVars, DraftTypeOK, n_picks
<1>5. RestTypeOK'
  BY Zenon DEF TypeOK, RestTypeOK, give_pick
<1> QED
  BY <1>4, <1>5, Zenon DEF TypeOK, RestTypeOK

(* The drafted ids are numbers.                                            *)
LEMMA SavedIdsType ==
  ASSUME DraftTypeOK
  PROVE  SavedIds \in Seq(Nat) /\ DOMAIN SavedIds = DOMAIN taken
<1> DEFINE P == Pick(config)
<1>1. taken \in Seq(P)
  BY Zenon DEF DraftTypeOK
<1>2. \A t \in P : t.player_id \in Nat
  BY DEF Pick
<1>3. \A i \in DOMAIN taken : taken[i].player_id \in Nat
  <2> HIDE DEF P
  <2> QED
    BY <1>1, <1>2
<1>4. Len(taken) \in Nat /\ DOMAIN taken = 1 .. Len(taken)
  <2> HIDE DEF P
  <2> QED
    BY <1>1
<1> QED
  BY <1>3, <1>4 DEF SavedIds

(* The ids of a text cut short are numbers too.                            *)
LEMMA CutShortType ==
  ASSUME NEW ids \in Seq(Nat), NEW k \in DOMAIN ids, NEW n \in LeadingDigits(ids[k])
  PROVE  /\ SubSeq(ids, 1, k - 1) \in Seq(Nat)
         /\ Append(SubSeq(ids, 1, k - 1), n) \in Seq(Nat)
<1>1. ids[k] \in Nat /\ k \in 1 .. Len(ids)
  OBVIOUS
<1>2. n \in Nat
  BY <1>1 DEF LeadingDigits
<1>3. SubSeq(ids, 1, k - 1) \in Seq(Nat)
  BY <1>1
<1> QED
  BY <1>2, <1>3

(* A save file holds ids, whole or cut short.                              *)
LEMMA SaveType ==
  ASSUME TypeOK, Save
  PROVE  TypeOK'
<1>1. PICK file \in SaveFiles : save(file) \/ save_CutShort(file)
  BY Zenon DEF Save
<1>2. DraftTypeOK
  BY <1>1, DraftIsSound, Zenon DEF save, save_CutShort, Ready
<1>3. SavedIds \in Seq(Nat) /\ DOMAIN SavedIds = DOMAIN taken
  BY <1>2, SavedIdsType
<1>4. PICK ids \in Seq(Nat) : disk' = [disk EXCEPT ![file] = ids]
  <2>1. CASE save(file)
    BY <1>3, <2>1, Zenon DEF save
  <2>2. CASE save_CutShort(file)
    <3>1. PICK k \in DOMAIN taken :
            \/ disk' = [disk EXCEPT ![file] = SubSeq(SavedIds, 1, k - 1)]
            \/ \E n \in LeadingDigits(SavedIds[k]) :
                 disk' = [disk EXCEPT ![file] = Append(SubSeq(SavedIds, 1, k - 1), n)]
      BY <2>2, Zenon DEF save_CutShort
    <3>2. SavedIds[k] \in LeadingDigits(SavedIds[k])
      <4>1. SavedIds[k] \in Nat
        BY <1>3
      <4>2. SavedIds[k] \div 1 = SavedIds[k]
        BY <4>1
      <4> QED
        BY <4>2, Zenon DEF LeadingDigits
    <3> QED
      BY <1>3, <3>1, <3>2, CutShortType, Zenon
  <2> QED
    BY <1>1, <2>1, <2>2
<1>5. disk \in [SaveFiles -> Seq(Nat) \cup {NoFile}]
  BY Zenon DEF TypeOK
<1>6. disk' \in [SaveFiles -> Seq(Nat) \cup {NoFile}]
  BY <1>4, <1>5, Zenon
<1>7. pc' \in {"prompt", "crashed"} /\ UNCHANGED <<think_time, cursor, open_file>>
  BY <1>1, Zenon DEF save, save_CutShort, Ready
<1>8. RestTypeOK'
  BY <1>6, <1>7, Zenon DEF TypeOK, RestTypeOK
<1>9. (NoDraft \/ DraftTypeOK)'
  BY <1>1, SameDraftType, Zenon DEF save, save_CutShort, draftStateVars, Loops
<1> QED
  BY <1>8, <1>9, Zenon DEF TypeOK, RestTypeOK

LEMMA FrontType ==
  ASSUME NEW S, NEW s \in Seq(S), s # <<>>
  PROVE  Front(s) \in Seq(S)
  BY DEF Front

LEMMA UndoType ==
  ASSUME TypeOK, undo_pick
  PROVE  TypeOK'
<1>1. DraftTypeOK /\ Sound(config)
  BY DraftIsSound, Zenon DEF undo_pick, Ready
<1>2. taken' \in Seq(Pick(config))
  <2>1. taken \in Seq(Pick(config)) /\ Len(taken) > 0 /\ taken' = Front(taken)
    BY <1>1, Zenon DEF undo_pick, DraftTypeOK, pick
  <2> HIDE DEF Pick
  <2> QED
    BY <2>1, FrontType
<1>3. still_required' \in [Teams(config) -> [Slots(config) -> Int]]
  BY <1>1, ResetRequirementsType, Zenon DEF undo_pick
<1>4. DraftTypeOK'
  BY <1>1, <1>2, <1>3, Zenon DEF undo_pick, DraftTypeOK, n_picks
<1>5. RestTypeOK'
  BY DEF TypeOK, RestTypeOK, undo_pick
<1> QED
  BY <1>4, <1>5, Zenon DEF TypeOK, RestTypeOK

LEMMA OtherCommandType ==
  ASSUME TypeOK, OtherCommand
  PROVE  TypeOK'
<1>1. ASSUME NEW name \in PlayerNames, make_pick(name)
      PROVE  TypeOK'
  BY <1>1, MakePickType, Zenon
<1>2. ASSUME NEW name \in PlayerNames, make_pick_Crashes(name) \/ bench_Crashes(name)
      PROVE  TypeOK'
  BY <1>2, CrashType, Zenon DEF make_pick_Crashes, bench_Crashes
<1>3. ASSUME NEW p \in DOMAIN order, NEW team \in 0 .. config.num_teams, give_pick(p, team)
      PROVE  TypeOK'
  BY <1>3, GivePickType, Zenon
<1>4. ASSUME NEW file \in PoolFiles, load_player_pool_Fails(file)
      PROVE  TypeOK'
  <2>1. RestTypeOK'
    BY <1>4, Zenon DEF TypeOK, RestTypeOK, load_player_pool_Fails
  <2>2. (NoDraft \/ DraftTypeOK)'
    BY <1>4, SameDraftType, Zenon DEF load_player_pool_Fails, Ready, draftStateVars
  <2> QED
    BY <2>1, <2>2, Zenon DEF TypeOK, RestTypeOK
<1>5. ASSUME NEW t \in ThinkTimes, set_think_time(t)
      PROVE  TypeOK'
  <2>1. RestTypeOK'
    <3>1. t \in Nat \ {0}
      BY <1>5, ThinkTimesAssumption DEF set_think_time
    <3> QED
      BY <1>5, <3>1, Zenon DEF TypeOK, RestTypeOK, set_think_time
  <2>2. (NoDraft \/ DraftTypeOK)'
    BY <1>5, SameDraftType, Zenon DEF set_think_time, Ready, draftStateVars
  <2> QED
    BY <2>1, <2>2, Zenon DEF TypeOK, RestTypeOK
<1>6. ASSUME think_pick_Crashes
      PROVE  TypeOK'
  BY <1>6, CrashType, Zenon DEF think_pick_Crashes
<1>7. ASSUME sim_draft \/ do_exit
      PROVE  TypeOK'
  <2>1. RestTypeOK'
    BY <1>7 DEF TypeOK, RestTypeOK, sim_draft, do_exit
  <2>2. (NoDraft \/ DraftTypeOK)'
    BY <1>7, SameDraftType, Zenon DEF sim_draft, do_exit, Ready, draftStateVars, Loops
  <2> QED
    BY <2>1, <2>2, Zenon DEF TypeOK, RestTypeOK
<1> QED
  BY <1>1, <1>2, <1>3, <1>4, <1>5, <1>6, <1>7, Zenon DEF OtherCommand

(* Steps that change nothing of the draft inside or at the end of a loop.  *)
LEMMA LoopEndType ==
  ASSUME TypeOK, pc \in Loops,
         UNCHANGED <<config, order, draftStateVars, think_time, disk>>,
         pc' = "prompt", cursor' \in Nat, open_file' \in SaveFiles \cup {NoFile}
  PROVE  TypeOK'
<1>1. RestTypeOK'
  BY DEF TypeOK, RestTypeOK
<1>2. (NoDraft \/ DraftTypeOK)'
  BY SameDraftType, Zenon DEF draftStateVars
<1> QED
  BY <1>1, <1>2, Zenon DEF TypeOK, RestTypeOK

LEMMA LoadedIdIsNatural == LoadedId \in Nat
<1>1. \A id : IdOfRecord(id) \in Nat
  BY IdsAreNaturals DEF IdOfRecord
<1> QED
  BY <1>1, Zenon DEF LoadedId

LEMMA LoopStepType ==
  ASSUME TypeOK, LoopStep
  PROVE  TypeOK'
<1>1. CASE UndoReplay
  <2>1. DraftTypeOK
    BY <1>1, DraftIsSound, Zenon DEF UndoReplay, Loops
  <2>2. PICK team \in team_with_pick(cursor) :
          still_required' =
            [still_required EXCEPT ![team] =
               fill_slot(config, @, PositionOf(taken[cursor + 1].player_id))]
    BY <1>1, Zenon DEF UndoReplay
  <2>3. still_required' \in [Teams(config) -> [Slots(config) -> Int]]
    BY <2>1, <2>2, TeamWithPickType, ChargeTeamType, Zenon
  <2>4. DraftTypeOK'
    BY <1>1, <2>1, <2>3, Zenon DEF UndoReplay, DraftTypeOK, n_picks
  <2>5. RestTypeOK'
    BY <1>1 DEF TypeOK, RestTypeOK, UndoReplay
  <2> QED
    BY <2>4, <2>5, Zenon DEF TypeOK, RestTypeOK
<1>2. CASE LoadOne
  <2>1. DraftTypeOK
    BY <1>2, DraftIsSound, Zenon DEF LoadOne, Loops
  <2>2. DraftPlayer(LoadedId, LoadedPosition) /\ LoadedId \in Nat
    BY <1>2, LoadedIdIsNatural, Zenon DEF LoadOne
  <2>3. DraftTypeOK'
    BY <1>2, <2>1, <2>2, DraftPlayerType, Zenon DEF LoadOne, DraftTypeOK, n_picks
  <2>4. RestTypeOK'
    BY <1>2 DEF TypeOK, RestTypeOK, LoadOne
  <2> QED
    BY <2>3, <2>4, Zenon DEF TypeOK, RestTypeOK
<1>3. CASE SimPick
  <2>1. DraftTypeOK /\ Sound(config)
    BY <1>3, DraftIsSound, Zenon DEF SimPick, Loops
  <2>2. PICK id \in BestPick.players \ {NoPlayer} : DraftPlayer(id, PositionOf(id))
    BY <1>3, Zenon DEF SimPick
  <2>3. id \in Nat
    BY <2>1, BestPickIsFree, IdsAreNaturals, Zenon
  <2>4. DraftTypeOK'
    BY <1>3, <2>1, <2>2, <2>3, DraftPlayerType, Zenon DEF SimPick, DraftTypeOK, n_picks
  <2>5. RestTypeOK'
    BY <1>3, Zenon DEF TypeOK, RestTypeOK, SimPick
  <2> QED
    BY <2>4, <2>5, Zenon DEF TypeOK, RestTypeOK
<1>4. CASE UndoReturns
  BY <1>4, LoopEndType DEF UndoReturns, Loops, TypeOK
<1>5. CASE LoadReturns
  BY <1>5, LoopEndType DEF LoadReturns, Loops
<1>6. CASE SimReturns
  BY <1>6, LoopEndType DEF SimReturns, Loops, TypeOK
<1>7. CASE UndoRunsOff \/ LoadRunsOff \/ SimCrashes
  BY <1>7, CrashType, Zenon DEF UndoRunsOff, LoadRunsOff, SimCrashes
<1> QED
  BY <1>1, <1>2, <1>3, <1>4, <1>5, <1>6, <1>7, Zenon DEF LoopStep

LEMMA TypeStep == TypeOK /\ [Next]_vars => TypeOK'
<1> SUFFICES ASSUME TypeOK, [Next]_vars PROVE TypeOK'
  OBVIOUS
<1>1. CASE NewDraft
  BY <1>1, NewDraftType
<1>2. CASE Bench
  BY <1>2, BenchType
<1>3. CASE Save
  BY <1>3, SaveType
<1>4. CASE undo_pick
  BY <1>4, UndoType
<1>5. CASE OtherCommand
  BY <1>5, OtherCommandType
<1>6. CASE LoopStep
  BY <1>6, LoopStepType
<1>7. CASE UNCHANGED vars
  BY <1>7, Zenon DEF vars, TypeOK, NoDraft, DraftTypeOK, n_picks
<1> QED
  BY <1>1, <1>2, <1>3, <1>4, <1>5, <1>6, <1>7, Zenon DEF Next

(* Whatever commands are given, the engine's arrays keep the shape that    *)
(* control.c and drafter.c index them by.                                  *)
THEOREM TypeCorrect == Spec => []TypeOK
  BY TypeInit, TypeStep, PTL DEF Spec

-----------------------------------------------------------------------------
(* What a step does to the board.                                          *)

DrafterPicks ==
  \E id \in Nat \ TakenIds : \E team \in team_with_pick(pick) :
    taken' = Append(taken, [player_id |-> id, by_team |-> team])

(* A pick made is never reassigned.                                        *)
OnlyTrades ==
  /\ UNCHANGED taken
  /\ DOMAIN order' = DOMAIN order
  /\ \A p \in DOMAIN order : p < pick => order'[p] = order[p]

BoardStep ==
  \/ taken' = <<>>
  \/ DrafterPicks /\ UNCHANGED <<order, config>>
  \/ taken # <<>> /\ taken' = Front(taken) /\ UNCHANGED <<order, config>>
  \/ OnlyTrades

LEMMA NotTaken ==
  ASSUME NEW id, ~is_taken(id)
  PROVE  id \notin TakenIds
  BY Zenon DEF is_taken, TakenIds

LEMMA SameBoard ==
  ASSUME UNCHANGED <<taken, order>>
  PROVE  BoardStep
  BY Zenon DEF BoardStep, OnlyTrades

LEMMA DraftPlayerPicks ==
  ASSUME NEW id \in Nat \ TakenIds, NEW position, DraftPlayer(id, position)
  PROVE  DrafterPicks
  BY Zenon DEF DraftPlayer, DrafterPicks

LEMMA EveryStepIsBoardStep ==
  ASSUME TypeOK, [Next]_vars
  PROVE  BoardStep
<1>1. CASE NewDraft
  BY <1>1, Zenon DEF NewDraft, load_draft_config, load_player_pool, load, Restart,
                     init_draftstate, BoardStep
<1>2. CASE Bench
  <2>1. PICK name \in PlayerNames : bench(name)
    BY <1>2, Zenon DEF Bench
  <2>2. get_player_by_name(name) \in Nat \ TakenIds
    BY <2>1, PickedIdIsNatural, NotTaken, Zenon DEF bench
  <2>3. DrafterPicks /\ UNCHANGED <<order, config>>
    BY <2>1, <2>2, Zenon DEF bench, DrafterPicks
  <2> QED
    BY <2>3, Zenon DEF BoardStep
<1>3. CASE Save
  BY <1>3, SameBoard, Zenon DEF Save, save, save_CutShort, draftStateVars
<1>4. CASE undo_pick
  <2>1. taken \in Seq(Pick(config))
    BY <1>4, DraftIsSound, Zenon DEF undo_pick, Ready, DraftTypeOK
  <2>2. taken # <<>>
    BY <1>4, <2>1 DEF undo_pick, pick
  <2> QED
    BY <1>4, <2>2, Zenon DEF undo_pick, BoardStep
<1>5. CASE OtherCommand
  <2>1. ASSUME NEW name \in PlayerNames, make_pick(name) PROVE BoardStep
    <3>1. get_player_by_name(name) \in Nat \ TakenIds
      BY <2>1, PickedIdIsNatural, NotTaken, Zenon DEF make_pick
    <3>2. DrafterPicks
      BY <2>1, <3>1, DraftPlayerPicks, Zenon DEF make_pick
    <3> QED
      BY <2>1, <3>2, Zenon DEF make_pick, BoardStep
  <2>2. ASSUME NEW name \in PlayerNames, make_pick_Crashes(name) \/ bench_Crashes(name)
        PROVE  BoardStep
    BY <2>2, SameBoard, Zenon DEF make_pick_Crashes, bench_Crashes, Crash, draftStateVars
  <2>3. ASSUME NEW p \in DOMAIN order, NEW team \in 0 .. config.num_teams,
               give_pick(p, team)
        PROVE  BoardStep
    <3>1. taken' = taken /\ order' = [order EXCEPT ![p] = team] /\ p \in pick .. n_picks - 1
      BY <2>3, Zenon DEF give_pick, draftStateVars
    <3>2. order \in [0 .. n_picks - 1 -> Teams(config)] /\ taken \in Seq(Pick(config))
      BY <2>3, DraftIsSound, Zenon DEF give_pick, Ready, DraftTypeOK
    <3>3. DOMAIN order' = DOMAIN order /\ \A q \in DOMAIN order : q # p => order'[q] = order[q]
      BY <3>1, <3>2, Zenon
    <3>4. ASSUME NEW q \in DOMAIN order, q < pick PROVE q # p
      <4>1. pick \in Nat
        BY <3>2 DEF pick
      <4> QED
        BY <3>1, <3>4, <4>1
    <3> QED
      BY <3>1, <3>3, <3>4, Zenon DEF BoardStep, OnlyTrades
  <2>4. ASSUME NEW file \in PoolFiles, load_player_pool_Fails(file) PROVE BoardStep
    BY <2>4, SameBoard, Zenon DEF load_player_pool_Fails, draftStateVars
  <2>5. ASSUME NEW t \in ThinkTimes, set_think_time(t) PROVE BoardStep
    BY <2>5, SameBoard, Zenon DEF set_think_time, draftStateVars
  <2>6. ASSUME think_pick_Crashes \/ sim_draft \/ do_exit PROVE BoardStep
    BY <2>6, SameBoard, Zenon DEF think_pick_Crashes, sim_draft, do_exit, Crash,
                                  draftStateVars
  <2> QED
    BY <1>5, <2>1, <2>2, <2>3, <2>4, <2>5, <2>6, Zenon DEF OtherCommand
<1>6. CASE LoopStep
  <2>1. CASE LoadOne
    <3>1. LoadedId \in Nat \ TakenIds
      BY <2>1, LoadedIdIsNatural, NotTaken, Zenon DEF LoadOne
    <3>2. DrafterPicks
      BY <2>1, <3>1, DraftPlayerPicks, Zenon DEF LoadOne
    <3> QED
      BY <2>1, <3>2, Zenon DEF LoadOne, BoardStep
  <2>2. CASE SimPick
    <3>1. Sound(config)
      BY <2>2, DraftIsSound, Zenon DEF SimPick, Loops
    <3>2. PICK id \in BestPick.players \ {NoPlayer} : DraftPlayer(id, PositionOf(id))
      BY <2>2, Zenon DEF SimPick
    <3>3. id \in Nat \ TakenIds
      BY <3>1, BestPickIsFree, IdsAreNaturals, Zenon
    <3>4. DrafterPicks
      BY <3>2, <3>3, DraftPlayerPicks, Zenon
    <3> QED
      BY <2>2, <3>4, Zenon DEF SimPick, BoardStep
  <2>3. CASE UndoReplay
    BY <2>3, SameBoard, Zenon DEF UndoReplay
  <2>4. CASE UndoReturns \/ LoadReturns \/ SimReturns
    BY <2>4, SameBoard, Zenon DEF UndoReturns, LoadReturns, SimReturns, draftStateVars
  <2>5. CASE UndoRunsOff \/ LoadRunsOff \/ SimCrashes
    BY <2>5, SameBoard, Zenon DEF UndoRunsOff, LoadRunsOff, SimCrashes, Crash,
                                  draftStateVars
  <2> QED
    BY <1>6, <2>1, <2>2, <2>3, <2>4, <2>5, Zenon DEF LoopStep
<1>7. CASE UNCHANGED vars
  BY <1>7, SameBoard, Zenon DEF vars
<1> QED
  BY <1>1, <1>2, <1>3, <1>4, <1>5, <1>6, <1>7, Zenon DEF Next

-----------------------------------------------------------------------------
(* The two safety invariants.                                              *)

AnyPick == [player_id : Nat, by_team : Int]

LEMMA TakenIsSequence ==
  ASSUME TypeOK
  PROVE  taken \in Seq(AnyPick)
<1>1. CASE config # NoConfig
  <2>1. taken \in Seq(Pick(config)) /\ Sound(config)
    BY <1>1, DraftIsSound, Zenon DEF DraftTypeOK
  <2>2. Pick(config) \subseteq AnyPick
    BY <2>1 DEF Pick, AnyPick, Teams, Sound, WellShaped
  <2> HIDE DEF Pick, AnyPick
  <2> QED
    BY <2>1, <2>2
<1>2. CASE config = NoConfig
  <2>1. taken = <<>>
    BY <1>2, LoadedConfigIsSound, Zenon DEF TypeOK, NoDraft, DraftTypeOK, Sound, WellShaped
  <2> QED
    BY <2>1
<1> QED
  BY <1>1, <1>2

LEMMA NoPlayerTwiceStep ==
  ASSUME TypeOK, NoPlayerTwice, BoardStep
  PROVE  NoPlayerTwice'
<1> DEFINE n == Len(taken)
<1>1. taken \in Seq(AnyPick)
  BY TakenIsSequence
<1>2. CASE taken' = <<>>
  BY <1>2 DEF NoPlayerTwice
<1>3. CASE DrafterPicks
  <2>1. PICK id \in Nat \ TakenIds, team \in team_with_pick(pick) :
          taken' = Append(taken, [player_id |-> id, by_team |-> team])
    BY <1>3, Zenon DEF DrafterPicks
  <2>2. /\ n \in Nat /\ DOMAIN taken = 1 .. n /\ DOMAIN taken' = 1 .. n + 1
        /\ \A i \in 1 .. n : taken'[i] = taken[i]
        /\ taken'[n + 1].player_id = id
    <3> DEFINE new == [player_id |-> id, by_team |-> team]
    <3>1. new.player_id = id
      OBVIOUS
    <3>2. taken' = Append(taken, new)
      BY <2>1
    <3> HIDE DEF new
    <3>3. /\ n \in Nat /\ DOMAIN taken = 1 .. n
          /\ DOMAIN Append(taken, new) = 1 .. n + 1
          /\ \A i \in 1 .. n : Append(taken, new)[i] = taken[i]
          /\ Append(taken, new)[n + 1] = new
      BY <1>1, AppendFacts, ZenonT(60)
    <3> QED
      BY <3>1, <3>2, <3>3, Zenon
  <2>3. \A i \in 1 .. n : taken'[i].player_id # id
    BY <2>1, <2>2, Zenon DEF TakenIds
  <2>4. \A i \in 1 .. n + 1 : i \in 1 .. n \/ i = n + 1
    BY <2>2
  <2> QED
    BY <2>2, <2>3, <2>4, Zenon DEF NoPlayerTwice
<1>4. CASE taken # <<>> /\ taken' = Front(taken)
  <2>1. /\ DOMAIN taken' \subseteq DOMAIN taken
        /\ \A i \in DOMAIN taken' : taken'[i] = taken[i]
    BY <1>1, <1>4, FrontFacts
  <2> QED
    BY <2>1, Zenon DEF NoPlayerTwice
<1>5. CASE OnlyTrades
  BY <1>5, Zenon DEF OnlyTrades, NoPlayerTwice
<1> QED
  BY <1>2, <1>3, <1>4, <1>5, Zenon DEF BoardStep

LEMMA PicksFollowOrderStep ==
  ASSUME TypeOK, PicksFollowOrder, BoardStep
  PROVE  PicksFollowOrder'
<1> DEFINE n == Len(taken)
<1>1. taken \in Seq(AnyPick)
  BY TakenIsSequence
<1>2. CASE taken' = <<>>
  BY <1>2 DEF PicksFollowOrder
<1>3. CASE DrafterPicks /\ UNCHANGED <<order, config>>
  <2>1. PICK id \in Nat \ TakenIds, team \in team_with_pick(pick) :
          taken' = Append(taken, [player_id |-> id, by_team |-> team])
    BY <1>3, Zenon DEF DrafterPicks
  <2>2. /\ n \in Nat /\ DOMAIN taken = 1 .. n /\ DOMAIN taken' = 1 .. n + 1
        /\ \A i \in 1 .. n : taken'[i] = taken[i]
        /\ taken'[n + 1].by_team = team
    <3> DEFINE new == [player_id |-> id, by_team |-> team]
    <3>1. new.by_team = team
      OBVIOUS
    <3>2. taken' = Append(taken, new)
      BY <2>1
    <3> HIDE DEF new
    <3>3. /\ n \in Nat /\ DOMAIN taken = 1 .. n
          /\ DOMAIN Append(taken, new) = 1 .. n + 1
          /\ \A i \in 1 .. n : Append(taken, new)[i] = taken[i]
          /\ Append(taken, new)[n + 1] = new
      BY <1>1, AppendFacts, ZenonT(60)
    <3> QED
      BY <3>1, <3>2, <3>3, Zenon
  <2>3. n \in DOMAIN order => team = order[n]
    BY <2>1, Zenon DEF team_with_pick, pick
  <2>4. \A i \in 1 .. n + 1 : i \in 1 .. n \/ i = n + 1
    BY <2>2
  <2>5. (n + 1) - 1 = n
    BY <2>2
  <2> QED
    BY <1>3, <2>2, <2>3, <2>4, <2>5, Zenon DEF PicksFollowOrder
<1>4. CASE taken # <<>> /\ taken' = Front(taken) /\ UNCHANGED <<order, config>>
  <2>1. /\ DOMAIN taken' \subseteq DOMAIN taken
        /\ \A i \in DOMAIN taken' : taken'[i] = taken[i]
    BY <1>1, <1>4, FrontFacts
  <2> QED
    BY <1>4, <2>1, Zenon DEF PicksFollowOrder
<1>5. CASE OnlyTrades
  <2>1. n \in Nat /\ DOMAIN taken = 1 .. n
    BY <1>1
  <2>2. \A i \in DOMAIN taken : i - 1 < pick
    BY <2>1 DEF pick
  <2> QED
    BY <1>5, <2>2, Zenon DEF OnlyTrades, PicksFollowOrder
<1> QED
  BY <1>2, <1>3, <1>4, <1>5, Zenon DEF BoardStep

(* No sequence of picks, benchings, simulations, undos, loads and trades   *)
(* drafts a player twice.                                                  *)
THEOREM NeverTwice == Spec => []NoPlayerTwice
<1>1. Init => NoPlayerTwice
  BY DEF Init, NoPlayerTwice
<1>2. TypeOK /\ NoPlayerTwice /\ [Next]_vars => NoPlayerTwice'
  BY EveryStepIsBoardStep, NoPlayerTwiceStep
<1> QED
  BY <1>1, <1>2, TypeCorrect, PTL DEF Spec

(* Trades included, the team recorded with a pick is the one the order of  *)
(* picks names, so undo and the search charge the same team.               *)
THEOREM PicksFollowTheOrder == Spec => []PicksFollowOrder
<1>1. Init => PicksFollowOrder
  BY DEF Init, PicksFollowOrder
<1>2. TypeOK /\ PicksFollowOrder /\ [Next]_vars => PicksFollowOrder'
  BY EveryStepIsBoardStep, PicksFollowOrderStep
<1> QED
  BY <1>1, <1>2, TypeCorrect, PTL DEF Spec

-----------------------------------------------------------------------------
(* The engine implements the abstract draft.                               *)

LEMMA BoardStepRefines ==
  ASSUME TypeOK, BoardStep
  PROVE  [D!DraftNext]_<<taken, order>>
<1>1. taken \in Seq(AnyPick)
  BY TakenIsSequence
<1>2. CASE taken' = <<>>
  BY <1>2, Zenon DEF D!DraftNext, D!StartOver
<1>3. CASE DrafterPicks /\ UNCHANGED <<order, config>>
  <2>1. PICK id \in Nat \ TakenIds, team \in team_with_pick(pick) :
          taken' = Append(taken, [player_id |-> id, by_team |-> team])
    BY <1>3, Zenon DEF DrafterPicks
  <2> DEFINE new == [player_id |-> id, by_team |-> team]
             T == AnyPick \cup {new}
  <2>2. new.player_id = id /\ new.by_team = team
    OBVIOUS
  <2>3. taken \in Seq(T) /\ new \in T
    BY <1>1
  <2>4. /\ taken' # <<>>
        /\ taken = SubSeq(taken', 1, Len(taken') - 1)
        /\ taken'[Len(taken')] = new
    <3> HIDE DEF T, new
    <3>1. taken' = Append(taken, new)
      BY <2>1, Zenon DEF new
    <3> QED
      BY <2>3, <3>1
  <2>5. id \notin D!Drafted(taken)
    BY <2>1, Zenon DEF TakenIds, D!Drafted
  <2>6. Len(taken) \in DOMAIN order => team = order[Len(taken)]
    BY <2>1, Zenon DEF team_with_pick, pick
  <2>7. D!Select
    BY <1>3, <2>2, <2>4, <2>5, <2>6, Zenon DEF D!Select
  <2> QED
    BY <2>7, Zenon DEF D!DraftNext
<1>4. CASE taken # <<>> /\ taken' = Front(taken) /\ UNCHANGED <<order, config>>
  <2>1. D!TakeBack
    BY <1>4, Zenon DEF D!TakeBack, Front
  <2> QED
    BY <2>1, Zenon DEF D!DraftNext
<1>5. CASE OnlyTrades
  <2>1. D!Trade
    BY <1>5, Zenon DEF OnlyTrades, pick, D!Trade
  <2> QED
    BY <2>1, Zenon DEF D!DraftNext
<1> QED
  BY <1>2, <1>3, <1>4, <1>5, Zenon DEF BoardStep

(* Every command is one of the abstract draft's steps or none: a new       *)
(* draft, a pick by the team whose turn it is, the last pick taken back,   *)
(* a trade of turns to come.                                               *)
THEOREM EngineImplementsDraft == Spec => ImplementsDraft
<1>1. Init => D!DraftInit
  BY Zenon DEF Init, D!DraftInit
<1>2. TypeOK /\ [Next]_vars => [D!DraftNext]_(D!draftVars)
  BY EveryStepIsBoardStep, BoardStepRefines, Zenon DEF D!draftVars
<1> QED
  BY <1>1, <1>2, TypeCorrect, PTL DEF Spec, ImplementsDraft, D!DraftSpec

-----------------------------------------------------------------------------
(* The pool while commands run.                                            *)

PoolStep ==
  \/ UNCHANGED poolVars
  \/ /\ taken' = <<>>
     /\ players' = <<>>
     /\ slot_markers' = [s \in DOMAIN slot_markers |-> 0]
  \/ \E file \in PoolFiles : load_players(config, file) /\ taken' = <<>>
  \/ \E file \in PoolFiles : load_players_Fails(config, file)

(* Only the start of a process and the command that loads a pool change    *)
(* the pool, and a load that succeeds starts a new draft.                  *)
LEMMA EveryStepIsPoolStep ==
  ASSUME [Next]_vars
  PROVE  PoolStep
<1>1. CASE NewDraft
  <2>1. ASSUME NEW file \in ConfigFiles, load_draft_config(file) PROVE UNCHANGED poolVars
    BY <2>1, Zenon DEF load_draft_config
  <2>2. ASSUME NEW file \in SaveFiles, load(file) PROVE UNCHANGED poolVars
    BY <2>2, Zenon DEF load
  <2>3. ASSUME NEW file \in PoolFiles, load_player_pool(file) PROVE PoolStep
    BY <2>3, Zenon DEF load_player_pool, init_draftstate, PoolStep
  <2>4. ASSUME Restart PROVE PoolStep
    BY <2>4, Zenon DEF Restart, PoolStep
  <2> QED
    BY <1>1, <2>1, <2>2, <2>3, <2>4, Zenon DEF NewDraft, PoolStep
<1>2. CASE Bench \/ Save \/ undo_pick
  BY <1>2, Zenon DEF Bench, bench, Save, save, save_CutShort, undo_pick, PoolStep
<1>3. CASE OtherCommand
  <2>1. ASSUME NEW name \in PlayerNames,
               make_pick(name) \/ make_pick_Crashes(name) \/ bench_Crashes(name)
        PROVE  UNCHANGED poolVars
    BY <2>1, Zenon DEF make_pick, make_pick_Crashes, bench_Crashes, Crash
  <2>2. ASSUME NEW p, NEW team, give_pick(p, team) PROVE UNCHANGED poolVars
    BY <2>2, Zenon DEF give_pick
  <2>3. ASSUME NEW t, set_think_time(t) PROVE UNCHANGED poolVars
    BY <2>3, Zenon DEF set_think_time
  <2>4. ASSUME think_pick_Crashes \/ sim_draft \/ do_exit PROVE UNCHANGED poolVars
    BY <2>4, Zenon DEF think_pick_Crashes, sim_draft, do_exit, Crash
  <2>5. ASSUME NEW file \in PoolFiles, load_player_pool_Fails(file) PROVE PoolStep
    BY <2>5, Zenon DEF load_player_pool_Fails, PoolStep
  <2> QED
    BY <1>3, <2>1, <2>2, <2>3, <2>4, <2>5, Zenon DEF OtherCommand, PoolStep
<1>4. CASE LoopStep
  <2>1. UNCHANGED poolVars
    BY <1>4, Zenon DEF LoopStep, UndoReplay, UndoRunsOff, UndoReturns, LoadOne, LoadRunsOff,
                       LoadReturns, SimPick, SimCrashes, SimReturns, Crash
  <2> QED
    BY <2>1, Zenon DEF PoolStep
<1>5. CASE UNCHANGED vars
  BY <1>5, Zenon DEF vars, poolVars, PoolStep
<1> QED
  BY <1>1, <1>2, <1>3, <1>4, <1>5, Zenon DEF Next

LEMMA PoolTypeStep ==
  ASSUME PoolTypeOK, PoolStep
  PROVE  PoolTypeOK'
<1>1. CASE UNCHANGED poolVars
  BY <1>1, Zenon DEF poolVars, PoolTypeOK
<1>2. CASE players' = <<>> /\ slot_markers' = [s \in DOMAIN slot_markers |-> 0]
  BY <1>2, MaxPlayersAssumption DEF PoolTypeOK
<1>3. ASSUME NEW file \in PoolFiles, load_players(config, file) PROVE PoolTypeOK'
  BY <1>3, LoadedPool, Zenon
<1>4. ASSUME NEW file \in PoolFiles, load_players_Fails(config, file) PROVE PoolTypeOK'
  BY <1>4, FailedLoadType, Zenon
<1> QED
  BY <1>1, <1>2, <1>3, <1>4, Zenon DEF PoolStep

(* Through every command, the pool overruns its array by one at most.      *)
THEOREM EnginePoolTypeCorrect == Spec => []PoolTypeOK
<1>1. Init => PoolTypeOK
  BY MaxPlayersAssumption DEF Init, PoolInit, PoolTypeOK
<1>2. PoolTypeOK /\ [Next]_vars => PoolTypeOK'
  BY EveryStepIsPoolStep, PoolTypeStep
<1> QED
  BY <1>1, <1>2, PTL DEF Spec

(* A step that keeps picks keeps the players their ids stand for: a load   *)
(* that fails leaves records behind the players, and one that succeeds     *)
(* starts a new draft.                                                     *)
LEMMA IdKeepsPlayer ==
  ASSUME PoolTypeOK, PoolStep, NEW id \in Ids, taken' # <<>>
  PROVE  id \in Ids' /\ players'[id + 1] = players[id + 1]
<1>1. players \in Seq(PlayerRecord)
  BY Zenon DEF PoolTypeOK
<1>2. id + 1 \in 1 .. Len(players) /\ id \in Nat /\ Len(players) \in Nat
  BY <1>1 DEF Ids, number_of_players
<1>3. CASE UNCHANGED poolVars
  BY <1>3, Zenon DEF poolVars, Ids, number_of_players
<1>4. ASSUME NEW file \in PoolFiles, load_players_Fails(config, file)
      PROVE  id \in Ids' /\ players'[id + 1] = players[id + 1]
  <2>1. /\ PoolTypeOK'
        /\ Len(players) <= Len(players')
        /\ players'[id + 1] = players[id + 1]
    BY <1>2, <1>4, FailedLoadType, Zenon
  <2>2. players' \in Seq(PlayerRecord)
    BY <2>1, Zenon DEF PoolTypeOK
  <2>3. id \in Ids'
    BY <1>2, <2>1, <2>2 DEF Ids, number_of_players
  <2> QED
    BY <2>1, <2>3
<1> QED
  BY <1>3, <1>4, Zenon DEF PoolStep

(* While a draft goes on, the id of a drafted player stands for the same   *)
(* player.                                                                 *)
THEOREM IdsStandForPlayers == Spec => IdsKeepTheirPlayer
<1> DEFINE Keep ==
      \A i \in DOMAIN taken \cap DOMAIN taken' :
        taken'[i].player_id = taken[i].player_id /\ taken[i].player_id \in Ids =>
          get_player_by_id(taken[i].player_id)' = get_player_by_id(taken[i].player_id)
<1>1. PoolTypeOK /\ [Next]_vars => Keep
  <2>1. SUFFICES ASSUME PoolTypeOK, [Next]_vars,
                        NEW i \in DOMAIN taken \cap DOMAIN taken',
                        taken'[i].player_id = taken[i].player_id,
                        taken[i].player_id \in Ids
                 PROVE  get_player_by_id(taken[i].player_id)'
                          = get_player_by_id(taken[i].player_id)
    BY Zenon
  <2>2. PoolStep
    BY <2>1, EveryStepIsPoolStep
  <2>3. PICK id : id = taken[i].player_id
    OBVIOUS
  <2>4. taken' # <<>>
    BY <2>1
  <2>5. id \in Ids' /\ players'[id + 1] = players[id + 1]
    BY <2>1, <2>2, <2>3, <2>4, IdKeepsPlayer, Zenon
  <2> QED
    BY <2>1, <2>3, <2>5, Zenon DEF get_player_by_id
<1>2. PoolTypeOK /\ [Next]_vars => [Keep]_vars
  BY <1>1, Zenon
<1> QED
  BY <1>2, EnginePoolTypeCorrect, PTL DEF Spec, IdsKeepTheirPlayer
=============================================================================
