----------------------------- MODULE DraftEngine -----------------------------
(***************************************************************************)
(* The command loop of fDraft (src/control.c, src/main.c): a single thread *)
(* that reads commands and applies them to the draft.  A command that does *)
(* one assignment after another is one action.  The commands that loop     *)
(* over the picks (undo, load, sim) are a first step at the prompt, one    *)
(* step per iteration, and a last step that returns to the prompt.         *)
(*                                                                         *)
(* The arguments of a command are chosen freely; a command that reports an *)
(* error and changes nothing is a stuttering step and has no action.       *)
(***************************************************************************)
EXTENDS Drafter

CONSTANTS
  SaveFiles,    \* the files a user can save a draft to
  ThinkTimes,   \* the integers a user can give to set_think_time
  NoConfig,     \* engine->config is NULL
  NoFile        \* no file is being loaded; a save file that does not exist

ASSUME SaveFilesAssumption  == NoFile \notin SaveFiles
ASSUME ThinkTimesAssumption == ThinkTimes \subseteq Int
ASSUME NoConfigAssumption   ==
  \A file \in ConfigFiles : \A g \in UnwrittenValues(file) : NoConfig # load_config(file, g)
ASSUME NoFileAssumption     == NoFile \notin Seq(Nat)

VARIABLES
  pc,               \* what the process is doing
  config,           \* engine->config
  order,            \* SNAKE_DRAFT_PICKS: the team of each pick, trades included
  taken,            \* state->taken, up to state->pick
  still_required,   \* state->still_required
  think_time,       \* engine->think_time
  cursor,           \* how far the loop of undo_pick or load has come
  open_file,        \* the file load is reading
  disk              \* the save files: sequences of player ids

draftStateVars == <<taken, still_required>>
vars == <<pc, config, order, taken, still_required, think_time, cursor, open_file,
          disk, players, slot_markers>>

pick == Len(taken)

Ready == pc = "prompt" /\ config # NoConfig

n_picks == get_number_of_picks(config)

TakenIds == { taken[i].player_id : i \in DOMAIN taken }

is_taken(id) == \E i \in DOMAIN taken : taken[i].player_id = id

(* assign_pick and team_with_pick.  Past the last pick the array holds     *)
(* memory that was never written: some team, or an index that ends the     *)
(* process when it is used (see PastTheEnd).                               *)
team_with_pick(p) == IF p \in DOMAIN order THEN {order[p]} ELSE Teams(config)

PastTheEnd(p) == p \notin DOMAIN order

Crash == /\ pc' = "crashed"
         /\ UNCHANGED <<config, order, draftStateVars, think_time, cursor, open_file,
                        disk, poolVars>>

init_draftstate(c) ==
  /\ taken' = <<>>
  /\ still_required' = InitialRequirements(c)

DraftPlayer_NextTeam(id, position) ==                  \* mutant: team after pick++
  \E team \in team_with_pick(pick + 1) :
    /\ still_required' = [still_required EXCEPT ![team] = fill_slot(config, @, position)]
    /\ taken' = Append(taken, [player_id |-> id, by_team |-> team])

(* The body make_pick, load and sim_draft share: charge the player's slot, *)
(* record the player as taken by the team, advance the pick.               *)
DraftPlayer(id, position) ==
  \E team \in team_with_pick(pick) :
    /\ still_required' = [still_required EXCEPT ![team] = fill_slot(config, @, position)]
    /\ taken' = Append(taken, [player_id |-> id, by_team |-> team])

PositionOf(id) == get_player_by_id(id).position

-----------------------------------------------------------------------------
(* The process starts.                                                     *)
Init ==
  /\ pc = "prompt"
  /\ config = NoConfig
  /\ order = <<>>
  /\ taken = <<>>
  /\ still_required = <<>>
  /\ think_time = 10
  /\ cursor = 0
  /\ open_file = NoFile
  /\ disk = [f \in SaveFiles |-> NoFile]
  /\ PoolInit

do_exit ==
  /\ pc = "prompt"
  /\ pc' = "exited"
  /\ UNCHANGED <<config, order, draftStateVars, think_time, cursor, open_file, disk,
                 poolVars>>

(* Save files survive the process, nothing else does.                      *)
Restart ==
  /\ pc \in {"exited", "crashed"}
  /\ pc' = "prompt"
  /\ config' = NoConfig
  /\ order' = <<>>
  /\ taken' = <<>>
  /\ still_required' = <<>>
  /\ think_time' = 10
  /\ cursor' = 0
  /\ open_file' = NoFile
  /\ players' = <<>>
  /\ slot_markers' = [s \in DOMAIN slot_markers |-> 0]
  /\ UNCHANGED disk

-----------------------------------------------------------------------------
(* Commands that start a new draft.                                        *)

load_draft_config(file) ==
  /\ pc = "prompt"
  /\ Loadable(file)
  /\ \E unwritten \in UnwrittenValues(file) :
       LET c == load_config(file, unwritten) IN
       /\ config' = c
       /\ order' = build_snake_order(get_number_of_picks(c), c.num_teams)
       /\ init_draftstate(c)
  /\ UNCHANGED <<pc, think_time, cursor, open_file, disk, poolVars>>

load_player_pool_NoReset(file) ==                      \* mutant: draft kept
  /\ Ready
  /\ load_players(config, file)
  /\ UNCHANGED <<pc, config, order, draftStateVars, think_time, cursor, open_file, disk>>

load_player_pool(file) ==
  /\ Ready
  /\ load_players(config, file)
  /\ init_draftstate(config)
  /\ UNCHANGED <<pc, config, order, think_time, cursor, open_file, disk>>

(* The pool has changed, the draft has not.                                *)
load_player_pool_Fails(file) ==
  /\ Ready
  /\ load_players_Fails(config, file)
  /\ UNCHANGED <<pc, config, order, draftStateVars, think_time, cursor, open_file, disk>>

load_NoReset(file) ==                                  \* mutant: draft kept
  /\ Ready
  /\ disk[file] # NoFile
  /\ pc' = "load"
  /\ open_file' = file
  /\ UNCHANGED <<config, order, draftStateVars, think_time, cursor, disk, poolVars>>

load(file) ==
  /\ Ready
  /\ disk[file] # NoFile
  /\ init_draftstate(config)
  /\ pc' = "load"
  /\ open_file' = file
  /\ UNCHANGED <<config, order, think_time, cursor, disk, poolVars>>

-----------------------------------------------------------------------------
(* load's loop: the ids of the file, replayed as picks.  The draft may     *)
(* run past its last pick, where the rules of make_pick apply.             *)

LoadAtEnd == cursor = Len(disk[open_file])

AskedId == disk[open_file][cursor + 1]

(* The record at that id.  Past the players it is a zero record: the slot  *)
(* charged is the first one, the player drafted the one of id 0, whose     *)
(* position may be another.                                                *)
LoadedId       == IdOfRecord(AskedId)
LoadedPosition == PositionOf(AskedId)

LoadOne_NotCharged ==                                  \* mutant: no fill_slot
  /\ pc = "load"
  /\ ~LoadAtEnd
  /\ ~is_taken(LoadedId)
  /\ \E team \in team_with_pick(pick) :
       taken' = Append(taken, [player_id |-> LoadedId, by_team |-> team])
  /\ cursor' = cursor + 1
  /\ UNCHANGED <<pc, config, order, still_required, think_time, open_file, disk, poolVars>>

LoadOne_TakenIgnored ==                                \* mutant: no is_taken
  /\ pc = "load"
  /\ ~LoadAtEnd
  /\ DraftPlayer(LoadedId, LoadedPosition)
  /\ cursor' = cursor + 1
  /\ UNCHANGED <<pc, config, order, think_time, open_file, disk, poolVars>>

LoadOne ==
  /\ pc = "load"
  /\ ~LoadAtEnd
  /\ ~is_taken(LoadedId)
  /\ DraftPlayer(LoadedId, LoadedPosition)
  /\ cursor' = cursor + 1
  /\ UNCHANGED <<pc, config, order, think_time, open_file, disk, poolVars>>

LoadRunsOff ==
  /\ pc = "load"
  /\ ~LoadAtEnd
  /\ ~is_taken(LoadedId)
  /\ PastTheEnd(pick)
  /\ Crash

(* At the first id already drafted; the picks replayed so far stay.        *)
LoadRejected == ~LoadAtEnd /\ is_taken(LoadedId)

LoadReturns ==
  /\ pc = "load"
  /\ LoadAtEnd \/ LoadRejected
  /\ pc' = "prompt"
  /\ cursor' = 0
  /\ open_file' = NoFile
  /\ UNCHANGED <<config, order, draftStateVars, think_time, disk, poolVars>>

-----------------------------------------------------------------------------
(* Picks.                                                                  *)

make_pick(name) ==
  LET id == get_player_by_name(name) IN
  /\ Ready
  /\ pick <= n_picks
  /\ ~LookupFaults(name)
  /\ id # NoPlayer
  /\ ~is_taken(id)
  /\ DraftPlayer(id, PositionOf(id))
  /\ UNCHANGED <<pc, config, order, think_time, cursor, open_file, disk, poolVars>>

(* The lookup compares with a NULL name, or the team of a pick past the    *)
(* last one is an index out of range.                                      *)
make_pick_Crashes(name) ==
  /\ Ready
  /\ pick <= n_picks
  /\ \/ LookupFaults(name)
     \/ LET id == get_player_by_name(name) IN
          id # NoPlayer /\ ~is_taken(id) /\ PastTheEnd(pick)
  /\ Crash

bench(name) ==
  LET id == get_player_by_name(name) IN
  /\ Ready
  /\ pick < n_picks
  /\ ~LookupFaults(name)
  /\ id # NoPlayer
  /\ ~is_taken(id)
  /\ \E team \in team_with_pick(pick) :
       taken' = Append(taken, [player_id |-> id, by_team |-> team])
  /\ UNCHANGED <<pc, config, order, still_required, think_time, cursor, open_file, disk,
                 poolVars>>

bench_Crashes(name) ==
  /\ Ready
  /\ pick < n_picks
  /\ LookupFaults(name)
  /\ Crash

give_pick_AnyTeam(pick_num, team_id) ==                \* mutant: ">" num_teams
  /\ Ready
  /\ pick_num \in pick .. n_picks - 1
  /\ team_id \in 0 .. config.num_teams
  /\ order' = [order EXCEPT ![pick_num] = team_id]
  /\ UNCHANGED <<pc, config, draftStateVars, think_time, cursor, open_file, disk, poolVars>>

give_pick_PickMade(pick_num, team_id) ==               \* mutant: "<" pick - 1
  /\ Ready
  /\ pick_num \in pick - 1 .. n_picks - 1
  /\ team_id \in Teams(config)
  /\ order' = [order EXCEPT ![pick_num] = team_id]
  /\ UNCHANGED <<pc, config, draftStateVars, think_time, cursor, open_file, disk, poolVars>>

give_pick(pick_num, team_id) ==
  /\ Ready
  /\ pick_num \in pick .. n_picks - 1
  /\ team_id \in Teams(config)
  /\ order' = [order EXCEPT ![pick_num] = team_id]
  /\ UNCHANGED <<pc, config, draftStateVars, think_time, cursor, open_file, disk, poolVars>>

-----------------------------------------------------------------------------
(***************************************************************************)
(* undo_pick.  The reset reads the num_required of the slot with the       *)
(* team's index: of another slot than the one it resets, and of an element *)
(* of the slots array never written when there are more teams than slots.  *)
(* The picks that are left are then replayed, benched players included.    *)
(***************************************************************************)
RequiredAtIndex(c, team) ==
  IF team < c.num_slots THEN c.num_required[team] ELSE c.unwritten[team]

ResetRequirements(c) ==
  [team \in Teams(c) |-> [s \in Slots(c) |-> RequiredAtIndex(c, team)]]

undo_pick ==
  /\ Ready
  /\ pick > 0
  /\ still_required' = ResetRequirements(config)
  /\ taken' = Front(taken)
  /\ pc' = "undo"
  /\ UNCHANGED <<config, order, think_time, cursor, open_file, disk, poolVars>>

UndoReplay_NoAdvance ==                                \* mutant: no "i++"
  /\ pc = "undo"
  /\ cursor < pick
  /\ \E team \in team_with_pick(cursor) :
       still_required' =
         [still_required EXCEPT ![team] =
            fill_slot(config, @, PositionOf(taken[cursor + 1].player_id))]
  /\ UNCHANGED <<pc, config, order, taken, think_time, cursor, open_file, disk, poolVars>>

UndoReplay ==
  /\ pc = "undo"
  /\ cursor < pick
  /\ \E team \in team_with_pick(cursor) :
       still_required' =
         [still_required EXCEPT ![team] =
            fill_slot(config, @, PositionOf(taken[cursor + 1].player_id))]
  /\ cursor' = cursor + 1
  /\ UNCHANGED <<pc, config, order, taken, think_time, open_file, disk, poolVars>>

UndoRunsOff ==
  /\ pc = "undo"
  /\ cursor < pick
  /\ PastTheEnd(cursor)
  /\ Crash

UndoReturns_OneEarly ==                                \* mutant: "i < pick - 1"
  /\ pc = "undo"
  /\ cursor >= pick - 1
  /\ pc' = "prompt"
  /\ cursor' = 0
  /\ UNCHANGED <<config, order, draftStateVars, think_time, open_file, disk, poolVars>>

UndoReturns ==
  /\ pc = "undo"
  /\ cursor >= pick
  /\ pc' = "prompt"
  /\ cursor' = 0
  /\ UNCHANGED <<config, order, draftStateVars, think_time, open_file, disk, poolVars>>

-----------------------------------------------------------------------------
(* The search.  think_pick prints a player and changes nothing, unless the *)
(* search ends the process.  With the draft full it finds nothing to do.   *)

BestPick == calculate_best_pick(config, order, taken, think_time)

think_pick_Crashes ==
  /\ Ready
  /\ pick < n_picks
  /\ BestPick.abort
  /\ Crash

sim_draft ==
  /\ Ready
  /\ pc' = "sim"
  /\ UNCHANGED <<config, order, draftStateVars, think_time, cursor, open_file, disk,
                 poolVars>>

SimPick ==
  /\ pc = "sim"
  /\ pick < n_picks
  /\ \E id \in BestPick.players \ {NoPlayer} : DraftPlayer(id, PositionOf(id))
  /\ UNCHANGED <<pc, config, order, think_time, cursor, open_file, disk, poolVars>>

(* A NULL result is dereferenced.                                          *)
SimCrashes ==
  /\ pc = "sim"
  /\ pick < n_picks
  /\ BestPick.abort \/ NoPlayer \in BestPick.players
  /\ Crash

SimReturns ==
  /\ pc = "sim"
  /\ pick >= n_picks
  /\ pc' = "prompt"
  /\ UNCHANGED <<config, order, draftStateVars, think_time, cursor, open_file, disk,
                 poolVars>>

-----------------------------------------------------------------------------
(* The remaining commands.                                                 *)

set_think_time(t) ==
  /\ Ready
  /\ t > 0
  /\ think_time' = t
  /\ UNCHANGED <<pc, config, order, draftStateVars, cursor, open_file, disk, poolVars>>

(* The file holds the ids of the players drafted, and neither their teams, *)
(* nor whether they were benched, nor the trades.                          *)
SavedIds == [i \in DOMAIN taken |-> taken[i].player_id]

save(file) ==
  /\ Ready
  /\ disk' = [disk EXCEPT ![file] = SavedIds]
  /\ UNCHANGED <<pc, config, order, draftStateVars, think_time, cursor, open_file,
                 poolVars>>

(* The text of a number cut behind one of its digits; ids have three.      *)
LeadingDigits(n) == { n \div d : d \in { p \in {1, 10, 100} : p = 1 \/ p <= n } }

(* Opening the file has emptied it, and the writes are asked for no        *)
(* result: on a disk that is full save succeeds with the text cut in any   *)
(* of its lines, and so it is left when the process is killed.             *)
save_CutShort(file) ==
  /\ Ready
  /\ \E k \in DOMAIN taken :
       LET lines == SubSeq(SavedIds, 1, k - 1) IN
       \/ disk' = [disk EXCEPT ![file] = lines]
       \/ \E n \in LeadingDigits(SavedIds[k]) : disk' = [disk EXCEPT ![file] = Append(lines, n)]
  /\ pc' \in {"prompt", "crashed"}
  /\ UNCHANGED <<config, order, draftStateVars, think_time, cursor, open_file, poolVars>>

-----------------------------------------------------------------------------

NewDraft ==
  \/ \E file \in ConfigFiles : load_draft_config(file)
  \/ \E file \in PoolFiles : load_player_pool(file)
  \/ \E file \in SaveFiles : load(file)
  \/ Restart

Bench == \E name \in PlayerNames : bench(name)

Save == \E file \in SaveFiles : save(file) \/ save_CutShort(file)

OtherCommand ==
  \/ \E name \in PlayerNames :
       make_pick(name) \/ make_pick_Crashes(name) \/ bench_Crashes(name)
  \/ \E p \in DOMAIN order : \E team \in 0 .. config.num_teams : give_pick(p, team)
  \/ \E file \in PoolFiles : load_player_pool_Fails(file)
  \/ \E t \in ThinkTimes : set_think_time(t)
  \/ think_pick_Crashes
  \/ sim_draft
  \/ do_exit

(* One iteration, or the end, of the loop of a command.                    *)
LoopStep ==
  \/ UndoReplay \/ UndoRunsOff \/ UndoReturns
  \/ LoadOne \/ LoadRunsOff \/ LoadReturns
  \/ SimPick \/ SimCrashes \/ SimReturns

Next == NewDraft \/ Bench \/ Save \/ undo_pick \/ OtherCommand \/ LoopStep

(***************************************************************************)
(* The process keeps executing a command it has begun: its thread is the   *)
(* only one and waits for nothing inside a command.  Nothing is assumed of *)
(* the user, who may never enter another one.                              *)
(***************************************************************************)
Spec == Init /\ [][Next]_vars /\ WF_vars(LoopStep)

-----------------------------------------------------------------------------
(* Properties.                                                             *)

ConfigsOf(file) == { load_config(file, unwritten) : unwritten \in UnwrittenValues(file) }

Pick(c) == [player_id : Nat, by_team : Teams(c)]

(***************************************************************************)
(* Types.  Besides the shapes: there is a draft exactly when there is a    *)
(* configuration, its order has one team of the configuration for each     *)
(* pick, and every team has a count for each slot, as the array accesses   *)
(* of control.c and drafter.c take for granted.                            *)
(***************************************************************************)
DraftTypeOK ==
  /\ \E file \in ConfigFiles : Loadable(file) /\ config \in ConfigsOf(file)
  /\ order \in [0 .. n_picks - 1 -> Teams(config)]
  /\ taken \in Seq(Pick(config))
  /\ still_required \in [Teams(config) -> [Slots(config) -> Int]]

NoDraft ==
  /\ config = NoConfig
  /\ order = <<>>
  /\ taken = <<>>
  /\ still_required = <<>>
  /\ pc \notin {"undo", "load", "sim"}

TypeOK ==
  /\ pc \in {"prompt", "undo", "load", "sim", "exited", "crashed"}
  /\ NoDraft \/ DraftTypeOK
  /\ think_time \in Nat \ {0}
  /\ cursor \in Nat
  /\ open_file \in SaveFiles \cup {NoFile}
  /\ pc = "load" => open_file \in SaveFiles /\ disk[open_file] # NoFile
  /\ disk \in [SaveFiles -> Seq(Nat) \cup {NoFile}]

(* No player is drafted twice, whichever of pick, bench, sim and load made *)
(* the picks and whatever was undone, loaded or traded in between.         *)
NoPlayerTwice ==
  \A i, j \in DOMAIN taken : taken[i].player_id = taken[j].player_id => i = j

(* Every pick made is recorded for the team the order of picks names, so a *)
(* replay by undo (which asks the order) charges the team that the search  *)
(* (which asks the pick) charges.                                          *)
PicksFollowOrder ==
  \A i \in DOMAIN taken : i - 1 \in DOMAIN order => taken[i].by_team = order[i - 1]

(* While a draft goes on, the id of a drafted player stands for the same   *)
(* player: no load of a pool renumbers players and keeps the picks.        *)
IdsKeepTheirPlayer ==
  [][\A i \in DOMAIN taken \cap DOMAIN taken' :
       taken'[i].player_id = taken[i].player_id /\ taken[i].player_id \in Ids =>
         get_player_by_id(taken[i].player_id)' = get_player_by_id(taken[i].player_id)]_vars

(* Every command that loops over picks returns to the prompt or ends the   *)
(* process; none loops forever.                                            *)
CommandsFinish == pc \in {"undo", "load", "sim"} ~> pc \in {"prompt", "crashed"}

(* The engine implements the draft it promises (see Draft).                *)
D == INSTANCE Draft WITH board <- taken, turns <- order

ImplementsDraft == D!DraftSpec

-----------------------------------------------------------------------------
(* What the documentation says and the code does not do.                   *)

(* README.md:18: undo resets the draft state to the previous pick: with no *)
(* player benched the requirements are those of the picks that are left.   *)
UndoRestores ==
  [][pc = "undo" /\ pc' = "prompt" =>
       still_required' = create_search_context(config, taken)]_vars
=============================================================================
