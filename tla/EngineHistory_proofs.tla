------------------------ MODULE EngineHistory_proofs ------------------------
(***************************************************************************)
(* Proofs about EngineHistory, for every set of configurations, pools,     *)
(* names and save files: the books control.c keeps pick by pick are those  *)
(* drafter.c rebuilds from the picks, a team's open slots are those its    *)
(* picks leave open, a draft that was saved resumes when it is loaded, and *)
(* sim completes a draft that was not traded.                              *)
(***************************************************************************)
EXTENDS EngineHistory, DraftEngine_proofs

-----------------------------------------------------------------------------
(* Steps, as far as the books are concerned.                               *)

LEMMA HistoryIsEngine ==
  ASSUME [HNext]_allVars
  PROVE  [Next]_vars
<1>1. RememberNewDraft => NewDraft
  BY Zenon DEF RememberNewDraft
<1>2. RememberBench => Bench
  BY Zenon DEF RememberBench
<1>3. RememberUndo => undo_pick
  BY Zenon DEF RememberUndo
<1>4. RememberSave => Save
  BY Zenon DEF RememberSave, Save
<1>5. RememberLoopStep => LoopStep
  BY Zenon DEF RememberLoopStep
<1>6. UNCHANGED allVars => UNCHANGED vars
  BY Zenon DEF allVars
<1> QED
  BY <1>1, <1>2, <1>3, <1>4, <1>5, <1>6, Zenon DEF HNext, Next

(* A new draft, or none.                                                   *)
Fresh ==
  /\ taken' = <<>>
  /\ benched' = {}
  /\ ~undone'
  /\ ~unknown'
  /\ config' # NoConfig => still_required' = InitialRequirements(config')
  /\ \/ cursor' = 0
     \/ UNCHANGED <<pc, cursor>>
     \/ pc' = "load"
  /\ pc' # "undo"

(* A player drafted by pick, load or sim.                                  *)
Drafted ==
  /\ pc # "undo"
  /\ \E id \in Nat : \E position :
       /\ DraftPlayer(id, position)
       /\ unknown' \/ (id \in Ids /\ position = PositionOf(id))
       /\ id \in Ids \/ id = 0
  /\ unknown => unknown'
  /\ pc = "load" \/ UNCHANGED cursor
  /\ UNCHANGED <<pc, config, order, players, benched, undone>>

Benched ==
  /\ pc = "prompt"
  /\ \E id \in Ids, team \in team_with_pick(pick) :
       taken' = Append(taken, [player_id |-> id, by_team |-> team])
  /\ benched' = benched \cup {pick}
  /\ UNCHANGED <<pc, cursor, config, order, players, still_required, undone, unknown>>

UndoBegins ==
  /\ undo_pick
  /\ benched' = benched \ {pick - 1}
  /\ undone'
  /\ UNCHANGED unknown

UndoContinues ==
  /\ UndoReplay
  /\ unknown => unknown'
  /\ UNCHANGED <<benched, undone>>

(* The picks and the books stay; a load of a pool may fail.                *)
Kept ==
  /\ UNCHANGED <<config, taken, still_required, benched, undone>>
  /\ unknown => unknown'
  /\ PoolStep
  /\ \/ UNCHANGED <<pc, cursor>>
     \/ /\ pc # "undo" /\ pc' # "undo"
        /\ \/ cursor' = 0
           \/ pc' \notin {"prompt", "sim"}
           \/ pc \in {"prompt", "sim"} /\ UNCHANGED cursor
     \/ pc = "undo" /\ pc' = "crashed" /\ PastTheEnd(cursor) /\ cursor < pick
     \/ UndoReturns

BooksStep == Fresh \/ Drafted \/ Benched \/ UndoBegins \/ UndoContinues \/ Kept

LEMMA CrashKeeps ==
  ASSUME Crash, unknown => unknown', UNCHANGED <<benched, undone>>,
         pc = "undo" => PastTheEnd(cursor) /\ cursor < pick
  PROVE  Kept
<1>1. PoolStep
  BY Zenon DEF Crash, poolVars, PoolStep
<1> QED
  BY <1>1, Zenon DEF Crash, Kept, draftStateVars

LEMMA NewDraftIsFresh ==
  ASSUME RememberNewDraft
  PROVE  Fresh
<1>1. /\ benched' = {}
      /\ ~undone'
      /\ ~unknown'
  BY Zenon DEF RememberNewDraft
<1>2. ASSUME NEW file \in ConfigFiles, load_draft_config(file) PROVE Fresh
  <2>1. PICK g \in UnwrittenValues(file) :
          LET c == load_config(file, g) IN config' = c /\ init_draftstate(c)
    BY <1>2, Zenon DEF load_draft_config
  <2>2. taken' = <<>> /\ still_required' = InitialRequirements(config')
    BY <2>1, Zenon DEF init_draftstate
  <2>3. UNCHANGED <<pc, cursor>> /\ pc' # "undo"
    BY <1>2, Zenon DEF load_draft_config
  <2> QED
    BY <1>1, <2>2, <2>3, Zenon DEF Fresh
<1>3. ASSUME NEW file \in PoolFiles, load_player_pool(file) PROVE Fresh
  BY <1>1, <1>3, Zenon DEF load_player_pool, init_draftstate, Fresh, Ready
<1>4. ASSUME NEW file \in SaveFiles, load(file) PROVE Fresh
  BY <1>1, <1>4, Zenon DEF load, init_draftstate, Fresh, Ready
<1>5. ASSUME Restart PROVE Fresh
  BY <1>1, <1>5, Zenon DEF Restart, Fresh
<1> QED
  BY <1>2, <1>3, <1>4, <1>5, Zenon DEF RememberNewDraft, NewDraft

LEMMA BenchIsBenched ==
  ASSUME RememberBench
  PROVE  Benched
<1>1. PICK name \in PlayerNames : bench(name)
  BY Zenon DEF RememberBench, Bench
<1>2. PICK id : id = get_player_by_name(name)
  OBVIOUS
<1>3. id \in Ids
  BY <1>1, <1>2, PlayerByNameIsInPool, Zenon DEF bench
<1> QED
  BY <1>1, <1>2, <1>3, Zenon DEF RememberBench, bench, Ready, Benched, poolVars

LEMMA CommandKeepsOrDrafts ==
  ASSUME OtherCommand, UNCHANGED memory
  PROVE  Drafted \/ Kept
<1>1. UNCHANGED <<benched, undone, unknown>>
  BY Zenon DEF memory
<1>2. ASSUME NEW name \in PlayerNames, make_pick(name) PROVE Drafted
  <2>1. PICK id : id = get_player_by_name(name)
    OBVIOUS
  <2>2. id \in Ids
    BY <1>2, <2>1, PlayerByNameIsInPool, Zenon DEF make_pick
  <2>3. id \in Nat /\ DraftPlayer(id, PositionOf(id))
    BY <1>2, <2>1, <2>2, IdsAreNaturals, Zenon DEF make_pick
  <2> QED
    BY <1>1, <1>2, <2>2, <2>3, Zenon DEF make_pick, Ready, Drafted, poolVars
<1>3. ASSUME NEW name \in PlayerNames, make_pick_Crashes(name) \/ bench_Crashes(name)
      PROVE  Kept
  <2>1. Crash /\ pc = "prompt"
    BY <1>3, Zenon DEF make_pick_Crashes, bench_Crashes, Ready
  <2> QED
    BY <1>1, <2>1, CrashKeeps, Zenon
<1>4. ASSUME NEW p, NEW team, give_pick(p, team) PROVE Kept
  BY <1>1, <1>4, Zenon DEF give_pick, draftStateVars, Kept, PoolStep
<1>5. ASSUME NEW file \in PoolFiles, load_player_pool_Fails(file) PROVE Kept
  BY <1>1, <1>5, Zenon DEF load_player_pool_Fails, draftStateVars, Kept, PoolStep
<1>6. ASSUME NEW t, set_think_time(t) PROVE Kept
  BY <1>1, <1>6, Zenon DEF set_think_time, draftStateVars, Kept, PoolStep
<1>7. ASSUME think_pick_Crashes PROVE Kept
  <2>1. Crash /\ pc = "prompt"
    BY <1>7, Zenon DEF think_pick_Crashes, Ready
  <2> QED
    BY <1>1, <2>1, CrashKeeps, Zenon
<1>8. ASSUME sim_draft \/ do_exit PROVE Kept
  BY <1>1, <1>8, Zenon DEF sim_draft, do_exit, Ready, draftStateVars, Kept, PoolStep
<1> QED
  BY <1>2, <1>3, <1>4, <1>5, <1>6, <1>7, <1>8, Zenon DEF OtherCommand

(* What a loop of picks drafts is in the pool, at its position there, or   *)
(* remembered not to be.                                                   *)
LEMMA LoopDrafts ==
  ASSUME TypeOK, RememberLoopStep, NEW id \in Nat, NEW position, id \in Ids \/ id = 0,
         DraftPlayer(id, position),
         \/ id \in Ids /\ position = PositionOf(id)
         \/ pc = "load" /\ AskedId \notin Ids,
         pc # "undo", pc = "load" \/ UNCHANGED cursor,
         UNCHANGED <<pc, config, order, players>>
  PROVE  Drafted
<1>1. PICK team : taken' = Append(taken, [player_id |-> id, by_team |-> team])
  BY Zenon DEF DraftPlayer
<1>2. PICK new : new = [player_id |-> id, by_team |-> team]
  OBVIOUS
<1>3. taken' # taken
  <2>1. taken \in Seq(AnyPick \cup {new}) /\ new \in AnyPick \cup {new}
    BY TakenIsSequence
  <2> DEFINE T == AnyPick \cup {new}
  <2> HIDE DEF T
  <2>2. taken \in Seq(T) /\ new \in T /\ taken' = Append(taken, new)
    BY <1>1, <1>2, <2>1, Zenon DEF T
  <2>3. Len(taken') = Len(taken) + 1 /\ Len(taken) \in Nat
    BY <2>2
  <2> QED
    BY <2>3
<1>4. /\ unknown' = (unknown \/ (pc = "load" /\ taken' # taken /\ AskedId \notin Ids))
      /\ UNCHANGED <<benched, undone>>
  BY Zenon DEF RememberLoopStep
<1>5. /\ unknown' \/ (id \in Ids /\ position = PositionOf(id))
      /\ unknown => unknown'
  BY <1>3, <1>4, Zenon
<1> QED
  BY <1>4, <1>5, Zenon DEF Drafted

LEMMA LoopIsBooksStep ==
  ASSUME TypeOK, RememberLoopStep
  PROVE  BooksStep
<1>1. UNCHANGED <<benched, undone>> /\ (unknown => unknown')
  BY Zenon DEF RememberLoopStep
<1>2. CASE UndoReplay
  BY <1>1, <1>2, Zenon DEF UndoContinues, BooksStep
<1>3. CASE UndoRunsOff
  <2>1. Crash /\ PastTheEnd(cursor) /\ cursor < pick
    BY <1>3, Zenon DEF UndoRunsOff
  <2> QED
    BY <1>1, <2>1, CrashKeeps, Zenon DEF BooksStep
<1>4. CASE UndoReturns
  BY <1>1, <1>4, Zenon DEF UndoReturns, draftStateVars, Kept, PoolStep, BooksStep
<1>5. CASE LoadOne
  <2>1. PICK id, position : id = LoadedId /\ position = LoadedPosition
    OBVIOUS
  <2>2. id \in Nat /\ (id \in Ids \/ id = 0)
    BY <2>1, LoadedIdIsNatural DEF LoadedId, IdOfRecord
  <2>3. /\ DraftPlayer(id, position)
        /\ pc = "load"
        /\ UNCHANGED <<pc, config, order, players>>
    BY <1>5, <2>1, Zenon DEF LoadOne, poolVars
  <2>4. AskedId \in Ids => id \in Ids /\ position = PositionOf(id)
    BY <2>1, Zenon DEF LoadedId, LoadedPosition, IdOfRecord
  <2> QED
    BY <2>2, <2>3, <2>4, LoopDrafts, Zenon DEF BooksStep
<1>6. CASE LoadRunsOff \/ SimCrashes
  <2>1. Crash /\ pc # "undo"
    BY <1>6, Zenon DEF LoadRunsOff, SimCrashes
  <2> QED
    BY <1>1, <2>1, CrashKeeps, Zenon DEF BooksStep
<1>7. CASE LoadReturns
  BY <1>1, <1>7, Zenon DEF LoadReturns, draftStateVars, Kept, PoolStep, BooksStep
<1>8. CASE SimReturns
  BY <1>1, <1>8, Zenon DEF SimReturns, draftStateVars, Kept, PoolStep, BooksStep
<1>9. CASE SimPick
  <2>1. PICK id \in BestPick.players \ {NoPlayer} : DraftPlayer(id, PositionOf(id))
    BY <1>9, Zenon DEF SimPick
  <2>2. Sound(config)
    BY <1>9, DraftIsSound, Zenon DEF SimPick, Loops
  <2>3. id \in Nat /\ id \in Ids
    BY <2>1, <2>2, BestPickIsFree, IdsAreNaturals, Zenon
  <2>4. pc = "sim" /\ UNCHANGED <<pc, cursor, config, order, players>>
    BY <1>9, Zenon DEF SimPick, poolVars
  <2> QED
    BY <2>1, <2>3, <2>4, LoopDrafts, Zenon DEF BooksStep
<1> QED
  BY <1>2, <1>3, <1>4, <1>5, <1>6, <1>7, <1>8, <1>9, Zenon DEF RememberLoopStep, LoopStep

LEMMA EveryStepIsBooksStep ==
  ASSUME TypeOK, [HNext]_allVars
  PROVE  BooksStep
<1>1. CASE RememberNewDraft
  BY <1>1, NewDraftIsFresh, Zenon DEF BooksStep
<1>2. CASE RememberBench
  BY <1>2, BenchIsBenched, Zenon DEF BooksStep
<1>3. CASE RememberUndo
  BY <1>3, Zenon DEF RememberUndo, UndoBegins, BooksStep
<1>4. CASE RememberSave
  <2>1. UNCHANGED <<benched, undone, unknown>>
    BY <1>4, Zenon DEF RememberSave
  <2>2. PICK f \in SaveFiles : save(f) \/ save_CutShort(f)
    BY <1>4, Zenon DEF RememberSave
  <2>3. /\ UNCHANGED <<config, taken, still_required, cursor>>
        /\ PoolStep
        /\ pc = "prompt" /\ pc' # "undo"
    BY <2>2, Zenon DEF save, save_CutShort, Ready, draftStateVars, PoolStep
  <2> QED
    BY <2>1, <2>3, Zenon DEF Kept, BooksStep
<1>5. CASE RememberLoopStep
  BY <1>5, LoopIsBooksStep
<1>6. CASE OtherCommand /\ UNCHANGED memory
  BY <1>6, CommandKeepsOrDrafts, Zenon DEF BooksStep
<1>7. CASE UNCHANGED allVars
  BY <1>7, Zenon DEF allVars, vars, memory, poolVars, Kept, PoolStep, BooksStep
<1> QED
  BY <1>1, <1>2, <1>3, <1>4, <1>5, <1>6, <1>7, Zenon DEF HNext

-----------------------------------------------------------------------------
(* The invariant behind AgreesWithSearch.                                  *)

KnownPicks == PositionsAreThosePicked => TakenIds \subseteq Ids

CursorRests == pc \in {"prompt", "sim"} => cursor = 0

(* Undo stands between two agreements: it has rebuilt the books of the     *)
(* picks it has replayed.                                                  *)
Replayed ==
  ResetIsExact /\ PositionsAreThosePicked /\ pick <= n_picks =>
    still_required = create_search_context(config, SubSeq(taken, 1, cursor))

ReplayAgrees == pc = "undo" => undone /\ cursor <= pick /\ Replayed

BooksInv == KnownPicks /\ CursorRests /\ ReplayAgrees /\ AgreesWithSearch

LEMMA KnownPicksStep ==
  ASSUME TypeOK, PoolTypeOK, KnownPicks, BooksStep
  PROVE  KnownPicks'
<1> DEFINE n == Len(taken)
<1>0. taken \in Seq(AnyPick)
  BY TakenIsSequence
<1>1. CASE Fresh
  <2>1. TakenIds' = {}
    BY <1>1 DEF Fresh, TakenIds
  <2> QED
    BY <2>1, Zenon DEF KnownPicks
<1>2. ASSUME NEW id, NEW team, id \in Ids \/ unknown', unknown => unknown',
             taken' = Append(taken, [player_id |-> id, by_team |-> team]), UNCHANGED players
      PROVE  KnownPicks'
  <2> DEFINE new == [player_id |-> id, by_team |-> team]
  <2>1. new.player_id = id
    OBVIOUS
  <2>2. taken' = Append(taken, new)
    BY <1>2
  <2> HIDE DEF new
  <2>3. /\ DOMAIN taken = 1 .. n /\ DOMAIN taken' = 1 .. n + 1
        /\ \A i \in 1 .. n : taken'[i] = taken[i]
        /\ taken'[n + 1] = new
    BY <1>0, <2>2, AppendFacts
  <2>4. \A i \in 1 .. n + 1 : i \in 1 .. n \/ i = n + 1
    BY <1>0
  <2>5. TakenIds' \subseteq TakenIds \cup {id}
    BY <2>1, <2>3, <2>4, Zenon DEF TakenIds
  <2>6. Ids' = Ids
    BY <1>2, Zenon DEF Ids, number_of_players
  <2> QED
    BY <1>2, <2>5, <2>6, Zenon DEF KnownPicks, PositionsAreThosePicked
<1>3. CASE Drafted
  <2>1. PICK id, position : id \in Nat /\ DraftPlayer(id, position) /\ (unknown' \/ id \in Ids)
    BY <1>3, Zenon DEF Drafted
  <2>2. PICK team : taken' = Append(taken, [player_id |-> id, by_team |-> team])
    BY <2>1, Zenon DEF DraftPlayer
  <2>3. (unknown => unknown') /\ UNCHANGED players
    BY <1>3, Zenon DEF Drafted
  <2> QED
    BY <1>2, <2>1, <2>2, <2>3, Zenon
<1>4. CASE Benched
  BY <1>2, <1>4, Zenon DEF Benched
<1>5. CASE UndoBegins
  <2>1. taken' = Front(taken) /\ UNCHANGED <<players, unknown>> /\ taken # <<>>
    BY <1>0, <1>5 DEF UndoBegins, undo_pick, poolVars, pick
  <2>2. /\ DOMAIN taken' \subseteq DOMAIN taken
        /\ \A i \in DOMAIN taken' : taken'[i] = taken[i]
    BY <1>0, <2>1, FrontFacts
  <2>3. TakenIds' \subseteq TakenIds
    BY <2>2, Zenon DEF TakenIds
  <2> QED
    BY <2>1, <2>3, Zenon DEF KnownPicks, PositionsAreThosePicked, Ids, number_of_players
<1>6. CASE UndoContinues
  BY <1>6, Zenon DEF UndoContinues, UndoReplay, poolVars, KnownPicks,
                     PositionsAreThosePicked, TakenIds, Ids, number_of_players
<1>7. CASE Kept
  <2>1. TakenIds' = TakenIds /\ (unknown => unknown') /\ PoolStep
    BY <1>7, Zenon DEF Kept, TakenIds
  <2>2. ASSUME NEW id \in TakenIds, id \in Ids PROVE id \in Ids'
    <3>1. taken' # <<>>
      BY <1>7, <2>2 DEF Kept, TakenIds
    <3> QED
      BY <2>1, <2>2, <3>1, IdKeepsPlayer, Zenon
  <2> QED
    BY <2>1, <2>2, Zenon DEF KnownPicks, PositionsAreThosePicked
<1> QED
  BY <1>1, <1>3, <1>4, <1>5, <1>6, <1>7, Zenon DEF BooksStep

LEMMA CursorRestsStep ==
  ASSUME CursorRests, BooksStep
  PROVE  CursorRests'
<1>1. CASE Fresh
  BY <1>1, Zenon DEF Fresh, CursorRests
<1>2. CASE Drafted \/ Benched
  BY <1>2 DEF Drafted, Benched, CursorRests
<1>3. CASE UndoBegins \/ UndoContinues
  BY <1>3 DEF UndoBegins, undo_pick, UndoContinues, UndoReplay, CursorRests
<1>4. CASE Kept
  BY <1>4 DEF Kept, UndoReturns, CursorRests
<1> QED
  BY <1>1, <1>2, <1>3, <1>4, Zenon DEF BooksStep

(* The context of picks whose players the pool has does not change while   *)
(* the draft goes on.                                                      *)
LEMMA ContextKept ==
  ASSUME PoolTypeOK, PoolStep, KnownPicks, PositionsAreThosePicked,
         NEW c, NEW t, Len(t) \in Nat,
         Len(t) > 0 => taken' # <<>>,
         \A k \in 1 .. Len(t) : t[k].player_id \in TakenIds
  PROVE  create_search_context(c, t)' = create_search_context(c, t)
<1>1. ASSUME NEW k \in 1 .. Len(t)
      PROVE  PositionOf(t[k].player_id)' = PositionOf(t[k].player_id)
  <2>1. PICK id : id = t[k].player_id
    OBVIOUS
  <2>2. id \in Ids
    BY <2>1, Zenon DEF KnownPicks
  <2>3. taken' # <<>>
    OBVIOUS
  <2>4. id \in Ids' /\ players'[id + 1] = players[id + 1]
    BY <2>2, <2>3, IdKeepsPlayer, Zenon
  <2> QED
    BY <2>1, <2>2, <2>4, Zenon DEF PositionOf, get_player_by_id
<1> QED
  BY <1>1, ContextStable, Zenon DEF PositionAt, PositionOf

LEMMA ExactResetIsInitial ==
  ASSUME Sound(config), ResetIsExact
  PROVE  ResetRequirements(config) = InitialRequirements(config)
<1>1. ASSUME NEW team \in Teams(config)
      PROVE  [s \in Slots(config) |-> RequiredAtIndex(config, team)] = config.num_required
  <2>1. \A s \in Slots(config) : RequiredAtIndex(config, team) = config.num_required[s]
    BY Zenon DEF ResetIsExact
  <2>2. config.num_required = [s \in Slots(config) |-> config.num_required[s]]
    BY DEF Sound, WellShaped
  <2> QED
    BY <2>1, <2>2, Zenon
<1> QED
  BY <1>1, Zenon DEF ResetRequirements, InitialRequirements

LEMMA UndoBeginsAgrees ==
  ASSUME TypeOK, CursorRests, UndoBegins
  PROVE  ReplayAgrees'
<1>1. Sound(config) /\ taken \in Seq(AnyPick) /\ taken # <<>>
  <2>1. taken \in Seq(AnyPick)
    BY TakenIsSequence
  <2>2. taken # <<>>
    BY <2>1 DEF UndoBegins, undo_pick, pick
  <2>3. Sound(config)
    BY DraftIsSound, Zenon DEF UndoBegins, undo_pick, Ready
  <2> QED
    BY <2>1, <2>2, <2>3
<1>2. /\ taken' = Front(taken)
      /\ still_required' = ResetRequirements(config)
      /\ undone' /\ pc = "prompt" /\ UNCHANGED <<cursor, config, players>>
  BY Zenon DEF UndoBegins, undo_pick, Ready, poolVars
<1>3. Len(taken') \in Nat /\ cursor' = 0 /\ SubSeq(taken', 1, cursor') = <<>>
  BY <1>1, <1>2 DEF CursorRests, Front
<1>4. cursor' <= pick'
  BY <1>3 DEF pick
<1>5. ASSUME ResetIsExact' PROVE (still_required = create_search_context(config, SubSeq(taken, 1, cursor)))'
  <2>1. ResetIsExact
    BY <1>2, <1>5, Zenon DEF ResetIsExact
  <2>2. still_required' = InitialRequirements(config)
    BY <1>1, <1>2, <2>1, ExactResetIsInitial, Zenon
  <2>3. PICK c : c = config
    OBVIOUS
  <2>4. create_search_context(c, <<>>)' = InitialRequirements(c)
    <3>1. Len(<<>>) \in Nat
      OBVIOUS
    <3> QED
      BY <1>2, <3>1, SamePlayersSameContext, ContextOfNoPicks, Zenon
  <2> QED
    BY <1>2, <1>3, <2>2, <2>3, <2>4, Zenon
<1> QED
  BY <1>2, <1>4, <1>5, Zenon DEF ReplayAgrees, Replayed

LEMMA UndoContinuesAgrees ==
  ASSUME TypeOK, PicksFollowOrder, ReplayAgrees, UndoContinues
  PROVE  ReplayAgrees'
<1>1. taken \in Seq(AnyPick) /\ cursor \in Nat /\ DraftTypeOK
  BY TakenIsSequence, DraftIsSound, Zenon DEF TypeOK, Loops, UndoContinues, UndoReplay
<1>2. PICK team \in team_with_pick(cursor) :
        still_required' =
          [still_required EXCEPT ![team] =
             fill_slot(config, @, PositionOf(taken[cursor + 1].player_id))]
  BY Zenon DEF UndoContinues, UndoReplay
<1>3. /\ pc = "undo" /\ cursor < pick /\ cursor' = cursor + 1
      /\ UNCHANGED <<pc, config, order, taken, players, undone>>
      /\ unknown => unknown'
  BY Zenon DEF UndoContinues, UndoReplay, poolVars
<1>4. cursor' <= pick'
  BY <1>1, <1>3 DEF pick
<1>5. ASSUME ResetIsExact', PositionsAreThosePicked', pick' <= n_picks'
      PROVE  (still_required = create_search_context(config, SubSeq(taken, 1, cursor)))'
  <2>1. ResetIsExact /\ PositionsAreThosePicked /\ pick <= n_picks
    BY <1>3, <1>5, Zenon DEF ResetIsExact, PositionsAreThosePicked, pick, n_picks
  <2>2. PICK made : made = taken[cursor + 1]
    OBVIOUS
  <2>3. team = made.by_team
    <3>1. cursor \in DOMAIN order /\ cursor + 1 \in DOMAIN taken /\ cursor + 1 - 1 = cursor
      <4>1. DOMAIN order = 0 .. n_picks - 1
        BY <1>1, Zenon DEF DraftTypeOK
      <4>2. n_picks \in Nat
        BY <1>3, DraftIsSound, Zenon DEF Loops, Sound, WellShaped, n_picks
      <4> QED
        BY <1>1, <1>3, <2>1, <4>1, <4>2 DEF pick
    <3> QED
      <4>1. team_with_pick(cursor) = {order[cursor]}
        BY <3>1, Zenon DEF team_with_pick
      <4>2. team \in team_with_pick(cursor)
        BY <1>2, Zenon
      <4>3. made.by_team = order[cursor]
        <5>1. PICK i : i = cursor + 1
          OBVIOUS
        <5>2. i \in DOMAIN taken /\ i - 1 = cursor /\ i - 1 \in DOMAIN order
          BY <1>1, <3>1, <5>1
        <5>3. taken[i].by_team = order[i - 1]
          BY <5>2, Zenon DEF PicksFollowOrder
        <5> QED
          BY <2>2, <5>1, <5>2, <5>3, Zenon
      <4> QED
        BY <4>1, <4>2, <4>3, Zenon
  <2>4. PICK t : t = SubSeq(taken, 1, cursor)
    OBVIOUS
  <2>5. /\ t \in Seq(AnyPick)
        /\ SubSeq(taken, 1, cursor + 1) = Append(t, made)
    <3> HIDE DEF AnyPick
    <3> QED
      BY <1>1, <1>3, <2>2, <2>4 DEF pick
  <2>6. PICK c : c = config
    OBVIOUS
  <2>7. still_required = create_search_context(c, t)
    BY <1>3, <2>1, <2>4, <2>6, Zenon DEF ReplayAgrees, Replayed
  <2>8. still_required' = charge(c, still_required, made)
    BY <1>2, <2>2, <2>3, <2>6, Zenon DEF charge, PositionOf
  <2>9. PICK u : u = Append(t, made)
    OBVIOUS
  <2>10. create_search_context(c, u) = still_required'
    BY <2>5, <2>7, <2>8, <2>9, ContextAppend, Zenon
  <2>11. Len(u) \in Nat
    BY <2>5, <2>9, <1>1
  <2>12. create_search_context(c, u)' = still_required'
    BY <1>3, <2>10, <2>11, SamePlayersSameContext, Zenon
  <2> QED
    BY <1>3, <2>5, <2>6, <2>9, <2>12, Zenon
<1> QED
  BY <1>3, <1>4, <1>5, Zenon DEF ReplayAgrees, Replayed

LEMMA KeptReplayAgrees ==
  ASSUME TypeOK, PoolTypeOK, KnownPicks, ReplayAgrees, Kept
  PROVE  ReplayAgrees'
<1>1. SUFFICES ASSUME pc' = "undo" PROVE (undone /\ cursor <= pick /\ Replayed)'
  BY Zenon DEF ReplayAgrees
<1>2. /\ UNCHANGED <<pc, cursor, config, taken, still_required, undone>>
      /\ unknown => unknown'
      /\ PoolStep
  BY <1>1, Zenon DEF Kept, UndoReturns
<1>3. pc = "undo" /\ undone /\ cursor <= pick /\ Replayed
  BY <1>1, <1>2, Zenon DEF ReplayAgrees
<1>4. ASSUME ResetIsExact', PositionsAreThosePicked', pick' <= n_picks'
      PROVE  (still_required = create_search_context(config, SubSeq(taken, 1, cursor)))'
  <2>1. ResetIsExact /\ PositionsAreThosePicked /\ pick <= n_picks
    BY <1>2, <1>4, Zenon DEF ResetIsExact, PositionsAreThosePicked, pick, n_picks
  <2>2. taken \in Seq(AnyPick) /\ cursor \in Nat /\ cursor <= Len(taken)
    BY <1>3, TakenIsSequence, Zenon DEF TypeOK, pick
  <2>3. PICK c, t : c = config /\ t = SubSeq(taken, 1, cursor)
    BY Zenon
  <2>4. /\ Len(t) = cursor
        /\ \A k \in 1 .. cursor : t[k] = taken[k] /\ k \in DOMAIN taken
    BY <2>2, <2>3
  <2>5. \A k \in 1 .. Len(t) : t[k].player_id \in TakenIds
    BY <2>4, Zenon DEF TakenIds
  <2>6. create_search_context(c, t)' = create_search_context(c, t)
    <3>1. Len(t) \in Nat /\ (Len(t) > 0 => taken' # <<>>)
      BY <1>2, <2>2, <2>4
    <3> QED
      BY <1>2, <2>1, <2>5, <3>1, ContextKept, Zenon
  <2> QED
    BY <1>2, <1>3, <2>1, <2>3, <2>6, Zenon DEF Replayed
<1> QED
  BY <1>2, <1>3, <1>4, Zenon DEF Replayed, pick

LEMMA ReplayAgreesStep ==
  ASSUME TypeOK, PoolTypeOK, PicksFollowOrder, KnownPicks, CursorRests, ReplayAgrees, BooksStep
  PROVE  ReplayAgrees'
<1>1. CASE Fresh \/ Drafted \/ Benched
  BY <1>1, Zenon DEF Fresh, Drafted, Benched, ReplayAgrees
<1> QED
  BY <1>1, UndoBeginsAgrees, UndoContinuesAgrees, KeptReplayAgrees, Zenon DEF BooksStep

LEMMA DraftedAgrees ==
  ASSUME TypeOK, AgreesWithSearch, Drafted
  PROVE  AgreesWithSearch'
<1>1. PICK id, position :
        id \in Nat /\ DraftPlayer(id, position) /\ (unknown' \/ position = PositionOf(id))
  BY Zenon DEF Drafted
<1>2. PICK team \in team_with_pick(pick) :
        /\ still_required' =
             [still_required EXCEPT ![team] = fill_slot(config, @, position)]
        /\ taken' = Append(taken, [player_id |-> id, by_team |-> team])
  BY <1>1, Zenon DEF DraftPlayer
<1>3. /\ pc # "undo" /\ UNCHANGED <<pc, config, order, players, benched, undone>>
      /\ unknown => unknown'
  BY Zenon DEF Drafted
<1>4. taken \in Seq(AnyPick)
  BY TakenIsSequence
<1>5. PICK made : made = [player_id |-> id, by_team |-> team]
  OBVIOUS
<1>6. /\ Len(Append(taken, made)) = Len(taken) + 1 /\ Len(taken) \in Nat
      /\ Len(taken') \in Nat
  <2>1. made \in AnyPick \cup {made} /\ taken \in Seq(AnyPick \cup {made})
    BY <1>4
  <2> DEFINE T == AnyPick \cup {made}
  <2> HIDE DEF T
  <2>2. taken \in Seq(T) /\ made \in T
    BY <2>1, Zenon DEF T
  <2>3. taken' = Append(taken, made)
    BY <1>2, <1>5, Zenon
  <2> QED
    BY <2>2, <2>3
<1>7. SUFFICES ASSUME (/\ config # NoConfig
                       /\ benched = {}
                       /\ PositionsAreThosePicked
                       /\ ~undone \/ (ResetIsExact /\ pick <= n_picks))'
               PROVE  (still_required = create_search_context(config, taken))'
  BY Zenon DEF AgreesWithSearch
<1>8. still_required = create_search_context(config, taken)
  <2>1. config # NoConfig /\ benched = {} /\ PositionsAreThosePicked
    BY <1>3, <1>7, Zenon DEF PositionsAreThosePicked
  <2>2. ResetIsExact' => ResetIsExact
    BY <1>3, Zenon DEF ResetIsExact
  <2>3. pick' <= n_picks' => pick <= n_picks
    <3>1. n_picks' = n_picks
      BY <1>3, Zenon DEF n_picks
    <3>2. n_picks \in Nat
      BY <2>1, DraftIsSound, Zenon DEF Sound, WellShaped, n_picks
    <3>3. Len(taken') = Len(taken) + 1
      BY <1>2, <1>5, <1>6, Zenon
    <3> QED
      BY <1>6, <3>1, <3>2, <3>3 DEF pick
  <2> QED
    BY <1>3, <1>7, <2>1, <2>2, <2>3, Zenon DEF AgreesWithSearch
<1>9. PICK c, t : c = config /\ t = taken'
  BY Zenon
<1>10. create_search_context(c, t) = charge(c, still_required, made)
  BY <1>2, <1>4, <1>5, <1>8, <1>9, ContextAppend, Zenon
<1>11. charge(c, still_required, made) = still_required'
  <2>1. made.player_id = id /\ made.by_team = team
    BY <1>5
  <2>2. position = PositionOf(id)
    BY <1>1, <1>7, Zenon DEF PositionsAreThosePicked
  <2> QED
    BY <1>2, <1>9, <2>1, <2>2, Zenon DEF charge, PositionOf
<1>12. create_search_context(c, t)' = create_search_context(c, t)
  BY <1>3, <1>6, <1>9, SamePlayersSameContext, Zenon
<1> QED
  BY <1>3, <1>9, <1>10, <1>11, <1>12, Zenon

LEMMA KeptAgrees ==
  ASSUME TypeOK, PoolTypeOK, KnownPicks, ReplayAgrees, AgreesWithSearch, Kept
  PROVE  AgreesWithSearch'
<1>1. SUFFICES ASSUME (/\ config # NoConfig
                       /\ pc # "undo"
                       /\ benched = {}
                       /\ PositionsAreThosePicked
                       /\ ~undone \/ (ResetIsExact /\ pick <= n_picks))'
               PROVE  (still_required = create_search_context(config, taken))'
  BY Zenon DEF AgreesWithSearch
<1>2. /\ UNCHANGED <<config, taken, still_required, benched, undone>>
      /\ PositionsAreThosePicked /\ PoolStep
      /\ config # NoConfig
      /\ ~undone \/ (ResetIsExact /\ pick <= n_picks)
  BY <1>1, Zenon DEF Kept, PositionsAreThosePicked, ResetIsExact, pick, n_picks
<1>3. taken \in Seq(AnyPick) /\ cursor \in Nat /\ n_picks \in Nat
      /\ DOMAIN order = 0 .. n_picks - 1
  BY <1>2, TakenIsSequence, DraftIsSound, Zenon
     DEF TypeOK, DraftTypeOK, Sound, WellShaped, n_picks
<1>4. still_required = create_search_context(config, taken)
  <2>1. CASE pc # "undo"
    BY <1>1, <1>2, <2>1, Zenon DEF AgreesWithSearch
  <2>2. CASE pc = "undo"
    <3>1. undone /\ cursor <= pick /\ ResetIsExact /\ pick <= n_picks
      BY <1>2, <2>2, Zenon DEF ReplayAgrees
    <3>2. ~(PastTheEnd(cursor) /\ cursor < pick)
      BY <1>3, <3>1 DEF PastTheEnd, pick
    <3>3. UndoReturns
      BY <1>1, <2>2, <3>2, Zenon DEF Kept
    <3>4. SubSeq(taken, 1, cursor) = taken
      <4>1. cursor = Len(taken)
        BY <1>3, <3>1, <3>3 DEF pick, UndoReturns
      <4> HIDE DEF AnyPick
      <4> QED
        BY <1>3, <4>1
    <3> QED
      BY <1>2, <2>2, <3>1, <3>4, Zenon DEF ReplayAgrees, Replayed
  <2> QED
    BY <2>1, <2>2
<1>5. PICK c, t : c = config /\ t = taken
  BY Zenon
<1>6. Len(t) \in Nat /\ (Len(t) > 0 => taken' # <<>>) /\ DOMAIN t = 1 .. Len(t)
  BY <1>2, <1>3, <1>5
<1>7. \A k \in 1 .. Len(t) : t[k].player_id \in TakenIds
  BY <1>5, <1>6, Zenon DEF TakenIds
<1>8. create_search_context(c, t)' = create_search_context(c, t)
  BY <1>2, <1>6, <1>7, ContextKept, Zenon
<1> QED
  BY <1>2, <1>4, <1>5, <1>8, Zenon

LEMMA FreshAgrees ==
  ASSUME Fresh
  PROVE  AgreesWithSearch'
<1>1. taken' = <<>> /\ (config' # NoConfig => still_required' = InitialRequirements(config'))
  BY Zenon DEF Fresh
<1>2. PICK c : c = config'
  OBVIOUS
<1>3. (create_search_context(c, <<>>) = InitialRequirements(c))'
  BY NextContextOfNoPicks, Zenon
<1> QED
  BY <1>1, <1>2, <1>3, Zenon DEF AgreesWithSearch

LEMMA AgreesStep ==
  ASSUME TypeOK, PoolTypeOK, KnownPicks, ReplayAgrees, AgreesWithSearch, BooksStep
  PROVE  AgreesWithSearch'
<1>1. CASE Benched
  BY <1>1, Zenon DEF Benched, AgreesWithSearch
<1>2. CASE UndoBegins \/ UndoContinues
  BY <1>2, Zenon DEF UndoBegins, undo_pick, UndoContinues, UndoReplay, AgreesWithSearch
<1> QED
  BY <1>1, <1>2, FreshAgrees, DraftedAgrees, KeptAgrees, Zenon DEF BooksStep

LEMMA BooksStepKeepsInv ==
  ASSUME TypeOK, PoolTypeOK, PicksFollowOrder, BooksInv, [HNext]_allVars
  PROVE  BooksInv'
<1>1. BooksStep
  BY EveryStepIsBooksStep
<1>2. KnownPicks /\ CursorRests /\ ReplayAgrees /\ AgreesWithSearch
  BY Zenon DEF BooksInv
<1>3. KnownPicks'
  BY <1>1, <1>2, KnownPicksStep
<1>4. CursorRests'
  BY <1>1, <1>2, CursorRestsStep
<1>5. ReplayAgrees'
  BY <1>1, <1>2, ReplayAgreesStep
<1>6. AgreesWithSearch'
  BY <1>1, <1>2, AgreesStep
<1> QED
  BY <1>3, <1>4, <1>5, <1>6, Zenon DEF BooksInv

(* What DraftEngine_proofs shows of the engine, with the memory beside it. *)
EngineInv == TypeOK /\ PoolTypeOK /\ PicksFollowOrder

LEMMA EngineInvariant == HSpec => []EngineInv
<1>1. HInit => EngineInv
  <2>1. Init => TypeOK
    BY TypeInit
  <2>2. Init => PoolTypeOK
    BY MaxPlayersAssumption DEF Init, PoolInit, PoolTypeOK
  <2>3. Init => PicksFollowOrder
    BY DEF Init, PicksFollowOrder
  <2> QED
    BY <2>1, <2>2, <2>3, Zenon DEF HInit, EngineInv
<1>2. EngineInv /\ [HNext]_allVars => EngineInv'
  <2>1. SUFFICES ASSUME TypeOK, PoolTypeOK, PicksFollowOrder, [HNext]_allVars
                 PROVE  EngineInv'
    BY Zenon DEF EngineInv
  <2>2. [Next]_vars
    BY <2>1, HistoryIsEngine
  <2>3. TypeOK'
    BY <2>1, <2>2, TypeStep
  <2>4. PoolTypeOK'
    BY <2>1, <2>2, EveryStepIsPoolStep, PoolTypeStep
  <2>5. PicksFollowOrder'
    BY <2>1, <2>2, EveryStepIsBoardStep, PicksFollowOrderStep
  <2> QED
    BY <2>3, <2>4, <2>5, Zenon DEF EngineInv
<1> QED
  BY <1>1, <1>2, PTL DEF HSpec

LEMMA BooksInvariant == HSpec => []BooksInv
<1>1. HInit => BooksInv
  <2>1. HInit => TakenIds = {} /\ cursor = 0 /\ pc = "prompt" /\ config = NoConfig
    BY DEF HInit, Init, TakenIds
  <2> QED
    BY <2>1, Zenon DEF BooksInv, KnownPicks, CursorRests, ReplayAgrees, AgreesWithSearch
<1>2. EngineInv /\ BooksInv /\ [HNext]_allVars => BooksInv'
  BY BooksStepKeepsInv, Zenon DEF EngineInv
<1> QED
  BY <1>1, <1>2, EngineInvariant, PTL DEF HSpec

(* control.c and drafter.c keep the same books: what undo_pick rebuilds    *)
(* and the other commands update is what a search starts from.             *)
THEOREM BooksAgree == HSpec => []AgreesWithSearch
<1>1. BooksInv => AgreesWithSearch
  BY Zenon DEF BooksInv
<1> QED
  BY <1>1, BooksInvariant, PTL

-----------------------------------------------------------------------------
(* How many slots are filled.                                              *)

(* g[k] is the number of slots filled among the first k.                   *)
Tally(c, row, g) ==
  /\ g[0] = 0
  /\ \A k \in 1 .. c.num_slots : g[k] = g[k - 1] + (c.num_required[k - 1] - row[k - 1])

(* The same as the recursive function of FilledSlots, to slot n.           *)
TallyFunction(c, row, n, g) ==
  g = [s \in 0 .. n |->
        IF s = 0 THEN 0 ELSE g[s - 1] + (c.num_required[s - 1] - row[s - 1])]

LEMMA TallyFunctionExists ==
  ASSUME NEW c, NEW row, NEW n \in Nat
  PROVE  \E g : TallyFunction(c, row, n, g)
<1> DEFINE Bad == { m \in Nat : ~\E g : TallyFunction(c, row, m, g) }
           more(g, s) == g[s - 1] + (c.num_required[s - 1] - row[s - 1])
<1>1. SUFFICES ASSUME Bad # {} PROVE FALSE
  BY Zenon
<1>2. PICK m \in Bad : \A y \in Bad : m <= y
  <2>1. Bad \in SUBSET Nat
    BY Zenon
  <2> HIDE DEF Bad
  <2> QED
    BY <1>1, <2>1, MinIsLeast, Zenon
<1>3. CASE m = 0
  <2> DEFINE g == [s \in 0 .. 0 |-> 0]
  <2>1. \A s \in 0 .. 0 : s = 0
    OBVIOUS
  <2>2. g = [s \in 0 .. 0 |-> IF s = 0 THEN 0 ELSE more(g, s)]
    BY <2>1, Zenon
  <2>3. TallyFunction(c, row, 0, g)
    BY <2>2, Zenon DEF TallyFunction
  <2> QED
    BY <1>2, <1>3, <2>3, Zenon
<1>4. CASE m # 0
  <2>1. m \in Nat /\ m - 1 \in Nat /\ ~(m <= m - 1)
    BY <1>2, <1>4
  <2>2. PICK h : TallyFunction(c, row, m - 1, h)
    BY <1>2, <2>1, Zenon
  <2> DEFINE g == [s \in 0 .. m |-> IF s = 0 THEN 0 ELSE more(h, s)]
  <2>3. \A s \in 0 .. m - 1 : h[s] = IF s = 0 THEN 0 ELSE more(h, s)
    BY <2>2, Zenon DEF TallyFunction
  <2>4. \A s \in 0 .. m - 1 : g[s] = h[s]
    <3>1. 0 .. m - 1 \subseteq 0 .. m
      BY <2>1
    <3> HIDE DEF more
    <3> QED
      BY <2>3, <3>1, Zenon
  <2>5. \A s \in 0 .. m : s # 0 => g[s - 1] = h[s - 1]
    <3>1. \A s \in 0 .. m : s # 0 => s - 1 \in 0 .. m - 1
      BY <2>1
    <3> HIDE DEF g
    <3> QED
      BY <2>4, <3>1, Zenon
  <2>6. g = [s \in 0 .. m |-> IF s = 0 THEN 0 ELSE more(g, s)]
    BY <2>5, Zenon
  <2>7. TallyFunction(c, row, m, g)
    BY <2>6, Zenon DEF TallyFunction
  <2> QED
    BY <1>2, <2>7, Zenon
<1> QED
  BY <1>3, <1>4

LEMMA FilledSlotsIsTally ==
  ASSUME NEW c, NEW row, c.num_slots \in Nat
  PROVE  \E g : Tally(c, row, g) /\ FilledSlots(c, row) = g[c.num_slots]
<1> DEFINE n == c.num_slots
           P(g) == g = [s \in 0 .. n |->
                         IF s = 0 THEN 0
                         ELSE g[s - 1] + (c.num_required[s - 1] - row[s - 1])]
           g0 == CHOOSE g : P(g)
<1>1. FilledSlots(c, row) = g0[n]
  BY Zenon DEF FilledSlots
<1>2. \E g : P(g)
  <2>1. PICK g : TallyFunction(c, row, n, g)
    BY TallyFunctionExists, Zenon
  <2>2. P(g)
    BY <2>1, Zenon DEF TallyFunction
  <2> QED
    BY <2>2, Zenon
<1>3. P(g0)
  BY <1>2, Zenon
<1> HIDE DEF g0
<1>4. \A s \in 0 .. n :
        g0[s] = IF s = 0 THEN 0 ELSE g0[s - 1] + (c.num_required[s - 1] - row[s - 1])
  BY <1>3, Zenon
<1>5. 0 \in 0 .. n /\ \A k \in 1 .. n : k \in 0 .. n /\ k # 0
  OBVIOUS
<1>6. Tally(c, row, g0)
  BY <1>4, <1>5, Zenon DEF Tally
<1> QED
  BY <1>1, <1>6, Zenon

(* What fill_slot charges: no slot, or one that was open.                  *)
LEMMA FillsOneSlot ==
  ASSUME NEW c, WellShaped(c), NEW row \in [Slots(c) -> Int], NEW position
  PROVE  \/ fill_slot(c, row, position) = row
         \/ \E j \in Slots(c) :
              row[j] > 0 /\ fill_slot(c, row, position) = [row EXCEPT ![j] = @ - 1]
<1> DEFINE open == OpenFlexSlots(c, row, position)
<1>1. CASE position \in Slots(c) /\ row[position] > 0
  BY <1>1, Zenon DEF fill_slot
<1>2. CASE ~(position \in Slots(c) /\ row[position] > 0) /\ open # {}
  <2>1. open \in SUBSET Nat
    BY SlotsAreNaturals, Zenon DEF OpenFlexSlots
  <2>2. Min(open) \in open
    BY <1>2, <2>1, MinIsMember, Zenon
  <2>3. Min(open) \in Slots(c) /\ row[Min(open)] > 0
    BY <2>2, Zenon DEF OpenFlexSlots
  <2>4. fill_slot(c, row, position) = [row EXCEPT ![Min(open)] = @ - 1]
    BY <1>2, Zenon DEF fill_slot
  <2> QED
    BY <2>3, <2>4, Zenon
<1>3. CASE ~(position \in Slots(c) /\ row[position] > 0) /\ open = {}
  BY <1>3, Zenon DEF fill_slot
<1> QED
  BY <1>1, <1>2, <1>3, Zenon

(* A slot that is not a flex slot is charged for its own players, as long  *)
(* as it is open.                                                          *)
LEMMA FillsOwnSlotFirst ==
  ASSUME NEW c, NEW row \in [Slots(c) -> Int], NEW position, NEW s \in RealSlots(c)
  PROVE  fill_slot(c, row, position)[s]
           = IF s = position /\ row[s] > 0 THEN row[s] - 1 ELSE row[s]
<1> DEFINE open == OpenFlexSlots(c, row, position)
<1>1. s \in Slots(c) /\ ~is_flex_slot(c, s)
  BY Zenon DEF RealSlots
<1>2. CASE position \in Slots(c) /\ row[position] > 0
  <2>1. fill_slot(c, row, position) = [row EXCEPT ![position] = @ - 1]
    BY <1>2, Zenon DEF fill_slot
  <2> QED
    BY <1>1, <1>2, <2>1, Zenon
<1>3. CASE ~(position \in Slots(c) /\ row[position] > 0) /\ open # {}
  <2>1. open \in SUBSET Nat
    BY SlotsAreNaturals, Zenon DEF OpenFlexSlots
  <2>2. Min(open) \in open
    BY <1>3, <2>1, MinIsMember, Zenon
  <2>3. Min(open) # s
    BY <1>1, <2>2, Zenon DEF OpenFlexSlots
  <2>4. fill_slot(c, row, position) = [row EXCEPT ![Min(open)] = @ - 1]
    BY <1>3, Zenon DEF fill_slot
  <2> QED
    BY <1>1, <1>3, <2>3, <2>4, Zenon
<1>4. CASE ~(position \in Slots(c) /\ row[position] > 0) /\ open = {}
  BY <1>1, <1>4, Zenon DEF fill_slot
<1> QED
  BY <1>2, <1>3, <1>4, Zenon

LEMMA TallyType ==
  ASSUME NEW c, WellShaped(c), NEW row \in [Slots(c) -> Int], NEW g, Tally(c, row, g)
  PROVE  \A k \in 0 .. c.num_slots : g[k] \in Int
<1> DEFINE Bad == { k \in 0 .. c.num_slots : g[k] \notin Int }
<1>1. SUFFICES ASSUME Bad # {} PROVE FALSE
  BY Zenon
<1>2. PICK k \in Bad : \A y \in Bad : k <= y
  <2>1. Bad \in SUBSET Nat
    OBVIOUS
  <2> HIDE DEF Bad
  <2> QED
    BY <1>1, <2>1, MinIsLeast, Zenon
<1>3. k \in 1 .. c.num_slots /\ k - 1 \in 0 .. c.num_slots /\ ~(k <= k - 1)
      /\ k - 1 \in Slots(c)
  <2>1. k # 0
    BY DEF Tally
  <2> QED
    BY <2>1 DEF WellShaped, Slots
<1>4. g[k - 1] \in Int
  BY <1>2, <1>3, Zenon
<1>5. c.num_required[k - 1] \in Int /\ row[k - 1] \in Int
  BY <1>3 DEF WellShaped
<1>6. g[k] = g[k - 1] + (c.num_required[k - 1] - row[k - 1])
  BY <1>3, Zenon DEF Tally
<1> QED
  BY <1>2, <1>4, <1>5, <1>6

LEMMA TallyOfCharge ==
  ASSUME NEW c, WellShaped(c), NEW row \in [Slots(c) -> Int], NEW j \in Slots(c),
         NEW g, Tally(c, row, g), NEW h, Tally(c, [row EXCEPT ![j] = @ - 1], h)
  PROVE  h[c.num_slots] = g[c.num_slots] + 1
<1> DEFINE n == c.num_slots
           more == [row EXCEPT ![j] = @ - 1]
           Bad == { k \in 0 .. n : h[k] # g[k] + (IF k > j THEN 1 ELSE 0) }
<1>0. j \in Nat /\ n \in Nat /\ j < n /\ \A k \in 0 .. n : g[k] \in Int
  <2>1. j \in Nat /\ n \in Nat /\ j < n
    BY DEF Slots, WellShaped
  <2>2. \A k \in 0 .. n : g[k] \in Int
    BY TallyType, Zenon
  <2> QED
    BY <2>1, <2>2, Zenon
<1>1. Bad = {}
  <2>1. SUFFICES ASSUME Bad # {} PROVE FALSE
    BY Zenon
  <2>2. PICK k \in Bad : \A y \in Bad : k <= y
    <3>1. Bad \in SUBSET Nat
      OBVIOUS
    <3> HIDE DEF Bad
    <3> QED
      BY <2>1, <3>1, MinIsLeast, Zenon
  <2>3. k \in 1 .. n /\ k - 1 \in 0 .. n /\ ~(k <= k - 1) /\ k - 1 \in Slots(c)
    <3>1. k # 0
      BY <1>0 DEF Tally
    <3> QED
      BY <1>0, <3>1 DEF Slots
  <2>4. h[k - 1] = g[k - 1] + (IF k - 1 > j THEN 1 ELSE 0)
    BY <2>2, <2>3, Zenon
  <2>5. /\ g[k] = g[k - 1] + (c.num_required[k - 1] - row[k - 1])
        /\ h[k] = h[k - 1] + (c.num_required[k - 1] - more[k - 1])
    BY <2>3, Zenon DEF Tally
  <2>6. more[k - 1] = IF k - 1 = j THEN row[k - 1] - 1 ELSE row[k - 1]
    BY <2>3, Zenon
  <2>7. c.num_required[k - 1] \in Int /\ row[k - 1] \in Int /\ g[k - 1] \in Int
    BY <1>0, <2>3 DEF WellShaped
  <2>8. h[k] # g[k] + (IF k > j THEN 1 ELSE 0)
    BY <2>2, Zenon
  <2> HIDE DEF more, n
  <2> QED
    BY <1>0, <2>3, <2>4, <2>5, <2>6, <2>7, <2>8
<1>2. n \in 0 .. n /\ n > j
  BY <1>0
<1> QED
  BY <1>1, <1>2

(* A player fills at most one slot more.                                   *)
LEMMA FilledSlotsOfFill ==
  ASSUME NEW c, WellShaped(c), NEW row \in [Slots(c) -> Int], NEW position
  PROVE  /\ FilledSlots(c, row) \in Int
         /\ FilledSlots(c, fill_slot(c, row, position))
              \in {FilledSlots(c, row), FilledSlots(c, row) + 1}
<1>1. c.num_slots \in Nat /\ c.num_slots \in 0 .. c.num_slots
  BY DEF WellShaped
<1>2. PICK g : Tally(c, row, g) /\ FilledSlots(c, row) = g[c.num_slots]
  BY <1>1, FilledSlotsIsTally, Zenon
<1>3. FilledSlots(c, row) \in Int
  BY <1>1, <1>2, TallyType, Zenon
<1>4. ASSUME NEW j \in Slots(c), fill_slot(c, row, position) = [row EXCEPT ![j] = @ - 1]
      PROVE  FilledSlots(c, fill_slot(c, row, position)) = FilledSlots(c, row) + 1
  <2>1. PICK more : more = [row EXCEPT ![j] = @ - 1]
    OBVIOUS
  <2>2. PICK h : Tally(c, more, h) /\ FilledSlots(c, more) = h[c.num_slots]
    BY <1>1, FilledSlotsIsTally, Zenon
  <2>3. h[c.num_slots] = g[c.num_slots] + 1
    BY <1>2, <2>1, <2>2, TallyOfCharge, Zenon
  <2> QED
    BY <1>2, <1>4, <2>1, <2>2, <2>3, Zenon
<1> QED
  BY <1>3, <1>4, FillsOneSlot, Zenon

LEMMA NothingIsFilledFirst ==
  ASSUME NEW c, WellShaped(c)
  PROVE  FilledSlots(c, c.num_required) = 0
<1> DEFINE n == c.num_slots
<1>1. n \in Nat
  BY DEF WellShaped
<1>2. PICK g : Tally(c, c.num_required, g) /\ FilledSlots(c, c.num_required) = g[n]
  BY <1>1, FilledSlotsIsTally, Zenon
<1> DEFINE Bad == { k \in 0 .. n : g[k] # 0 }
<1>3. Bad = {}
  <2>1. SUFFICES ASSUME Bad # {} PROVE FALSE
    BY Zenon
  <2>2. PICK k \in Bad : \A y \in Bad : k <= y
    <3>1. Bad \in SUBSET Nat
      OBVIOUS
    <3> HIDE DEF Bad
    <3> QED
      BY <2>1, <3>1, MinIsLeast, Zenon
  <2>3. k \in 1 .. n /\ k - 1 \in 0 .. n /\ ~(k <= k - 1) /\ k - 1 \in Slots(c)
    <3>1. k # 0
      BY <1>2, Zenon DEF Tally
    <3> QED
      BY <1>1, <3>1 DEF Slots
  <2>4. g[k - 1] = 0
    BY <2>2, <2>3, Zenon
  <2>5. g[k] = g[k - 1] + (c.num_required[k - 1] - c.num_required[k - 1])
    BY <1>2, <2>3, Zenon DEF Tally
  <2>6. c.num_required[k - 1] \in Int
    BY <2>3 DEF WellShaped
  <2>7. g[k] = 0
    BY <2>4, <2>5, <2>6
  <2> QED
    BY <2>2, <2>7, Zenon
<1> QED
  BY <1>1, <1>2, <1>3

-----------------------------------------------------------------------------
(* The invariant behind SlotsFollowPicks.                                  *)

(* What a row still requires at s of a roster with m players there.        *)
LEMMA ChargeLeavesOpen ==
  ASSUME NEW required \in Nat, NEW m \in Nat, NEW left,
         left = Max({0, required - m})
  PROVE  /\ left \in Nat
         /\ (IF left > 0 THEN left - 1 ELSE left) = Max({0, required - (m + 1)})
<1>1. left = IF required - m > 0 THEN required - m ELSE 0
  BY MaxWithZero
<1>2. Max({0, required - (m + 1)})
        = IF required - (m + 1) > 0 THEN required - (m + 1) ELSE 0
  BY MaxWithZero
<1> QED
  BY <1>1, <1>2

BenchedArePicks == benched \subseteq 0 .. pick - 1

SlotsInv == BenchedArePicks /\ SlotsFollowPicks

LEMMA FrontLength ==
  ASSUME NEW S, NEW s \in Seq(S), s # <<>>
  PROVE  Len(Front(s)) = Len(s) - 1 /\ Len(s) \in Nat \ {0}
<1>1. PICK m : m = Len(s) - 1
  OBVIOUS
<1>2. m \in Nat /\ m <= Len(s) /\ Len(s) \in Nat \ {0}
  BY <1>1
<1>3. Len(SubSeq(s, 1, m)) = m
  BY <1>2
<1> QED
  BY <1>1, <1>2, <1>3, Zenon DEF Front

LEMMA BenchedArePicksStep ==
  ASSUME TypeOK, BenchedArePicks, BooksStep
  PROVE  BenchedArePicks'
<1>1. taken \in Seq(AnyPick)
  BY TakenIsSequence
<1>2. CASE Fresh
  BY <1>2, Zenon DEF Fresh, BenchedArePicks
<1>3. ASSUME NEW new, taken' = Append(taken, new)
      PROVE  Len(taken') = Len(taken) + 1 /\ Len(taken) \in Nat
  <2>1. taken \in Seq(AnyPick \cup {new}) /\ new \in AnyPick \cup {new}
    BY <1>1
  <2> DEFINE T == AnyPick \cup {new}
  <2> HIDE DEF T
  <2>2. taken \in Seq(T) /\ new \in T
    BY <2>1, Zenon DEF T
  <2> QED
    BY <1>3, <2>2
<1>4. CASE Drafted
  <2>1. PICK new : taken' = Append(taken, new)
    BY <1>4, Zenon DEF Drafted, DraftPlayer
  <2>2. Len(taken') = Len(taken) + 1 /\ Len(taken) \in Nat
    BY <1>3, <2>1, Zenon
  <2>3. benched' = benched
    BY <1>4, Zenon DEF Drafted
  <2> QED
    BY <2>2, <2>3 DEF BenchedArePicks, pick
<1>5. CASE Benched
  <2>1. PICK new : taken' = Append(taken, new)
    BY <1>5, Zenon DEF Benched
  <2>2. Len(taken') = Len(taken) + 1 /\ Len(taken) \in Nat
    BY <1>3, <2>1, Zenon
  <2>3. benched' = benched \cup {pick}
    BY <1>5, Zenon DEF Benched
  <2>4. ASSUME NEW b \in benched' PROVE b \in 0 .. pick' - 1
    <3>1. CASE b \in benched
      BY <2>2, <3>1 DEF BenchedArePicks, pick
    <3>2. CASE b = pick
      BY <2>2, <3>2 DEF pick
    <3> QED
      BY <2>3, <2>4, <3>1, <3>2, Zenon
  <2> QED
    BY <2>4, Zenon DEF BenchedArePicks
<1>6. CASE UndoBegins
  <2>1. taken' = Front(taken) /\ taken # <<>> /\ benched' = benched \ {pick - 1}
    BY <1>1, <1>6 DEF UndoBegins, undo_pick, pick
  <2>2. Len(Front(taken)) = Len(taken) - 1 /\ Len(taken) \in Nat \ {0}
    BY <1>1, <2>1, FrontLength, Zenon
  <2>3. ASSUME NEW b \in benched' PROVE b \in 0 .. pick' - 1
    <3>1. b \in 0 .. Len(taken) - 1 /\ b # Len(taken) - 1
      BY <2>1, Zenon DEF BenchedArePicks, pick
    <3>2. pick' = Len(taken) - 1
      BY <2>1, <2>2, Zenon DEF pick
    <3> QED
      BY <2>2, <3>1, <3>2
  <2> QED
    BY <2>3, Zenon DEF BenchedArePicks
<1>7. CASE UndoContinues \/ Kept
  BY <1>7, Zenon DEF UndoContinues, UndoReplay, Kept, BenchedArePicks, pick
<1> QED
  BY <1>2, <1>4, <1>5, <1>6, <1>7, Zenon DEF BooksStep

(* The line-up is finite: it is counted.                                   *)
LEMMA LineupIsFinite ==
  ASSUME TypeOK, NEW team, NEW s
  PROVE  /\ IsFiniteSet(Lineup(team)) /\ IsFiniteSet(LineupAt(team, s))
         /\ Cardinality(Lineup(team)) \in Nat /\ Cardinality(LineupAt(team, s)) \in Nat
<1>1. taken \in Seq(AnyPick)
  BY TakenIsSequence
<1>2. DOMAIN taken = 1 .. Len(taken) /\ Len(taken) \in Nat
  BY <1>1
<1>3. IsFiniteSet(DOMAIN taken)
  BY <1>2, FS_Interval
<1>4. Lineup(team) \subseteq DOMAIN taken /\ LineupAt(team, s) \subseteq DOMAIN taken
  BY Zenon DEF Lineup, LineupAt
<1>5. IsFiniteSet(Lineup(team)) /\ IsFiniteSet(LineupAt(team, s))
  BY <1>3, <1>4, FS_Subset, Zenon
<1> QED
  BY <1>5, FS_CardinalityType, Zenon

(* Sets said by their members: one that gained a member, one that did not. *)
LEMMA SameMembers ==
  ASSUME NEW A, NEW B, \A i : i \in A <=> i \in B
  PROVE  A = B
  OBVIOUS

LEMMA OneMoreMember ==
  ASSUME NEW A, NEW B, NEW k, \A i : i \in A <=> i \in B \/ i = k
  PROVE  A = B \cup {k}
  OBVIOUS

(* The pick a drafter makes joins the line-up of its team, unless it is    *)
(* benched, and no other.                                                  *)
Joins(counts, id, team, of, s) ==
  /\ Lineup(of)' = IF counts /\ of = team THEN Lineup(of) \cup {pick + 1} ELSE Lineup(of)
  /\ LineupAt(of, s)' = IF counts /\ of = team /\ PositionOf(id) = s
                         THEN LineupAt(of, s) \cup {pick + 1} ELSE LineupAt(of, s)
  /\ pick + 1 \notin Lineup(of)

LEMMA LineupAfterPick ==
  ASSUME TypeOK, BenchedArePicks, NEW id, NEW team,
         taken' = Append(taken, [player_id |-> id, by_team |-> team]),
         UNCHANGED players,
         NEW counts \in BOOLEAN,
         counts => UNCHANGED benched,
         ~counts => benched' = benched \cup {pick},
         NEW of, NEW s
  PROVE  Joins(counts, id, team, of, s)
<1> DEFINE n == Len(taken)
           new == [player_id |-> id, by_team |-> team]
<1>1. taken \in Seq(AnyPick)
  BY TakenIsSequence
<1>2. new.player_id = id /\ new.by_team = team
  OBVIOUS
<1>3. taken' = Append(taken, new)
  OBVIOUS
<1> HIDE DEF new
<1>4. /\ n \in Nat /\ DOMAIN taken = 1 .. n /\ DOMAIN taken' = 1 .. n + 1
      /\ \A i \in 1 .. n : taken'[i] = taken[i]
      /\ taken'[n + 1] = new
  BY <1>1, <1>3, AppendFacts
<1>5. /\ n + 1 \notin 1 .. n
      /\ n + 1 - 1 = n
      /\ n \notin benched
      /\ \A i \in 1 .. n : i - 1 # n
      /\ 1 .. n + 1 = (1 .. n) \cup {n + 1}
  BY <1>4 DEF BenchedArePicks, pick
<1>6. n + 1 - 1 \in benched' <=> ~counts
  BY <1>5, Zenon DEF pick
<1>7. \A i \in 1 .. n : i - 1 \in benched' <=> i - 1 \in benched
  BY <1>5, Zenon DEF pick
<1>8. \A x : PositionOf(x)' = PositionOf(x)
  BY Zenon DEF PositionOf, get_player_by_id, Ids, number_of_players
<1>9. ASSUME NEW i
      PROVE  i \in Lineup(of)' <=> i \in Lineup(of) \/ (counts /\ of = team /\ i = n + 1)
  <2>1. i \in Lineup(of)' <=> i \in 1 .. n + 1 /\ taken'[i].by_team = of /\ i - 1 \notin benched'
    BY <1>4, Zenon DEF Lineup
  <2>2. i \in Lineup(of) <=> i \in 1 .. n /\ taken[i].by_team = of /\ i - 1 \notin benched
    BY <1>4, Zenon DEF Lineup
  <2>3. CASE i \in 1 .. n
    BY <1>4, <1>5, <1>7, <2>1, <2>2, <2>3, Zenon
  <2>4. CASE i = n + 1
    <3>1. i \in Lineup(of)' <=> team = of /\ counts
      <4>1. n + 1 \in 1 .. n + 1
        BY <1>5, Zenon
      <4>2. taken'[i].by_team = team
        BY <1>2, <1>4, <2>4, Zenon
      <4>3. i - 1 \in benched' <=> ~counts
        <5>1. i - 1 = n + 1 - 1
          BY <2>4
        <5>2. PICK x : x = n + 1 - 1
          OBVIOUS
        <5>3. x \in benched' <=> ~counts
          BY <1>6, <5>2, Zenon
        <5> QED
          BY <5>1, <5>2, <5>3, Zenon
      <4> QED
        BY <2>1, <2>4, <4>1, <4>2, <4>3, Zenon
    <3>2. i \notin Lineup(of)
      BY <1>5, <2>2, <2>4, Zenon
    <3> QED
      BY <2>4, <3>1, <3>2, Zenon
  <2>5. CASE i \notin 1 .. n + 1
    BY <1>5, <2>1, <2>2, <2>5, Zenon
  <2> QED
    BY <1>5, <2>3, <2>4, <2>5, Zenon
<1>10. \A i \in Lineup(of) : i \in 1 .. n
  BY <1>4, Zenon DEF Lineup
<1>11. Lineup(of)' = IF counts /\ of = team THEN Lineup(of) \cup {n + 1} ELSE Lineup(of)
  <2>1. PICK A : A = Lineup(of)'
    OBVIOUS
  <2>2. PICK B : B = Lineup(of)
    OBVIOUS
  <2>3. PICK k : k = n + 1
    OBVIOUS
  <2>4. CASE counts /\ of = team
    <3>1. \A i : i \in A <=> i \in B \/ i = k
      BY <1>9, <2>1, <2>2, <2>3, <2>4, Zenon
    <3>2. A = B \cup {k}
      BY <3>1, OneMoreMember, Zenon
    <3> QED
      BY <2>1, <2>2, <2>3, <2>4, <3>2, Zenon
  <2>5. CASE ~(counts /\ of = team)
    <3>1. \A i : i \in A <=> i \in B
      BY <1>9, <2>1, <2>2, <2>5, Zenon
    <3>2. A = B
      BY <3>1, SameMembers, Zenon
    <3> QED
      BY <2>1, <2>2, <2>5, <3>2, Zenon
  <2> QED
    BY <2>4, <2>5, Zenon
<1>12. ASSUME NEW i
       PROVE  i \in LineupAt(of, s)' <=>
                \/ i \in LineupAt(of, s)
                \/ counts /\ of = team /\ PositionOf(id) = s /\ i = n + 1
  <2>1. i \in LineupAt(of, s)' <=> i \in Lineup(of)' /\ PositionOf(taken'[i].player_id) = s
    BY <1>8, Zenon DEF LineupAt
  <2>2. i \in LineupAt(of, s) <=> i \in Lineup(of) /\ PositionOf(taken[i].player_id) = s
    BY Zenon DEF LineupAt
  <2>3. CASE i \in Lineup(of)
    <3>1. i \in 1 .. n /\ taken'[i] = taken[i] /\ i # n + 1
      BY <1>4, <1>5, <1>10, <2>3, Zenon
    <3> QED
      BY <1>9, <2>1, <2>2, <2>3, <3>1, Zenon
  <2>4. CASE i \notin Lineup(of)
    BY <1>2, <1>4, <1>9, <2>1, <2>2, <2>4, Zenon
  <2> QED
    BY <2>3, <2>4
<1>13. LineupAt(of, s)' = IF counts /\ of = team /\ PositionOf(id) = s
                           THEN LineupAt(of, s) \cup {n + 1} ELSE LineupAt(of, s)
  <2>1. PICK A : A = LineupAt(of, s)'
    OBVIOUS
  <2>2. PICK B : B = LineupAt(of, s)
    OBVIOUS
  <2>3. PICK k : k = n + 1
    OBVIOUS
  <2>4. CASE counts /\ of = team /\ PositionOf(id) = s
    <3>1. \A i : i \in A <=> i \in B \/ i = k
      BY <1>12, <2>1, <2>2, <2>3, <2>4, Zenon
    <3>2. A = B \cup {k}
      BY <3>1, OneMoreMember, Zenon
    <3> QED
      BY <2>1, <2>2, <2>3, <2>4, <3>2, Zenon
  <2>5. CASE ~(counts /\ of = team /\ PositionOf(id) = s)
    <3>1. \A i : i \in A <=> i \in B
      BY <1>12, <2>1, <2>2, <2>5, Zenon
    <3>2. A = B
      BY <3>1, SameMembers, Zenon
    <3> QED
      BY <2>1, <2>2, <2>5, <3>2, Zenon
  <2> QED
    BY <2>4, <2>5, Zenon
<1> QED
  BY <1>5, <1>10, <1>11, <1>13, Zenon DEF pick, Joins

(* What SlotsFollowPicks says of one team, and of one of its slots.        *)
RosterFits(team) ==
  /\ FilledSlots(config, still_required[team]) <= Cardinality(Lineup(team))
  /\ \A s \in Slots(config) : still_required[team][s] >= 0

SlotFollows(team, s) ==
  still_required[team][s] =
    Max({0, config.num_required[s] - Cardinality(LineupAt(team, s))})

LEMMA SlotsFollowPicksByTeam ==
  SlotsFollowPicks <=>
    (Drafting => /\ \A team \in Teams(config) : RosterFits(team)
                 /\ PositionsAreThosePicked =>
                      \A team \in Teams(config), s \in RealSlots(config) : SlotFollows(team, s))
  BY Zenon DEF SlotsFollowPicks, OneSlotPerPick, OwnSlotsFilled, RosterFits, SlotFollows

LEMMA NextSlotsFollow ==
  ASSUME NEW c, c = config',
         Drafting' => \A t \in Teams(c) : RosterFits(t)',
         Drafting' /\ PositionsAreThosePicked' =>
           \A t \in Teams(c), s \in RealSlots(c) : SlotFollows(t, s)'
  PROVE  SlotsFollowPicks'
<1>1. Drafting' => OneSlotPerPick'
  BY Zenon DEF OneSlotPerPick, RosterFits
<1>2. Drafting' /\ PositionsAreThosePicked' => OwnSlotsFilled'
  BY Zenon DEF OwnSlotsFilled, SlotFollows
<1> QED
  BY <1>1, <1>2, Zenon DEF SlotsFollowPicks

LEMMA DraftedSlotsFollow ==
  ASSUME TypeOK, BenchedArePicks, SlotsFollowPicks, Drafted
  PROVE  SlotsFollowPicks'
<1>1. PICK id, position :
        id \in Nat /\ DraftPlayer(id, position) /\ (unknown' \/ position = PositionOf(id))
  BY Zenon DEF Drafted
<1>2. PICK team \in team_with_pick(pick) :
        /\ still_required' =
             [still_required EXCEPT ![team] = fill_slot(config, @, position)]
        /\ taken' = Append(taken, [player_id |-> id, by_team |-> team])
  BY <1>1, Zenon DEF DraftPlayer
<1>3. /\ UNCHANGED <<config, players, benched, undone>>
      /\ unknown => unknown'
  BY Zenon DEF Drafted
<1>4. SUFFICES ASSUME Drafting' PROVE SlotsFollowPicks'
  BY Zenon DEF SlotsFollowPicks
<1>5. Drafting /\ config # NoConfig
  BY <1>3, <1>4, Zenon DEF Drafting
<1>6. DraftTypeOK /\ Sound(config)
  BY <1>5, DraftIsSound, Zenon
<1>7. PICK c : c = config
  OBVIOUS
<1>8. /\ WellShaped(c)
      /\ still_required \in [Teams(c) -> [Slots(c) -> Int]]
      /\ team \in Teams(c)
  BY <1>6, <1>7, TeamWithPickType, Zenon DEF Sound, DraftTypeOK
<1>9. /\ (\A t \in Teams(c) : RosterFits(t))
      /\ PositionsAreThosePicked => \A t \in Teams(c), s \in RealSlots(c) : SlotFollows(t, s)
  BY <1>5, <1>7, SlotsFollowPicksByTeam, Zenon
<1>10. \A t \in Teams(c) :
         still_required'[t] = IF t = team THEN fill_slot(c, still_required[t], position)
                                          ELSE still_required[t]
  BY <1>2, <1>7, <1>8, Zenon
<1>11. ASSUME NEW t, NEW s
       PROVE  /\ t = team => Lineup(t)' = Lineup(t) \cup {pick + 1}
              /\ t # team => Lineup(t)' = Lineup(t)
              /\ t = team /\ PositionOf(id) = s =>
                   LineupAt(t, s)' = LineupAt(t, s) \cup {pick + 1}
              /\ ~(t = team /\ PositionOf(id) = s) => LineupAt(t, s)' = LineupAt(t, s)
              /\ pick + 1 \notin Lineup(t)
              /\ pick + 1 \notin LineupAt(t, s)
  <2>1. PICK counts \in BOOLEAN : counts
    OBVIOUS
  <2>2. (counts => UNCHANGED benched) /\ (~counts => benched' = benched \cup {pick})
    BY <1>3, <2>1, Zenon
  <2>3. Joins(counts, id, team, t, s)
    BY <1>2, <1>3, <2>2, LineupAfterPick, Zenon
  <2>4. LineupAt(t, s) \subseteq Lineup(t)
    BY Zenon DEF LineupAt
  <2> QED
    BY <2>1, <2>3, <2>4, Zenon DEF Joins
<1>12. ASSUME NEW t \in Teams(c)
       PROVE  RosterFits(t)'
  <2>1. PICK row \in [Slots(c) -> Int] : row = still_required[t]
    BY <1>8
  <2>2. FilledSlots(c, row) <= Cardinality(Lineup(t)) /\ \A s \in Slots(c) : row[s] >= 0
    BY <1>7, <1>9, <2>1, Zenon DEF RosterFits
  <2>3. IsFiniteSet(Lineup(t)) /\ Cardinality(Lineup(t)) \in Nat
    BY LineupIsFinite, Zenon
  <2>4. CASE t = team
    <3>1. PICK more : more = fill_slot(c, row, position)
      OBVIOUS
    <3>2. still_required'[t] = more
      BY <1>10, <2>1, <2>4, <3>1, Zenon
    <3>3. Cardinality(Lineup(t)') = Cardinality(Lineup(t)) + 1
      BY <1>11, <2>3, <2>4, FS_AddElement, Zenon
    <3>4. FilledSlots(c, row) \in Int /\ FilledSlots(c, more) \in {FilledSlots(c, row), FilledSlots(c, row) + 1}
      BY <1>8, <3>1, FilledSlotsOfFill, Zenon
    <3>5. FilledSlots(c, more) <= Cardinality(Lineup(t)')
      BY <2>2, <2>3, <3>3, <3>4
    <3>6. \A s \in Slots(c) : more[s] >= 0
      <4>1. more = row \/ \E j \in Slots(c) : row[j] > 0 /\ more = [row EXCEPT ![j] = @ - 1]
        <5>1. PICK p : p = position
          OBVIOUS
        <5>2. \/ fill_slot(c, row, p) = row
              \/ \E j \in Slots(c) :
                    row[j] > 0 /\ fill_slot(c, row, p) = [row EXCEPT ![j] = @ - 1]
          BY <1>8, FillsOneSlot
        <5> QED
          BY <3>1, <5>1, <5>2, Zenon
      <4> QED
        BY <2>2, <4>1
    <3> QED
      BY <1>3, <1>7, <3>2, <3>5, <3>6, Zenon DEF RosterFits
  <2>5. CASE t # team
    <3>1. Lineup(t)' = Lineup(t)
      BY <1>11, <2>5, Zenon
    <3>2. still_required'[t] = row
      BY <1>10, <2>1, <2>5, Zenon
    <3> QED
      BY <1>3, <1>7, <2>2, <3>1, <3>2, Zenon DEF RosterFits
  <2> QED
    BY <2>4, <2>5
<1>13. ASSUME PositionsAreThosePicked', NEW t \in Teams(c), NEW s \in RealSlots(c)
       PROVE  SlotFollows(t, s)'
  <2>1. PICK row \in [Slots(c) -> Int] : row = still_required[t]
    BY <1>8
  <2>2. PICK m \in Nat : m = Cardinality(LineupAt(t, s)) /\ IsFiniteSet(LineupAt(t, s))
    BY LineupIsFinite, Zenon
  <2>3. PICK required \in Nat : required = c.num_required[s]
    BY <1>8 DEF WellShaped, RealSlots
  <2>4. row[s] = Max({0, required - m})
    BY <1>3, <1>7, <1>9, <1>13, <2>1, <2>2, <2>3, Zenon DEF SlotFollows, PositionsAreThosePicked
  <2>5. PICK p : p = position /\ p = PositionOf(id)
    BY <1>1, <1>13, Zenon DEF PositionsAreThosePicked
  <2>6. fill_slot(c, row, p)[s] = IF s = p /\ row[s] > 0 THEN row[s] - 1 ELSE row[s]
    BY FillsOwnSlotFirst
  <2>7. CASE t = team /\ p = s
    <3>1. PICK left : left = row[s]
      OBVIOUS
    <3>2. still_required'[t][s] = IF left > 0 THEN left - 1 ELSE left
      BY <1>10, <2>1, <2>5, <2>6, <2>7, <3>1, Zenon
    <3>3. Cardinality(LineupAt(t, s)') = m + 1
      <4>1. LineupAt(t, s)' = LineupAt(t, s) \cup {pick + 1} /\ pick + 1 \notin LineupAt(t, s)
        BY <1>11, <2>5, <2>7, Zenon
      <4> QED
        BY <2>2, <4>1, FS_AddElement, Zenon
    <3>4. (IF left > 0 THEN left - 1 ELSE left) = Max({0, required - (m + 1)})
      BY <2>4, <3>1, ChargeLeavesOpen, Zenon
    <3> QED
      BY <1>3, <1>7, <2>3, <3>2, <3>3, <3>4, Zenon DEF SlotFollows
  <2>8. CASE ~(t = team /\ p = s)
    <3>1. still_required'[t][s] = row[s]
      BY <1>10, <2>1, <2>5, <2>6, <2>8, Zenon
    <3>2. LineupAt(t, s)' = LineupAt(t, s)
      BY <1>11, <2>5, <2>8, Zenon
    <3> QED
      BY <1>3, <1>7, <2>2, <2>3, <2>4, <3>1, <3>2, Zenon DEF SlotFollows
  <2> QED
    BY <2>7, <2>8
<1> QED
  BY <1>3, <1>7, <1>12, <1>13, NextSlotsFollow, Zenon

LEMMA BenchedSlotsFollow ==
  ASSUME TypeOK, BenchedArePicks, SlotsFollowPicks, Benched
  PROVE  SlotsFollowPicks'
<1>1. PICK id \in Ids, team \in team_with_pick(pick) :
        taken' = Append(taken, [player_id |-> id, by_team |-> team])
  BY Zenon DEF Benched
<1>2. /\ UNCHANGED <<config, players, still_required, undone, unknown>>
      /\ benched' = benched \cup {pick}
  BY Zenon DEF Benched
<1>3. ASSUME NEW t, NEW s
      PROVE  Lineup(t)' = Lineup(t) /\ LineupAt(t, s)' = LineupAt(t, s)
  <2>1. PICK counts \in BOOLEAN : ~counts
    OBVIOUS
  <2>2. (counts => UNCHANGED benched) /\ (~counts => benched' = benched \cup {pick})
    BY <1>2, <2>1, Zenon
  <2>3. Joins(counts, id, team, t, s)
    BY <1>1, <1>2, <2>2, LineupAfterPick, Zenon
  <2> QED
    BY <2>1, <2>3, Zenon DEF Joins
<1>4. PICK c : c = config
  OBVIOUS
<1>5. (Drafting' => Drafting) /\ (PositionsAreThosePicked' => PositionsAreThosePicked)
  BY <1>2, Zenon DEF Drafting, PositionsAreThosePicked
<1>6. \A t : RosterFits(t)' <=> RosterFits(t)
  BY <1>2, <1>3, Zenon DEF RosterFits
<1>7. \A t, s : SlotFollows(t, s)' <=> SlotFollows(t, s)
  BY <1>2, <1>3, Zenon DEF SlotFollows
<1> QED
  BY <1>2, <1>4, <1>5, <1>6, <1>7, SlotsFollowPicksByTeam, NextSlotsFollow, Zenon

LEMMA KeptSlotsFollow ==
  ASSUME TypeOK, PoolTypeOK, KnownPicks, SlotsFollowPicks, Kept
  PROVE  SlotsFollowPicks'
<1>1. /\ UNCHANGED <<config, taken, still_required, benched, undone>>
      /\ unknown => unknown'
      /\ PoolStep
  BY Zenon DEF Kept
<1>2. \A t : Lineup(t)' = Lineup(t)
  BY <1>1, Zenon DEF Lineup
<1>3. ASSUME PositionsAreThosePicked', NEW t, NEW s
      PROVE  LineupAt(t, s)' = LineupAt(t, s)
  <2>1. TakenIds \subseteq Ids
    BY <1>1, <1>3, Zenon DEF KnownPicks, PositionsAreThosePicked
  <2>2. ASSUME NEW i \in Lineup(t)
        PROVE  PositionOf(taken[i].player_id)' = PositionOf(taken[i].player_id)
    <3>1. i \in DOMAIN taken
      BY Zenon DEF Lineup
    <3>2. PICK id : id = taken[i].player_id
      OBVIOUS
    <3>3. id \in Ids
      BY <2>1, <3>1, <3>2, Zenon DEF TakenIds
    <3>4. taken' # <<>>
      BY <1>1, <3>1
    <3>5. id \in Ids' /\ players'[id + 1] = players[id + 1]
      BY <1>1, <3>3, <3>4, IdKeepsPlayer, Zenon
    <3> QED
      BY <1>1, <3>2, <3>3, <3>5, Zenon DEF PositionOf, get_player_by_id
  <2>3. \A i \in Lineup(t) :
          PositionOf(taken[i].player_id)' = s <=> PositionOf(taken[i].player_id) = s
    BY <2>2, Zenon
  <2>4. LineupAt(t, s)' = { i \in Lineup(t) : PositionOf(taken[i].player_id)' = s }
    BY <1>2, Zenon DEF LineupAt
  <2> QED
    BY <2>3, <2>4, Zenon DEF LineupAt
<1>4. PICK c : c = config
  OBVIOUS
<1>5. (Drafting' => Drafting) /\ (PositionsAreThosePicked' => PositionsAreThosePicked)
  BY <1>1, Zenon DEF Drafting, PositionsAreThosePicked
<1>6. \A t : RosterFits(t)' <=> RosterFits(t)
  BY <1>1, <1>2, Zenon DEF RosterFits
<1>7. PositionsAreThosePicked' => \A t, s : SlotFollows(t, s)' <=> SlotFollows(t, s)
  BY <1>1, <1>3, Zenon DEF SlotFollows
<1> QED
  BY <1>1, <1>4, <1>5, <1>6, <1>7, SlotsFollowPicksByTeam, NextSlotsFollow, Zenon

LEMMA FreshSlotsFollow ==
  ASSUME Fresh, TypeOK'
  PROVE  SlotsFollowPicks'
<1>1. SUFFICES ASSUME config' # NoConfig PROVE SlotsFollowPicks'
  BY Zenon DEF SlotsFollowPicks, Drafting
<1>2. PICK c : c = config'
  OBVIOUS
<1>3. taken' = <<>> /\ still_required' = InitialRequirements(c)
  BY <1>1, <1>2, Zenon DEF Fresh
<1>4. WellShaped(c)
  <2>1. \E file \in ConfigFiles : c \in ConfigsOf(file)
    BY <1>1, <1>2, Zenon DEF TypeOK, NoDraft, DraftTypeOK
  <2> QED
    BY <2>1, LoadedConfigIsSound, Zenon DEF Sound
<1>5. ASSUME NEW t, NEW s
      PROVE  Lineup(t)' = {} /\ LineupAt(t, s)' = {}
  BY <1>3 DEF Lineup, LineupAt
<1>6. Cardinality({}) = 0
  BY FS_EmptySet
<1>7. ASSUME NEW t \in Teams(c) PROVE RosterFits(t)'
  <2>1. still_required'[t] = c.num_required
    BY <1>3, Zenon DEF InitialRequirements
  <2>2. FilledSlots(c, c.num_required) = 0
    BY <1>4, NothingIsFilledFirst, Zenon
  <2>3. FilledSlots(c, c.num_required) <= Cardinality({})
    BY <1>6, <2>2
  <2>4. \A s \in Slots(c) : c.num_required[s] >= 0
    BY <1>4 DEF WellShaped
  <2> QED
    BY <1>2, <1>5, <2>1, <2>3, <2>4, Zenon DEF RosterFits
<1>8. ASSUME NEW t \in Teams(c), NEW s \in RealSlots(c) PROVE SlotFollows(t, s)'
  <2>1. still_required'[t] = c.num_required
    BY <1>3, Zenon DEF InitialRequirements
  <2>2. c.num_required[s] \in Nat
    BY <1>4 DEF WellShaped, RealSlots
  <2>3. PICK required \in Nat : required = c.num_required[s]
    BY <2>2
  <2>4. required - 0 = required /\ (IF required > 0 THEN required ELSE 0) = required
    OBVIOUS
  <2>5. Max({0, required - Cardinality({})}) = required
    BY <1>6, <2>4, MaxWithZero
  <2> QED
    BY <1>2, <1>5, <2>1, <2>3, <2>5, Zenon DEF SlotFollows
<1> QED
  BY <1>2, <1>7, <1>8, Zenon DEF SlotsFollowPicks, OneSlotPerPick, OwnSlotsFilled,
                                 RosterFits, SlotFollows

LEMMA SlotsStep ==
  ASSUME TypeOK, PoolTypeOK, PicksFollowOrder, BooksInv, SlotsInv, [HNext]_allVars
  PROVE  SlotsInv'
<1>1. BooksStep
  BY EveryStepIsBooksStep
<1>2. BenchedArePicks /\ SlotsFollowPicks /\ KnownPicks /\ ReplayAgrees
  BY Zenon DEF SlotsInv, BooksInv
<1>3. TypeOK'
  BY HistoryIsEngine, TypeStep
<1>4. BenchedArePicks'
  BY <1>1, <1>2, BenchedArePicksStep
<1>5. ASSUME UndoBegins \/ UndoContinues PROVE SlotsFollowPicks'
  <2>1. undone'
    BY <1>2, <1>5, Zenon DEF UndoBegins, UndoContinues, UndoReplay, ReplayAgrees
  <2> QED
    BY <2>1, Zenon DEF SlotsFollowPicks, Drafting
<1>6. SlotsFollowPicks'
  BY <1>1, <1>2, <1>3, <1>5, FreshSlotsFollow, DraftedSlotsFollow, BenchedSlotsFollow,
     KeptSlotsFollow, Zenon DEF BooksStep
<1> QED
  BY <1>4, <1>6, Zenon DEF SlotsInv

(* Until a pick is undone, what a team still requires follows from the     *)
(* players it has: fill_slot charges one slot at most, the player's own    *)
(* before a flex slot, and none beyond what it requires.                   *)
THEOREM RostersFollowPicks == HSpec => []SlotsFollowPicks
<1>1. HInit => SlotsInv
  BY Zenon DEF HInit, Init, SlotsInv, BenchedArePicks, SlotsFollowPicks, Drafting
<1>2. EngineInv /\ BooksInv /\ SlotsInv /\ [HNext]_allVars => SlotsInv'
  BY SlotsStep, Zenon DEF EngineInv
<1>3. SlotsInv => SlotsFollowPicks
  BY Zenon DEF SlotsInv
<1> QED
  BY <1>1, <1>2, <1>3, EngineInvariant, BooksInvariant, PTL DEF HSpec

-----------------------------------------------------------------------------
(* A draft that was saved.                                                 *)

(* The requirements after the picks t, as the players of a pool have it.   *)
PositionIn(pool, id) == (IF id \in 0 .. Len(pool) - 1 THEN pool[id + 1] ELSE ZeroRecord).position

ChargeIn(pool, c, requirements, made) ==
  [requirements EXCEPT ![made.by_team] = fill_slot(c, @, PositionIn(pool, made.player_id))]

RunIn(pool, c, t, g) ==
  /\ g[0] = InitialRequirements(c)
  /\ \A k \in 1 .. Len(t) : g[k] = ChargeIn(pool, c, g[k - 1], t[k])

BooksOf(pool, c, t, requirements) ==
  \E g : RunIn(pool, c, t, g) /\ requirements = g[Len(t)]

LEMMA RunInIsRun ==
  ASSUME NEW pool, pool = players, NEW c, NEW t, NEW g
  PROVE  RunIn(pool, c, t, g) <=> Run(c, t, Len(t), g)
<1>1. \A id : PositionIn(pool, id) = get_player_by_id(id).position
  BY Zenon DEF PositionIn, get_player_by_id, Ids, number_of_players
<1>2. \A r, made : ChargeIn(pool, c, r, made) = charge(c, r, made)
  BY <1>1, Zenon DEF ChargeIn, charge
<1> QED
  BY <1>2, Zenon DEF RunIn, Run

LEMMA ContextIsBooks ==
  ASSUME NEW pool, pool = players, NEW c, NEW t, Len(t) \in Nat
  PROVE  BooksOf(pool, c, t, create_search_context(c, t))
<1>1. PICK g : Run(c, t, Len(t), g) /\ create_search_context(c, t) = g[Len(t)]
  BY ContextIsRun, Zenon
<1> QED
  BY <1>1, RunInIsRun, Zenon DEF BooksOf

LEMMA BooksAreContext ==
  ASSUME NEW pool, pool = players, NEW c, NEW t, Len(t) \in Nat,
         NEW requirements, BooksOf(pool, c, t, requirements)
  PROVE  requirements = create_search_context(c, t)
<1> DEFINE n == Len(t)
<1>1. PICK g : Run(c, t, n, g) /\ create_search_context(c, t) = g[n]
  BY ContextIsRun, Zenon
<1>2. PICK h : Run(c, t, n, h) /\ requirements = h[n]
  BY RunInIsRun, Zenon DEF BooksOf
<1>3. \A k \in 0 .. n : g[k] = h[k]
  BY <1>1, <1>2, RunsAgree
<1>4. n \in 0 .. n
  OBVIOUS
<1> QED
  BY <1>1, <1>2, <1>3, <1>4, Zenon

(* What is known of the draft that was saved: s is a snapshot of it.       *)
IdIn(pool, id) == id \in 0 .. Len(pool) - 1

SoundSave(s) ==
  /\ s.taken \in Seq(AnyPick)
  /\ \A i, j \in DOMAIN s.taken : s.taken[i].player_id = s.taken[j].player_id => i = j
  /\ \A i \in DOMAIN s.taken :
       /\ i - 1 \in DOMAIN s.order => s.taken[i].by_team = s.order[i - 1]
       /\ IdIn(s.players, s.taken[i].player_id) \/ s.taken[i].player_id = 0
  /\ s.plain =>
       /\ \A i \in DOMAIN s.taken : IdIn(s.players, s.taken[i].player_id)
       /\ BooksOf(s.players, s.config, s.taken, s.still_required)

(* A text has no id but those of the draft, its last line perhaps apart.   *)
TextFollows(text, s) ==
  /\ Len(text) <= Len(s.taken)
  /\ \A i \in 1 .. Len(text) - 1 : text[i] = s.taken[i].player_id

FilesInv ==
  /\ saved = [f \in SaveFiles |-> saved[f]]
  /\ \A f \in SaveFiles :
       disk[f] # NoFile => SoundSave(saved[f]) /\ TextFollows(disk[f], saved[f])

(* A draft is of ids of the pool and of those the empty pool stood for.    *)
RealIds == \A id \in TakenIds : id \in Ids \/ id = 0

(* A draft being loaded has the picks of the lines read.                   *)
LoadInv ==
  pc = "load" =>
    /\ cursor = pick
    /\ cursor <= Len(disk[open_file])
    /\ \A i \in 1 .. cursor : taken[i].player_id = IdOfRecord(disk[open_file][i])
    /\ benched = {}
    /\ ~undone
    /\ unknown => \E i \in 1 .. cursor : disk[open_file][i] \notin Ids

(* Only save writes to a file.                                             *)
LEMMA FilesKept ==
  ASSUME [HNext]_allVars
  PROVE  RememberSave \/ UNCHANGED <<disk, saved>>
<1>1. CASE RememberNewDraft
  BY <1>1, Zenon DEF RememberNewDraft, NewDraft, load_draft_config, load_player_pool, load,
                     Restart
<1>2. CASE RememberBench \/ RememberUndo
  BY <1>2, Zenon DEF RememberBench, Bench, bench, RememberUndo, undo_pick
<1>3. CASE RememberLoopStep
  BY <1>3, Zenon DEF RememberLoopStep, LoopStep, UndoReplay, UndoRunsOff, UndoReturns,
                     LoadOne, LoadRunsOff, LoadReturns, SimPick, SimCrashes, SimReturns, Crash
<1>4. CASE OtherCommand /\ UNCHANGED memory
  BY <1>4, Zenon DEF OtherCommand, memory, make_pick, make_pick_Crashes, bench_Crashes,
                     give_pick, load_player_pool_Fails, set_think_time, think_pick_Crashes,
                     sim_draft, do_exit, Crash
<1>5. CASE UNCHANGED allVars
  BY <1>5, Zenon DEF allVars, vars, memory
<1> QED
  BY <1>1, <1>2, <1>3, <1>4, <1>5, Zenon DEF HNext

(* A load begins, takes a line, or waits.                                  *)
LEMMA LoadGoesOn ==
  ASSUME [HNext]_allVars, pc' = "load"
  PROVE  \/ \E file \in SaveFiles : load(file) /\ RememberNewDraft
         \/ LoadOne /\ RememberLoopStep
         \/ UNCHANGED allVars
<1>1. pc' # "prompt" /\ pc' # "crashed" /\ pc' # "undo" /\ pc' # "sim" /\ pc' # "exited"
  OBVIOUS
<1>2. CASE RememberNewDraft
  BY <1>1, <1>2, Zenon DEF RememberNewDraft, NewDraft, load_draft_config, load_player_pool,
                           Ready, Restart
<1>3. CASE RememberBench \/ RememberUndo
  BY <1>1, <1>3, Zenon DEF RememberBench, Bench, bench, Ready, RememberUndo, undo_pick
<1>4. CASE RememberSave
  <2>1. pc' \in {"prompt", "crashed"}
    BY <1>4, Zenon DEF RememberSave, save, save_CutShort, Ready
  <2> QED
    BY <1>1, <2>1
<1>5. CASE RememberLoopStep
  BY <1>1, <1>5, Zenon DEF RememberLoopStep, LoopStep, UndoReplay, UndoRunsOff, UndoReturns,
                     LoadRunsOff, LoadReturns, SimPick, SimCrashes, SimReturns, Crash
<1>6. CASE OtherCommand
  BY <1>1, <1>6, Zenon DEF OtherCommand, make_pick, make_pick_Crashes, bench_Crashes,
                     give_pick, load_player_pool_Fails, set_think_time, think_pick_Crashes,
                     sim_draft, do_exit, Crash, Ready
<1> QED
  BY <1>2, <1>3, <1>4, <1>5, <1>6, Zenon DEF HNext

(* A load ends without a pick.                                             *)
LEMMA LoadStops ==
  ASSUME [HNext]_allVars, LoadEnds
  PROVE  /\ UNCHANGED <<taken, still_required>>
         /\ \/ LoadAtEnd
            \/ LoadRejected
            \/ ~LoadAtEnd /\ PastTheEnd(pick)
<1>1. pc = "load" /\ pc' # "load"
  BY Zenon DEF LoadEnds
<1>2. pc # "prompt" /\ pc # "crashed" /\ pc # "undo" /\ pc # "sim" /\ pc # "exited"
  BY <1>1
<1>3. CASE RememberNewDraft
  <2>1. pc \notin {"exited", "crashed"}
    BY <1>2
  <2> QED
    BY <1>2, <1>3, <2>1, Zenon DEF RememberNewDraft, NewDraft, load_draft_config, load,
                             load_player_pool, Ready, Restart
<1>4. CASE RememberBench \/ RememberUndo \/ RememberSave
  BY <1>2, <1>4, Zenon DEF RememberBench, Bench, bench, Ready, RememberUndo, undo_pick,
                           RememberSave, save, save_CutShort
<1>5. CASE RememberLoopStep
  <2>1. LoadRunsOff \/ LoadReturns
    BY <1>1, <1>2, <1>5, Zenon DEF RememberLoopStep, LoopStep, UndoReplay, UndoRunsOff,
                UndoReturns, LoadOne, SimPick, SimCrashes, SimReturns
  <2> QED
    BY <2>1, Zenon DEF LoadRunsOff, LoadReturns, Crash, draftStateVars
<1>6. CASE OtherCommand
  BY <1>1, <1>2, <1>6, Zenon DEF OtherCommand, make_pick, make_pick_Crashes, bench_Crashes,
                     give_pick, load_player_pool_Fails, set_think_time, think_pick_Crashes,
                     sim_draft, do_exit, Ready
<1>7. CASE UNCHANGED allVars
  BY <1>1, <1>7, Zenon DEF allVars, vars
<1> QED
  BY <1>3, <1>4, <1>5, <1>6, <1>7, Zenon DEF HNext

LEMMA RealIdsStep ==
  ASSUME TypeOK, PoolTypeOK, RealIds, BooksStep
  PROVE  RealIds'
<1> DEFINE n == Len(taken)
<1>0. taken \in Seq(AnyPick)
  BY TakenIsSequence
<1>1. CASE Fresh
  <2>1. TakenIds' = {}
    BY <1>1 DEF Fresh, TakenIds
  <2> QED
    BY <2>1, Zenon DEF RealIds
<1>2. ASSUME NEW id, NEW team, id \in Ids \/ id = 0,
             taken' = Append(taken, [player_id |-> id, by_team |-> team]), UNCHANGED players
      PROVE  RealIds'
  <2> DEFINE new == [player_id |-> id, by_team |-> team]
  <2>1. new.player_id = id
    OBVIOUS
  <2>2. taken' = Append(taken, new)
    BY <1>2
  <2> HIDE DEF new
  <2>3. /\ DOMAIN taken = 1 .. n /\ DOMAIN taken' = 1 .. n + 1
        /\ \A i \in 1 .. n : taken'[i] = taken[i]
        /\ taken'[n + 1] = new
    BY <1>0, <2>2, AppendFacts
  <2>4. \A i \in 1 .. n + 1 : i \in 1 .. n \/ i = n + 1
    BY <1>0
  <2>5. TakenIds' \subseteq TakenIds \cup {id}
    BY <2>1, <2>3, <2>4, Zenon DEF TakenIds
  <2>6. Ids' = Ids
    BY <1>2, Zenon DEF Ids, number_of_players
  <2> QED
    BY <1>2, <2>5, <2>6, Zenon DEF RealIds
<1>3. CASE Drafted
  <2>1. PICK id, position : id \in Nat /\ DraftPlayer(id, position) /\ (id \in Ids \/ id = 0)
    BY <1>3, Zenon DEF Drafted
  <2>2. PICK team : taken' = Append(taken, [player_id |-> id, by_team |-> team])
    BY <2>1, Zenon DEF DraftPlayer
  <2>3. UNCHANGED players
    BY <1>3, Zenon DEF Drafted
  <2> QED
    BY <1>2, <2>1, <2>2, <2>3, Zenon
<1>4. CASE Benched
  BY <1>2, <1>4, Zenon DEF Benched
<1>5. CASE UndoBegins
  <2>1. taken' = Front(taken) /\ UNCHANGED players /\ taken # <<>>
    BY <1>0, <1>5 DEF UndoBegins, undo_pick, poolVars, pick
  <2>2. /\ DOMAIN taken' \subseteq DOMAIN taken
        /\ \A i \in DOMAIN taken' : taken'[i] = taken[i]
    BY <1>0, <2>1, FrontFacts
  <2>3. TakenIds' \subseteq TakenIds
    BY <2>2, Zenon DEF TakenIds
  <2> QED
    BY <2>1, <2>3, Zenon DEF RealIds, Ids, number_of_players
<1>6. CASE UndoContinues
  BY <1>6, Zenon DEF UndoContinues, UndoReplay, poolVars, RealIds, TakenIds, Ids,
                     number_of_players
<1>7. CASE Kept
  <2>1. TakenIds' = TakenIds /\ PoolStep
    BY <1>7, Zenon DEF Kept, TakenIds
  <2>2. ASSUME NEW id \in TakenIds, id \in Ids PROVE id \in Ids'
    <3>1. taken' # <<>>
      BY <1>7, <2>2 DEF Kept, TakenIds
    <3> QED
      BY <2>1, <2>2, <3>1, IdKeepsPlayer, Zenon
  <2> QED
    BY <2>1, <2>2, Zenon DEF RealIds
<1> QED
  BY <1>1, <1>3, <1>4, <1>5, <1>6, <1>7, Zenon DEF BooksStep

LEMMA LoadInvStep ==
  ASSUME TypeOK, CursorRests, LoadInv, [HNext]_allVars
  PROVE  LoadInv'
<1> SUFFICES ASSUME pc' = "load" PROVE LoadInv'
  BY Zenon DEF LoadInv
<1>1. ASSUME NEW file \in SaveFiles, load(file), RememberNewDraft PROVE LoadInv'
  <2>1. /\ taken' = <<>> /\ cursor' = cursor /\ cursor = 0 /\ open_file' = file
        /\ disk' = disk /\ disk[file] # NoFile
    BY <1>1, Zenon DEF load, Ready, init_draftstate, CursorRests
  <2>2. Len(disk[file]) \in Nat
    <3>1. disk[file] \in Seq(Nat)
      BY <2>1, Zenon DEF TypeOK
    <3> QED
      BY <3>1
  <2>3. benched' = {} /\ ~undone' /\ ~unknown'
    BY <1>1, Zenon DEF RememberNewDraft
  <2>4. (/\ cursor = pick
         /\ cursor <= Len(disk[open_file])
         /\ \A i \in 1 .. cursor : taken[i].player_id = IdOfRecord(disk[open_file][i]))'
    BY <2>1, <2>2 DEF pick
  <2> QED
    BY <2>3, <2>4, Zenon DEF LoadInv
<1>2. CASE LoadOne /\ RememberLoopStep
  <2> DEFINE n == Len(taken)
             text == disk[open_file]
  <2>1. /\ pc = "load" /\ ~LoadAtEnd /\ cursor' = cursor + 1
        /\ UNCHANGED <<open_file, disk, players>>
    BY <1>2, Zenon DEF LoadOne, poolVars
  <2>2. /\ cursor = n /\ cursor <= Len(text)
        /\ \A i \in 1 .. cursor : taken[i].player_id = IdOfRecord(text[i])
        /\ benched = {} /\ ~undone
        /\ unknown => \E i \in 1 .. cursor : text[i] \notin Ids
    BY <2>1, Zenon DEF LoadInv, pick
  <2>3. taken \in Seq(AnyPick) /\ Len(text) \in Nat
    <3>1. text \in Seq(Nat)
      BY <2>1, Zenon DEF TypeOK
    <3> QED
      BY <3>1, TakenIsSequence
  <2>4. PICK team : taken' = Append(taken, [player_id |-> LoadedId, by_team |-> team])
    BY <1>2, Zenon DEF LoadOne, DraftPlayer
  <2>5. PICK new : new = [player_id |-> LoadedId, by_team |-> team]
    OBVIOUS
  <2>6. new.player_id = LoadedId /\ taken' = Append(taken, new)
    BY <2>4, <2>5
  <2>7. /\ n \in Nat /\ DOMAIN taken = 1 .. n /\ DOMAIN taken' = 1 .. n + 1
        /\ \A i \in 1 .. n : taken'[i] = taken[i]
        /\ taken'[n + 1] = new
    BY <2>3, <2>6, AppendFacts
  <2>8. Len(taken') = n + 1
    <3>1. new \in AnyPick \cup {new} /\ taken \in Seq(AnyPick \cup {new})
      BY <2>3
    <3> DEFINE T == AnyPick \cup {new}
    <3> HIDE DEF T
    <3>2. taken \in Seq(T) /\ new \in T
      BY <3>1, Zenon DEF T
    <3> QED
      BY <2>6, <3>2
  <2>9. Ids' = Ids /\ \A id : IdOfRecord(id)' = IdOfRecord(id)
    BY <2>1, Zenon DEF IdOfRecord, Ids, number_of_players
  <2>10. \A i \in 1 .. n + 1 : i \in 1 .. n \/ i = n + 1
    BY <2>7
  <2>11. \A i \in 1 .. n + 1 : taken'[i].player_id = IdOfRecord(text[i])
    BY <2>2, <2>6, <2>7, <2>10, Zenon DEF LoadedId, AskedId
  <2>12. \A i : i \in 1 .. n \/ i = n + 1 => i \in 1 .. n + 1
    BY <2>7
  <2>13. /\ benched' = {} /\ ~undone'
         /\ unknown' => \E i \in 1 .. n + 1 : text[i] \notin Ids'
    <3>1. /\ UNCHANGED <<benched, undone>>
          /\ unknown' => unknown \/ text[n + 1] \notin Ids
      BY <1>2, <2>2, Zenon DEF RememberLoopStep, AskedId
    <3> QED
      BY <2>2, <2>9, <2>12, <3>1, Zenon
  <2>14. cursor' = pick'
    BY <2>1, <2>2, <2>8, Zenon DEF pick
  <2>15. cursor' <= Len(text)
    BY <2>1, <2>2, <2>3, <2>7 DEF LoadAtEnd
  <2>16. (/\ \A i \in 1 .. cursor : taken[i].player_id = IdOfRecord(disk[open_file][i])
          /\ unknown => \E i \in 1 .. cursor : disk[open_file][i] \notin Ids)'
    BY <2>1, <2>2, <2>9, <2>11, <2>13, Zenon
  <2> QED
    BY <2>1, <2>13, <2>14, <2>15, <2>16, Zenon DEF LoadInv
<1>3. CASE UNCHANGED allVars
  BY <1>3, Zenon DEF allVars, vars, memory, poolVars, LoadInv, pick, TakenIds, IdOfRecord,
                     Ids, number_of_players
<1> QED
  BY <1>1, <1>2, <1>3, LoadGoesOn, Zenon

(* The text a save leaves, whole or cut short.                             *)
LEMMA SaveWritesText ==
  ASSUME TypeOK, NEW file \in SaveFiles, save(file) \/ save_CutShort(file)
  PROVE  \E text :
           /\ disk' = [disk EXCEPT ![file] = text]
           /\ Len(text) <= Len(taken)
           /\ \A i \in 1 .. Len(text) - 1 : text[i] = taken[i].player_id
<1>1. DraftTypeOK
  BY DraftIsSound, Zenon DEF save, save_CutShort, Ready
<1>2. SavedIds \in Seq(Nat) /\ DOMAIN SavedIds = DOMAIN taken
  BY <1>1, SavedIdsType
<1>3. taken \in Seq(AnyPick)
  BY TakenIsSequence
<1>4. PICK n \in Nat : n = Len(taken) /\ DOMAIN taken = 1 .. n
  BY <1>3
<1>5. Len(SavedIds) = n /\ \A i \in 1 .. n : SavedIds[i] = taken[i].player_id
  <2>1. \A i \in 1 .. n : SavedIds[i] = taken[i].player_id
    BY <1>4, Zenon DEF SavedIds
  <2>2. Len(SavedIds) = n
    <3>1. Len(SavedIds) \in Nat /\ DOMAIN SavedIds = 1 .. Len(SavedIds)
      BY <1>2
    <3> QED
      BY <1>2, <1>4, <3>1
  <2> QED
    BY <2>1, <2>2
<1>6. CASE save(file)
  <2>1. disk' = [disk EXCEPT ![file] = SavedIds]
    BY <1>6, Zenon DEF save
  <2>2. Len(SavedIds) <= Len(taken)
        /\ \A i \in 1 .. Len(SavedIds) - 1 : SavedIds[i] = taken[i].player_id
    BY <1>4, <1>5
  <2> QED
    BY <2>1, <2>2, Zenon
<1>7. CASE save_CutShort(file)
  <2>1. PICK k \in DOMAIN taken :
          \/ disk' = [disk EXCEPT ![file] = SubSeq(SavedIds, 1, k - 1)]
          \/ \E v \in LeadingDigits(SavedIds[k]) :
               disk' = [disk EXCEPT ![file] = Append(SubSeq(SavedIds, 1, k - 1), v)]
    BY <1>7, Zenon DEF save_CutShort
  <2>2. k \in 1 .. n
    BY <1>4, <2>1
  <2>3. PICK lines \in Seq(Nat) :
          lines = SubSeq(SavedIds, 1, k - 1) /\ Len(lines) = k - 1
          /\ \A i \in 1 .. k - 1 : lines[i] = taken[i].player_id
    <3>1. SubSeq(SavedIds, 1, k - 1) \in Seq(Nat) /\ Len(SubSeq(SavedIds, 1, k - 1)) = k - 1
          /\ \A i \in 1 .. k - 1 : SubSeq(SavedIds, 1, k - 1)[i] = SavedIds[i]
      BY <1>2, <1>5, <2>2
    <3>2. \A i \in 1 .. k - 1 : i \in 1 .. n
      BY <2>2
    <3> QED
      BY <1>5, <3>1, <3>2, Zenon
  <2>4. Len(lines) <= n /\ \A i \in 1 .. Len(lines) - 1 : lines[i] = taken[i].player_id
    BY <2>2, <2>3
  <2>5. ASSUME NEW v \in LeadingDigits(SavedIds[k])
        PROVE  /\ Len(Append(lines, v)) <= n
               /\ \A i \in 1 .. Len(Append(lines, v)) - 1 : Append(lines, v)[i] = taken[i].player_id
    <3>1. v \in Nat
      BY <1>2, <2>1 DEF LeadingDigits
    <3>2. /\ Len(Append(lines, v)) = k
          /\ \A i \in 1 .. k - 1 : Append(lines, v)[i] = lines[i]
      BY <2>2, <2>3, <3>1
    <3> QED
      BY <2>2, <2>3, <3>2
  <2>6. CASE disk' = [disk EXCEPT ![file] = lines]
    BY <1>4, <2>4, <2>6, Zenon
  <2>7. ASSUME NEW v \in LeadingDigits(SavedIds[k]),
               disk' = [disk EXCEPT ![file] = Append(lines, v)]
        PROVE  \E text :
                 /\ disk' = [disk EXCEPT ![file] = text]
                 /\ Len(text) <= Len(taken)
                 /\ \A i \in 1 .. Len(text) - 1 : text[i] = taken[i].player_id
    <3>1. PICK text : text = Append(lines, v)
      OBVIOUS
    <3>2. Len(text) <= n /\ \A i \in 1 .. Len(text) - 1 : text[i] = taken[i].player_id
      BY <2>5, <3>1, Zenon
    <3> QED
      BY <1>4, <2>7, <3>1, <3>2, Zenon
  <2> QED
    BY <2>1, <2>3, <2>6, <2>7, Zenon
<1> QED
  BY <1>6, <1>7

LEMMA SnapshotIsSound ==
  ASSUME TypeOK, PicksFollowOrder, NoPlayerTwice, RealIds, KnownPicks, AgreesWithSearch,
         Ready
  PROVE  SoundSave(Snapshot)
<1> DEFINE s == Snapshot
<1>1. /\ s.taken = taken /\ s.still_required = still_required /\ s.config = config
      /\ s.order = order /\ s.players = players
      /\ s.plain <=> benched = {} /\ ~undone /\ ~unknown
  BY DEF Snapshot
<1> HIDE DEF s
<1>2. taken \in Seq(AnyPick) /\ Len(taken) \in Nat
  BY TakenIsSequence
<1>3. \A id : IdIn(players, id) <=> id \in Ids
  BY Zenon DEF IdIn, Ids, number_of_players
<1>4. \A i \in DOMAIN taken : taken[i].player_id \in TakenIds
  BY Zenon DEF TakenIds
<1>5. \A i \in DOMAIN taken : IdIn(players, taken[i].player_id) \/ taken[i].player_id = 0
  BY <1>3, <1>4, Zenon DEF RealIds
<1>6. ASSUME s.plain
      PROVE  /\ \A i \in DOMAIN taken : IdIn(players, taken[i].player_id)
             /\ BooksOf(players, config, taken, still_required)
  <2>1. benched = {} /\ ~undone /\ PositionsAreThosePicked
    BY <1>1, <1>6, Zenon DEF PositionsAreThosePicked
  <2>2. \A i \in DOMAIN taken : IdIn(players, taken[i].player_id)
    BY <1>3, <1>4, <2>1, Zenon DEF KnownPicks
  <2>3. still_required = create_search_context(config, taken)
    <3>1. pc # "undo" /\ config # NoConfig
      BY DEF Ready
    <3> QED
      BY <2>1, <3>1, Zenon DEF AgreesWithSearch
  <2>4. PICK pool, c, t : pool = players /\ c = config /\ t = taken
    BY Zenon
  <2>5. BooksOf(pool, c, t, create_search_context(c, t))
    BY <1>2, <2>4, ContextIsBooks, Zenon
  <2> QED
    BY <2>2, <2>3, <2>4, <2>5, Zenon
<1>7. \A i \in DOMAIN taken : i - 1 \in DOMAIN order => taken[i].by_team = order[i - 1]
  BY Zenon DEF PicksFollowOrder
<1>8. \A i, j \in DOMAIN taken : taken[i].player_id = taken[j].player_id => i = j
  BY Zenon DEF NoPlayerTwice
<1>9. SoundSave(s)
  BY <1>1, <1>2, <1>5, <1>6, <1>7, <1>8, Zenon DEF SoundSave
<1> QED
  BY <1>9, Zenon DEF s

LEMMA FilesInvStep ==
  ASSUME TypeOK, PicksFollowOrder, NoPlayerTwice, RealIds, KnownPicks, AgreesWithSearch,
         FilesInv, [HNext]_allVars
  PROVE  FilesInv'
<1>1. CASE UNCHANGED <<disk, saved>>
  BY <1>1, Zenon DEF FilesInv
<1>2. CASE RememberSave
  <2>1. PICK file \in SaveFiles :
          /\ save(file) \/ save_CutShort(file)
          /\ saved' = [saved EXCEPT ![file] = Snapshot]
    BY <1>2, Zenon DEF RememberSave
  <2>2. SoundSave(Snapshot)
    <3>1. Ready
      BY <2>1, Zenon DEF save, save_CutShort
    <3> QED
      BY <3>1, SnapshotIsSound
  <2>3. PICK text :
          /\ disk' = [disk EXCEPT ![file] = text]
          /\ Len(text) <= Len(taken)
          /\ \A i \in 1 .. Len(text) - 1 : text[i] = taken[i].player_id
    BY <2>1, SaveWritesText, Zenon
  <2>4. PICK s : s = Snapshot
    OBVIOUS
  <2>5. TextFollows(text, s)
    <3>1. s.taken = taken
      BY <2>4 DEF Snapshot
    <3> QED
      BY <2>3, <3>1, Zenon DEF TextFollows
  <2>6. DOMAIN disk = SaveFiles
    BY Zenon DEF TypeOK
  <2>7. saved = [f \in SaveFiles |-> saved[f]]
    BY Zenon DEF FilesInv
  <2>8. DOMAIN saved = SaveFiles
    BY <2>7, Zenon
  <2>9. \A f \in SaveFiles : /\ saved'[f] = IF f = file THEN s ELSE saved[f]
                             /\ disk'[f] = IF f = file THEN text ELSE disk[f]
    BY <2>1, <2>3, <2>4, <2>6, <2>8, Zenon
  <2>10. saved' = [f \in SaveFiles |-> saved'[f]]
    BY <2>1, <2>8, Zenon
  <2>11. \A f \in SaveFiles :
           disk'[f] # NoFile => SoundSave(saved'[f]) /\ TextFollows(disk'[f], saved'[f])
    BY <2>2, <2>4, <2>5, <2>9, Zenon DEF FilesInv
  <2> QED
    BY <2>10, <2>11, Zenon DEF FilesInv
<1> QED
  BY <1>1, <1>2, FilesKept, Zenon
(* What is known of a load's history.                                      *)
HistoryInv == NoPlayerTwice /\ RealIds /\ LoadInv /\ FilesInv

LEMMA HistoryInvariant == HSpec => []HistoryInv
<1>1. HInit => HistoryInv
  <2> SUFFICES ASSUME HInit PROVE HistoryInv
    OBVIOUS
  <2>1. DOMAIN taken = {} /\ pc # "load"
    BY DEF HInit, Init
  <2>2. /\ \A f \in SaveFiles : disk[f] = NoFile
        /\ saved = [f \in SaveFiles |-> NoFile]
    BY Zenon DEF HInit, Init
  <2>3. saved = [f \in SaveFiles |-> saved[f]]
    BY <2>2, Zenon
  <2> QED
    BY <2>1, <2>2, <2>3, Zenon DEF HistoryInv, NoPlayerTwice, RealIds, TakenIds, LoadInv, FilesInv
<1>2. EngineInv /\ BooksInv /\ HistoryInv /\ [HNext]_allVars => HistoryInv'
  <2>1. SUFFICES ASSUME EngineInv, BooksInv, HistoryInv, [HNext]_allVars PROVE HistoryInv'
    OBVIOUS
  <2>2. /\ TypeOK /\ PoolTypeOK /\ PicksFollowOrder
        /\ KnownPicks /\ CursorRests /\ AgreesWithSearch
        /\ NoPlayerTwice /\ RealIds /\ LoadInv /\ FilesInv
    BY <2>1, Zenon DEF EngineInv, BooksInv, HistoryInv
  <2>3. NoPlayerTwice'
    BY <2>1, <2>2, HistoryIsEngine, EveryStepIsBoardStep, NoPlayerTwiceStep
  <2>4. RealIds'
    BY <2>1, <2>2, EveryStepIsBooksStep, RealIdsStep
  <2>5. LoadInv'
    BY <2>1, <2>2, LoadInvStep
  <2>6. FilesInv'
    BY <2>1, <2>2, FilesInvStep
  <2> QED
    BY <2>3, <2>4, <2>5, <2>6, Zenon DEF HistoryInv
<1> QED
  BY <1>1, <1>2, EngineInvariant, BooksInvariant, PTL DEF HSpec

(* What a load that ends has made of the saved draft.                      *)
Resumed(s, text) ==
  LET draft == s.taken
      ids   == [i \in DOMAIN draft |-> draft[i].player_id]
  IN IF text = ids
     THEN /\ taken' = draft
          /\ s.plain => still_required' = s.still_required
     ELSE /\ Len(taken') <= Len(draft)
          /\ \A i \in 1 .. Len(text) - 1 : taken'[i] = draft[i]

LEMMA LoadResumes ==
  ASSUME TypeOK, PicksFollowOrder, NoPlayerTwice, AgreesWithSearch, HistoryInv,
         [HNext]_allVars, LoadEnds, SavedHere(open_file), saved[open_file].order = order
  PROVE  Resumed(saved[open_file], disk[open_file])
<1> DEFINE Text == disk[open_file]
           Save0 == saved[open_file]
<1>1. PICK text, s : text = Text /\ s = Save0
  BY Zenon
<1>2. /\ pc = "load" /\ open_file \in SaveFiles /\ Text # NoFile
      /\ DraftTypeOK /\ config # NoConfig
  <2>1. pc = "load"
    BY Zenon DEF LoadEnds
  <2>2. config # NoConfig
    BY <2>1, NoConfigAssumption, Zenon DEF TypeOK, NoDraft, DraftTypeOK, ConfigsOf
  <2> QED
    BY <2>1, <2>2, DraftIsSound, Zenon DEF TypeOK
<1>3. SoundSave(s) /\ TextFollows(text, s)
  BY <1>1, <1>2, Zenon DEF HistoryInv, FilesInv
<1>4. /\ s.config = config /\ s.players = players /\ s.order = order
      /\ Len(s.taken) <= n_picks
  BY <1>1, Zenon DEF SavedHere
<1>5. /\ cursor = Len(taken)
      /\ cursor <= Len(text)
      /\ \A i \in 1 .. cursor : taken[i].player_id = IdOfRecord(text[i])
      /\ benched = {} /\ ~undone
      /\ unknown => \E i \in 1 .. cursor : text[i] \notin Ids
  BY <1>1, <1>2, Zenon DEF HistoryInv, LoadInv, pick
<1>6. /\ UNCHANGED <<taken, still_required>>
      /\ LoadAtEnd \/ LoadRejected \/ (~LoadAtEnd /\ PastTheEnd(pick))
  BY LoadStops, Zenon
<1>7. PICK draft, n, m : draft = s.taken /\ n = Len(s.taken) /\ m = Len(text)
  BY Zenon
<1>8. /\ taken \in Seq(AnyPick) /\ draft \in Seq(AnyPick) /\ n \in Nat /\ m \in Nat
      /\ DOMAIN draft = 1 .. n /\ DOMAIN taken = 1 .. cursor /\ cursor \in Nat
  <2>1. text \in Seq(Nat)
    BY <1>1, <1>2, Zenon DEF TypeOK
  <2>2. draft \in Seq(AnyPick) /\ n = Len(draft)
    BY <1>3, <1>7, Zenon DEF SoundSave
  <2>3. taken \in Seq(AnyPick)
    BY TakenIsSequence
  <2> HIDE DEF AnyPick
  <2> QED
    BY <1>5, <1>7, <2>1, <2>2, <2>3
<1>9. m <= n /\ \A i \in 1 .. m - 1 : text[i] = draft[i].player_id
  BY <1>3, <1>7, Zenon DEF TextFollows
<1>10. \A i \in 1 .. n : IdOfRecord(draft[i].player_id) = draft[i].player_id
  <2>1. \A i \in 1 .. n : draft[i].player_id \in Ids \/ draft[i].player_id = 0
    BY <1>3, <1>4, <1>7, <1>8, Zenon DEF SoundSave, IdIn, Ids, number_of_players
  <2> QED
    BY <2>1, Zenon DEF IdOfRecord
<1>11. \A i \in 1 .. n : i - 1 \in DOMAIN order
  <2>1. DOMAIN order = 0 .. n_picks - 1
    BY <1>2, Zenon DEF DraftTypeOK
  <2>2. n_picks \in Nat
    BY <1>2, DraftIsSound, Zenon DEF Sound, WellShaped, n_picks
  <2>3. n <= n_picks
    BY <1>4, <1>7, Zenon
  <2> QED
    BY <1>8, <2>1, <2>2, <2>3
<1>12. ASSUME NEW i \in 1 .. cursor, text[i] = draft[i].player_id
       PROVE  taken[i] = draft[i]
  <2>1. i \in 1 .. n
    BY <1>5, <1>7, <1>8, <1>9
  <2>2. taken[i].player_id = draft[i].player_id
    BY <1>5, <1>10, <1>12, <2>1, Zenon
  <2>3. taken[i].by_team = order[i - 1]
    BY <1>8, <1>11, <2>1, Zenon DEF PicksFollowOrder
  <2>4. draft[i].by_team = order[i - 1]
    BY <1>3, <1>4, <1>7, <1>8, <1>11, <2>1, Zenon DEF SoundSave
  <2>5. taken[i] \in AnyPick /\ draft[i] \in AnyPick
    <3> HIDE DEF AnyPick
    <3> QED
      BY <1>8, <2>1
  <2> QED
    BY <2>2, <2>3, <2>4, <2>5 DEF AnyPick
(* An id of the draft is not that of a player it already has.              *)
<1>13. ASSUME cursor < m, text[cursor + 1] = draft[cursor + 1].player_id,
              \A i \in 1 .. cursor : taken[i] = draft[i]
       PROVE  FALSE
  <2>1. PICK k : k = cursor + 1
    OBVIOUS
  <2>2. k \in 1 .. n /\ \A i \in 1 .. cursor : i \in 1 .. n /\ i # k
    BY <1>8, <1>9, <1>13, <2>1
  <2>3. ~LoadAtEnd
    <3>1. cursor # m
      BY <1>8, <1>13
    <3> QED
      BY <1>1, <1>7, <3>1, Zenon DEF LoadAtEnd
  <2>4. LoadedId = draft[k].player_id
    BY <1>1, <1>10, <1>13, <2>1, <2>2, Zenon DEF LoadedId, AskedId
  <2>5. ~PastTheEnd(pick)
    <3>1. k - 1 = cursor
      BY <1>8, <2>1
    <3> QED
      BY <1>5, <1>11, <2>2, <3>1, Zenon DEF PastTheEnd, pick
  <2>6. is_taken(LoadedId)
    BY <1>6, <2>3, <2>5, Zenon DEF LoadRejected
  <2>7. PICK i \in 1 .. cursor : taken[i].player_id = draft[k].player_id
    BY <1>8, <2>4, <2>6, Zenon DEF is_taken
  <2>8. draft[i].player_id = draft[k].player_id
    BY <1>13, <2>7, Zenon
  <2>9. i = k
    BY <1>3, <1>7, <1>8, <2>2, <2>8, Zenon DEF SoundSave
  <2> QED
    BY <2>2, <2>9, Zenon
(* The whole text: the whole draft.                                        *)
<1>14. ASSUME text = [i \in DOMAIN draft |-> draft[i].player_id]
       PROVE  /\ taken' = draft
              /\ s.plain => still_required' = s.still_required
  <2>1. \A i \in 1 .. n : text[i] = draft[i].player_id
    BY <1>8, <1>14, Zenon
  <2>2. \A i \in 1 .. cursor : taken[i] = draft[i]
    <3>1. \A i \in 1 .. cursor : i \in 1 .. n
      BY <1>5, <1>7, <1>8, <1>9
    <3> QED
      BY <1>12, <2>1, <3>1, Zenon
  <2>3. m = n
    <3>1. text \in Seq(Nat) /\ DOMAIN text = 1 .. n
      BY <1>1, <1>2, <1>8, <1>14, Zenon DEF TypeOK
    <3> QED
      BY <1>7, <1>8, <3>1
  <2>4. cursor = n
    <3>1. ASSUME cursor < n PROVE FALSE
      <4>1. cursor + 1 \in 1 .. n
        BY <1>8, <3>1
      <4>2. text[cursor + 1] = draft[cursor + 1].player_id
        BY <2>1, <4>1, Zenon
      <4> QED
        BY <1>13, <2>2, <2>3, <3>1, <4>2, Zenon
    <3> QED
      BY <1>5, <1>7, <1>8, <1>9, <3>1
  <2>5. taken = draft
    <3>1. taken \in Seq(AnyPick) /\ draft \in Seq(AnyPick) /\ Len(taken) = n /\ Len(draft) = n
      BY <1>5, <1>7, <1>8, <2>4, Zenon
    <3>2. \A i \in 1 .. n : taken[i] = draft[i]
      BY <2>2, <2>4, Zenon
    <3> HIDE DEF AnyPick
    <3> QED
      BY <3>1, <3>2
  <2>6. ASSUME s.plain PROVE still_required' = s.still_required
    <3>1. /\ \A i \in DOMAIN draft : IdIn(players, draft[i].player_id)
          /\ BooksOf(players, config, draft, s.still_required)
      BY <1>3, <1>4, <1>7, <2>6, Zenon DEF SoundSave
    <3>2. \A i \in 1 .. cursor : text[i] \in Ids
      BY <1>8, <2>1, <2>4, <3>1, Zenon DEF IdIn, Ids, number_of_players
    <3>3. ~unknown
      BY <1>5, <3>2, Zenon
    <3>4. still_required = create_search_context(config, taken)
      BY <1>2, <1>5, <3>3, Zenon DEF AgreesWithSearch, PositionsAreThosePicked
    <3>5. PICK pool, c, r : pool = players /\ c = config /\ r = s.still_required
      BY Zenon
    <3>6. BooksOf(pool, c, draft, r) /\ Len(draft) \in Nat
      BY <1>7, <1>8, <3>1, <3>5, Zenon
    <3>7. r = create_search_context(c, draft)
      BY <3>5, <3>6, BooksAreContext, Zenon
    <3> QED
      BY <1>6, <2>5, <3>4, <3>5, <3>7, Zenon
  <2> QED
    BY <1>6, <2>5, <2>6, Zenon
(* Of a text cut short: the picks of its whole lines.                      *)
<1>15. /\ Len(taken') <= Len(draft)
       /\ \A i \in 1 .. Len(text) - 1 : taken'[i] = draft[i]
  <2>1. Len(taken) <= Len(draft)
    BY <1>5, <1>7, <1>8, <1>9
  <2>2. ASSUME cursor < m - 1 PROVE FALSE
    <3>1. /\ cursor + 1 \in 1 .. m - 1 /\ cursor < m
          /\ \A i \in 1 .. cursor : i \in 1 .. m - 1
      BY <1>8, <2>2
    <3>2. \A i \in 1 .. cursor : taken[i] = draft[i]
      BY <1>9, <1>12, <3>1, Zenon
    <3> QED
      BY <1>9, <1>13, <3>1, <3>2, Zenon
  <2>3. \A i \in 1 .. m - 1 : i \in 1 .. cursor
    BY <1>8, <2>2
  <2>4. \A i \in 1 .. m - 1 : taken[i] = draft[i]
    BY <1>9, <1>12, <2>3, Zenon
  <2> QED
    BY <1>6, <1>7, <2>1, <2>4, Zenon
<1>16. Resumed(s, text)
  BY <1>7, <1>14, <1>15, Zenon DEF Resumed
<1> QED
  BY <1>1, <1>16, Zenon

(* A draft saved and loaded again, under the same configuration, pool and  *)
(* order of picks, is the draft that was saved, books included; of a text  *)
(* that a full disk or the end of the process cut short load makes the     *)
(* picks of the whole lines.  The books are those of the save if no pick   *)
(* had been benched or undone: the file says neither.                      *)
THEOREM DraftsResume == HSpec => SavedDraftResumes
<1>1. EngineInv /\ BooksInv /\ HistoryInv /\ [HNext]_allVars =>
        [LoadEnds /\ SavedHere(open_file) /\ saved[open_file].order = order =>
           LET draft == saved[open_file].taken
               ids   == [i \in DOMAIN draft |-> draft[i].player_id]
           IN IF disk[open_file] = ids
              THEN /\ taken' = draft
                   /\ saved[open_file].plain =>
                        still_required' = saved[open_file].still_required
              ELSE /\ Len(taken') <= Len(draft)
                   /\ \A i \in 1 .. Len(disk[open_file]) - 1 : taken'[i] = draft[i]
        ]_allVars
  <2>1. SUFFICES ASSUME EngineInv, BooksInv, HistoryInv, [HNext]_allVars,
                        LoadEnds, SavedHere(open_file), saved[open_file].order = order
                 PROVE  Resumed(saved[open_file], disk[open_file])
    BY Zenon DEF Resumed
  <2>2. TypeOK /\ PicksFollowOrder /\ NoPlayerTwice /\ AgreesWithSearch
    BY <2>1, Zenon DEF EngineInv, BooksInv, HistoryInv
  <2> QED
    BY <2>1, <2>2, LoadResumes
<1> QED
  BY <1>1, EngineInvariant, BooksInvariant, HistoryInvariant, PTL DEF HSpec, SavedDraftResumes

-----------------------------------------------------------------------------
(* Simulated drafts that have not been traded are played out.              *)

(* Division with remainder by a positive number.                           *)
LEMMA Divided ==
  ASSUME NEW p \in Nat, NEW n \in Nat \ {0}
  PROVE  \E q \in Nat, r \in 0 .. n - 1 : q = p \div n /\ r = p % n /\ p = n * q + r
  OBVIOUS

(* A number below k * n is of one of the first k rounds of n picks.        *)
LEMMA RoundBelow ==
  ASSUME NEW n \in Nat \ {0}, NEW k \in Nat, NEW q \in Nat, n * q < k * n
  PROVE  q \in 0 .. k - 1
<1>1. SUFFICES ASSUME q >= k PROVE FALSE
  OBVIOUS
<1>2. PICK d \in Nat : q = k + d
  BY <1>1
<1>3. n * q = n * k + n * d
  BY <1>2
<1>4. n * d >= 0
  OBVIOUS
<1>5. n * k \in Nat /\ n * d \in Nat /\ k * n = n * k
  OBVIOUS
<1> QED
  BY <1>3, <1>4, <1>5

(* In a snake draft a team picks once in each round.                       *)
LEMMA OncePerRound ==
  ASSUME NEW n \in Nat \ {0}, NEW m \in Nat, NEW o, o = build_snake_order(m, n),
         NEW p \in 0 .. m - 1, NEW s \in 0 .. m - 1, o[p] = o[s], p \div n = s \div n
  PROVE  p = s
<1>1. PICK q \in Nat, r \in 0 .. n - 1 : q = p \div n /\ r = p % n /\ p = n * q + r
  <2>1. p \in Nat
    OBVIOUS
  <2> QED
    BY <2>1, Divided, Zenon
<1>2. PICK u \in Nat, v \in 0 .. n - 1 : u = s \div n /\ v = s % n /\ s = n * u + v
  <2>1. s \in Nat
    OBVIOUS
  <2> QED
    BY <2>1, Divided, Zenon
<1>3. q = u
  BY <1>1, <1>2
<1>4. o[p] = IF q % 2 = 0 THEN r ELSE n - 1 - r
  BY <1>1, Zenon DEF build_snake_order
<1>5. o[s] = IF q % 2 = 0 THEN v ELSE n - 1 - v
  BY <1>2, <1>3, Zenon DEF build_snake_order
<1>6. r = v
  <2>1. r \in Int /\ v \in Int /\ n \in Int
    OBVIOUS
  <2>2. CASE q % 2 = 0
    BY <1>4, <1>5, <2>2, Zenon
  <2>3. CASE ~(q % 2 = 0)
    <3>1. n - 1 - r = n - 1 - v
      BY <1>4, <1>5, <2>3, Zenon
    <3> QED
      BY <2>1, <3>1
  <2> QED
    BY <2>2, <2>3, Zenon
<1> QED
  BY <1>1, <1>2, <1>3, <1>6, Zenon

(* So it has no more picks than there are rounds.                          *)
LEMMA SnakePicks ==
  ASSUME NEW n \in Nat \ {0}, NEW k \in Nat, NEW o, o = build_snake_order(k * n, n), NEW team
  PROVE  PicksLeft(o, 0, team) <= k
<1>1. k * n \in Nat
  OBVIOUS
<1>2. PICK m \in Nat : m = k * n
  BY <1>1, Zenon
<1>3. DOMAIN o = 0 .. m - 1
  BY <1>2, Zenon DEF build_snake_order
<1> DEFINE P == { p \in DOMAIN o : p >= 0 /\ o[p] = team }
           f == [p \in P |-> p \div n]
<1>4. ASSUME NEW p \in P PROVE f[p] \in 0 .. k - 1
  <2>1. p \in 0 .. m - 1
    BY <1>3, Zenon
  <2>2. p \in Nat /\ p < m
    BY <2>1
  <2>3. PICK q \in Nat, r \in 0 .. n - 1 : q = p \div n /\ r = p % n /\ p = n * q + r
    BY <2>2, Divided, Zenon
  <2>4. n * q \in Nat
    OBVIOUS
  <2>5. n * q < m
    BY <2>2, <2>3, <2>4
  <2>6. q \in 0 .. k - 1
    BY <1>2, <2>5, RoundBelow, Zenon
  <2> QED
    BY <2>3, <2>6, Zenon
<1>5. ASSUME NEW p \in P, NEW s \in P, f[p] = f[s] PROVE p = s
  <2>1. p \in 0 .. m - 1 /\ s \in 0 .. m - 1 /\ o[p] = o[s]
    BY <1>3, Zenon
  <2>2. p \div n = s \div n
    BY <1>5, Zenon
  <2> QED
    BY <1>2, <2>1, <2>2, OncePerRound, Zenon
<1>6. f \in Injection(P, 0 .. k - 1)
  <2>1. f \in [P -> 0 .. k - 1]
    <3>1. DOMAIN f = P /\ f = [p \in P |-> f[p]]
      BY Zenon
    <3> HIDE DEF f, P
    <3> QED
      BY <1>4, <3>1, Zenon
  <2> HIDE DEF f, P
  <2> QED
    BY <1>5, <2>1, Zenon DEF Injection, IsInjective
<1>7. IsFiniteSet(0 .. k - 1) /\ Cardinality(0 .. k - 1) = k
  <2>1. 0 \in Int /\ k - 1 \in Int
    OBVIOUS
  <2>2. /\ IsFiniteSet(0 .. k - 1)
        /\ Cardinality(0 .. k - 1) = IF 0 > k - 1 THEN 0 ELSE (k - 1) - 0 + 1
    BY <2>1, FS_Interval, Zenon
  <2> QED
    BY <2>2
<1>8. Cardinality(P) <= k
  <2>1. PICK rounds : rounds = 0 .. k - 1
    OBVIOUS
  <2>2. f \in Injection(P, rounds) /\ IsFiniteSet(rounds) /\ Cardinality(rounds) = k
    BY <1>6, <1>7, <2>1, Zenon
  <2> HIDE DEF f, P
  <2>3. Cardinality(P) <= Cardinality(rounds)
    BY <2>2, FS_Injection
  <2> QED
    BY <2>2, <2>3, Zenon
<1> QED
  BY <1>8, Zenon DEF PicksLeft

(* A team that has picked nobody has a slot for each of its picks.         *)
LEMMA OpenAtFirst ==
  ASSUME NEW c, WellShaped(c)
  PROVE  OpenSlots(c, c.num_required) = PlayersPerTeam(c) /\ PlayersPerTeam(c) \in Nat
<1>1. IsFiniteSet(Slots(c)) /\ c.num_required \in [Slots(c) -> Nat]
  BY WellShapedSlots, Zenon DEF WellShaped
<1>2. c.num_required \in [Slots(c) -> Int]
  BY <1>1
<1>3. ASSUME NEW s \in Slots(c) PROVE OpenAt(c, c.num_required)[s] = c.num_required[s]
  <2>1. PICK n \in Nat : n = c.num_required[s]
    BY <1>1, Zenon
  <2>2. OpenAt(c, c.num_required)[s] = IF n > 0 THEN n ELSE 0
    BY <1>2, <2>1, OpenAtType, Zenon
  <2> QED
    BY <2>1, <2>2
<1>4. SumOver(Slots(c), OpenAt(c, c.num_required)) = SumOver(Slots(c), c.num_required)
  BY <1>1, <1>3, SumSame, Zenon
<1>5. OpenSlots(c, c.num_required) = PlayersPerTeam(c)
  BY <1>1, <1>4, OpenSlotsIsSum, PlayersPerTeamIsSum, Zenon
<1> QED
  BY <1>2, <1>5, OpenSlotsType, Zenon

(* So the snake draft has room for all its picks before the first.         *)
LEMMA SnakeHasRoom ==
  ASSUME NEW c, WellShaped(c), NEW o, o = build_snake_order(get_number_of_picks(c), c.num_teams)
  PROVE  TeamsHaveRoom(c, o, <<>>, create_search_context(c, <<>>))
<1>1. PICK n, k : n = c.num_teams /\ k = PlayersPerTeam(c)
  BY Zenon
<1>2. n \in Nat \ {0} /\ k \in Nat /\ OpenSlots(c, c.num_required) = k
  BY <1>1, OpenAtFirst, Zenon DEF WellShaped
<1>3. o = build_snake_order(k * n, n)
  BY <1>1, Zenon DEF get_number_of_picks
<1>4. Len(<<>>) = 0
  OBVIOUS
<1>5. ASSUME NEW t \in Teams(c)
      PROVE  PicksLeft(o, Len(<<>>), t) <= OpenSlots(c, create_search_context(c, <<>>)[t])
  <2>1. create_search_context(c, <<>>)[t] = c.num_required
    BY ContextOfNoPicks, Zenon DEF InitialRequirements
  <2>2. PicksLeft(o, 0, t) <= k
    BY <1>2, <1>3, SnakePicks, Zenon
  <2> QED
    BY <1>2, <1>4, <2>1, <2>2, Zenon
<1> QED
  BY <1>5, Zenon DEF TeamsHaveRoom

(* The beginnings of a draft, one pick after the other.                    *)
LEMMA Beginning ==
  ASSUME NEW S, NEW t \in Seq(S), NEW k \in 1 .. Len(t)
  PROVE  /\ SubSeq(t, 1, k - 1) \in Seq(S)
         /\ Len(SubSeq(t, 1, k - 1)) = k - 1
         /\ SubSeq(t, 1, k) = Append(SubSeq(t, 1, k - 1), t[k])
  OBVIOUS

(* Whatever its picks, an untraded draft leaves each team room for its     *)
(* picks to come.                                                          *)
LEMMA UntradedHasRoom ==
  ASSUME NEW c, WellShaped(c), NEW o, o = build_snake_order(get_number_of_picks(c), c.num_teams),
         NEW S, NEW t \in Seq(S), Len(t) <= get_number_of_picks(c),
         \A i \in 1 .. Len(t) : t[i].by_team = o[i - 1]
  PROVE  TeamsHaveRoom(c, o, t, create_search_context(c, t))
<1> DEFINE Good(k) == TeamsHaveRoom(c, o, SubSeq(t, 1, k),
                                    create_search_context(c, SubSeq(t, 1, k)))
           Bad == { k \in 0 .. Len(t) : ~Good(k) }
<1>1. Len(t) \in Nat /\ SubSeq(t, 1, 0) = <<>> /\ SubSeq(t, 1, Len(t)) = t
  OBVIOUS
<1>2. o \in [0 .. get_number_of_picks(c) - 1 -> Teams(c)]
  <2>1. PICK m, n : m = get_number_of_picks(c) /\ n = c.num_teams
    BY Zenon
  <2>2. m \in Nat /\ n \in Nat \ {0}
    BY <2>1, Zenon DEF WellShaped
  <2>3. build_snake_order(m, n) \in [0 .. m - 1 -> 0 .. n - 1]
    BY <2>2, SnakeOrderType, Zenon
  <2> QED
    BY <2>1, <2>3, Zenon DEF Teams
<1>3. Good(0)
  BY <1>1, SnakeHasRoom, Zenon
<1>4. ASSUME Bad # {} PROVE FALSE
  <2>1. PICK k \in Bad : \A y \in Bad : k <= y
    <3>1. Bad \in SUBSET Nat
      <4>1. 0 .. Len(t) \in SUBSET Nat
        BY <1>1
      <4> HIDE DEF Good
      <4> QED
        BY <4>1, Zenon
    <3> HIDE DEF Bad
    <3> QED
      BY <1>4, <3>1, MinIsLeast, Zenon
  <2>2. k \in 0 .. Len(t) /\ ~Good(k)
    BY Zenon
  <2>3. k # 0
    <3> HIDE DEF Good
    <3> QED
      BY <1>3, <2>2, Zenon
  <2>4. k \in 1 .. Len(t) /\ k - 1 \in 0 .. Len(t) /\ ~(k <= k - 1) /\ k \in Nat
    BY <1>1, <2>2, <2>3
  <2>5. Good(k - 1)
    <3> HIDE DEF Good
    <3> QED
      BY <2>1, <2>4, Zenon
  <2>6. PICK b, d : b = SubSeq(t, 1, k - 1) /\ d = SubSeq(t, 1, k)
    BY Zenon
  <2>7. b \in Seq(S) /\ Len(b) = k - 1 /\ d = Append(b, t[k])
    BY <2>4, <2>6, Beginning, Zenon
  <2>8. t[k].by_team = o[Len(b)]
    BY <2>4, <2>7, Zenon
  <2>9. Len(b) < get_number_of_picks(c)
    <3>1. PICK m \in Nat : m = get_number_of_picks(c)
      BY Zenon DEF WellShaped
    <3>2. Len(t) <= m
      BY <3>1, Zenon
    <3>3. k - 1 < m
      BY <1>1, <2>4, <3>1, <3>2
    <3> QED
      BY <2>7, <3>1, <3>3, Zenon
  <2>10. TeamsHaveRoom(c, o, b, create_search_context(c, b))
    BY <2>5, <2>6, Zenon
  <2>11. TeamsHaveRoom(c, o, d, create_search_context(c, d))
    BY <1>2, <2>7, <2>8, <2>9, <2>10, RoomAfterPick, Zenon
  <2> QED
    BY <2>2, <2>6, <2>11, Zenon
<1>5. Len(t) \in 0 .. Len(t)
  BY <1>1
<1>6. Good(Len(t))
  <2> HIDE DEF Good
  <2> QED
    BY <1>4, <1>5, Zenon
<1> QED
  BY <1>1, <1>6, Zenon

(* Where the rest of a draft has room and players, the search returns a    *)
(* player, after more than a second.                                       *)
LEMMA SufficesAnswers ==
  ASSUME PoolTypeOK, NEW c, WellShaped(c),
         NEW o \in [0 .. get_number_of_picks(c) - 1 -> Teams(c)], NEW b, Len(b) \in Nat,
         Len(b) < get_number_of_picks(c), Suffices(c, o, b), NEW time, time # 1
  PROVE  /\ NoPlayer \notin calculate_best_pick(c, o, b, time).players
         /\ ~calculate_best_pick(c, o, b, time).abort
<1>1. PICK r, row, ids : /\ r = create_search_context(c, b) /\ row = r[o[Len(b)]]
                         /\ ids = PlayersOf(b)
  BY Zenon
<1>2. PlayersSuffice(c, b, ids) /\ TeamsHaveRoom(c, o, b, r)
  BY <1>1, Zenon DEF Suffices
<1>3. ASSUME NEW s \in Slots(c)
      PROVE  ~FlexFaults(c, s, ids) /\ whos_highest_projected(c, s, ids) # NoPlayer
  BY <1>1, <1>2, QueriesFind, Zenon
<1>4. ~RootFaults(c, row, ids)
  BY <1>3, Zenon DEF RootFaults
<1>5. BestPicks(c, row, ids) # {}
  BY <1>1, TeamFindsPick, Zenon
<1>6. RootChildren(c, row, ids) # {}
  BY <1>5, Zenon DEF BestPicks
<1>7. NoPlayer \notin BestPicks(c, row, ids)
  BY <1>3, Zenon DEF BestPicks, RootChildren
<1>8. ~NullPossible(c, row, ids, time)
  <2>1. PICK s \in RootChildren(c, row, ids) : TRUE
    BY <1>6, Zenon
  <2>2. PICK id : id = whos_highest_projected(c, s, ids)
    OBVIOUS
  <2>3. s \in Slots(c) /\ id \in BestPicks(c, row, ids)
    BY <2>1, <2>2, Zenon DEF RootChildren, BestPicks
  <2>4. DOMAIN c.flex[s] \subseteq Nat
    BY <2>3, Zenon DEF WellShaped
  <2>5. id \in Ids \ ids
    BY <1>3, <2>2, <2>3, <2>4, HighestProjectedIsFree, Zenon
  <2>6. points(id) > 0
    BY <1>2, <2>5, Zenon DEF PlayersSuffice
  <2>7. points(id) # 0
    BY <2>6
  <2> QED
    BY <1>6, <2>3, <2>7, Zenon DEF NullPossible
<1>9. ~RolloutMayAbort(c, o, b, r, ids)
  BY <1>2, Zenon DEF RolloutMayAbort
<1>10. PICK some, rest : /\ some = BestPicks(c, row, ids)
                         /\ rest = (/\ RootChildren(c, row, ids) # {}
                                    /\ RolloutMayAbort(c, o, b, r, ids))
  BY Zenon
<1>11. calculate_best_pick(c, o, b, time)
         = IF RootFaults(c, row, ids)
           THEN [players |-> IF time = 1 THEN {NoPlayer} ELSE {}, abort |-> TRUE]
           ELSE [players |-> BestPicks(c, row, ids) \cup
                   (IF NullPossible(c, row, ids, time) THEN {NoPlayer} ELSE {}),
                 abort |-> /\ RootChildren(c, row, ids) # {}
                           /\ RolloutMayAbort(c, o, b, r, ids)]
  BY <1>1, Zenon DEF calculate_best_pick, PlayersOf
<1>12. calculate_best_pick(c, o, b, time) = [players |-> some \cup {}, abort |-> rest]
  BY <1>4, <1>8, <1>10, <1>11, Zenon
<1>13. rest = FALSE
  BY <1>9, <1>10, Zenon
<1>14. PICK proposal : proposal = calculate_best_pick(c, o, b, time)
  OBVIOUS
<1>15. proposal = [players |-> some \cup {}, abort |-> FALSE]
  BY <1>12, <1>13, <1>14, Zenon
<1>16. proposal.players = some /\ proposal.abort = FALSE
  BY <1>15
<1> QED
  BY <1>7, <1>10, <1>14, <1>16, Zenon

(* Nothing but sim's loop happens in it.                                   *)
LEMMA SimSteps ==
  ASSUME pc = "sim", [Next]_vars
  PROVE  SimPick \/ SimCrashes \/ SimReturns \/ pc' = pc
<1>1. ~Ready
  BY DEF Ready
<1>2. ~NewDraft
  BY <1>1 DEF NewDraft, load_draft_config, load_player_pool, load, Restart
<1>3. ~Bench /\ ~undo_pick /\ ~Save
  BY <1>1 DEF Bench, bench, undo_pick, Save, save, save_CutShort
<1>4. ~OtherCommand
  BY <1>1 DEF OtherCommand, make_pick, make_pick_Crashes, bench_Crashes, give_pick,
     load_player_pool_Fails, set_think_time, think_pick_Crashes, sim_draft, do_exit
<1>5. LoopStep => SimPick \/ SimCrashes \/ SimReturns
  BY DEF LoopStep, UndoReplay, UndoRunsOff, UndoReturns, LoadOne, LoadRunsOff, LoadReturns
<1>6. UNCHANGED vars => pc' = pc
  BY Zenon DEF vars
<1> QED
  BY <1>2, <1>3, <1>4, <1>5, <1>6, Zenon DEF Next

(* The proposal sim asks for in a draft with the order it began with.      *)
LEMMA UntradedIsAnswered ==
  ASSUME TypeOK, PoolTypeOK, PicksFollowOrder, pc = "sim", pick < n_picks,
         order = build_snake_order(n_picks, config.num_teams), think_time > 1,
         PlayersSuffice(config, taken, TakenIds)
  PROVE  ~BestPick.abort /\ NoPlayer \notin BestPick.players
<1>1. PICK c, o, b, time : c = config /\ o = order /\ b = taken /\ time = think_time
  BY Zenon
<1>2. DraftTypeOK /\ Sound(config)
  BY DraftIsSound, Zenon DEF Loops
<1>3. WellShaped(c) /\ o \in [0 .. get_number_of_picks(c) - 1 -> Teams(c)] /\ b \in Seq(Pick(c))
  BY <1>1, <1>2, Zenon DEF DraftTypeOK, Sound, n_picks
<1>4. Len(b) < get_number_of_picks(c) /\ o = build_snake_order(get_number_of_picks(c), c.num_teams)
  BY <1>1, Zenon DEF n_picks, pick
<1>5. PICK m \in Nat : m = get_number_of_picks(c)
  BY <1>3, Zenon DEF WellShaped
<1>6. Len(b) \in Nat /\ DOMAIN b = 1 .. Len(b)
  BY <1>3
<1>7. Len(b) < m
  BY <1>4, <1>5, Zenon
<1>8. \A i \in 1 .. Len(b) : b[i].by_team = o[i - 1]
  <2>1. ASSUME NEW i \in 1 .. Len(b) PROVE b[i].by_team = o[i - 1]
    <3>1. i - 1 \in 0 .. m - 1
      BY <1>6, <1>7
    <3>2. i - 1 \in DOMAIN o
      BY <1>3, <1>5, <3>1, Zenon
    <3> QED
      BY <1>1, <1>6, <3>2, Zenon DEF PicksFollowOrder
  <2> QED
    BY <2>1, Zenon
<1>9. Len(b) <= get_number_of_picks(c)
  <2>1. Len(b) <= m
    BY <1>6, <1>7
  <2> QED
    BY <1>5, <2>1, Zenon
<1>10. TeamsHaveRoom(c, o, b, create_search_context(c, b))
  BY <1>3, <1>4, <1>8, <1>9, UntradedHasRoom, Zenon
<1>11. PlayersSuffice(c, b, PlayersOf(b))
  BY <1>1, Zenon DEF TakenIds, PlayersOf
<1>12. Suffices(c, o, b)
  BY <1>10, <1>11, Zenon DEF Suffices
<1>13. time # 1
  BY <1>1
<1>14. BestPick = calculate_best_pick(c, o, b, time)
  BY <1>1, Zenon DEF BestPick
<1> QED
  BY <1>3, <1>4, <1>6, <1>12, <1>13, <1>14, SufficesAnswers, Zenon

(* drafter.c:428: without trades sim drafts a player for every pick.       *)
THEOREM SimCompletes == HSpec => SimCompletesUntraded
<1>1. ASSUME EngineInv, [HNext]_allVars, pc = "sim",
             order = build_snake_order(n_picks, config.num_teams), think_time > 1,
             PlayersSuffice(config, taken, TakenIds)
      PROVE  pc' # "crashed"
  <2>1. [Next]_vars
    BY <1>1, HistoryIsEngine
  <2>2. SimPick \/ SimCrashes \/ SimReturns \/ pc' = pc
    BY <1>1, <2>1, SimSteps, Zenon
  <2>3. ~SimCrashes
    BY <1>1, UntradedIsAnswered, Zenon DEF EngineInv, SimCrashes
  <2> QED
    BY <1>1, <2>2, <2>3 DEF SimPick, SimReturns
<1>2. EngineInv /\ [HNext]_allVars
      => [/\ pc = "sim"
          /\ order = build_snake_order(n_picks, config.num_teams)
          /\ think_time > 1
          /\ PlayersSuffice(config, taken, TakenIds)
          => pc' # "crashed"]_allVars
  BY <1>1, Zenon
<1> QED
  BY <1>2, EngineInvariant, PTL DEF HSpec, SimCompletesUntraded
==============================================================================
