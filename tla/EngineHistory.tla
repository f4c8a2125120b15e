---------------------------- MODULE EngineHistory ----------------------------
(***************************************************************************)
(* DraftEngine with a memory the engine lacks: which picks were benched,   *)
(* whether a pick was undone since the draft began, whether the pool had a *)
(* player for each pick when it was made, and the circumstances each draft *)
(* was saved in.  The memory is read by properties only.                   *)
(***************************************************************************)
EXTENDS DraftEngine

VARIABLES
  benched,   \* the picks of the draft made by bench
  undone,    \* a pick of this draft has been undone
  unknown,   \* load drafted an id the pool has no player for: that of a larger
             \* pool, or any in a process that has not loaded one yet
  saved      \* for each file, the draft it was saved from

memory == <<benched, undone, unknown, saved>>
allVars == <<vars, memory>>

HInit ==
  /\ Init
  /\ benched = {}
  /\ undone = FALSE
  /\ unknown = FALSE
  /\ saved = [f \in SaveFiles |-> NoFile]

Snapshot == [taken |-> taken, still_required |-> still_required, config |-> config,
             order |-> order, players |-> players,
             plain |-> benched = {} /\ ~undone /\ ~unknown]

RememberNewDraft ==
  /\ NewDraft
  /\ benched' = {}
  /\ undone' = FALSE
  /\ unknown' = FALSE
  /\ UNCHANGED saved

RememberBench ==
  /\ Bench
  /\ benched' = benched \cup {pick}
  /\ UNCHANGED <<undone, unknown, saved>>

RememberUndo ==
  /\ undo_pick
  /\ benched' = benched \ {pick - 1}
  /\ undone' = TRUE
  /\ UNCHANGED <<unknown, saved>>

RememberSave ==
  /\ \E f \in SaveFiles :
       /\ save(f) \/ save_CutShort(f)
       /\ saved' = [saved EXCEPT ![f] = Snapshot]
  /\ UNCHANGED <<benched, undone, unknown>>

RememberLoopStep ==
  /\ LoopStep
  /\ unknown' = (unknown \/ (pc = "load" /\ taken' # taken /\ AskedId \notin Ids))
  /\ UNCHANGED <<benched, undone, saved>>

HNext ==
  \/ RememberNewDraft
  \/ RememberBench
  \/ RememberUndo
  \/ RememberSave
  \/ RememberLoopStep
  \/ OtherCommand /\ UNCHANGED memory

HSpec == HInit /\ [][HNext]_allVars

-----------------------------------------------------------------------------
(* The picks of a team that count toward its roster, and those of them at  *)
(* a position.                                                             *)
Lineup(team) ==
  { i \in DOMAIN taken : taken[i].by_team = team /\ i - 1 \notin benched }

LineupAt(team, position) ==
  { i \in Lineup(team) : PositionOf(taken[i].player_id) = position }

(* How many slots of a roster are filled that still requires "row".        *)
FilledSlots(c, row) ==
  LET filled[s \in 0 .. c.num_slots] ==
        IF s = 0 THEN 0 ELSE filled[s - 1] + (c.num_required[s - 1] - row[s - 1])
  IN  filled[c.num_slots]

Drafting == config # NoConfig /\ ~undone

(* An id that has no player is recorded as player 0 and charged to the     *)
(* first slot, whatever that player's position is, or that of the player   *)
(* 0 a failing load of a pool adds later.                                  *)
PositionsAreThosePicked == ~unknown

(* A pick fills at most one slot, however many flex slots would take the   *)
(* player.                                                                 *)
OneSlotPerPick ==
  \A team \in Teams(config) :
    /\ FilledSlots(config, still_required[team]) <= Cardinality(Lineup(team))
    /\ \A s \in Slots(config) : still_required[team][s] >= 0

(* Each team requires at each position what the players it drafted there,  *)
(* without the benched ones, leave open.                                   *)
OwnSlotsFilled ==
  \A team \in Teams(config), s \in RealSlots(config) :
    still_required[team][s] =
      Max({0, config.num_required[s] - Cardinality(LineupAt(team, s))})

(* What a team still requires follows from the players it has, in whatever *)
(* order it drafted them: each fills one slot at most, his own before any  *)
(* flex slot, and no slot is filled beyond what it requires.               *)
SlotsFollowPicks ==
  Drafting => OneSlotPerPick /\ (PositionsAreThosePicked => OwnSlotsFilled)

(* Resetting from the slot of the team's index goes unnoticed when all     *)
(* slots require the same number.                                          *)
ResetIsExact == \A team \in Teams(config) : \A s \in Slots(config) :
                  RequiredAtIndex(config, team) = config.num_required[s]

(* The engine and the search keep the same books: the requirements control *)
(* updates pick by pick, replays on load and rebuilds on undo are those    *)
(* that drafter rebuilds from the picks, through trades, loads, simulated  *)
(* picks and (where the reset is exact) undos, as long as nobody is        *)
(* benched and load has found a player for every id.  Undo charges a pick  *)
(* past the last one to another team than the one it was made by: only     *)
(* load makes so many that one is left.                                    *)
AgreesWithSearch ==
  /\ config # NoConfig
  /\ pc # "undo"
  /\ benched = {}
  /\ PositionsAreThosePicked
  /\ ~undone \/ (ResetIsExact /\ pick <= n_picks)
  => still_required = create_search_context(config, taken)

(* drafter.c:428 asserts that a simulated draft finds a player for every   *)
(* pick.  Without trades the search never runs out of open slots for a     *)
(* team, whatever players were picked, benched or undone: sim drafts a     *)
(* player for each pick while there are players enough (a thinking time of *)
(* one second may leave the search without an answer).                     *)
SimCompletesUntraded ==
  [][/\ pc = "sim"
     /\ order = build_snake_order(n_picks, config.num_teams)
     /\ think_time > 1
     /\ PlayersSuffice(config, taken, TakenIds)
     => pc' # "crashed"]_allVars

(* The draft saved in the file began in the circumstances of now.          *)
SavedHere(file) ==
  /\ saved[file].config = config
  /\ saved[file].players = players
  /\ Len(saved[file].taken) <= n_picks

LoadEnds == pc = "load" /\ pc' # "load"

(* A saved draft resumes: loaded under the same configuration, pool and    *)
(* order of picks, in this process or a later one, it has the same picks,  *)
(* and the same requirements if nobody had been benched or undone.  Of a   *)
(* save cut short it has the picks of the lines that are whole.            *)
SavedDraftResumes ==
  [][LoadEnds /\ SavedHere(open_file) /\ saved[open_file].order = order =>
       LET draft == saved[open_file].taken
           ids   == [i \in DOMAIN draft |-> draft[i].player_id]
       IN IF disk[open_file] = ids
          THEN /\ taken' = draft
               /\ saved[open_file].plain => still_required' = saved[open_file].still_required
          ELSE /\ Len(taken') <= Len(draft)
               /\ \A i \in 1 .. Len(disk[open_file]) - 1 : taken'[i] = draft[i]
    ]_allVars
=============================================================================
