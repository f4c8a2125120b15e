------------------------------- MODULE Players -------------------------------
(***************************************************************************)
(* The player pool (src/players.c): the static array of PlayerRecords, how *)
(* load_players fills, sorts and groups it, the markers of its groups, and *)
(* the queries the rest of the engine makes of it.                         *)
(*                                                                         *)
(* players[i] of the code is players[i + 1] here, so the id of a player,   *)
(* which is its index in the code's array, is i.                           *)
(***************************************************************************)
EXTENDS DraftConfig

CONSTANTS
  PoolFiles,     \* the csv files a user can name
  PlayerNames,   \* the names of the players in them
  MAX_PLAYERS,   \* length of the players array
  NoName,        \* the NULL name of an array element never written
  Malformed,     \* a csv row without name, position and points
  NoPlayer       \* the NULL result of a query

(***************************************************************************)
(* A csv row.  strstr looks for slot names inside the row's position       *)
(* string, so all that matters of that string is which names it contains.  *)
(***************************************************************************)
Row == [name : PlayerNames, contains : SUBSET SlotNames, points : Nat]

ASSUME PoolFilesAssumption  == PoolFiles \subseteq Seq(Row \cup {Malformed})
ASSUME MaxPlayersAssumption == MAX_PLAYERS \in Nat
ASSUME NoNameAssumption     == NoName \notin PlayerNames
ASSUME NoPlayerAssumption   == NoPlayer \notin Nat

VARIABLES
  players,       \* the first number_of_players elements of the array
  slot_markers   \* where each position's group starts in it

poolVars == <<players, slot_markers>>

PlayerRecord == [name : PlayerNames \cup {NoName}, position : Nat, points : Nat]

(* The capacity test lets one record be stored past the array's end, and   *)
(* no load, failed or not, nor any sequence of them, ever a second one.    *)
PoolTypeOK ==
  /\ players \in Seq(PlayerRecord)
  /\ Len(players) <= MAX_PLAYERS + 1
  /\ slot_markers \in [0 .. MAX_NUM_SLOTS - 1 -> Nat]

PoolInit ==
  /\ players = <<>>
  /\ slot_markers = [s \in 0 .. MAX_NUM_SLOTS - 1 |-> 0]

-----------------------------------------------------------------------------
(* Queries.                                                                *)

number_of_players == Len(players)

Ids == 0 .. number_of_players - 1

(* Static storage is zeroed, so past the players there are zero records.   *)
ZeroRecord == [name |-> NoName, position |-> 0, points |-> 0]

get_player_by_id(id) == IF id \in Ids THEN players[id + 1] ELSE ZeroRecord

(* The id field of that record, which need not be the id asked for.        *)
IdOfRecord(id) == IF id \in Ids THEN id ELSE 0

points(id) == players[id + 1].points

(* The first player of that name.                                          *)
get_player_by_name(name) ==
  LET found == { id \in Ids : players[id + 1].name = name }
  IN  IF found = {} THEN NoPlayer ELSE Min(found)

(* The search compares with a NULL name before it meets the player.        *)
LookupFaults(name) ==
  \E id \in Ids : /\ players[id + 1].name = NoName
                  /\ \A earlier \in 0 .. id : players[earlier + 1].name # name

(***************************************************************************)
(* whos_highest_projected for a real slot: the first player, from the      *)
(* slot's marker to the end of the whole array, who is not taken.          *)
(***************************************************************************)
FirstFreeFrom_OffByOne(mark, takenIds) ==              \* mutant: ">" for ">="
  LET free == { id \in Ids : id > mark /\ id \notin takenIds }
  IN  IF free = {} THEN NoPlayer ELSE Min(free)

FirstFreeFrom(mark, takenIds) ==
  LET free == { id \in Ids : id >= mark /\ id \notin takenIds }
  IN  IF free = {} THEN NoPlayer ELSE Min(free)

(* For a flex slot, a result for each of its options; a NULL one among     *)
(* them is dereferenced.                                                   *)
OptionResults(c, s, takenIds) ==
  [j \in DOMAIN c.flex[s] |-> FirstFreeFrom(slot_markers[c.flex[s][j]], takenIds)]

FlexFaults(c, s, takenIds) ==
  is_flex_slot(c, s) /\ NoPlayer \in Range(OptionResults(c, s, takenIds))

(* The best of those results, the earliest option winning ties; one whose  *)
(* points do not exceed 0.0 is never chosen.                               *)
whos_highest_projected(c, s, takenIds) ==
  IF ~is_flex_slot(c, s) THEN FirstFreeFrom(slot_markers[s], takenIds)
  ELSE LET found == OptionResults(c, s, takenIds)
           best  == { j \in DOMAIN found :
                        /\ points(found[j]) > 0
                        /\ \A k \in DOMAIN found : points(found[k]) <= points(found[j]) }
       IN  IF best = {} THEN NoPlayer ELSE found[Min(best)]

-----------------------------------------------------------------------------
(* Loading.                                                                *)

(* The first slot, real or flex, whose name occurs in the position string. *)
codify_position_str(c, row) ==
  LET matches == { s \in Slots(c) : c.name[s] \in row.contains }
  IN  IF matches = {} THEN -1 ELSE Min(matches)

KnownRows(c, rows) == { i \in DOMAIN rows : codify_position_str(c, rows[i]) >= 0 }

(* The records made of rows; those that match no slot are skipped.         *)
RecordsOf(c, rows) ==
  LET known  == KnownRows(c, rows)
      row(k) == rows[CHOOSE i \in known : Cardinality({ j \in known : j < i }) = k - 1]
  IN  [k \in 1 .. Cardinality(known) |->
        [name     |-> row(k).name,
         position |-> codify_position_str(c, row(k)),
         points   |-> row(k).points]]

FailingRows_LastUnchecked(c, file) ==                  \* mutant: tested after the row
  { k \in DOMAIN file :
      \/ \E j \in 1 .. k : file[j] = Malformed
      \/ k > 1 /\ number_of_players + Len(RecordsOf(c, SubSeq(file, 1, k - 1))) > MAX_PLAYERS }

(* The rows at which load_players gives up and returns -1.                 *)
FailingRows(c, file) ==
  { k \in DOMAIN file :
      \/ \E j \in 1 .. k : file[j] = Malformed
      \/ number_of_players + Len(RecordsOf(c, SubSeq(file, 1, k - 1))) > MAX_PLAYERS }

(***************************************************************************)
(* The array after qsort and group_by_position: the players of each real   *)
(* slot, slot by slot, best first.  Equal points keep their order (the C   *)
(* library's qsort is a merge sort).                                       *)
(***************************************************************************)
Grouped_FirstSlotSkipped(c, all) ==                    \* mutant: "i = 1"
  { i \in DOMAIN all : all[i].position \in RealSlots(c) \ {0} }

Grouped(c, all) == { i \in DOMAIN all : all[i].position \in RealSlots(c) }

Precedes_PositionIgnored(all, i, j) ==                 \* mutant: sorted, not grouped
  \/ all[i].points > all[j].points
  \/ all[i].points = all[j].points /\ i < j

Precedes(all, i, j) ==
  \/ all[i].position < all[j].position
  \/ /\ all[i].position = all[j].position
     /\ \/ all[i].points > all[j].points
        \/ all[i].points = all[j].points /\ i < j

(* How many players of the group scan come before player i.                *)
Rank(c, all, i) == Cardinality({ j \in Grouped(c, all) : Precedes(all, j, i) })

(***************************************************************************)
(* A player whose position is not a real slot of c is not copied to the    *)
(* placeholder array, which leaves as many elements at its end unwritten:  *)
(* fresh memory (a zero record) or records left by an earlier call.        *)
(***************************************************************************)
Leftovers(c, all) ==
  LET copied == Cardinality(Grouped(c, all))
  IN  [copied + 1 .. Len(all) -> {ZeroRecord} \cup Range(all)]

group_by_position(c, all, leftover) ==
  [k \in DOMAIN all |->
    IF k \in DOMAIN leftover THEN leftover[k]
    ELSE all[CHOOSE i \in Grouped(c, all) : Rank(c, all, i) = k - 1]]

(* The markers of positions that have players are set, no other is.        *)
MarkersOf(c, all) ==
  [s \in DOMAIN slot_markers |->
    IF \E i \in Grouped(c, all) : all[i].position = s
      THEN Cardinality({ i \in Grouped(c, all) : all[i].position < s })
      ELSE slot_markers[s]]

(***************************************************************************)
(* load_players.  number_of_players is never reset: a file adds to the     *)
(* players already there.                                                  *)
(***************************************************************************)
load_players(c, file) ==
  /\ FailingRows(c, file) = {}
  /\ LET all == players \o RecordsOf(c, file) IN
       /\ \E leftover \in Leftovers(c, all) :
            players' = group_by_position(c, all, leftover)
       /\ slot_markers' = MarkersOf(c, all)

(* On failure the rows read so far stay in the array, at its end.          *)
load_players_Fails(c, file) ==
  /\ FailingRows(c, file) # {}
  /\ players' = players \o RecordsOf(c, SubSeq(file, 1, Min(FailingRows(c, file)) - 1))
  /\ UNCHANGED slot_markers
=============================================================================
