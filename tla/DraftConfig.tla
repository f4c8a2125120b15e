----------------------------- MODULE DraftConfig -----------------------------
(***************************************************************************)
(* The draft configuration (src/config.c): what load_config makes of a     *)
(* configuration file, the number of picks it implies, the snake order of  *)
(* the teams, and how a drafted player is charged to a roster slot.        *)
(*                                                                         *)
(* Slots, teams and picks are numbered from 0, as in the code.             *)
(***************************************************************************)
EXTENDS Integers, Sequences, FiniteSets, FiniteSetsExt, Functions

CONSTANTS
  ConfigFiles,     \* the configuration files a user can name
  SlotNames,       \* the names slots can have
  MAX_NUM_SLOTS,   \* length of the slots array of a DraftConfig
  Garbage          \* values an int that was never written may hold

(***************************************************************************)
(* A file the README calls well formed: at least one team, and every entry *)
(* of a "flex_slots" list names a real (not flex) slot defined above it.   *)
(***************************************************************************)
FlexRefersToRealSlots(file) ==
  \A s \in DOMAIN file.slots :
    \A name \in Range(file.slots[s].flex_slots) :
      \E r \in 1 .. s - 1 : /\ file.slots[r].name = name
                            /\ file.slots[r].flex_slots = <<>>

WellFormed(file) ==
  /\ file \in [number_of_teams : Nat \ {0},
               slots : Seq([name : SlotNames,
                            number_required : Nat,
                            flex_slots : Seq(SlotNames)])]
  /\ FlexRefersToRealSlots(file)

ASSUME ConfigFilesAssumption == \A file \in ConfigFiles : WellFormed(file)
ASSUME MaxSlotsAssumption    == MAX_NUM_SLOTS \in Nat \ {0}
ASSUME GarbageAssumption     == Garbage \subseteq Int /\ Garbage # {}

-----------------------------------------------------------------------------

Slots(c) == 0 .. c.num_slots - 1
Teams(c) == 0 .. c.num_teams - 1

is_flex_slot(c, s) == c.flex[s] # <<>>

flex_includes_position(c, s, position) == position \in Range(c.flex[s])

RealSlots(c) == { s \in Slots(c) : ~is_flex_slot(c, s) }

(* The first slot of that name.  Names stand for the at most               *)
(* MAX_SLOT_NAME_LENGTH characters that strncmp compares.                  *)
find_slot_index(file, name) ==
  Min({ i \in 0 .. Len(file.slots) - 1 : file.slots[i + 1].name = name })

(***************************************************************************)
(* load_config rejects a file with more than MAX_NUM_SLOTS slots.          *)
(***************************************************************************)
Loadable(file) == Len(file.slots) <= MAX_NUM_SLOTS

(***************************************************************************)
(* The DraftConfig made from a file.  The struct is malloc'ed and only the *)
(* first num_slots elements of its slots array are written: "unwritten"    *)
(* is the num_required of the others.                                      *)
(***************************************************************************)
load_config(file, unwritten) ==
  LET index == 0 .. Len(file.slots) - 1 IN
  [ num_teams    |-> file.number_of_teams,
    num_slots    |-> Len(file.slots),
    name         |-> [i \in index |-> file.slots[i + 1].name],
    num_required |-> [i \in index |-> file.slots[i + 1].number_required],
    flex         |-> [i \in index |->
                       LET options == file.slots[i + 1].flex_slots IN
                       [j \in DOMAIN options |-> find_slot_index(file, options[j])]],
    unwritten    |-> unwritten ]

(* Only the elements up to the number of teams are ever read (see          *)
(* undo_pick in DraftEngine).                                              *)
UnwrittenValues(file) ==
  [Len(file.slots) .. file.number_of_teams - 1 -> Garbage]

PlayersPerTeam(c) == MapThenSumSet(LAMBDA s : c.num_required[s], Slots(c))

get_number_of_picks(c) == PlayersPerTeam(c) * c.num_teams

(***************************************************************************)
(* The team of each pick in a snake draft: 0, 1, .., n-1 in the even       *)
(* rounds, n-1, .., 1, 0 in the odd ones.                                  *)
(***************************************************************************)
build_snake_order(n_picks, n_teams) ==
  [p \in 0 .. n_picks - 1 |->
    IF (p \div n_teams) % 2 = 0 THEN p % n_teams
                                ELSE n_teams - 1 - (p % n_teams)]

-----------------------------------------------------------------------------
(***************************************************************************)
(* Charging a player to a roster.  "row" is what a team still requires at  *)
(* each slot.  The slot of the player's position is charged if it is still *)
(* open, else the first open flex slot that admits the position, else      *)
(* nothing; the code reports success in all three cases.  The position of  *)
(* a player loaded under an earlier configuration may lie past the row:    *)
(* the code then reads memory this model has no state for, and no flex     *)
(* slot can admit the position.                                            *)
(***************************************************************************)
OpenFlexSlots(c, row, position) ==
  { j \in Slots(c) : /\ is_flex_slot(c, j)
                     /\ row[j] > 0
                     /\ flex_includes_position(c, j, position) }

fill_slot_FlexFirst(c, row, position) ==               \* mutant: branches swapped
  LET open == OpenFlexSlots(c, row, position) IN
  IF open # {} THEN [row EXCEPT ![Min(open)] = @ - 1]
  ELSE IF position \in Slots(c) /\ row[position] > 0
         THEN [row EXCEPT ![position] = @ - 1]
         ELSE row

fill_slot(c, row, position) ==
  LET open == OpenFlexSlots(c, row, position) IN
  IF position \in Slots(c) /\ row[position] > 0
    THEN [row EXCEPT ![position] = @ - 1]
    ELSE IF open # {} THEN [row EXCEPT ![Min(open)] = @ - 1]
                      ELSE row
=============================================================================
