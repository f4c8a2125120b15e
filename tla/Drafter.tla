------------------------------- MODULE Drafter -------------------------------
(***************************************************************************)
(* What the command loop can observe of the pick search (src/drafter.c).   *)
(*                                                                         *)
(* calculate_best_pick rebuilds the rosters from the picks made so far,    *)
(* expands the root of a Monte Carlo search tree (one child for each slot  *)
(* the drafting team still requires), plays out random drafts until its    *)
(* time is up, and returns the player of one of the root's children, or    *)
(* NULL; an assertion or a NULL dereference may end the process instead.   *)
(* The rebuilt rosters, the root's children and the conditions of each     *)
(* outcome are modelled; which child scores best is left open.             *)
(***************************************************************************)
EXTENDS Players, SequencesExt

(* What every team requires before any pick.                               *)
InitialRequirements(c) == [t \in Teams(c) |-> c.num_required]

(* A pick of the rebuilt rosters, benched or not: the slot of the player's *)
(* position is charged to the team that made it.                           *)
charge(c, requirements, made) ==
  [requirements EXCEPT ![made.by_team] =
     fill_slot(c, @, get_player_by_id(made.player_id).position)]

create_search_context_WrongTeam(c, taken) ==   \* mutant: team is pick % teams
  LET after[k \in 0 .. Len(taken)] ==
        IF k = 0 THEN InitialRequirements(c)
        ELSE charge(c, after[k - 1],
                    [taken[k] EXCEPT !.by_team = (k - 1) % c.num_teams])
  IN  after[Len(taken)]

(* team_requirements of a new search context: what is required after each  *)
(* pick made, in the order of the picks.                                   *)
create_search_context(c, taken) ==
  LET after[k \in 0 .. Len(taken)] ==
        IF k = 0 THEN InitialRequirements(c) ELSE charge(c, after[k - 1], taken[k])
  IN  after[Len(taken)]

(* Slots a team still requires, counted with multiplicity.                 *)
OpenSlots(c, row) == MapThenSumSet(LAMBDA s : Max({row[s], 0}), Slots(c))

-----------------------------------------------------------------------------
(***************************************************************************)
(* expand_tree at the root, for a drafting team that still requires "row". *)
(***************************************************************************)
RootFaults(c, row, takenIds) ==
  \E s \in Slots(c) : row[s] > 0 /\ FlexFaults(c, s, takenIds)

RootChildren(c, row, takenIds) ==
  { s \in Slots(c) : /\ row[s] > 0
                     /\ whos_highest_projected(c, s, takenIds) # NoPlayer }

BestPicks(c, row, takenIds) ==
  { whos_highest_projected(c, s, takenIds) : s \in RootChildren(c, row, takenIds) }

(***************************************************************************)
(* The result is NULL if the root has no child, or if the first child slot *)
(* (index 0, the default) is vacant and no child's score exceeds 0.0.  CPU *)
(* time is compared in whole seconds, so with a thinking time of 1 the     *)
(* loop may end before any child, or even the root, is visited.            *)
(***************************************************************************)
NullPossible(c, row, takenIds, thinking_time) ==
  LET children == RootChildren(c, row, takenIds) IN
  \/ children = {}
  \/ thinking_time = 1
  \/ /\ 0 \notin children
     /\ \A id \in BestPicks(c, row, takenIds) : points(id) = 0

(***************************************************************************)
(* simulate_score drafts for every team to the end.  It asserts that the   *)
(* team on the clock always finds a player, which is certain only if no    *)
(* team has more picks to come than slots to fill, no group of players can *)
(* run out, and every player left is projected above zero.                 *)
(***************************************************************************)
PicksLeft(order, made, team) ==
  Cardinality({ p \in DOMAIN order : p >= made /\ order[p] = team })

TeamsHaveRoom(c, order, taken, requirements) ==
  \A t \in Teams(c) :
    PicksLeft(order, Len(taken), t) <= OpenSlots(c, requirements[t])

(* The slots whose markers a query can start from: of a flex slot, those   *)
(* of its options.                                                         *)
QueriedSlots(c) == RealSlots(c) \cup UNION { Range(c.flex[s]) : s \in Slots(c) }

PlayersSuffice(c, taken, takenIds) ==
  /\ \A s \in QueriedSlots(c) :
       Cardinality({ id \in Ids : id >= slot_markers[s] /\ id \notin takenIds })
         >= get_number_of_picks(c) - Len(taken)
  /\ \A id \in Ids : id \in takenIds \/ points(id) > 0

RolloutMayAbort(c, order, taken, requirements, takenIds) ==
  /\ Len(taken) + 1 < get_number_of_picks(c)
  /\ \/ ~TeamsHaveRoom(c, order, taken, requirements)
     \/ ~PlayersSuffice(c, taken, takenIds)

(***************************************************************************)
(* calculate_best_pick for the team on the clock, before the draft's end:  *)
(* the set of players it may return, NoPlayer for NULL, and whether the    *)
(* process may end in it.                                                  *)
(***************************************************************************)
calculate_best_pick(c, order, taken, thinking_time) ==
  LET takenIds     == { taken[i].player_id : i \in DOMAIN taken }
      requirements == create_search_context(c, taken)
      row          == requirements[order[Len(taken)]]
  IN  IF RootFaults(c, row, takenIds)
        THEN [ players |-> IF thinking_time = 1 THEN {NoPlayer} ELSE {}, abort |-> TRUE ]
        ELSE [ players |-> BestPicks(c, row, takenIds) \cup
                 (IF NullPossible(c, row, takenIds, thinking_time)
                    THEN {NoPlayer} ELSE {}),
               abort |-> /\ RootChildren(c, row, takenIds) # {}
                         /\ RolloutMayAbort(c, order, taken, requirements, takenIds) ]
=============================================================================
