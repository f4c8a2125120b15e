-------------------------------- MODULE Draft --------------------------------
(***************************************************************************)
(* What the engine promises of a draft, whatever commands it is given: the *)
(* picks made so far only grow at their end and only shrink from it, every *)
(* pick takes a player no earlier pick has taken, for the team whose turn  *)
(* it is, and trades change only turns still to come.                      *)
(***************************************************************************)
EXTENDS Integers, Sequences

VARIABLES
  board,   \* the picks made: a sequence of [player_id, by_team]
  turns    \* the team of each pick, from pick 0

draftVars == <<board, turns>>

Drafted(b) == { b[i].player_id : i \in DOMAIN b }

DraftInit == board = <<>> /\ turns = <<>>

(* A new draft, under the same order of turns or another one.              *)
StartOver == board' = <<>>

(* The team whose turn it is adds a player.  Past the last turn the order  *)
(* says nothing about the team.                                            *)
Select ==
  /\ board' # <<>>
  /\ board = SubSeq(board', 1, Len(board') - 1)
  /\ LET pick == board'[Len(board')] IN
       /\ pick.player_id \notin Drafted(board)
       /\ Len(board) \in DOMAIN turns => pick.by_team = turns[Len(board)]
  /\ UNCHANGED turns

TakeBack ==
  /\ board # <<>>
  /\ board' = SubSeq(board, 1, Len(board) - 1)
  /\ UNCHANGED turns

Trade ==
  /\ DOMAIN turns' = DOMAIN turns
  /\ \A p \in DOMAIN turns : p < Len(board) => turns'[p] = turns[p]
  /\ UNCHANGED board

DraftNext == StartOver \/ Select \/ TakeBack \/ Trade

DraftSpec == DraftInit /\ [][DraftNext]_draftVars
=============================================================================
