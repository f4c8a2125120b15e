------------------------------- MODULE Leagues -------------------------------
(***************************************************************************)
(* Small leagues and player pools for model checking.                      *)
(***************************************************************************)
EXTENDS Naturals, Sequences

Slot(name, number_required, flex_slots) ==
  [name |-> name, number_required |-> number_required, flex_slots |-> flex_slots]

League(teams, slots) == [number_of_teams |-> teams, slots |-> slots]

(* Requirements differ from slot to slot; four picks.                      *)
Standard == League(2, << Slot("RB", 1, <<>>), Slot("WR", 0, <<>>),
                         Slot("FLEX", 1, <<"RB", "WR">>) >>)

(* Every slot requires one player; four picks.                             *)
Uniform == League(2, << Slot("RB", 1, <<>>), Slot("FLEX", 1, <<"RB">>) >>)

(* The same with two positions and one team; three picks.                  *)
Solo == League(1, << Slot("WR", 1, <<>>), Slot("RB", 1, <<>>),
                     Slot("FLEX", 1, <<"WR", "RB">>) >>)

(* Two flex slots take the same position; four picks.                      *)
TwoFlex == League(2, << Slot("RB", 0, <<>>), Slot("FLEX", 1, <<"RB">>),
                        Slot("SUPER", 1, <<"RB">>) >>)

(* More teams than slots, as in the README's own example; three picks.     *)
ManyTeams == League(3, << Slot("RB", 1, <<>>), Slot("FLEX", 0, <<"RB">>) >>)

(* Nothing is required, so that every pick is past the last one.           *)
NoPicks == League(2, << Slot("RB", 0, <<>>) >>)

(* More slots than the engine allows.                                      *)
TooManySlots == League(1, [i \in 1 .. 4 |-> Slot("RB", 1, <<>>)])

NamesOfSlots == {"RB", "WR", "FLEX", "SUPER"}
Names        == {"r1", "r2", "r3", "w1", "w2"}

CsvRow(name, position, pts) ==
  [name |-> name, contains |-> {position}, points |-> pts]

(* Five players for four picks.                                            *)
Mixed == << CsvRow("r1", "RB", 50), CsvRow("w1", "WR", 45), CsvRow("r2", "RB", 40),
            CsvRow("w2", "WR", 35), CsvRow("r3", "RB", 30) >>

(* Players of two positions; the first slot named in the string counts.    *)
Dual == << [name |-> "r1", contains |-> {"RB"}, points |-> 40],
           [name |-> "r2", contains |-> {"RB"}, points |-> 30],
           [name |-> "w1", contains |-> {"WR", "RB"}, points |-> 20],
           [name |-> "w2", contains |-> {"WR", "RB"}, points |-> 10] >>

(* A position each team needs and one it need not fill; two picks.         *)
Optional == League(2, << Slot("RB", 1, <<>>), Slot("WR", 0, <<>>) >>)

(* One team, whose flex slot takes both positions, numbered the other way; *)
(* two picks.                                                              *)
Swapped == League(1, << Slot("WR", 0, <<>>), Slot("RB", 1, <<>>),
                        Slot("FLEX", 1, <<"WR", "RB">>) >>)

(* Two pools that number their players differently: the second has one     *)
(* less, and at the id of the other's best player one of another position. *)
Both    == << CsvRow("r1", "RB", 50), CsvRow("w1", "WR", 40) >>
OnlyOne == << CsvRow("w1", "WR", 40) >>

(* A file that stops at a malformed row.                                   *)
Cut(malformed) == << CsvRow("r3", "RB", 45), malformed >>

(* The same, its player listed under the name of a flex slot.              *)
CutListed(malformed) == << CsvRow("r3", "FLEX", 45), malformed >>

(* A file of one player, for a pool that grows load by load.               *)
Single == << CsvRow("r1", "RB", 50) >>

(* Two picks.                                                              *)
Tiny == League(2, << Slot("RB", 1, <<>>) >>)

(* One team that makes both picks: its score is that of the whole draft.   *)
Alone == League(1, << Slot("RB", 2, <<>>) >>)

(* Two teams with a position, a flex slot and an optional position; a pool *)
(* too small for it; and one whose players are projected to score nothing. *)
Duel == League(2, << Slot("RB", 1, <<>>), Slot("WR", 0, <<>>),
                     Slot("FLEX", 1, <<"RB", "WR">>) >>)
Shallow == << CsvRow("r1", "RB", 50), CsvRow("w1", "WR", 45), CsvRow("r2", "RB", 40),
              CsvRow("w2", "WR", 0) >>
Worthless == << CsvRow("r1", "RB", 0), CsvRow("r2", "RB", 0) >>

(* The slots of Standard in another order, so that the same positions have *)
(* other indexes.                                                          *)
Reordered == League(2, << Slot("WR", 1, <<>>), Slot("RB", 1, <<>>),
                          Slot("FLEX", 1, <<"RB", "WR">>) >>)

(* Files that add to a pool, with ties, with a player projected to score   *)
(* nothing and with one of no known position; and a file whose player is   *)
(* listed under the name of a flex slot.                                   *)
Duo    == << CsvRow("w1", "WR", 45), CsvRow("r1", "RB", 45) >>
More   == << CsvRow("r2", "SUPER", 99), CsvRow("r3", "RB", 45), CsvRow("w2", "WR", 0) >>
Listed == << CsvRow("r1", "FLEX", 70) >>
==============================================================================
