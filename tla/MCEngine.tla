------------------------------ MODULE MCEngine -------------------------------
(***************************************************************************)
(* The leagues, pools and files DraftEngine is model-checked with.         *)
(***************************************************************************)
EXTENDS DraftEngine, Leagues

JustStandard  == {Standard}
ManyOrNone    == {ManyTeams, NoPicks, TooManySlots}
JustMixed     == {Mixed}
GrowingPool   == {Single, CutListed(Malformed)}
==============================================================================
