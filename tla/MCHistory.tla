------------------------------ MODULE MCHistory ------------------------------
(***************************************************************************)
(* The leagues, pools and files EngineHistory is model-checked with.       *)
(***************************************************************************)
EXTENDS EngineHistory, Leagues

FlexLeagues   == {Standard, Uniform, TwoFlex, Solo}
JustOptional  == {Optional}
JustDual      == {Dual}
TwoPools      == {Both, OnlyOne}
==============================================================================
