------------------------------- MODULE MCPool --------------------------------
(***************************************************************************)
(* The leagues and files PoolLoads is model-checked with.                  *)
(***************************************************************************)
EXTENDS PoolLoads, Leagues

PoolLeagues == {Standard, Reordered, Uniform}
Files       == {Duo, More, Listed, Cut(Malformed)}
==============================================================================
