------------------------------- MODULE MCSearch -------------------------------
(***************************************************************************)
(* The leagues and pools Search is model-checked with.                     *)
(***************************************************************************)
EXTENDS Search, Leagues

SearchLeagues == {Duel, Tiny, Solo, Alone}
SearchPools   == {Mixed, Shallow, Worthless}

(* A second load adds two players, fails or finds players left over from   *)
(* another configuration.                                                  *)
LoadLeagues == {Optional, Swapped}
LoadPools   == {Both, Worthless, Cut(Malformed)}
================================================================================
