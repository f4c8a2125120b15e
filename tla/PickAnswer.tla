------------------------------ MODULE PickAnswer -------------------------------
(***************************************************************************)
(* What the caller of the pick search may rely on: a question is answered  *)
(* at most once, with one of the players it promises (NULL may be among    *)
(* them), and the process ends instead only where the promise allows it.   *)
(***************************************************************************)
VARIABLES
  stage,     \* "draft", "asked", "answered" or "aborted"
  promise,   \* [players, abort], given with the question: see calculate_best_pick
             \* in Drafter
  reply      \* the player returned

answerVars == <<stage, reply>>

AnswerInit == stage = "draft"

Prepare == stage = "draft" /\ stage' = "draft"

Ask == stage = "draft" /\ stage' = "asked" /\ UNCHANGED reply

Answer ==
  /\ stage = "asked"
  /\ stage' = "answered"
  /\ reply' \in promise.players
  /\ UNCHANGED promise

Abort ==
  /\ stage = "asked"
  /\ promise.abort
  /\ stage' = "aborted"
  /\ UNCHANGED <<promise, reply>>

AnswerSpec == AnswerInit /\ [][Prepare \/ Ask \/ Answer \/ Abort]_answerVars
================================================================================
