-------------------------------- MODULE Search --------------------------------
(***************************************************************************)
(* The Monte Carlo tree search of src/drafter.c.  Each iteration of the    *)
(* loop of calculate_best_pick visits the node the search has come to: it  *)
(* steps down to a child, or expands a leaf and plays a random draft out   *)
(* from it, whose score goes up the branch.                                *)
(*                                                                         *)
(* A node is named by its path, the slots chosen from the root down to it. *)
(* Of a score (a double) the code only asks whether it is above zero and   *)
(* which of two is greater.  A score is kept as one of four classes; which *)
(* of two positive scores is greater is left open.                         *)
(***************************************************************************)
EXTENDS Drafter

CONSTANTS
  Reach,      \* bound: a pick before the call is one of the first Reach free players
  TradeCap,   \* bound: the picks that are away from their snake team at a time
  LoadCap,    \* bound: the players there may be when another pool is loaded
  VisitCap,   \* visit counts are cut off here; the code tells 0, 1 and more apart
  NoNode,     \* a NULL node
  ThinkTimes  \* the thinking times of a call

ASSUME NoNodeAssumption     == NoNode \notin Seq(Nat)
ASSUME VisitCapAssumption   == VisitCap \in Nat \ {0, 1}
ASSUME SearchTimesAssumption == ThinkTimes \subseteq Nat \ {0}

VARIABLES
  config, order, taken, think_time,   \* the arguments of the call
  phase,     \* "draft" before the call, "loop" and "rollout" in it, then
             \* "returned" or "aborted"
  tree,      \* the nodes: path -> [player, visited, scores, children]
  context,   \* current_context: [node, taken, requirements]
  sim,       \* the context of a rollout and its sums
  clock,     \* CPU seconds since the call, in whole seconds
  answer     \* the result

draftVars  == <<config, order, taken, think_time, poolVars>>
searchVars == <<draftVars, phase, tree, context, sim, clock, answer>>

n_picks == get_number_of_picks(config)

IdsOf(picks) == { picks[i].player_id : i \in DOMAIN picks }

-----------------------------------------------------------------------------
(* Scores.                                                                 *)

ScoreClass == {"zero", "positive", "infinite", "nan"}

Plus(a, b) ==
  IF "nan" \in {a, b} THEN "nan"
  ELSE IF "infinite" \in {a, b} THEN "infinite"
  ELSE IF "positive" \in {a, b} THEN "positive"
  ELSE "zero"

Times(n, a) ==
  IF n > 0 THEN a ELSE IF a \in {"infinite", "nan"} THEN "nan" ELSE "zero"

ClassOfQuotient(part, total) ==
  IF total = 0 THEN IF part = 0 THEN "nan" ELSE "infinite"
               ELSE IF part = 0 THEN "zero" ELSE "positive"

(***************************************************************************)
(* The keys a scan "if (score > max)" that starts at 0.0 may end with: the *)
(* first infinite one, else any positive one; none if no score is above    *)
(* zero (a comparison with NaN is false).                                  *)
(***************************************************************************)
GreatestOf(score) ==
  LET among(class) == { s \in DOMAIN score : score[s] = class }
  IN  IF among("infinite") # {} THEN {Min(among("infinite"))} ELSE among("positive")

-----------------------------------------------------------------------------
(* The tree.                                                               *)

create_node(player) ==
  [player |-> player, visited |-> 0, scores |-> [t \in Teams(config) |-> "zero"],
   children |-> {}]

Children(node) == tree[node].children

is_leaf(node) == Children(node) = {}

Child(node, s) == tree[Append(node, s)]

(***************************************************************************)
(* The bound of a visited child: the mean of its own children's scores,    *)
(* plus 2 * sqrt(log(visits of the parent) / visits of the child).         *)
(***************************************************************************)
calculate_ucb(node, parent_visited, team) ==
  Plus(FoldSet(Plus, "zero", { Child(node, s).scores[team] : s \in Children(node) }),
       IF parent_visited > 1 THEN "positive" ELSE "zero")

(* The first child never visited, else the one with the greatest bound.    *)
select_child(node, visited, team) ==
  LET unvisited == { s \in Children(node) : Child(node, s).visited = 0 }
      best      == GreatestOf([s \in Children(node) |->
                                 calculate_ucb(Append(node, s), visited, team)])
  IN  IF unvisited # {} THEN {Append(node, Min(unvisited))}
      ELSE IF best # {} THEN { Append(node, s) : s \in best }
      ELSE {NoNode}

-----------------------------------------------------------------------------
(* Contexts.                                                               *)

make_pick(c, id) ==
  LET team == order[Len(c.taken)] IN
  [c EXCEPT !.taken = Append(@, [player_id |-> id, by_team |-> team]),
            !.requirements[team] = fill_slot(config, @, get_player_by_id(id).position)]

MASTER_CONTEXT ==
  [node |-> <<>>, taken |-> taken, requirements |-> create_search_context(config, taken)]

(* The context with the pick the node stands for; the root stands for none. *)
WithPickOf(c, node) == IF node = <<>> THEN c ELSE make_pick(c, tree[node].player)

OnTheClock_Untraded(c) ==                               \* mutant: trades ignored
  build_snake_order(n_picks, config.num_teams)[Len(c.taken)]

OnTheClock(c) == order[Len(c.taken)]

-----------------------------------------------------------------------------
(* Expansion: a child for each slot the next team requires and can fill.   *)

expand_tree_PickForgotten(node) ==                     \* mutant: the bug of drafter.c:375
  LET c   == context
      row == c.requirements[OnTheClock(c)]
  IN  [s \in RootChildren(config, row, IdsOf(c.taken)) |->
        whos_highest_projected(config, s, IdsOf(c.taken))]

expand_tree_NullKept(node) ==                          \* mutant: no "!= NULL" test
  LET c == WithPickOf(context, node) IN
  IF Len(c.taken) >= n_picks THEN <<>>
  ELSE LET row == c.requirements[OnTheClock(c)]
       IN  [s \in { s \in Slots(config) : row[s] > 0 } |->
             whos_highest_projected(config, s, IdsOf(c.taken))]

expand_tree(node) ==
  LET c == WithPickOf(context, node) IN
  IF Len(c.taken) >= n_picks THEN <<>>
  ELSE LET row == c.requirements[OnTheClock(c)]
       IN  [s \in RootChildren(config, row, IdsOf(c.taken)) |->
             whos_highest_projected(config, s, IdsOf(c.taken))]

expand_tree_Faults(node) ==
  LET c == WithPickOf(context, node) IN
  /\ Len(c.taken) < n_picks
  /\ RootFaults(config, c.requirements[OnTheClock(c)], IdsOf(c.taken))

Visited(node) == [tree EXCEPT ![node].visited = Min({@ + 1, VisitCap})]

(* The node is visited and given a child for each player found.            *)
Grown(node, found) ==
  LET added == { Append(node, s) : s \in DOMAIN found } IN
  [path \in DOMAIN tree \cup added |->
    IF path \in added THEN create_node(found[Last(path)])
    ELSE IF path = node THEN [Visited(node)[path] EXCEPT !.children = DOMAIN found]
    ELSE tree[path]]

-----------------------------------------------------------------------------
(***************************************************************************)
(* A rollout.  The points of the branch go to the teams that pick along    *)
(* it, from the pick of the leaf back to the root; "total" starts from 0.  *)
(***************************************************************************)
BranchPoints_NoneCounted(node, last_pick) ==           \* mutant: no walk up the branch
  [t \in Teams(config) |-> 0]

BranchPoints_SamePick(node, last_pick) ==              \* mutant: no "p--"
  [t \in Teams(config) |->
    MapThenSumSet(LAMBDA k : points(tree[SubSeq(node, 1, k)].player),
                  { k \in 1 .. Len(node) : order[last_pick] = t })]

BranchPoints(node, last_pick) ==
  [t \in Teams(config) |->
    MapThenSumSet(LAMBDA k : points(tree[SubSeq(node, 1, k)].player),
                  { k \in 1 .. Len(node) : order[last_pick - (Len(node) - k)] = t })]

simulate_score(node) ==
  LET c == WithPickOf(context, node) IN
  [ taken |-> c.taken, requirements |-> c.requirements,
    scores |-> BranchPoints(node, Len(c.taken) - 1), total |-> 0 ]

NoSim == [taken |-> <<>>]

(***************************************************************************)
(* sim_pick_for_team draws one of three methods: the first player, the one *)
(* with most points or any, among the best players of the slots the team   *)
(* still requires (the z-scores decide nothing else).  All of them look at *)
(* every slot, the filled ones too.                                        *)
(***************************************************************************)
sim_pick_for_team(c) == BestPicks(config, c.requirements[OnTheClock(c)], IdsOf(c.taken))

sim_pick_Faults(c) == \E s \in Slots(config) : FlexFaults(config, s, IdsOf(c.taken))

(***************************************************************************)
(* backpropogate_score for the team that picked the leaf: what a node      *)
(* makes of the score that reaches it is what its parent receives.         *)
(***************************************************************************)
backpropogate_score(node, score, team) ==
  LET prefix(k) == SubSeq(node, 1, k)
      new_avg[k \in 0 .. Len(node)] ==
        Plus(IF k = Len(node) THEN score ELSE new_avg[k + 1],
             Times(tree[prefix(k)].visited - 1, tree[prefix(k)].scores[team]))
  IN  [path \in DOMAIN tree |->
        IF IsPrefix(path, node)
          THEN [tree[path] EXCEPT !.scores[team] = new_avg[Len(path)]]
          ELSE tree[path]]

-----------------------------------------------------------------------------
(***************************************************************************)
(* Before the call: the commands that change what it is given, in any      *)
(* order (see DraftEngine for the rest of what they do).                   *)
(***************************************************************************)

SearchInit ==
  /\ \E file \in ConfigFiles : \E unwritten \in UnwrittenValues(file) :
       /\ Loadable(file)
       /\ config = load_config(file, unwritten)
  /\ order = build_snake_order(n_picks, config.num_teams)
  /\ taken = <<>>
  /\ think_time = 10
  /\ PoolInit
  /\ phase = "draft"
  /\ tree = <<>>
  /\ context = NoNode
  /\ sim = NoSim
  /\ clock = 0
  /\ answer = NoPlayer

callVars == <<think_time, phase, tree, context, sim, clock, answer>>

(* The players of the pool keep the positions they had.                    *)
load_draft_config(file) ==
  /\ phase = "draft"
  /\ Loadable(file)
  /\ \E unwritten \in UnwrittenValues(file) :
       LET c == load_config(file, unwritten) IN
       /\ config' = c
       /\ order' = build_snake_order(get_number_of_picks(c), c.num_teams)
  /\ taken' = <<>>
  /\ UNCHANGED <<poolVars, callVars>>

load_player_pool(file) ==
  /\ phase = "draft"
  /\ number_of_players <= LoadCap
  /\ load_players(config, file)
  /\ taken' = <<>>
  /\ UNCHANGED <<config, order, callVars>>

(* The pool has changed, the draft has not.                                *)
load_player_pool_Fails(file) ==
  /\ phase = "draft"
  /\ number_of_players <= LoadCap
  /\ load_players_Fails(config, file)
  /\ UNCHANGED <<config, order, taken, callVars>>

(* The picks of load follow one by one, as DraftPlayer.                    *)
load ==
  /\ phase = "draft"
  /\ taken' = <<>>
  /\ UNCHANGED <<config, order, poolVars, callVars>>

(* make_pick, bench, load and sim_draft; load records an id that has no    *)
(* player as 0, which need not have one either.                            *)
DraftPlayer(id) ==
  /\ phase = "draft"
  /\ Len(taken) < n_picks
  /\ id \notin IdsOf(taken)
  /\ Cardinality({ better \in 0 .. id - 1 : better \notin IdsOf(taken) }) < Reach
  /\ taken' = Append(taken, [player_id |-> id, by_team |-> order[Len(taken)]])
  /\ UNCHANGED <<config, order, poolVars, callVars>>

undo_pick ==
  /\ phase = "draft"
  /\ taken # <<>>
  /\ taken' = Front(taken)
  /\ UNCHANGED <<config, order, poolVars, callVars>>

(* The picks that are not their snake team's.                              *)
Traded(turns) ==
  { p \in DOMAIN turns : turns[p] # build_snake_order(n_picks, config.num_teams)[p] }

give_pick(p, team) ==
  /\ phase = "draft"
  /\ p >= Len(taken)
  /\ order' = [order EXCEPT ![p] = team]
  /\ Cardinality(Traded(order')) <= TradeCap
  /\ UNCHANGED <<config, taken, poolVars, callVars>>

-----------------------------------------------------------------------------
(* The search.                                                             *)

calculate_best_pick_Called(t) ==
  /\ phase = "draft"
  /\ Len(taken) < n_picks
  /\ think_time' = t
  /\ phase' = "loop"
  /\ tree' = [path \in {<<>>} |-> create_node(NoPlayer)]
  /\ context' = MASTER_CONTEXT
  /\ UNCHANGED <<config, order, taken, poolVars, sim, clock, answer>>

TimeLeft == phase = "loop" /\ clock < think_time /\ context.node # NoNode

VisitRoot ==
  /\ TimeLeft
  /\ context.node = <<>>
  /\ is_leaf(<<>>)
  /\ ~expand_tree_Faults(<<>>)
  /\ tree' = Grown(<<>>, expand_tree(<<>>))
  /\ context' = MASTER_CONTEXT
  /\ UNCHANGED <<draftVars, phase, sim, clock, answer>>

VisitLeaf ==
  /\ TimeLeft
  /\ context.node # <<>>
  /\ is_leaf(context.node)
  /\ ~expand_tree_Faults(context.node)
  /\ tree' = Grown(context.node, expand_tree(context.node))
  /\ sim' = simulate_score(context.node)
  /\ phase' = "rollout"
  /\ UNCHANGED <<draftVars, context, clock, answer>>

VisitInner ==
  /\ TimeLeft
  /\ ~is_leaf(context.node)
  /\ tree' = Visited(context.node)
  /\ LET c == WithPickOf(context, context.node) IN
       \E node \in select_child(context.node, tree'[context.node].visited, OnTheClock(c)) :
         context' = [c EXCEPT !.node = node]
  /\ UNCHANGED <<draftVars, phase, sim, clock, answer>>

RolloutPick ==
  /\ phase = "rollout"
  /\ Len(sim.taken) < n_picks
  /\ ~sim_pick_Faults(sim)
  /\ \E id \in sim_pick_for_team(sim) :
       sim' = [make_pick(sim, id) EXCEPT !.scores[OnTheClock(sim)] = @ + points(id),
                                         !.total = @ + points(id)]
  /\ UNCHANGED <<draftVars, phase, tree, context, clock, answer>>

RolloutEnds_StaleRequirements ==                       \* mutant: reset keeps requirements
  /\ phase = "rollout"
  /\ Len(sim.taken) >= n_picks
  /\ LET drafting_team == OnTheClock(context) IN
       tree' = backpropogate_score(context.node,
                                   ClassOfQuotient(sim.scores[drafting_team], sim.total),
                                   drafting_team)
  /\ context' = [MASTER_CONTEXT EXCEPT !.requirements = context.requirements]
  /\ sim' = NoSim
  /\ phase' = "loop"
  /\ UNCHANGED <<draftVars, clock, answer>>

RolloutEnds ==
  /\ phase = "rollout"
  /\ Len(sim.taken) >= n_picks
  /\ LET drafting_team == OnTheClock(context) IN
       tree' = backpropogate_score(context.node,
                                   ClassOfQuotient(sim.scores[drafting_team], sim.total),
                                   drafting_team)
  /\ context' = MASTER_CONTEXT
  /\ sim' = NoSim
  /\ phase' = "loop"
  /\ UNCHANGED <<draftVars, clock, answer>>

(* A NULL player is dereferenced, or the assertion of simulate_score fails. *)
SearchAborts ==
  /\ \/ TimeLeft /\ is_leaf(context.node) /\ expand_tree_Faults(context.node)
     \/ /\ phase = "rollout"
        /\ Len(sim.taken) < n_picks
        /\ ~sim_pick_Faults(sim) => sim_pick_for_team(sim) = {}
  /\ phase' = "aborted"
  /\ UNCHANGED <<draftVars, tree, context, sim, clock, answer>>

(* The root's child with the greatest score, by default that of slot 0.    *)
ChosenChildren ==
  LET best == GreatestOf([s \in Children(<<>>) |->
                            Child(<<>>, s).scores[order[Len(taken)]]])
  IN  IF best = {} THEN {0} ELSE best

SearchReturns_ClockIgnored ==                          \* mutant: only a NULL node stops it
  /\ phase = "loop"
  /\ context.node = NoNode
  /\ \E s \in ChosenChildren :
       answer' = IF s \in Children(<<>>) THEN Child(<<>>, s).player ELSE NoPlayer
  /\ phase' = "returned"
  /\ UNCHANGED <<draftVars, tree, context, sim, clock>>

SearchReturns ==
  /\ phase = "loop"
  /\ clock >= think_time \/ context.node = NoNode
  /\ \E s \in ChosenChildren :
       answer' = IF s \in Children(<<>>) THEN Child(<<>>, s).player ELSE NoPlayer
  /\ phase' = "returned"
  /\ UNCHANGED <<draftVars, tree, context, sim, clock>>

(***************************************************************************)
(* The CPU time reaches another whole second.  The first may come at once; *)
(* a full second is assumed to be enough for a look at each of the root's  *)
(* children.                                                               *)
(***************************************************************************)
Tick ==
  /\ phase \in {"loop", "rollout"}
  /\ clock < think_time
  /\ clock > 0 => <<>> \in DOMAIN tree /\ tree[<<>>].visited > 0
                  /\ \A s \in Children(<<>>) : Child(<<>>, s).visited > 0
  /\ clock' = clock + 1
  /\ UNCHANGED <<draftVars, phase, tree, context, sim, answer>>

-----------------------------------------------------------------------------

Prepare ==
  \/ \E file \in ConfigFiles : load_draft_config(file)
  \/ \E file \in PoolFiles : load_player_pool(file) \/ load_player_pool_Fails(file)
  \/ load
  \/ \E id \in Ids \cup {0} : DraftPlayer(id)
  \/ undo_pick
  \/ \E p \in DOMAIN order, team \in Teams(config) : give_pick(p, team)

SearchStep ==
  \/ VisitRoot \/ VisitLeaf \/ VisitInner
  \/ RolloutPick \/ RolloutEnds \/ SearchAborts \/ SearchReturns

SearchNext ==
  \/ Prepare
  \/ \E t \in ThinkTimes : calculate_best_pick_Called(t)
  \/ SearchStep
  \/ Tick

(***************************************************************************)
(* The search never waits, and a process that computes uses CPU time.      *)
(***************************************************************************)
SearchSpec == SearchInit /\ [][SearchNext]_searchVars
                         /\ WF_searchVars(SearchStep) /\ WF_searchVars(Tick)

-----------------------------------------------------------------------------
(* Properties.                                                             *)

Searching == phase \in {"loop", "rollout"}

(* The picks the search imagines from the real draft down to a node.       *)
Branch(node) ==
  LET team(k) == order[Len(taken) + k - 1] IN
  taken \o [k \in DOMAIN node |->
             [player_id |-> tree[SubSeq(node, 1, k)].player, by_team |-> team(k)]]

(* The types, and that the nodes form a tree.                              *)
SearchTypeOK ==
  /\ phase \in {"draft", "loop", "rollout", "returned", "aborted"}
  /\ clock \in 0 .. think_time
  /\ answer \in Ids \cup {NoPlayer}
  /\ phase # "draft" =>
       \A path \in DOMAIN tree :
         /\ path # <<>> => Last(path) \in Children(Front(path))
         /\ path # <<>> <=> tree[path].player \in Ids
         /\ tree[path].visited \in 0 .. VisitCap
         /\ tree[path].scores \in [Teams(config) -> ScoreClass]

(* However deep the search goes and however often it starts again from the *)
(* real draft (reset_search_context_to), the context it carries along is   *)
(* the real draft and the branch above the node, no pick more or less.     *)
ContextFollowsTree ==
  Searching /\ context.node \notin {NoNode, <<>>} =>
    LET branch == Branch(Front(context.node)) IN
    /\ context.taken = branch
    /\ context.requirements = create_search_context(config, branch)

(* drafter.c:375: no branch drafts a player twice, or one already drafted, *)
(* back-to-back picks of a team included, and each node fills a slot its   *)
(* team then required.  Asked of the children of the node the search is at *)
(* (whose children it makes).                                              *)
BranchesAreLegal ==
  Searching /\ context.node # NoNode /\ Children(context.node) # {} =>
    LET above == Branch(context.node)
        row   == create_search_context(config, above)[order[Len(above)]]
    IN  \A s \in Children(context.node) :
          Child(context.node, s).player \notin IdsOf(above) /\ row[s] > 0

(* The points a rollout counts for a team are those of the players the     *)
(* branch and the rollout give it, whatever the order of the picks: a walk *)
(* up the branch and a walk down the rest of the draft miss none and count *)
(* none twice.                                                             *)
RolloutCountsEveryPick ==
  phase = "rollout" =>
    \A t \in Teams(config) :
      sim.scores[t] =
        MapThenSumSet(LAMBDA i : points(sim.taken[i].player_id),
                      { i \in Len(taken) + 1 .. Len(sim.taken) :
                          sim.taken[i].by_team = t })

(* A visit to a node that has children is passed on to one of them, but    *)
(* the one that ends the search at a NULL node: the visits the bounds      *)
(* divide by add up along the tree.                                        *)
VisitsAddUp ==
  Searching /\ context.node # NoNode =>
    \A path \in DOMAIN tree :
      ~is_leaf(path) /\ tree[path].visited < VisitCap =>
        tree[path].visited =
          1 + MapThenSumSet(LAMBDA s : Child(path, s).visited, Children(path))
            + (IF context.node # <<>> /\ phase = "loop" /\ Front(context.node) = path
                 THEN 1 ELSE 0)

(* A NULL node stops the search early (drafter.c:151).  While every player *)
(* is projected above zero no score is NaN and only the clock stops it.    *)
OnlyTimeStopsIt ==
  Searching /\ (\A id \in Ids : points(id) > 0) => context.node # NoNode

(* Every search comes to an end, even one whose root has no child and one  *)
(* that has seen every draft there is.                                     *)
SearchEnds == Searching ~> phase \in {"returned", "aborted"}

(* The search answers as the command loop's model of it says (Drafter).    *)
P == INSTANCE PickAnswer WITH
       promise <- IF phase = "draft" THEN [players |-> {}, abort |-> FALSE]
                  ELSE calculate_best_pick(config, order, taken, think_time),
       stage <- CASE phase = "returned"           -> "answered"
                  [] phase \in {"loop", "rollout"} -> "asked"
                  [] OTHER                         -> phase,
       reply <- answer

AnswersAsPromised == P!AnswerSpec
===============================================================================
