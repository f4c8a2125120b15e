---------------------------- MODULE Search_proofs ----------------------------
(***************************************************************************)
(* Proofs about Search, for every league, pool, thinking time and bound:   *)
(* its nodes form a tree, the context the search carries along is the real *)
(* draft and the branch above its node, no branch of the tree drafts a     *)
(* player twice or for a slot its team does not require, the visits add up *)
(* along the tree, a rollout counts the points of every pick once, while   *)
(* every player is projected above zero only the clock ends a search, and  *)
(* the search answers, or aborts, as the command loop's model promises.    *)
(***************************************************************************)
EXTENDS Search, Drafter_proofs, SequenceTheorems

-----------------------------------------------------------------------------
(* The inductive invariant.                                                *)

Node == [player   : Ids \cup {NoPlayer},
         visited  : 0 .. VisitCap,
         scores   : [Teams(config) -> ScoreClass],
         children : SUBSET Slots(config)]

(* Paths lead from the root by way of children, and every child is there.  *)
IsTree(t) ==
  /\ <<>> \in DOMAIN t
  /\ \A path \in DOMAIN t :
       /\ path \in Seq(Nat)
       /\ \A k \in 0 .. Len(path) : SubSeq(path, 1, k) \in DOMAIN t
       /\ path # <<>> => Last(path) \in t[Front(path)].children
       /\ \A s \in t[path].children : Append(path, s) \in DOMAIN t

(* A node other than the root stands for a pick.                           *)
NodesArePicks(t) == \A path \in DOMAIN t : path # <<>> <=> t[path].player \in Ids

(* What BranchesAreLegal says of one node.                                 *)
LegalAt(path) ==
  LET above == Branch(path) IN
  \A s \in Children(path) :
    /\ Child(path, s).player \notin IdsOf(above)
    /\ create_search_context(config, above)[order[Len(above)]][s] > 0

TreeInv ==
  /\ tree \in [DOMAIN tree -> Node]
  /\ IsTree(tree)
  /\ NodesArePicks(tree)
  /\ \A path \in DOMAIN tree : LegalAt(path)

(* The context when the search has come to a node.                         *)
ContextAt(node) ==
  LET branch == IF node = <<>> THEN taken ELSE Branch(Front(node)) IN
  [node |-> node, taken |-> branch, requirements |-> create_search_context(config, branch)]

ContextInv ==
  context.node # NoNode => /\ context.node \in DOMAIN tree
                           /\ context = ContextAt(context.node)

CallInv ==
  /\ WellShaped(config)
  /\ \E S : taken \in Seq(S)
  /\ phase \in {"draft", "loop", "rollout", "returned", "aborted"}
  /\ think_time \in Nat
  /\ clock \in 0 .. think_time
  /\ answer \in Ids \cup {NoPlayer}
  /\ phase = "draft" => clock = 0 /\ answer = NoPlayer
  /\ phase = "rollout" => context.node # NoNode

SearchInv ==
  /\ CallInv
  /\ phase # "draft" => TreeInv
  /\ Searching => ContextInv

-----------------------------------------------------------------------------
(* Paths.                                                                  *)

(* The length, the domain and the whole of a path.                         *)
LEMMA PathFacts ==
  ASSUME NEW path \in Seq(Nat)
  PROVE  /\ Len(path) \in Nat
         /\ DOMAIN path = 1 .. Len(path)
         /\ SubSeq(path, 1, Len(path)) = path
         /\ path = <<>> <=> Len(path) = 0
<1>1. Len(path) \in Nat /\ DOMAIN path = 1 .. Len(path) /\ (path = <<>> <=> Len(path) = 0)
  OBVIOUS
<1>2. SubSeq(path, 1, Len(path)) = path
  BY SubSeqFull, Zenon
<1> QED
  BY <1>1, <1>2

(* A prefix of a path is a path.                                           *)
LEMMA PrefixIsPath ==
  ASSUME NEW path \in Seq(Nat), NEW k \in 0 .. Len(path)
  PROVE  /\ SubSeq(path, 1, k) \in Seq(Nat)
         /\ Len(SubSeq(path, 1, k)) = k
         /\ \A i \in 1 .. k : SubSeq(path, 1, k)[i] = path[i]
  OBVIOUS

(* The path of a child is one longer, and goes on from its parent.         *)
LEMMA ChildPath ==
  ASSUME NEW path \in Seq(Nat), NEW s \in Nat
  PROVE  /\ Append(path, s) \in Seq(Nat)
         /\ Append(path, s) # <<>>
         /\ Len(Append(path, s)) = Len(path) + 1
         /\ Last(Append(path, s)) = s
         /\ Front(Append(path, s)) = path
         /\ \A k \in 0 .. Len(path) : SubSeq(Append(path, s), 1, k) = SubSeq(path, 1, k)
         /\ SubSeq(Append(path, s), 1, Len(path) + 1) = Append(path, s)
<1> DEFINE q == Append(path, s)
<1>1. q \in Seq(Nat) /\ q # <<>> /\ Len(q) = Len(path) + 1 /\ q[Len(q)] = s
  OBVIOUS
<1>2. \A k \in 0 .. Len(path) : SubSeq(q, 1, k) = SubSeq(path, 1, k)
  OBVIOUS
<1>3. SubSeq(q, 1, Len(q)) = q /\ SubSeq(path, 1, Len(path)) = path
  BY <1>1, PathFacts, Zenon
<1>4. Len(path) \in 0 .. Len(path) /\ Len(q) - 1 = Len(path)
  BY <1>1
<1>5. Front(q) = path
  <2>1. Front(q) = SubSeq(q, 1, Len(path))
    BY <1>4 DEF Front
  <2> QED
    BY <1>2, <1>3, <1>4, <2>1, Zenon
<1>6. Last(q) = s /\ SubSeq(q, 1, Len(path) + 1) = q
  BY <1>1, <1>3, Zenon DEF Last
<1> QED
  BY <1>1, <1>2, <1>5, <1>6, Zenon

(* Two sequences one after the other.                                      *)
LEMMA ConcatFacts ==
  ASSUME NEW T, NEW a \in Seq(T), NEW b \in Seq(T)
  PROVE  a \o b \in Seq(T) /\ Len(a \o b) = Len(a) + Len(b)
  OBVIOUS

(* The path of the parent is a prefix.                                     *)
LEMMA FrontOfPath ==
  ASSUME NEW path \in Seq(Nat), path # <<>>
  PROVE  /\ Front(path) = SubSeq(path, 1, Len(path) - 1)
         /\ Len(path) - 1 \in 0 .. Len(path)
  BY DEF Front

-----------------------------------------------------------------------------
(* Branches, for an order o, the picks made t and a tree u.                *)

PickAt(o, t, u, node, k) ==
  [player_id |-> u[SubSeq(node, 1, k)].player, by_team |-> o[Len(t) + k - 1]]

BranchOf(o, t, u, node) == t \o [k \in DOMAIN node |-> PickAt(o, t, u, node, k)]

(* Branch by its arguments, so that it can be carried to the next state.   *)
LEMMA BranchIsBranch ==
  ASSUME NEW node
  PROVE  Branch(node) = BranchOf(order, taken, tree, node)
  BY Zenon DEF Branch, BranchOf, PickAt

(* The same in the next state.                                             *)
LEMMA NextBranchIsBranch ==
  ASSUME NEW node
  PROVE  Branch(node)' = BranchOf(order', taken', tree', node)
  BY Zenon DEF Branch, BranchOf, PickAt

(* A branch is the draft and a pick for each node below the root.          *)
LEMMA BranchSequence ==
  ASSUME NEW S, NEW t \in Seq(S), NEW o, NEW u, NEW node \in Seq(Nat)
  PROVE  /\ \E T : BranchOf(o, t, u, node) \in Seq(T)
         /\ Len(BranchOf(o, t, u, node)) = Len(t) + Len(node)
<1> DEFINE T == S \cup { PickAt(o, t, u, node, k) : k \in 1 .. Len(node) }
           b == [k \in 1 .. Len(node) |-> PickAt(o, t, u, node, k)]
<1>1. Len(node) \in Nat /\ DOMAIN node = 1 .. Len(node)
  BY PathFacts, Zenon
<1>2. BranchOf(o, t, u, node) = t \o b
  BY <1>1, Zenon DEF BranchOf
<1>3. b \in [1 .. Len(node) -> T]
  BY Zenon
<1>4. t \in Seq(T)
  <2>1. S \subseteq T
    BY Zenon
  <2> HIDE DEF T
  <2> QED
    BY <2>1
<1>5. b \in Seq(T) /\ Len(b) = Len(node)
  <2> HIDE DEF T, b
  <2> QED
    BY <1>1, <1>3
<1>6. t \o b \in Seq(T) /\ Len(t \o b) = Len(t) + Len(b)
  <2> HIDE DEF T, b
  <2> QED
    BY <1>4, <1>5, ConcatFacts, Zenon
<1> HIDE DEF T, b
<1> QED
  BY <1>2, <1>5, <1>6

(* The branch of the root is the draft itself.                             *)
LEMMA BranchOfRoot ==
  ASSUME NEW S, NEW t \in Seq(S), NEW o, NEW u
  PROVE  BranchOf(o, t, u, <<>>) = t
<1>1. [k \in DOMAIN <<>> |-> PickAt(o, t, u, <<>>, k)] = <<>>
  OBVIOUS
<1>2. t \o <<>> = t
  OBVIOUS
<1> QED
  BY <1>1, <1>2, Zenon DEF BranchOf

(* Down to a child it is a pick longer.                                    *)
LEMMA BranchOfChild ==
  ASSUME NEW S, NEW t \in Seq(S), NEW o, NEW u, NEW node \in Seq(Nat), NEW s \in Nat
  PROVE  BranchOf(o, t, u, Append(node, s))
           = Append(BranchOf(o, t, u, node),
                    [player_id |-> u[Append(node, s)].player,
                     by_team   |-> o[Len(t) + Len(node)]])
<1> DEFINE q == Append(node, s)
           n == Len(node)
           b == [k \in 1 .. n |-> PickAt(o, t, u, node, k)]
           d == [k \in 1 .. n + 1 |-> PickAt(o, t, u, q, k)]
           e == [player_id |-> u[q].player, by_team |-> o[Len(t) + n]]
           T == S \cup {e} \cup { PickAt(o, t, u, node, k) : k \in 1 .. n }
<1>1. /\ n \in Nat /\ Len(t) \in Nat /\ DOMAIN node = 1 .. n
      /\ Len(q) = n + 1 /\ DOMAIN q = 1 .. n + 1
      /\ \A k \in 0 .. n : SubSeq(q, 1, k) = SubSeq(node, 1, k)
      /\ SubSeq(q, 1, n + 1) = q
  <2>1. q \in Seq(Nat)
    BY ChildPath, Zenon
  <2>2. Len(t) \in Nat
    OBVIOUS
  <2> HIDE DEF q
  <2> QED
    BY <2>1, <2>2, PathFacts, ChildPath, Zenon DEF q
<1>2. BranchOf(o, t, u, node) = t \o b /\ BranchOf(o, t, u, q) = t \o d
  BY <1>1, Zenon DEF BranchOf
<1>3. \A k \in 1 .. n : PickAt(o, t, u, q, k) = PickAt(o, t, u, node, k)
  <2>1. \A k \in 1 .. n : k \in 0 .. n
    BY <1>1
  <2> QED
    BY <1>1, <2>1, Zenon DEF PickAt
<1>4. PickAt(o, t, u, q, n + 1) = e
  <2>1. Len(t) + (n + 1) - 1 = Len(t) + n
    BY <1>1
  <2> QED
    BY <1>1, <2>1, Zenon DEF PickAt
<1>5. b \in Seq(T) /\ Len(b) = n /\ e \in T /\ t \in Seq(T)
  <2>1. b \in [1 .. n -> T] /\ e \in T /\ S \subseteq T
    BY Zenon
  <2> HIDE DEF b, T, e, n
  <2> QED
    BY <1>1, <2>1
<1>6. d = Append(b, e)
  <2>1. \A k \in 1 .. n : d[k] = b[k] /\ d[k] \in T
    <3>1. \A k \in 1 .. n : k \in 1 .. n + 1
      BY <1>1
    <3> QED
      BY <1>3, <3>1, Zenon
  <2>2. d[n + 1] = e
    <3>1. n + 1 \in 1 .. n + 1
      BY <1>1
    <3> QED
      BY <1>4, <3>1, Zenon
  <2>3. DOMAIN d = 1 .. n + 1 /\ d = [k \in DOMAIN d |-> d[k]]
    BY Zenon
  <2> HIDE DEF b, d, e, T, n
  <2> QED
    BY <1>1, <1>5, <2>1, <2>2, <2>3
<1>7. t \o Append(b, e) = Append(t \o b, e)
  <2> HIDE DEF b, e, T, n
  <2> QED
    BY <1>5
<1> QED
  BY <1>2, <1>6, <1>7, Zenon

(* It depends on the players along it only.                                *)
LEMMA BranchKept ==
  ASSUME NEW t, NEW o, NEW u, NEW v, NEW node \in Seq(Nat),
         \A k \in 0 .. Len(node) :
           u[SubSeq(node, 1, k)].player = v[SubSeq(node, 1, k)].player
  PROVE  BranchOf(o, t, u, node) = BranchOf(o, t, v, node)
<1>1. \A k \in DOMAIN node : k \in 0 .. Len(node)
  OBVIOUS
<1>2. \A k \in DOMAIN node : PickAt(o, t, u, node, k) = PickAt(o, t, v, node, k)
  BY <1>1, Zenon DEF PickAt
<1>3. [k \in DOMAIN node |-> PickAt(o, t, u, node, k)]
        = [k \in DOMAIN node |-> PickAt(o, t, v, node, k)]
  BY <1>2, Zenon
<1> QED
  BY <1>3, Zenon DEF BranchOf

-----------------------------------------------------------------------------
(* Trees.                                                                  *)

(* Nodes with the same children form the same tree.                        *)
LEMMA TreeKept ==
  ASSUME NEW t, NEW u, IsTree(t), DOMAIN u = DOMAIN t,
         \A path \in DOMAIN t : u[path].children = t[path].children
  PROVE  IsTree(u)
<1>1. ASSUME NEW path \in DOMAIN u
      PROVE  /\ path \in Seq(Nat)
             /\ \A k \in 0 .. Len(path) : SubSeq(path, 1, k) \in DOMAIN u
             /\ path # <<>> => Last(path) \in u[Front(path)].children
             /\ \A s \in u[path].children : Append(path, s) \in DOMAIN u
  <2>1. /\ path \in Seq(Nat)
        /\ \A k \in 0 .. Len(path) : SubSeq(path, 1, k) \in DOMAIN t
        /\ path # <<>> => Last(path) \in t[Front(path)].children
        /\ \A s \in t[path].children : Append(path, s) \in DOMAIN t
    BY Zenon DEF IsTree
  <2>2. path # <<>> => Front(path) \in DOMAIN t
    BY <2>1, FrontOfPath, Zenon
  <2> QED
    BY <2>1, <2>2, Zenon
<1> QED
  BY <1>1, Zenon DEF IsTree

(* The paths of the children a leaf might have are not in use.             *)
LEMMA FreshChild ==
  ASSUME NEW t, IsTree(t), NEW node \in DOMAIN t, t[node].children = {}, NEW s \in Nat
  PROVE  Append(node, s) \notin DOMAIN t
<1>1. node \in Seq(Nat)
  BY Zenon DEF IsTree
<1>2. Append(node, s) # <<>> /\ Last(Append(node, s)) = s /\ Front(Append(node, s)) = node
  BY <1>1, ChildPath, Zenon
<1> QED
  BY <1>2, Zenon DEF IsTree

(* A leaf is given children.                                               *)
LEMMA TreeGrown ==
  ASSUME NEW t, NEW u, NEW node \in DOMAIN t, NEW K \in SUBSET Nat,
         IsTree(t),
         t[node].children = {},
         DOMAIN u = DOMAIN t \cup { Append(node, s) : s \in K },
         \A path \in DOMAIN t \ {node} : u[path].children = t[path].children,
         u[node].children = K,
         \A s \in K : u[Append(node, s)].children = {}
  PROVE  IsTree(u)
<1>1. node \in Seq(Nat) /\ \A k \in 0 .. Len(node) : SubSeq(node, 1, k) \in DOMAIN t
  BY Zenon DEF IsTree
<1>2. \A s \in K : Append(node, s) \notin DOMAIN t
  BY FreshChild, Zenon
<1>3. <<>> \in DOMAIN u
  BY Zenon DEF IsTree
<1>4. ASSUME NEW path \in DOMAIN t
      PROVE  /\ path \in Seq(Nat)
             /\ \A k \in 0 .. Len(path) : SubSeq(path, 1, k) \in DOMAIN u
             /\ path # <<>> => Last(path) \in u[Front(path)].children
             /\ \A s \in u[path].children : Append(path, s) \in DOMAIN u
  <2>1. /\ path \in Seq(Nat)
        /\ \A k \in 0 .. Len(path) : SubSeq(path, 1, k) \in DOMAIN t
        /\ path # <<>> => Last(path) \in t[Front(path)].children
        /\ \A s \in t[path].children : Append(path, s) \in DOMAIN t
    BY Zenon DEF IsTree
  <2>2. path # <<>> => Front(path) \in DOMAIN t
    BY <2>1, FrontOfPath, Zenon
  <2>3. path # <<>> => Front(path) # node
    BY <2>1, Zenon
  <2>4. path # <<>> => Last(path) \in u[Front(path)].children
    BY <2>1, <2>2, <2>3, Zenon
  <2>5. \A s \in u[path].children : Append(path, s) \in DOMAIN u
    BY <2>1, Zenon
  <2> QED
    BY <2>1, <2>4, <2>5, Zenon
<1>5. ASSUME NEW s \in K
      PROVE  LET path == Append(node, s) IN
             /\ path \in Seq(Nat)
             /\ \A k \in 0 .. Len(path) : SubSeq(path, 1, k) \in DOMAIN u
             /\ path # <<>> => Last(path) \in u[Front(path)].children
             /\ \A r \in u[path].children : Append(path, r) \in DOMAIN u
  <2>1. s \in Nat
    OBVIOUS
  <2>2. PICK path : path = Append(node, s)
    OBVIOUS
  <2>3. /\ path \in Seq(Nat)
        /\ Len(path) = Len(node) + 1
        /\ Last(path) = s
        /\ Front(path) = node
        /\ \A k \in 0 .. Len(node) : SubSeq(path, 1, k) = SubSeq(node, 1, k)
        /\ SubSeq(path, 1, Len(node) + 1) = path
    BY <1>1, <2>1, <2>2, ChildPath, Zenon
  <2>4. \A k \in 0 .. Len(path) : SubSeq(path, 1, k) \in DOMAIN u
    <3>1. \A k \in 0 .. Len(path) : k \in 0 .. Len(node) \/ k = Len(node) + 1
      BY <1>1, <2>3
    <3> QED
      BY <1>1, <2>2, <2>3, <3>1, Zenon
  <2> QED
    BY <2>2, <2>3, <2>4, Zenon
<1> QED
  <2>1. ASSUME NEW path \in DOMAIN u
        PROVE  /\ path \in Seq(Nat)
               /\ \A k \in 0 .. Len(path) : SubSeq(path, 1, k) \in DOMAIN u
               /\ path # <<>> => Last(path) \in u[Front(path)].children
               /\ \A s \in u[path].children : Append(path, s) \in DOMAIN u
    <3>1. CASE path \in DOMAIN t
      BY <1>4, <3>1, Zenon
    <3>2. CASE path \notin DOMAIN t
      <4>1. PICK s \in K : path = Append(node, s)
        <5>1. path \in { Append(node, s) : s \in K }
          BY <3>2, Zenon
        <5> QED
          BY <5>1, Zenon
      <4> QED
        BY <1>5, <4>1, Zenon
    <3> QED
      BY <3>1, <3>2, Zenon
  <2> QED
    BY <1>3, <2>1, Zenon DEF IsTree

(* Nodes with the same players stand for the same picks.                   *)
LEMMA NodesKept ==
  ASSUME NEW t, NEW u, NodesArePicks(t), DOMAIN u = DOMAIN t,
         \A path \in DOMAIN t : u[path].player = t[path].player
  PROVE  NodesArePicks(u)
  BY Zenon DEF NodesArePicks

-----------------------------------------------------------------------------
(* Steps of the search, which leave the draft and the pool alone.          *)

Calling == UNCHANGED <<config, order, taken, think_time, players, slot_markers>>

(* No node that was there changes its player.                              *)
PlayersStay == \A path \in DOMAIN tree : tree'[path].player = tree[path].player

(* A branch does not change while its nodes keep their players.            *)
LEMMA BranchStays ==
  ASSUME IsTree(tree), Calling, PlayersStay, NEW path \in DOMAIN tree
  PROVE  Branch(path)' = Branch(path)
<1>1. path \in Seq(Nat) /\ \A k \in 0 .. Len(path) : SubSeq(path, 1, k) \in DOMAIN tree
  BY Zenon DEF IsTree
<1>2. PICK o, t, u, v : o = order /\ t = taken /\ u = tree /\ v = tree'
  BY Zenon
<1>3. \A k \in 0 .. Len(path) :
        u[SubSeq(path, 1, k)].player = v[SubSeq(path, 1, k)].player
  BY <1>1, <1>2, Zenon DEF PlayersStay
<1>4. BranchOf(o, t, u, path) = BranchOf(o, t, v, path)
  BY <1>1, <1>3, BranchKept, Zenon
<1>5. Branch(path) = BranchOf(o, t, u, path)
  BY <1>2, BranchIsBranch, Zenon
<1>6. Branch(path)' = BranchOf(o, t, v, path)
  BY <1>2, NextBranchIsBranch, Zenon DEF Calling
<1> QED
  BY <1>4, <1>5, <1>6, Zenon

(* The length of a branch, during a call.                                  *)
LEMMA BranchLength ==
  ASSUME CallInv, NEW path \in Seq(Nat)
  PROVE  /\ \E T : Branch(path) \in Seq(T)
         /\ Len(Branch(path)) = Len(taken) + Len(path)
         /\ Len(Branch(path)) \in Nat
<1>1. PICK S : taken \in Seq(S)
  BY Zenon DEF CallInv
<1>2. PICK o, t, u : o = order /\ t = taken /\ u = tree
  BY Zenon
<1>3. /\ \E T : BranchOf(o, t, u, path) \in Seq(T)
      /\ Len(BranchOf(o, t, u, path)) = Len(t) + Len(path)
  BY <1>1, <1>2, BranchSequence, Zenon
<1>4. Len(t) \in Nat /\ Len(path) \in Nat /\ Len(t) + Len(path) \in Nat
  BY <1>1, <1>2
<1> QED
  BY <1>2, <1>3, <1>4, BranchIsBranch, Zenon

(* What the search keeps of one of its nodes.                              *)
LEMMA LegalStays ==
  ASSUME CallInv, IsTree(tree), Calling, PlayersStay,
         NEW path \in DOMAIN tree, LegalAt(path),
         tree'[path].children = tree[path].children
  PROVE  LegalAt(path)'
<1>1. path \in Seq(Nat) /\ \A s \in tree[path].children : Append(path, s) \in DOMAIN tree
  BY Zenon DEF IsTree
<1>2. PICK c, o, b : c = config /\ o = order /\ b = Branch(path)
  BY Zenon
<1>3. Branch(path)' = b /\ Len(b) \in Nat
  BY <1>1, <1>2, BranchStays, BranchLength, Zenon
<1>4. create_search_context(c, b)' = create_search_context(c, b)
  BY <1>3, SamePlayersSameContext, Zenon DEF Calling
<1>5. ASSUME NEW s \in Children(path)
      PROVE  /\ Child(path, s)'.player \notin IdsOf(b)
             /\ create_search_context(c, b)'[o[Len(b)]][s] > 0
  <2>1. Child(path, s)'.player = Child(path, s).player
    BY <1>1, Zenon DEF Child, Children, PlayersStay
  <2>2. /\ Child(path, s).player \notin IdsOf(b)
        /\ create_search_context(c, b)[o[Len(b)]][s] > 0
    BY <1>2, Zenon DEF LegalAt
  <2> QED
    BY <1>4, <2>1, <2>2, Zenon
<1>6. Children(path)' = Children(path)
  BY Zenon DEF Children
<1> QED
  BY <1>2, <1>3, <1>5, <1>6, Zenon DEF LegalAt, Calling

-----------------------------------------------------------------------------
(* The context the search carries along.                                   *)

(* The master context is the context at the root.                          *)
LEMMA ContextAtRoot ==
  ASSUME CallInv
  PROVE  MASTER_CONTEXT = ContextAt(<<>>) /\ Branch(<<>>) = taken
<1>1. PICK S : taken \in Seq(S)
  BY Zenon DEF CallInv
<1>2. PICK o, t, u : o = order /\ t = taken /\ u = tree
  BY Zenon
<1>3. BranchOf(o, t, u, <<>>) = t
  BY <1>1, <1>2, BranchOfRoot, Zenon
<1> QED
  BY <1>2, <1>3, BranchIsBranch, Zenon DEF MASTER_CONTEXT, ContextAt

(* A branch is the branch above its last node and that node's pick.        *)
LEMMA BranchOfNode ==
  ASSUME CallInv, NEW node \in Seq(Nat), node # <<>>
  PROVE  Branch(node) =
           Append(Branch(Front(node)),
                  [player_id |-> tree[node].player,
                   by_team   |-> order[Len(Branch(Front(node)))]])
<1>1. PICK S : taken \in Seq(S)
  BY Zenon DEF CallInv
<1>2. PICK o, t, u : o = order /\ t = taken /\ u = tree
  BY Zenon
<1>3. PICK up, s : up = Front(node) /\ s = Last(node)
  BY Zenon
<1>4. up \in Seq(Nat) /\ s \in Nat /\ node = Append(up, s)
  <2>1. Front(node) \in Seq(Nat) /\ Last(node) \in Nat /\ node = Append(Front(node), Last(node))
    BY DEF Front, Last
  <2> QED
    BY <1>3, <2>1, Zenon
<1>5. BranchOf(o, t, u, Append(up, s))
        = Append(BranchOf(o, t, u, up),
                 [player_id |-> u[Append(up, s)].player, by_team |-> o[Len(t) + Len(up)]])
  <2>1. t \in Seq(S)
    BY <1>1, <1>2, Zenon
  <2> QED
    BY <1>4, <2>1, BranchOfChild
<1>6. Len(Branch(up)) = Len(t) + Len(up)
  BY <1>2, <1>4, BranchLength, Zenon
<1>7. Branch(up) = BranchOf(o, t, u, up) /\ Branch(node) = BranchOf(o, t, u, node)
  BY <1>2, BranchIsBranch, Zenon
<1> QED
  BY <1>2, <1>3, <1>4, <1>5, <1>6, <1>7, Zenon

(* With the pick of its node the context is that of the whole branch.      *)
ContextOf(node) ==
  [node |-> node, taken |-> Branch(node),
   requirements |-> create_search_context(config, Branch(node))]

(* With the pick of its node, the context at a node is the one below it.   *)
LEMMA WithItsPick ==
  ASSUME CallInv, NEW node \in Seq(Nat)
  PROVE  WithPickOf(ContextAt(node), node) = ContextOf(node)
<1>1. CASE node = <<>>
  BY <1>1, ContextAtRoot, Zenon DEF WithPickOf, ContextAt, ContextOf, MASTER_CONTEXT
<1>2. CASE node # <<>>
  <2>1. PICK b : b = Branch(Front(node))
    OBVIOUS
  <2>2. PICK T : b \in Seq(T)
    <3>1. Front(node) \in Seq(Nat)
      BY <1>2 DEF Front
    <3> QED
      BY <2>1, <3>1, BranchLength, Zenon
  <2>3. PICK made : made = [player_id |-> tree[node].player, by_team |-> order[Len(b)]]
    OBVIOUS
  <2>4. Branch(node) = Append(b, made)
    BY <1>2, <2>1, <2>3, BranchOfNode, Zenon
  <2>5. PICK c : c = config
    OBVIOUS
  <2>6. create_search_context(c, Append(b, made))
          = charge(c, create_search_context(c, b), made)
    BY <2>2, ContextAppend, Zenon
  <2>7. PICK r : r = create_search_context(c, b)
    OBVIOUS
  <2>8. ContextAt(node) = [node |-> node, taken |-> b, requirements |-> r]
    BY <1>2, <2>1, <2>5, <2>7, Zenon DEF ContextAt
  <2>9. make_pick([node |-> node, taken |-> b, requirements |-> r], tree[node].player)
          = [node |-> node, taken |-> Append(b, made),
             requirements |-> charge(c, r, made)]
    <3>1. made.player_id = tree[node].player /\ made.by_team = order[Len(b)]
      BY <2>3
    <3>2. charge(c, r, made) =
            [r EXCEPT ![order[Len(b)]] =
               fill_slot(config, @, get_player_by_id(tree[node].player).position)]
      BY <2>5, <3>1, Zenon DEF charge
    <3>3. PICK id, team, position :
            /\ id = tree[node].player /\ team = order[Len(b)]
            /\ position = get_player_by_id(tree[node].player).position
      BY Zenon
    <3>4. make_pick([node |-> node, taken |-> b, requirements |-> r], tree[node].player)
            = [node |-> node, taken |-> Append(b, [player_id |-> id, by_team |-> team]),
               requirements |-> [r EXCEPT ![team] = fill_slot(config, @, position)]]
      <4>1. PICK k : k = [node |-> node, taken |-> b, requirements |-> r]
        OBVIOUS
      <4>2. k.taken = b
        BY <4>1
      <4>3. make_pick(k, id) =
              [k EXCEPT !.taken = Append(@, [player_id |-> id, by_team |-> team]),
                        !.requirements[team] = fill_slot(config, @, position)]
        BY <3>3, <4>2, Zenon DEF make_pick
      <4>4. [k EXCEPT !.taken = Append(@, [player_id |-> id, by_team |-> team]),
                      !.requirements[team] = fill_slot(config, @, position)]
              = [node |-> node, taken |-> Append(b, [player_id |-> id, by_team |-> team]),
                 requirements |-> [r EXCEPT ![team] = fill_slot(config, @, position)]]
        <5>1. PICK x, y : /\ x = Append(b, [player_id |-> id, by_team |-> team])
                          /\ y = [r EXCEPT ![team] = fill_slot(config, @, position)]
          BY Zenon
        <5>2. k.requirements = r
          BY <4>1
        <5>3. PICK j : j = [k EXCEPT !.taken = x]
          OBVIOUS
        <5>4. j = [node |-> node, taken |-> x, requirements |-> r]
          BY <4>1, <5>3
        <5>5. j.requirements = r
          BY <5>4
        <5>6. [j EXCEPT !.requirements = y] = [node |-> node, taken |-> x, requirements |-> y]
          BY <5>4
        <5>7. [k EXCEPT !.taken = Append(@, [player_id |-> id, by_team |-> team]),
                        !.requirements[team] = fill_slot(config, @, position)]
                = [j EXCEPT !.requirements = y]
          BY <4>2, <5>1, <5>3, <5>5, Zenon
        <5> QED
          BY <5>1, <5>6, <5>7, Zenon
      <4> QED
        BY <3>3, <4>1, <4>3, <4>4, Zenon
    <3> QED
      BY <2>3, <3>2, <3>3, <3>4, Zenon
  <2> QED
    BY <1>2, <2>4, <2>5, <2>6, <2>7, <2>8, <2>9, Zenon DEF WithPickOf, ContextOf
<1> QED
  BY <1>1, <1>2

(* Where the search goes next the context comes along.                     *)
LEMMA ContextOfChild ==
  ASSUME CallInv, NEW node \in Seq(Nat), NEW s \in Nat
  PROVE  [ContextOf(node) EXCEPT !.node = Append(node, s)] = ContextAt(Append(node, s))
<1>1. Append(node, s) # <<>> /\ Front(Append(node, s)) = node
  BY ChildPath, Zenon
<1>2. PICK b, r : b = Branch(node) /\ r = create_search_context(config, b)
  BY Zenon
<1>3. PICK q : q = Append(node, s)
  OBVIOUS
<1>4. [[node |-> node, taken |-> b, requirements |-> r] EXCEPT !.node = q]
        = [node |-> q, taken |-> b, requirements |-> r]
  OBVIOUS
<1>5. ContextOf(node) = [node |-> node, taken |-> b, requirements |-> r]
  BY <1>2, Zenon DEF ContextOf
<1> QED
  BY <1>1, <1>2, <1>3, <1>4, <1>5, Zenon DEF ContextAt

(* The context at a node does not change while its branch does not.        *)
LEMMA ContextStays ==
  ASSUME CallInv, IsTree(tree), Calling, PlayersStay,
         DOMAIN tree \subseteq DOMAIN tree',
         NEW node \in DOMAIN tree
  PROVE  ContextAt(node)' = ContextAt(node)
<1>1. node \in Seq(Nat) /\ \A k \in 0 .. Len(node) : SubSeq(node, 1, k) \in DOMAIN tree
  BY Zenon DEF IsTree
<1>2. PICK c, b : c = config /\ b = IF node = <<>> THEN taken ELSE Branch(Front(node))
  BY Zenon
<1>3. Len(b) \in Nat
  <2>1. CASE node = <<>>
    BY <1>2, <2>1 DEF CallInv
  <2>2. CASE node # <<>>
    <3>1. Front(node) \in Seq(Nat)
      BY <1>1, <2>2 DEF Front
    <3> QED
      BY <1>2, <2>2, <3>1, BranchLength, Zenon
  <2> QED
    BY <2>1, <2>2
<1>4. node # <<>> => Branch(Front(node))' = Branch(Front(node))
  <2>1. node # <<>> => Front(node) \in DOMAIN tree
    BY <1>1, FrontOfPath, Zenon
  <2> QED
    BY <2>1, BranchStays, Zenon
<1>5. create_search_context(c, b)' = create_search_context(c, b)
  BY <1>3, SamePlayersSameContext, Zenon DEF Calling
<1> QED
  BY <1>2, <1>4, <1>5, Zenon DEF ContextAt, Calling

-----------------------------------------------------------------------------
(* What a step makes of a node.                                            *)

(* A node that changes in its visits and scores only.                      *)
SamePick(r, q) == q.player = r.player /\ q.children = r.children

(* One more visit leaves a node a node of the same pick.                   *)
LEMMA NodeVisited ==
  ASSUME NEW r \in Node
  PROVE  LET q == [r EXCEPT !.visited = Min({@ + 1, VisitCap})]
         IN  q \in Node /\ SamePick(r, q)
<1>1. r.visited + 1 \in Nat /\ VisitCap \in Nat /\ r.visited \in 0 .. VisitCap
  BY VisitCapAssumption DEF Node
<1>2. PICK n : n = Min({r.visited + 1, VisitCap})
  OBVIOUS
<1>3. n \in 0 .. VisitCap
  <2>1. n \in {r.visited + 1, VisitCap} /\ \A y \in {r.visited + 1, VisitCap} : n <= y
    BY <1>1, <1>2, MinIsLeast
  <2> QED
    BY <1>1, <2>1
<1>4. PICK q : q = [r EXCEPT !.visited = n]
  OBVIOUS
<1>5. q \in Node /\ q.player = r.player /\ q.children = r.children
  BY <1>3, <1>4 DEF Node
<1> QED
  BY <1>2, <1>4, <1>5, Zenon DEF SamePick

(* So does a score.                                                        *)
LEMMA NodeRescored ==
  ASSUME NEW r \in Node, NEW team, NEW score \in ScoreClass
  PROVE  LET q == [r EXCEPT !.scores[team] = score]
         IN  q \in Node /\ SamePick(r, q)
<1>1. PICK x : x = [r.scores EXCEPT ![team] = score]
  OBVIOUS
<1>2. x \in [Teams(config) -> ScoreClass]
  <2>1. r.scores \in [Teams(config) -> ScoreClass]
    BY DEF Node
  <2>2. CASE team \in Teams(config)
    BY <1>1, <2>1, <2>2, Zenon
  <2>3. CASE team \notin Teams(config)
    BY <1>1, <2>1, <2>3, Zenon
  <2> QED
    BY <2>2, <2>3
<1>3. PICK q : q = [r EXCEPT !.scores = x]
  OBVIOUS
<1>4. q \in Node /\ q.player = r.player /\ q.children = r.children
  BY <1>2, <1>3 DEF Node
<1>5. [r EXCEPT !.scores[team] = score] = q
  BY <1>1, <1>3, Zenon
<1> QED
  BY <1>4, <1>5, Zenon DEF SamePick

(* Children leave it a node of the same player.                            *)
LEMMA NodeIsParent ==
  ASSUME NEW r \in Node, NEW K \in SUBSET Slots(config)
  PROVE  LET q == [r EXCEPT !.children = K]
         IN  q \in Node /\ q.player = r.player /\ q.children = K
<1>1. PICK q : q = [r EXCEPT !.children = K]
  OBVIOUS
<1>2. q \in Node /\ q.player = r.player /\ q.children = K
  BY <1>1 DEF Node
<1> QED
  BY <1>1, <1>2, Zenon

(* create_node makes a node without children.                              *)
LEMMA NewNode ==
  ASSUME NEW player \in Ids \cup {NoPlayer}
  PROVE  LET q == create_node(player)
         IN  q \in Node /\ q.player = player /\ q.children = {}
<1>1. 0 \in 0 .. VisitCap
  BY VisitCapAssumption
<1>2. [t \in Teams(config) |-> "zero"] \in [Teams(config) -> ScoreClass]
  BY DEF ScoreClass
<1>3. PICK x : x = [t \in Teams(config) |-> "zero"]
  OBVIOUS
<1>4. PICK q : q = create_node(player)
  OBVIOUS
<1>5. q = [player |-> player, visited |-> 0, scores |-> x, children |-> {}]
  BY <1>3, <1>4, Zenon DEF create_node
<1>6. q \in Node /\ q.player = player /\ q.children = {}
  BY <1>1, <1>2, <1>3, <1>5 DEF Node
<1> QED
  BY <1>4, <1>6, Zenon

-----------------------------------------------------------------------------
(* Steps that leave the shape of the tree.                                 *)

(* The sum of two classes is a class.                                      *)
LEMMA PlusType ==
  ASSUME NEW a, NEW b
  PROVE  Plus(a, b) \in ScoreClass
  BY DEF Plus, ScoreClass

(* A visit changes counters only.                                          *)
LEMMA VisitedShape ==
  ASSUME TreeInv, NEW node \in DOMAIN tree
  PROVE  /\ Visited(node) \in [DOMAIN tree -> Node]
         /\ \A path \in DOMAIN tree : SamePick(tree[path], Visited(node)[path])
<1>1. tree \in [DOMAIN tree -> Node]
  BY Zenon DEF TreeInv
<1>2. PICK q : q = [tree[node] EXCEPT !.visited = Min({@ + 1, VisitCap})]
  OBVIOUS
<1>3. q \in Node /\ SamePick(tree[node], q)
  BY <1>1, <1>2, NodeVisited, Zenon
<1>4. Visited(node) = [tree EXCEPT ![node] = q]
  BY <1>2, Zenon DEF Visited
<1>5. \A path \in DOMAIN tree : SamePick(tree[path], tree[path])
  BY Zenon DEF SamePick
<1> QED
  BY <1>1, <1>3, <1>4, <1>5, Zenon

(* The loop of backpropogate_score over the n nodes above a leaf, whose    *)
(* part in the score is x.                                                 *)
UpFunction(n, score, x, g) ==
  g = [k \in 0 .. n |-> Plus(IF k = n THEN score ELSE g[k + 1], x[k])]

(* The recursive function that carries a score upwards is one.             *)
LEMMA UpFunctionExists ==
  ASSUME NEW n \in Nat, NEW score, NEW x
  PROVE  \E g : UpFunction(n, score, x, g)
<1> DEFINE Part(m, g) == g = [k \in n - m .. n |-> Plus(IF k = n THEN score ELSE g[k + 1], x[k])]
           Bad == { m \in 0 .. n : ~\E g : Part(m, g) }
<1>1. CASE Bad = {}
  <2>1. n \in 0 .. n /\ n - n = 0
    OBVIOUS
  <2>2. PICK g : Part(n, g)
    BY <1>1, <2>1, Zenon
  <2>3. UpFunction(n, score, x, g)
    BY <2>1, <2>2, Zenon DEF UpFunction
  <2> QED
    BY <2>3, Zenon
<1>2. CASE Bad # {}
  <2>1. PICK m \in Bad : \A y \in Bad : m <= y
    <3>1. Bad \in SUBSET Nat
      <4>1. 0 .. n \subseteq Nat
        OBVIOUS
      <4> QED
        BY <4>1, Zenon
    <3> HIDE DEF Bad
    <3> QED
      BY <1>2, <3>1, MinIsLeast, Zenon
  <2>2. m \in 0 .. n /\ ~\E g : Part(m, g)
    BY <2>1, Zenon
  <2>3. CASE m = 0
    <3> DEFINE g == [k \in n - 0 .. n |-> Plus(score, x[k])]
    <3>1. \A k \in n - 0 .. n : k = n
      OBVIOUS
    <3>2. Part(0, g)
      BY <3>1, Zenon
    <3> HIDE DEF Part
    <3> QED
      BY <2>2, <2>3, <3>2, Zenon
  <2>4. CASE m # 0
    <3>1. m \in Nat /\ m - 1 \in 0 .. n /\ ~(m <= m - 1)
      BY <2>2, <2>4
    <3>2. PICK h : Part(m - 1, h)
      <4> HIDE DEF Part
      <4> QED
        BY <2>1, <3>1, Zenon
    <3> DEFINE g == [k \in n - m .. n |-> Plus(IF k = n THEN score ELSE h[k + 1], x[k])]
    <3>3. /\ \A k \in n - (m - 1) .. n : k \in n - m .. n
          /\ \A k \in n - m .. n : k # n => k + 1 \in n - (m - 1) .. n
      BY <3>1
    <3>4. \A k \in n - (m - 1) .. n : g[k] = h[k]
      <4>1. ASSUME NEW k \in n - (m - 1) .. n PROVE g[k] = h[k]
        <5>1. h[k] = Plus(IF k = n THEN score ELSE h[k + 1], x[k])
          BY <3>2, Zenon
        <5>2. g[k] = Plus(IF k = n THEN score ELSE h[k + 1], x[k])
          BY <3>3, Zenon
        <5> QED
          BY <5>1, <5>2, Zenon
      <4> QED
        BY <4>1, Zenon
    <3>5. \A k \in n - m .. n : k # n => g[k + 1] = h[k + 1]
      <4> HIDE DEF g
      <4> QED
        BY <3>3, <3>4, Zenon
    <3>6. g = [k \in n - m .. n |-> Plus(IF k = n THEN score ELSE g[k + 1], x[k])]
      BY <3>5, Zenon
    <3> QED
      BY <2>2, <3>6, Zenon
  <2> QED
    BY <2>3, <2>4
<1> QED
  BY <1>1, <1>2

(* Backpropagation changes scores and counters only.                       *)
LEMMA RescoredShape ==
  ASSUME TreeInv, NEW node \in DOMAIN tree, NEW score, NEW team
  PROVE  LET u == backpropogate_score(node, score, team) IN
         /\ u \in [DOMAIN tree -> Node]
         /\ \A path \in DOMAIN tree : SamePick(tree[path], u[path])
<1>1. tree \in [DOMAIN tree -> Node] /\ \A path \in DOMAIN tree : path \in Seq(Nat)
  BY Zenon DEF TreeInv, IsTree
<1> DEFINE n == Len(node)
           x == [k \in 0 .. n |->
                  Times(tree[SubSeq(node, 1, k)].visited - 1,
                        tree[SubSeq(node, 1, k)].scores[team])]
           Up(g) == g = [k \in 0 .. n |->
                          Plus(IF k = n THEN score ELSE g[k + 1],
                               Times(tree[SubSeq(node, 1, k)].visited - 1,
                                     tree[SubSeq(node, 1, k)].scores[team]))]
           g0 == CHOOSE g : Up(g)
           u == [path \in DOMAIN tree |->
                  IF IsPrefix(path, node)
                    THEN [tree[path] EXCEPT !.scores[team] = g0[Len(path)]]
                    ELSE tree[path]]
<1>2. n \in Nat
  BY <1>1, PathFacts, Zenon
<1>3. \E g : Up(g)
  <2>1. PICK g : UpFunction(n, score, x, g)
    BY <1>2, UpFunctionExists, Zenon
  <2>2. Up(g)
    BY <2>1, Zenon DEF UpFunction
  <2> QED
    BY <2>2, Zenon
<1>4. \A k \in 0 .. n : g0[k] \in ScoreClass
  <2>1. Up(g0)
    BY <1>3, Zenon
  <2>2. PICK g : g = g0
    OBVIOUS
  <2>3. Up(g)
    BY <2>1, <2>2, Zenon
  <2>4. \A k \in 0 .. n : g[k] = Plus(IF k = n THEN score ELSE g[k + 1],
                               Times(tree[SubSeq(node, 1, k)].visited - 1,
                                     tree[SubSeq(node, 1, k)].scores[team]))
    BY <2>3, Zenon
  <2>5. ASSUME NEW k \in 0 .. n PROVE g[k] \in ScoreClass
    <3>1. PICK a, b : /\ a = IF k = n THEN score ELSE g[k + 1]
                      /\ b = Times(tree[SubSeq(node, 1, k)].visited - 1,
                                   tree[SubSeq(node, 1, k)].scores[team])
      BY Zenon
    <3>2. Plus(a, b) \in ScoreClass
      BY PlusType, Zenon
    <3>3. g[k] = Plus(a, b)
      BY <2>4, <3>1, Zenon
    <3> QED
      BY <3>2, <3>3, Zenon
  <2> QED
    BY <2>2, <2>5, Zenon
<1>5. ASSUME NEW path \in DOMAIN tree
      PROVE  u[path] \in Node /\ SamePick(tree[path], u[path])
  <2>1. CASE IsPrefix(path, node)
    <3>1. Len(path) \in 0 .. n
      <4>1. Len(path) <= n
        BY <2>1, Zenon DEF IsPrefix
      <4>2. Len(path) \in Nat
        BY <1>1, PathFacts, Zenon
      <4> QED
        BY <1>2, <4>1, <4>2
    <3>2. g0[Len(path)] \in ScoreClass
      BY <1>4, <3>1, Zenon
    <3>3. PICK g : g = g0[Len(path)]
      OBVIOUS
    <3>4. u[path] = [tree[path] EXCEPT !.scores[team] = g]
      BY <2>1, <3>3, Zenon
    <3>5. PICK r : r = tree[path]
      OBVIOUS
    <3>6. PICK q : q = [r EXCEPT !.scores[team] = g]
      OBVIOUS
    <3>7. r \in Node /\ g \in ScoreClass
      BY <1>1, <3>2, <3>3, <3>5, Zenon
    <3>8. q \in Node /\ SamePick(r, q)
      BY <3>6, <3>7, NodeRescored, Zenon
    <3>9. u[path] = q
      BY <3>4, <3>5, <3>6, Zenon
    <3> HIDE DEF u
    <3> QED
      BY <3>5, <3>8, <3>9, Zenon
  <2>2. CASE ~IsPrefix(path, node)
    BY <1>1, <2>2, Zenon DEF SamePick
  <2> QED
    BY <2>1, <2>2
<1>6. backpropogate_score(node, score, team) = u
  BY Zenon DEF backpropogate_score
<1>7. u \in [DOMAIN tree -> Node]
  <2> DEFINE scored(path) == IF IsPrefix(path, node)
                              THEN [tree[path] EXCEPT !.scores[team] = g0[Len(path)]]
                              ELSE tree[path]
  <2>1. \A path \in DOMAIN tree : u[path] = scored(path)
    BY Zenon
  <2>2. u = [path \in DOMAIN tree |-> scored(path)]
    BY Zenon
  <2> HIDE DEF u, scored
  <2>3. \A path \in DOMAIN tree : scored(path) \in Node
    BY <1>5, <2>1, Zenon
  <2> QED
    BY <2>2, <2>3, Zenon
<1> HIDE DEF u
<1> QED
  BY <1>5, <1>6, <1>7, Zenon

(* A tree of the same picks is a tree as it was.                           *)
LEMMA ShapeKept ==
  ASSUME CallInv, TreeInv, Calling, tree' \in [DOMAIN tree -> Node],
         \A path \in DOMAIN tree : SamePick(tree[path], tree'[path])
  PROVE  TreeInv' /\ PlayersStay
<1>1. PlayersStay
  BY Zenon DEF SamePick, PlayersStay
<1>2. DOMAIN tree' = DOMAIN tree
  BY Zenon
<1>3. Node' = Node /\ Ids' = Ids
  BY Zenon DEF Calling, Node, Ids, number_of_players, Teams, Slots
<1>4. tree' \in [DOMAIN tree' -> Node']
  BY <1>2, <1>3, Zenon
<1>5. \A path \in DOMAIN tree : tree'[path].children = tree[path].children
  BY Zenon DEF SamePick
<1>6. PICK t, u : t = tree /\ u = tree'
  BY Zenon
<1>7. IsTree(u)
  BY <1>2, <1>5, <1>6, TreeKept, Zenon DEF TreeInv
<1>8. NodesArePicks(u)
  BY <1>1, <1>2, <1>6, NodesKept, Zenon DEF TreeInv, PlayersStay
<1>9. NodesArePicks(tree)'
  BY <1>3, <1>6, <1>8, Zenon DEF NodesArePicks
<1>10. IsTree(tree)'
  BY <1>6, <1>7, Zenon DEF IsTree
<1>11. ASSUME NEW path \in DOMAIN tree PROVE LegalAt(path)'
  BY <1>1, <1>5, LegalStays, Zenon DEF TreeInv
<1> QED
  BY <1>1, <1>2, <1>4, <1>9, <1>10, <1>11, Zenon DEF TreeInv

-----------------------------------------------------------------------------
(* Expanding a leaf.                                                       *)

(* The players found for a node's children are free after its branch, and  *)
(* the slots they are found for are required.                              *)
Legal(node, found) ==
  /\ DOMAIN found \in SUBSET Slots(config)
  /\ \A s \in DOMAIN found :
       /\ found[s] \in Ids
       /\ found[s] \notin IdsOf(Branch(node))
       /\ create_search_context(config, Branch(node))[order[Len(Branch(node))]][s] > 0

(* What expand_tree finds are players not yet drafted, for required slots. *)
LEMMA FoundIsLegal ==
  ASSUME CallInv, TreeInv, NEW node \in DOMAIN tree, context = ContextAt(node),
         ~expand_tree_Faults(node)
  PROVE  Legal(node, expand_tree(node))
<1>1. node \in Seq(Nat)
  BY Zenon DEF TreeInv, IsTree
<1>2. PICK b, r : b = Branch(node) /\ r = create_search_context(config, b)
  BY Zenon
<1>3. PICK c : c = WithPickOf(context, node)
  OBVIOUS
<1>4. c.taken = b /\ c.requirements = r
  <2>1. c = ContextOf(node)
    BY <1>1, <1>3, WithItsPick, Zenon
  <2>2. c = [node |-> node, taken |-> b, requirements |-> r]
    BY <1>2, <2>1, Zenon DEF ContextOf
  <2> QED
    BY <2>2
<1>5. PICK row : row = r[order[Len(b)]]
  OBVIOUS
<1>6. PICK found : found = expand_tree(node)
  OBVIOUS
<1>7. found = IF Len(b) >= n_picks THEN <<>>
              ELSE [s \in RootChildren(config, row, IdsOf(b)) |->
                     whos_highest_projected(config, s, IdsOf(b))]
  BY <1>3, <1>4, <1>5, <1>6, Zenon DEF expand_tree, OnTheClock
<1>8. Len(b) < n_picks => ~RootFaults(config, row, IdsOf(b))
  BY <1>3, <1>4, <1>5, Zenon DEF expand_tree_Faults, OnTheClock
<1>9. Len(b) \in Nat /\ n_picks \in Nat
  BY <1>1, <1>2, BranchLength, Zenon DEF CallInv, WellShaped, n_picks
<1>10. CASE Len(b) >= n_picks
  <2>1. found = <<>>
    BY <1>7, <1>10, Zenon
  <2>2. DOMAIN found = {}
    BY <2>1
  <2> QED
    BY <1>6, <2>2, Zenon DEF Legal
<1>11. CASE ~(Len(b) >= n_picks)
  <2>1. ~RootFaults(config, row, IdsOf(b))
    <3>1. Len(b) < n_picks
      BY <1>9, <1>11
    <3> QED
      BY <1>8, <3>1, Zenon
  <2>2. DOMAIN found = RootChildren(config, row, IdsOf(b))
    BY <1>7, <1>11, Zenon
  <2>3. DOMAIN found \in SUBSET Slots(config)
    BY <2>2, Zenon DEF RootChildren
  <2>4. ASSUME NEW s \in DOMAIN found
        PROVE  found[s] \in Ids /\ found[s] \notin IdsOf(b) /\ row[s] > 0
    <3>1. s \in Slots(config) /\ row[s] > 0
          /\ whos_highest_projected(config, s, IdsOf(b)) # NoPlayer
      BY <2>2, Zenon DEF RootChildren
    <3>2. ~FlexFaults(config, s, IdsOf(b))
      BY <2>1, <3>1, Zenon DEF RootFaults
    <3>3. DOMAIN config.flex[s] \subseteq Nat
      BY <3>1, Zenon DEF CallInv, WellShaped
    <3>4. PICK k, ids : k = config /\ ids = IdsOf(b)
      BY Zenon
    <3>5. whos_highest_projected(k, s, ids) \in Ids \ ids
      BY <3>1, <3>2, <3>3, <3>4, HighestProjectedIsFree, Zenon
    <3>6. found[s] = whos_highest_projected(config, s, IdsOf(b))
      BY <1>7, <1>11, <2>2, Zenon
    <3> QED
      BY <3>1, <3>4, <3>5, <3>6, Zenon
  <2> QED
    BY <1>2, <1>5, <1>6, <2>3, <2>4, Zenon DEF Legal
<1> QED
  BY <1>10, <1>11

(* The tree u is this one with the children found given to a node.         *)
Grew(node, found, u) ==
  /\ DOMAIN u = DOMAIN tree \cup { Append(node, s) : s \in DOMAIN found }
  /\ u \in [DOMAIN u -> Node]
  /\ \A path \in DOMAIN tree \ {node} : SamePick(tree[path], u[path])
  /\ u[node].player = tree[node].player /\ u[node].children = DOMAIN found
  /\ \A s \in DOMAIN found :
       /\ Append(node, s) \notin DOMAIN tree
       /\ u[Append(node, s)].player = found[s]
       /\ u[Append(node, s)].children = {}

(* A node expanded has the children that were found, and the rest stays.   *)
LEMMA GrownShape ==
  ASSUME TreeInv, NEW node \in DOMAIN tree, Children(node) = {},
         NEW found, Legal(node, found), NEW u, u = Grown(node, found)
  PROVE  Grew(node, found, u)
<1> DEFINE added == { Append(node, s) : s \in DOMAIN found }
<1>1. tree \in [DOMAIN tree -> Node] /\ IsTree(tree) /\ node \in Seq(Nat)
  BY Zenon DEF TreeInv, IsTree
<1>2. /\ DOMAIN found \in SUBSET Slots(config)
      /\ \A s \in DOMAIN found : s \in Nat /\ found[s] \in Ids
  BY SlotsAreNaturals, Zenon DEF Legal
<1>3. ASSUME NEW s \in DOMAIN found
      PROVE  Append(node, s) \notin DOMAIN tree /\ Last(Append(node, s)) = s
  <2>1. PICK t : t = tree
    OBVIOUS
  <2>2. Append(node, s) \notin DOMAIN t
    BY <1>1, <1>2, <2>1, FreshChild, Zenon DEF Children
  <2> QED
    BY <1>1, <1>2, <2>1, <2>2, ChildPath, Zenon
<1>4. DOMAIN u = DOMAIN tree \cup added
  BY Zenon DEF Grown
<1>5. ASSUME NEW path \in DOMAIN tree \ {node}
      PROVE  u[path] \in Node /\ SamePick(tree[path], u[path])
  <2>1. path \notin added
    BY <1>3, Zenon
  <2>2. u[path] = tree[path]
    BY <1>4, <2>1, Zenon DEF Grown
  <2> QED
    BY <1>1, <2>2, Zenon DEF SamePick
<1>6. u[node] \in Node /\ u[node].player = tree[node].player /\ u[node].children = DOMAIN found
  <2>1. node \notin added
    BY <1>3, Zenon
  <2>2. PICK r : r = Visited(node)[node]
    OBVIOUS
  <2>3. r \in Node /\ SamePick(tree[node], r)
    BY <2>2, VisitedShape, Zenon
  <2>4. PICK K : K = DOMAIN found
    OBVIOUS
  <2>5. PICK q : q = [r EXCEPT !.children = K]
    OBVIOUS
  <2>6. q \in Node /\ q.player = r.player /\ q.children = K
    BY <1>2, <2>3, <2>4, <2>5, NodeIsParent, Zenon
  <2>7. u[node] = q
    BY <1>4, <2>1, <2>2, <2>4, <2>5, Zenon DEF Grown
  <2> QED
    BY <2>3, <2>4, <2>6, <2>7, Zenon DEF SamePick
<1>7. ASSUME NEW s \in DOMAIN found
      PROVE  LET q == u[Append(node, s)] IN
             q \in Node /\ q.player = found[s] /\ q.children = {}
  <2>1. PICK p : p = Append(node, s)
    OBVIOUS
  <2>2. p \in added
    BY <2>1, Zenon
  <2>3. PICK id : id = found[s]
    OBVIOUS
  <2>4. u[p] = create_node(found[Last(p)])
    BY <1>4, <2>2, Zenon DEF Grown
  <2>5. u[p] = create_node(id)
    BY <1>3, <2>1, <2>3, <2>4, Zenon
  <2>6. id \in Ids \cup {NoPlayer}
    BY <1>2, <2>3, Zenon
  <2> QED
    BY <2>1, <2>3, <2>5, <2>6, NewNode, Zenon
<1>8. u \in [DOMAIN u -> Node]
  <2>1. \A path \in DOMAIN u : u[path] \in Node
    <3>1. ASSUME NEW path \in DOMAIN u PROVE u[path] \in Node
      <4>1. CASE path \in added
        <5>1. PICK s \in DOMAIN found : path = Append(node, s)
          BY <4>1, Zenon
        <5> QED
          BY <1>7, <5>1, Zenon
      <4>2. CASE path \notin added
        BY <1>4, <1>5, <1>6, <4>2, Zenon
      <4> QED
        BY <4>1, <4>2
    <3> QED
      BY <3>1, Zenon
  <2>2. u = [path \in DOMAIN u |-> u[path]]
    BY Zenon DEF Grown
  <2> QED
    BY <2>1, <2>2, Zenon
<1> QED
  BY <1>3, <1>4, <1>5, <1>6, <1>7, <1>8, Zenon DEF Grew

(* A leaf expanded: the tree is one as before, and the picks of the new    *)
(* nodes are legal.                                                        *)
LEMMA GrownTree ==
  ASSUME CallInv, TreeInv, Calling, NEW node \in DOMAIN tree, Children(node) = {},
         NEW found, Legal(node, found), tree' = Grown(node, found)
  PROVE  TreeInv' /\ PlayersStay /\ DOMAIN tree \subseteq DOMAIN tree'
<1>1. PICK u : u = tree'
  OBVIOUS
<1>2. /\ DOMAIN u = DOMAIN tree \cup { Append(node, s) : s \in DOMAIN found }
      /\ u \in [DOMAIN u -> Node]
      /\ \A path \in DOMAIN tree \ {node} : SamePick(tree[path], u[path])
      /\ u[node].player = tree[node].player /\ u[node].children = DOMAIN found
      /\ \A s \in DOMAIN found :
           /\ Append(node, s) \notin DOMAIN tree
           /\ u[Append(node, s)].player = found[s]
           /\ u[Append(node, s)].children = {}
  <2>1. u = Grown(node, found)
    BY <1>1, Zenon
  <2>2. Grew(node, found, u)
    BY <2>1, GrownShape, Zenon
  <2> QED
    BY <2>2, Zenon DEF Grew
<1>3. PlayersStay
  <2>1. ASSUME NEW path \in DOMAIN tree PROVE u[path].player = tree[path].player
    BY <1>2, Zenon DEF SamePick
  <2> QED
    BY <1>1, <2>1, Zenon DEF PlayersStay
<1>4. Node' = Node /\ Ids' = Ids
  BY Zenon DEF Calling, Node, Ids, number_of_players, Teams, Slots
<1>5. tree' \in [DOMAIN tree' -> Node']
  BY <1>1, <1>2, <1>4, Zenon
<1>6. IsTree(u)
  <2>1. PICK t, K : t = tree /\ K = DOMAIN found
    BY Zenon
  <2>2. K \in SUBSET Nat
    BY <2>1, SlotsAreNaturals, Zenon DEF Legal
  <2>3. IsTree(t) /\ node \in DOMAIN t /\ t[node].children = {}
    BY <2>1, Zenon DEF TreeInv, Children
  <2>4. /\ DOMAIN u = DOMAIN t \cup { Append(node, s) : s \in K }
        /\ \A path \in DOMAIN t \ {node} : u[path].children = t[path].children
        /\ u[node].children = K
        /\ \A s \in K : u[Append(node, s)].children = {}
    BY <1>2, <2>1, Zenon DEF SamePick
  <2> QED
    BY <2>2, <2>3, <2>4, TreeGrown, Zenon
<1>7. NodesArePicks(u)
  <2>1. ASSUME NEW path \in DOMAIN u PROVE path # <<>> <=> u[path].player \in Ids
    <3>1. CASE path \in DOMAIN tree
      <4>1. u[path].player = tree[path].player
        BY <1>1, <1>3, <3>1, Zenon DEF PlayersStay
      <4> QED
        BY <3>1, <4>1, Zenon DEF TreeInv, NodesArePicks
    <3>2. CASE path \notin DOMAIN tree
      <4>1. PICK s \in DOMAIN found : path = Append(node, s)
        <5>1. path \in { Append(node, s) : s \in DOMAIN found }
          BY <1>2, <3>2, Zenon
        <5> QED
          BY <5>1, Zenon
      <4>2. node \in Seq(Nat) /\ s \in Nat
        BY SlotsAreNaturals, Zenon DEF TreeInv, IsTree, Legal
      <4>3. path # <<>>
        BY <4>1, <4>2, ChildPath, Zenon
      <4>4. u[path].player \in Ids
        BY <1>2, <4>1, Zenon DEF Legal
      <4> QED
        BY <4>3, <4>4, Zenon
    <3> QED
      BY <3>1, <3>2
  <2> QED
    BY <2>1, Zenon DEF NodesArePicks
<1>8. IsTree(tree)' /\ NodesArePicks(tree)'
  BY <1>1, <1>4, <1>6, <1>7, Zenon DEF NodesArePicks, IsTree
<1>9. ASSUME NEW path \in DOMAIN tree' PROVE LegalAt(path)'
  <2>1. CASE path \in DOMAIN tree \ {node}
    <3>1. tree'[path].children = tree[path].children
      BY <1>1, <1>2, <2>1, Zenon DEF SamePick
    <3> QED
      BY <1>3, <2>1, <3>1, LegalStays, Zenon DEF TreeInv
  <2>2. CASE path = node
    <3>1. PICK c, o, b : c = config /\ o = order /\ b = Branch(node)
      BY Zenon
    <3>2. node \in Seq(Nat) /\ IsTree(tree)
      BY Zenon DEF TreeInv, IsTree
    <3>3. Branch(node)' = b /\ Len(b) \in Nat
      BY <1>3, <3>1, <3>2, BranchStays, BranchLength, Zenon
    <3>4. create_search_context(c, b)' = create_search_context(c, b)
      BY <3>3, SamePlayersSameContext, Zenon DEF Calling
    <3>5. Children(node)' = DOMAIN found
      BY <1>1, <1>2, Zenon DEF Children
    <3>6. ASSUME NEW s \in DOMAIN found
          PROVE  /\ Child(node, s)'.player \notin IdsOf(b)
                 /\ create_search_context(c, b)'[o[Len(b)]][s] > 0
      <4>1. Child(node, s)'.player = found[s]
        BY <1>1, <1>2, Zenon DEF Child
      <4>2. /\ found[s] \notin IdsOf(b)
            /\ create_search_context(c, b)[o[Len(b)]][s] > 0
        BY <3>1, Zenon DEF Legal
      <4> QED
        BY <3>4, <4>1, <4>2, Zenon
    <3>7. LegalAt(node)'
      BY <3>1, <3>3, <3>5, <3>6, Zenon DEF LegalAt, Calling
    <3> QED
      BY <2>2, <3>7, Zenon
  <2>3. CASE path \notin DOMAIN tree
    <3>1. PICK s \in DOMAIN found : path = Append(node, s)
      <4>1. path \in { Append(node, s) : s \in DOMAIN found }
        BY <1>1, <1>2, <2>3, Zenon
      <4> QED
        BY <4>1, Zenon
    <3>2. Children(path)' = {}
      BY <1>1, <1>2, <3>1, Zenon DEF Children
    <3> QED
      BY <3>2, Zenon DEF LegalAt
  <2> QED
    BY <2>1, <2>2, <2>3, Zenon
<1> QED
  BY <1>1, <1>2, <1>3, <1>5, <1>8, <1>9, Zenon DEF TreeInv

-----------------------------------------------------------------------------
(* The invariant.                                                          *)

(* The invariant holds at first,                                           *)
LEMMA SearchInvInit == SearchInit => SearchInv
<1>1. SUFFICES ASSUME SearchInit PROVE SearchInv
  BY Zenon
<1>2. PICK file \in ConfigFiles :
        \E g \in UnwrittenValues(file) : config = load_config(file, g)
  BY <1>1, Zenon DEF SearchInit
<1>3. WellShaped(config)
  <2> PICK g \in UnwrittenValues(file) : config = load_config(file, g)
    BY <1>2
  <2>1. PICK c : c = config
    OBVIOUS
  <2>2. c \in { load_config(file, g) }
    BY <2>1, Zenon
  <2> QED
    BY <2>1, <2>2, LoadedConfigIsWellShaped, Zenon
<1>4. phase = "draft" /\ clock = 0 /\ think_time = 10 /\ answer = NoPlayer /\ taken = <<>>
  BY <1>1, Zenon DEF SearchInit
<1>5. 10 \in Nat /\ 0 \in 0 .. 10 /\ <<>> \in Seq({})
  OBVIOUS
<1>6. phase # "rollout" /\ phase # "loop"
  BY <1>4
<1>7. CallInv
  BY <1>3, <1>4, <1>5, <1>6, Zenon DEF CallInv
<1> QED
  BY <1>4, <1>6, <1>7, Zenon DEF SearchInv, Searching

(* What the commands before the call do to the draft:                      *)
PicksChange ==
  \/ UNCHANGED taken
  \/ taken' = <<>>
  \/ taken # <<>> /\ taken' = Front(taken)
  \/ \E new : taken' = Append(taken, new)

TurnsChange ==
  \/ UNCHANGED <<config, order>>
  \/ /\ UNCHANGED config
     /\ \E p \in DOMAIN order, team \in Teams(config) : order' = [order EXCEPT ![p] = team]
  \/ \E file \in ConfigFiles : \E g \in UnwrittenValues(file) :
       LET c == load_config(file, g) IN
       /\ config' = c
       /\ order' = build_snake_order(get_number_of_picks(c), c.num_teams)

LEMMA PrepareIs ==
  ASSUME Prepare
  PROVE  /\ phase = "draft" /\ phase' = "draft"
         /\ UNCHANGED <<think_time, clock, answer>>
         /\ PicksChange
         /\ TurnsChange
<1>1. ASSUME NEW file \in ConfigFiles, load_draft_config(file)
      PROVE  /\ phase = "draft" /\ UNCHANGED callVars
             /\ PicksChange
             /\ TurnsChange
  BY <1>1, Zenon DEF load_draft_config, PicksChange, TurnsChange
<1>2. ASSUME NEW file \in PoolFiles, load_player_pool(file) \/ load_player_pool_Fails(file)
      PROVE  /\ phase = "draft" /\ UNCHANGED callVars
             /\ PicksChange
             /\ TurnsChange
  BY <1>2, Zenon DEF load_player_pool, load_player_pool_Fails, PicksChange, TurnsChange
<1>3. ASSUME load \/ undo_pick \/ \E id : DraftPlayer(id)
      PROVE  /\ phase = "draft" /\ UNCHANGED callVars
             /\ PicksChange
             /\ TurnsChange
  BY <1>3, Zenon DEF load, undo_pick, DraftPlayer, PicksChange, TurnsChange
<1>4. ASSUME NEW p \in DOMAIN order, NEW team \in Teams(config), give_pick(p, team)
      PROVE  /\ phase = "draft" /\ UNCHANGED callVars
             /\ PicksChange
             /\ TurnsChange
  BY <1>4, Zenon DEF give_pick, PicksChange, TurnsChange
<1>5. phase = "draft" /\ UNCHANGED callVars /\ PicksChange /\ TurnsChange
  BY <1>1, <1>2, <1>3, <1>4, Zenon DEF Prepare
<1> QED
  BY <1>5, Zenon DEF callVars

(* the picks are a sequence,                                               *)
LEMMA PicksStaySequence ==
  ASSUME NEW S, taken \in Seq(S), PicksChange
  PROVE  \E T : taken' \in Seq(T)
<1>1. CASE UNCHANGED taken
  BY <1>1, Zenon
<1>2. CASE taken' = <<>>
  <2>1. <<>> \in Seq(S)
    OBVIOUS
  <2> QED
    BY <1>2, <2>1, Zenon
<1>3. CASE taken # <<>> /\ taken' = Front(taken)
  <2>1. Front(taken) \in Seq(S)
    BY <1>3 DEF Front
  <2> QED
    BY <1>3, <2>1, Zenon
<1>4. CASE \E new : taken' = Append(taken, new)
  <2>1. PICK new : taken' = Append(taken, new)
    BY <1>4
  <2> DEFINE T == S \cup {new}
  <2>2. taken \in Seq(T) /\ new \in T
    OBVIOUS
  <2> HIDE DEF T
  <2>3. Append(taken, new) \in Seq(T)
    BY <2>2
  <2> QED
    BY <2>1, <2>3, Zenon
<1> QED
  BY <1>1, <1>2, <1>3, <1>4, Zenon DEF PicksChange

(* the configuration is one of those of the files,                         *)
LEMMA ConfigStaysWellShaped ==
  ASSUME WellShaped(config), TurnsChange
  PROVE  WellShaped(config)'
<1>1. PICK c, d : c = config /\ d = config'
  OBVIOUS
<1>2. ASSUME NEW file \in ConfigFiles, NEW g \in UnwrittenValues(file), d = load_config(file, g)
      PROVE  WellShaped(d)
  <2>1. d \in { load_config(file, g) }
    BY <1>2, Zenon
  <2> QED
    BY <2>1, LoadedConfigIsWellShaped, Zenon
<1>3. WellShaped(c)
  BY <1>1, Zenon
<1>4. c = d \/ \E file \in ConfigFiles : \E g \in UnwrittenValues(file) : d = load_config(file, g)
  BY <1>1, Zenon DEF TurnsChange
<1>5. WellShaped(d)
  BY <1>2, <1>3, <1>4, Zenon
<1> QED
  BY <1>1, <1>5, Zenon

(* and the invariant is kept.                                              *)
LEMMA PrepareStep ==
  ASSUME SearchInv, Prepare
  PROVE  SearchInv'
<1>1. /\ phase = "draft" /\ phase' = "draft"
      /\ UNCHANGED <<think_time, clock, answer>>
      /\ PicksChange
      /\ TurnsChange
  BY PrepareIs, Zenon
<1>2. \E S : taken' \in Seq(S)
  <2>1. PICK S : taken \in Seq(S)
    BY Zenon DEF SearchInv, CallInv
  <2> QED
    BY <1>1, <2>1, PicksStaySequence, Zenon
<1>3. phase' # "rollout" /\ phase' # "loop"
  BY <1>1
<1>4. WellShaped(config)'
  <2>1. WellShaped(config)
    BY Zenon DEF SearchInv, CallInv
  <2> QED
    BY <1>1, <2>1, ConfigStaysWellShaped, Zenon
<1>5. CallInv'
  BY <1>1, <1>2, <1>3, <1>4, Zenon DEF SearchInv, CallInv
<1> QED
  BY <1>1, <1>3, <1>5, Zenon DEF SearchInv, Searching

(* What the steps of the call have in common.                              *)
LEMMA CallKeeps ==
  ASSUME CallInv, Calling,
         phase' \in {"loop", "rollout", "returned", "aborted"},
         clock' \in 0 .. think_time,
         answer' \in Ids \cup {NoPlayer},
         phase' = "rollout" => context'.node # NoNode
  PROVE  CallInv'
<1>1. PICK c : c = config
  OBVIOUS
<1>2. WellShaped(c) /\ config' = c
  BY <1>1, Zenon DEF CallInv, Calling
<1>3. WellShaped(config)'
  BY <1>2, Zenon
<1>4. Ids' = Ids /\ UNCHANGED <<taken, think_time>>
  BY Zenon DEF Calling, Ids, number_of_players
<1>5. phase' \in {"draft", "loop", "rollout", "returned", "aborted"} /\ phase' # "draft"
  OBVIOUS
<1> QED
  BY <1>3, <1>4, <1>5, Zenon DEF CallInv

(* holds when the call begins,                                             *)
LEMMA CalledStep ==
  ASSUME SearchInv, NEW t \in ThinkTimes, calculate_best_pick_Called(t)
  PROVE  SearchInv'
<1>1. /\ phase = "draft" /\ phase' = "loop" /\ think_time' = t
      /\ tree' = [path \in {<<>>} |-> create_node(NoPlayer)]
      /\ context' = MASTER_CONTEXT
      /\ UNCHANGED <<config, order, taken, players, slot_markers, clock, answer>>
  BY Zenon DEF calculate_best_pick_Called, poolVars
<1>2. CallInv /\ clock = 0 /\ answer = NoPlayer
  BY <1>1, Zenon DEF SearchInv, CallInv
<1>3. Node' = Node /\ Ids' = Ids
  BY <1>1, Zenon DEF Node, Ids, number_of_players, Teams, Slots
<1>4. CallInv'
  <2>1. PICK c : c = config
    OBVIOUS
  <2>2. WellShaped(c) /\ config' = c
    BY <1>1, <1>2, <2>1, Zenon DEF CallInv
  <2>3. WellShaped(config)'
    BY <2>2, Zenon
  <2>4. think_time' \in Nat /\ clock' \in 0 .. think_time'
    BY <1>1, <1>2, SearchTimesAssumption
  <2>5. phase' # "draft" /\ phase' # "rollout"
        /\ phase' \in {"draft", "loop", "rollout", "returned", "aborted"}
    BY <1>1
  <2> QED
    BY <1>1, <1>2, <2>3, <2>4, <2>5, Zenon DEF CallInv
<1>5. PICK u, r : u = tree' /\ r = create_node(NoPlayer)
  BY Zenon
<1>6. r \in Node /\ r.player = NoPlayer /\ r.children = {}
  BY <1>5, NewNode, Zenon
<1>7. DOMAIN u = {<<>>} /\ u[<<>>] = r /\ u \in [DOMAIN u -> Node]
  BY <1>1, <1>5, <1>6, Zenon
<1>8. IsTree(u)
  <2>1. /\ <<>> \in Seq(Nat)
        /\ \A k \in 0 .. Len(<<>>) : SubSeq(<<>>, 1, k) = <<>>
    OBVIOUS
  <2> QED
    BY <1>6, <1>7, <2>1, Zenon DEF IsTree
<1>9. NodesArePicks(u)
  <2>1. NoPlayer \notin Ids
    BY NoPlayerAssumption, IdsAreNaturals, Zenon
  <2> QED
    BY <1>6, <1>7, <2>1, Zenon DEF NodesArePicks
<1>10. \A path \in DOMAIN tree' : LegalAt(path)'
  BY <1>5, <1>6, <1>7, Zenon DEF LegalAt, Children
<1>11. TreeInv'
  <2>1. tree' \in [DOMAIN tree' -> Node']
    BY <1>3, <1>5, <1>7, Zenon
  <2>2. IsTree(tree)' /\ NodesArePicks(tree)'
    BY <1>3, <1>5, <1>8, <1>9, Zenon DEF NodesArePicks, IsTree
  <2> QED
    BY <1>10, <2>1, <2>2, Zenon DEF TreeInv
<1>12. ContextInv'
  <2>1. PICK c, b : c = config /\ b = taken
    BY Zenon
  <2>2. Len(b) \in Nat
    BY <1>2, <2>1 DEF CallInv
  <2>3. create_search_context(c, b)' = create_search_context(c, b)
    BY <1>1, <2>2, SamePlayersSameContext, Zenon
  <2>4. MASTER_CONTEXT = [node |-> <<>>, taken |-> b,
                          requirements |-> create_search_context(c, b)]
    BY <2>1, Zenon DEF MASTER_CONTEXT
  <2>5. ContextAt(<<>>)' = [node |-> <<>>, taken |-> b,
                            requirements |-> create_search_context(c, b)]
    BY <1>1, <2>1, <2>3, Zenon DEF ContextAt
  <2>6. context' = ContextAt(<<>>)' /\ context'.node = <<>>
    BY <1>1, <2>4, <2>5
  <2> QED
    BY <1>5, <1>7, <2>6, Zenon DEF ContextInv
<1> QED
  BY <1>4, <1>11, <1>12, Zenon DEF SearchInv

(* The greatest of some scores is among them.                              *)
LEMMA GreatestIsOneOf ==
  ASSUME NEW score, DOMAIN score \in SUBSET Nat
  PROVE  GreatestOf(score) \subseteq DOMAIN score
<1> DEFINE among(class) == { s \in DOMAIN score : score[s] = class }
<1>1. among("infinite") \in SUBSET Nat /\ among("infinite") \subseteq DOMAIN score
      /\ among("positive") \subseteq DOMAIN score
  BY Zenon
<1>2. among("infinite") # {} => Min(among("infinite")) \in among("infinite")
  <2> PICK S : S = among("infinite")
    OBVIOUS
  <2> QED
    BY <1>1, MinIsMember
<1>3. GreatestOf(score) = IF among("infinite") # {} THEN {Min(among("infinite"))}
                                                     ELSE among("positive")
  BY Zenon DEF GreatestOf
<1> HIDE DEF among
<1> QED
  BY <1>1, <1>2, <1>3, Zenon

ChildOrNone(node, next) ==
  next = NoNode \/ \E s \in Children(node) : next = Append(node, s)

(* select_child finds a child or NULL.                                     *)
LEMMA SelectedIsChild ==
  ASSUME TreeInv, NEW node \in DOMAIN tree, NEW visited, NEW team,
         NEW next \in select_child(node, visited, team)
  PROVE  ChildOrNone(node, next)
<1> DEFINE unvisited == { s \in Children(node) : Child(node, s).visited = 0 }
           bound == [s \in Children(node) |->
                      calculate_ucb(Append(node, s), visited, team)]
           best == GreatestOf(bound)
<1>1. Children(node) \in SUBSET Nat
  BY SlotsAreNaturals, Zenon DEF TreeInv, Children, Node
<1>2. unvisited # {} => Min(unvisited) \in unvisited
  <2> PICK S : S = unvisited
    OBVIOUS
  <2> QED
    BY <1>1, MinIsMember
<1>3. best \subseteq Children(node)
  <2>1. DOMAIN bound = Children(node)
    BY Zenon
  <2> HIDE DEF bound
  <2> QED
    BY <1>1, <2>1, GreatestIsOneOf, Zenon
<1>4. select_child(node, visited, team)
        = IF unvisited # {} THEN {Append(node, Min(unvisited))}
          ELSE IF best # {} THEN { Append(node, s) : s \in best }
          ELSE {NoNode}
  BY Zenon DEF select_child
<1>5. CASE unvisited # {}
  <2>1. Min(unvisited) \in Children(node)
    BY <1>2, <1>5, Zenon
  <2> HIDE DEF unvisited
  <2> QED
    BY <1>4, <1>5, <2>1, Zenon DEF ChildOrNone
<1>6. CASE unvisited = {}
  <2> HIDE DEF unvisited, best
  <2> QED
    BY <1>3, <1>4, <1>6, Zenon DEF ChildOrNone
<1> QED
  BY <1>5, <1>6

(* The search starts again from the real draft.                            *)
LEMMA MasterAgain ==
  ASSUME CallInv, TreeInv, TreeInv', Calling, PlayersStay,
         DOMAIN tree \subseteq DOMAIN tree', context' = MASTER_CONTEXT
  PROVE  ContextInv'
<1>1. <<>> \in DOMAIN tree /\ IsTree(tree)
  BY Zenon DEF TreeInv, IsTree
<1>2. ContextAt(<<>>)' = ContextAt(<<>>)
  BY <1>1, ContextStays, Zenon
<1>3. MASTER_CONTEXT = ContextAt(<<>>)
  BY ContextAtRoot, Zenon
<1>4. context'.node = <<>>
  BY DEF MASTER_CONTEXT
<1> QED
  BY <1>1, <1>2, <1>3, <1>4, Zenon DEF ContextInv

(* The context stays right while it waits and the tree only grows.         *)
LEMMA ContextWaits ==
  ASSUME CallInv, TreeInv, ContextInv, Calling, PlayersStay,
         DOMAIN tree \subseteq DOMAIN tree', UNCHANGED context
  PROVE  ContextInv'
<1>1. SUFFICES ASSUME context'.node # NoNode
               PROVE  context'.node \in DOMAIN tree' /\ context' = ContextAt(context.node)'
  BY Zenon DEF ContextInv
<1>2. PICK node : node = context.node
  OBVIOUS
<1>3. node \in DOMAIN tree /\ context = ContextAt(node) /\ IsTree(tree)
  BY <1>1, <1>2, Zenon DEF ContextInv, TreeInv
<1>4. ContextAt(node)' = ContextAt(node)
  BY <1>3, ContextStays, Zenon
<1> QED
  BY <1>2, <1>3, <1>4, Zenon

(* A tree that does not change is still a tree.                            *)
LEMMA TreeStays ==
  ASSUME CallInv, TreeInv, Calling, UNCHANGED tree
  PROVE  TreeInv' /\ PlayersStay
<1>1. tree' \in [DOMAIN tree -> Node]
  BY Zenon DEF TreeInv
<1>2. \A path \in DOMAIN tree : SamePick(tree[path], tree'[path])
  BY Zenon DEF SamePick
<1> QED
  BY <1>1, <1>2, ShapeKept, Zenon

(* is kept by a visit to the root or to a leaf,                            *)
LEMMA VisitStep ==
  ASSUME SearchInv, VisitRoot \/ VisitLeaf
  PROVE  SearchInv'
<1>1. /\ TimeLeft /\ Calling /\ UNCHANGED <<clock, answer>>
      /\ is_leaf(context.node)
      /\ ~expand_tree_Faults(context.node)
      /\ tree' = Grown(context.node, expand_tree(context.node))
      /\ \/ context' = MASTER_CONTEXT /\ UNCHANGED phase
         \/ UNCHANGED context /\ phase' = "rollout"
  BY Zenon DEF VisitRoot, VisitLeaf, draftVars, poolVars, Calling
<1>2. phase = "loop" /\ context.node # NoNode
  BY <1>1, Zenon DEF TimeLeft
<1>3. Searching /\ phase # "draft"
  BY <1>2 DEF Searching
<1>4. CallInv /\ TreeInv /\ ContextInv
  BY <1>3, Zenon DEF SearchInv
<1>5. PICK node, found : node = context.node /\ found = expand_tree(node)
  BY Zenon
<1>6. node \in DOMAIN tree /\ context = ContextAt(node)
  BY <1>2, <1>4, <1>5, Zenon DEF ContextInv
<1>7. Legal(node, found)
  BY <1>1, <1>4, <1>5, <1>6, FoundIsLegal, Zenon
<1>8. TreeInv' /\ PlayersStay /\ DOMAIN tree \subseteq DOMAIN tree'
  BY <1>1, <1>4, <1>5, <1>6, <1>7, GrownTree, Zenon DEF is_leaf
<1>9. ContextInv'
  BY <1>1, <1>4, <1>8, MasterAgain, ContextWaits, Zenon
<1>10. CallInv'
  <2>1. phase' \in {"loop", "rollout", "returned", "aborted"}
    BY <1>1, <1>2
  <2>2. phase' = "rollout" => context'.node # NoNode
    BY <1>1, <1>2
  <2>3. clock' \in 0 .. think_time /\ answer' \in Ids \cup {NoPlayer}
    BY <1>1, <1>4, Zenon DEF CallInv
  <2> QED
    BY <1>1, <1>4, <2>1, <2>2, <2>3, CallKeeps, Zenon
<1> QED
  BY <1>8, <1>9, <1>10, Zenon DEF SearchInv

(* by a visit to a node with children,                                     *)
LEMMA VisitInnerStep ==
  ASSUME SearchInv, VisitInner
  PROVE  SearchInv'
<1>1. /\ TimeLeft /\ Calling /\ UNCHANGED <<phase, clock, answer>>
      /\ tree' = Visited(context.node)
  BY Zenon DEF VisitInner, draftVars, poolVars, Calling
<1>2. phase = "loop" /\ context.node # NoNode
  BY <1>1, Zenon DEF TimeLeft
<1>3. Searching /\ phase # "draft" /\ phase' = "loop" /\ phase' # "rollout"
  BY <1>1, <1>2 DEF Searching
<1>4. CallInv /\ TreeInv /\ ContextInv
  BY <1>3, Zenon DEF SearchInv
<1>5. PICK node : node = context.node
  OBVIOUS
<1>6. node \in DOMAIN tree /\ context = ContextAt(node) /\ IsTree(tree) /\ node \in Seq(Nat)
  BY <1>2, <1>4, <1>5, Zenon DEF ContextInv, TreeInv, IsTree
<1>7. PICK visited, team : \E next \in select_child(node, visited, team) :
        context' = [WithPickOf(context, node) EXCEPT !.node = next]
  <2>1. PICK visited, team : visited = tree'[node].visited
                          /\ team = OnTheClock(WithPickOf(context, node))
    BY Zenon
  <2> QED
    BY <1>5, <2>1, Zenon DEF VisitInner
<1>8. PICK next \in select_child(node, visited, team) :
        context' = [WithPickOf(context, node) EXCEPT !.node = next]
  BY <1>7
<1>9. WithPickOf(context, node) = ContextOf(node)
  BY <1>4, <1>6, WithItsPick, Zenon
<1>10. TreeInv' /\ PlayersStay /\ DOMAIN tree \subseteq DOMAIN tree'
  <2>1. /\ tree' \in [DOMAIN tree -> Node]
        /\ \A path \in DOMAIN tree : SamePick(tree[path], tree'[path])
    BY <1>1, <1>4, <1>5, <1>6, VisitedShape, Zenon
  <2>2. DOMAIN tree' = DOMAIN tree
    BY <2>1, Zenon
  <2> QED
    BY <1>1, <1>4, <2>1, <2>2, ShapeKept, Zenon
<1>11. context'.node = next
  <2>1. PICK k : k = [node |-> node, taken |-> Branch(node),
                      requirements |-> create_search_context(config, Branch(node))]
    OBVIOUS
  <2>2. context' = [k EXCEPT !.node = next]
    BY <1>8, <1>9, <2>1, Zenon DEF ContextOf
  <2> QED
    BY <2>1, <2>2
<1>12. ContextInv'
  <2>1. CASE next = NoNode
    BY <1>11, <2>1, Zenon DEF ContextInv
  <2>2. CASE next # NoNode
    <3>1. PICK s \in Children(node) : next = Append(node, s)
      <4>1. ChildOrNone(node, next)
        BY <1>4, <1>6, SelectedIsChild, Zenon
      <4> QED
        BY <2>2, <4>1, Zenon DEF ChildOrNone
    <3>2. s \in Nat /\ Append(node, s) \in DOMAIN tree
      BY <1>4, <1>6, SlotsAreNaturals, Zenon DEF TreeInv, Children, Node, IsTree
    <3>3. context' = ContextAt(next)
      BY <1>4, <1>6, <1>8, <1>9, <3>1, <3>2, ContextOfChild, Zenon
    <3>4. next \in DOMAIN tree
      BY <3>1, <3>2, Zenon
    <3>5. ContextAt(next)' = ContextAt(next)
      BY <1>1, <1>4, <1>6, <1>10, <3>4, ContextStays, Zenon
    <3> QED
      BY <1>10, <1>11, <3>3, <3>4, <3>5, Zenon DEF ContextInv
  <2> QED
    BY <2>1, <2>2
<1>13. CallInv'
  <2>1. phase' \in {"loop", "rollout", "returned", "aborted"}
    BY <1>3
  <2>2. clock' \in 0 .. think_time /\ answer' \in Ids \cup {NoPlayer}
    BY <1>1, <1>4, Zenon DEF CallInv
  <2> QED
    BY <1>1, <1>3, <1>4, <2>1, <2>2, CallKeeps, Zenon
<1> QED
  BY <1>10, <1>12, <1>13, Zenon DEF SearchInv

(* A step that leaves the tree and the context alone.                      *)
LEMMA WaitingStep ==
  ASSUME SearchInv, Searching, Calling, UNCHANGED <<tree, context>>, CallInv'
  PROVE  SearchInv'
<1>1. CallInv /\ TreeInv /\ ContextInv
  <2>1. phase # "draft"
    BY DEF Searching
  <2> QED
    BY <2>1, Zenon DEF SearchInv
<1>2. TreeInv'
  BY <1>1, TreeStays, Zenon
<1>3. PlayersStay
  BY <1>1, TreeStays, Zenon
<1>4. DOMAIN tree \subseteq DOMAIN tree'
  BY Zenon
<1>5. ContextInv'
  BY <1>1, <1>3, <1>4, ContextWaits, Zenon
<1> QED
  BY <1>2, <1>5, Zenon DEF SearchInv

(* by a pick of the rollout,                                               *)
LEMMA RolloutPickStep ==
  ASSUME SearchInv, RolloutPick
  PROVE  SearchInv'
<1>1. /\ Calling /\ phase = "rollout"
      /\ UNCHANGED <<phase, tree, context, clock, answer>>
  BY Zenon DEF RolloutPick, draftVars, poolVars, Calling
<1>2. CallInv'
  <2>1. phase' \in {"loop", "rollout", "returned", "aborted"}
    BY <1>1
  <2>2. clock' \in 0 .. think_time /\ answer' \in Ids \cup {NoPlayer}
    BY <1>1, Zenon DEF SearchInv, CallInv
  <2>3. context'.node # NoNode
    BY <1>1, Zenon DEF SearchInv, CallInv
  <2> QED
    BY <1>1, <2>1, <2>2, <2>3, CallKeeps, Zenon DEF SearchInv
<1> QED
  BY <1>1, <1>2, WaitingStep, Zenon DEF Searching

(* by the backpropagation,                                                 *)
LEMMA RolloutEndsStep ==
  ASSUME SearchInv, RolloutEnds
  PROVE  SearchInv'
<1>1. /\ Calling /\ phase = "rollout" /\ phase' = "loop"
      /\ context' = MASTER_CONTEXT
      /\ UNCHANGED <<clock, answer>>
  BY Zenon DEF RolloutEnds, draftVars, poolVars, Calling
<1>2. phase # "draft" /\ phase' # "rollout"
  BY <1>1
<1>3. CallInv /\ TreeInv /\ ContextInv /\ context.node # NoNode
  BY <1>1, <1>2, Zenon DEF SearchInv, Searching, CallInv
<1>4. PICK node, score, team :
        node = context.node /\ tree' = backpropogate_score(node, score, team)
  BY Zenon DEF RolloutEnds
<1>5. node \in DOMAIN tree
  BY <1>3, <1>4, Zenon DEF ContextInv
<1>6. /\ tree' \in [DOMAIN tree -> Node]
      /\ \A path \in DOMAIN tree : SamePick(tree[path], tree'[path])
  BY <1>3, <1>4, <1>5, RescoredShape, Zenon
<1>7. TreeInv' /\ PlayersStay
  BY <1>1, <1>3, <1>6, ShapeKept, Zenon
<1>8. DOMAIN tree \subseteq DOMAIN tree'
  BY <1>6, Zenon
<1>9. ContextInv'
  BY <1>1, <1>3, <1>7, <1>8, MasterAgain, Zenon
<1>10. CallInv'
  <2>1. phase' \in {"loop", "rollout", "returned", "aborted"}
    BY <1>1
  <2>2. clock' \in 0 .. think_time /\ answer' \in Ids \cup {NoPlayer}
    BY <1>1, <1>3, Zenon DEF CallInv
  <2> QED
    BY <1>1, <1>2, <1>3, <2>1, <2>2, CallKeeps, Zenon
<1> QED
  BY <1>7, <1>9, <1>10, Zenon DEF SearchInv

(* The call ends: it answers with a child of the root, or no player.       *)
LEMMA EndingStep ==
  ASSUME SearchInv, SearchAborts \/ SearchReturns
  PROVE  SearchInv'
<1>1. /\ Calling /\ phase \in {"loop", "rollout"} /\ phase' \in {"returned", "aborted"}
      /\ UNCHANGED <<tree, context, clock>>
      /\ \/ UNCHANGED answer
         \/ \E s : answer' = IF s \in Children(<<>>) THEN Child(<<>>, s).player
                                                     ELSE NoPlayer
  <2>1. CASE SearchAborts
    <3>1. phase \in {"loop", "rollout"}
      BY <2>1, Zenon DEF SearchAborts, TimeLeft
    <3> QED
      BY <2>1, <3>1, Zenon DEF SearchAborts, draftVars, poolVars, Calling
  <2>2. CASE SearchReturns
    BY <2>2, Zenon DEF SearchReturns, draftVars, poolVars, Calling
  <2> QED
    BY <2>1, <2>2
<1>2. phase # "draft" /\ phase' # "loop" /\ phase' # "rollout"
  BY <1>1
<1>3. CallInv /\ TreeInv
  BY <1>2, Zenon DEF SearchInv
<1>4. answer' \in Ids \cup {NoPlayer}
  <2>1. CASE UNCHANGED answer
    BY <1>3, <2>1, Zenon DEF CallInv
  <2>2. ASSUME NEW s,
               answer' = IF s \in Children(<<>>) THEN Child(<<>>, s).player ELSE NoPlayer
        PROVE  answer' \in Ids \cup {NoPlayer}
    <3>1. CASE s \in Children(<<>>)
      <4>1. Append(<<>>, s) \in DOMAIN tree
        BY <1>3, <3>1, Zenon DEF TreeInv, IsTree, Children
      <4>2. s \in Nat
        <5>1. <<>> \in DOMAIN tree /\ tree[<<>>] \in Node
          BY <1>3, Zenon DEF TreeInv, IsTree
        <5>2. tree[<<>>].children \in SUBSET Slots(config)
          BY <5>1 DEF Node
        <5> QED
          BY <3>1, <5>2, SlotsAreNaturals, Zenon DEF Children
      <4>3. Append(<<>>, s) # <<>>
        <5>1. <<>> \in Seq(Nat)
          OBVIOUS
        <5> QED
          BY <4>2, <5>1, ChildPath, Zenon
      <4> QED
        BY <1>3, <2>2, <3>1, <4>1, <4>3, Zenon DEF TreeInv, NodesArePicks, Child
    <3>2. CASE s \notin Children(<<>>)
      BY <2>2, <3>2, Zenon
    <3> QED
      BY <3>1, <3>2
  <2> QED
    BY <1>1, <2>1, <2>2, Zenon
<1>5. CallInv'
  <2>1. phase' \in {"loop", "rollout", "returned", "aborted"}
    BY <1>1
  <2>2. clock' \in 0 .. think_time
    BY <1>1, <1>3, Zenon DEF CallInv
  <2> QED
    BY <1>1, <1>2, <1>3, <1>4, <2>1, <2>2, CallKeeps, Zenon
<1>6. TreeInv'
  BY <1>1, <1>3, TreeStays, Zenon
<1> QED
  BY <1>2, <1>5, <1>6, Zenon DEF SearchInv, Searching

(* and by the clock.                                                       *)
LEMMA TickStep ==
  ASSUME SearchInv, Tick
  PROVE  SearchInv'
<1>1. /\ Calling /\ phase \in {"loop", "rollout"} /\ clock < think_time
      /\ clock' = clock + 1
      /\ UNCHANGED <<phase, tree, context, answer>>
  BY Zenon DEF Tick, draftVars, poolVars, Calling
<1>2. Searching
  BY <1>1 DEF Searching
<1>3. CallInv
  BY Zenon DEF SearchInv
<1>4. CallInv'
  <2>1. clock' \in 0 .. think_time
    <3>1. think_time \in Nat /\ clock \in 0 .. think_time
      BY <1>3, Zenon DEF CallInv
    <3> QED
      BY <1>1, <3>1
  <2>2. phase' \in {"loop", "rollout", "returned", "aborted"}
    BY <1>1
  <2>3. phase' = "rollout" => context'.node # NoNode
    BY <1>1, <1>3, Zenon DEF CallInv
  <2>4. answer' \in Ids \cup {NoPlayer}
    BY <1>1, <1>3, Zenon DEF CallInv
  <2> QED
    BY <1>1, <1>3, <2>1, <2>2, <2>3, <2>4, CallKeeps, Zenon
<1> QED
  BY <1>1, <1>2, <1>4, WaitingStep, Zenon

(* Nothing changes.                                                        *)
LEMMA IdleStep ==
  ASSUME SearchInv, UNCHANGED searchVars
  PROVE  SearchInv'
<1>1. /\ Calling
      /\ UNCHANGED <<phase, tree, context, clock, answer>>
  BY Zenon DEF searchVars, draftVars, poolVars, Calling
<1>2. CallInv
  BY Zenon DEF SearchInv
<1>3. CallInv'
  <2>1. PICK c : c = config
    OBVIOUS
  <2>2. WellShaped(c) /\ config' = c
    BY <1>1, <1>2, <2>1, Zenon DEF CallInv, Calling
  <2>3. WellShaped(config)'
    BY <2>2, Zenon
  <2>4. Ids' = Ids /\ UNCHANGED <<taken, think_time>>
    BY <1>1, Zenon DEF Calling, Ids, number_of_players
  <2> QED
    BY <1>1, <1>2, <2>3, <2>4, Zenon DEF CallInv
<1>4. CASE phase = "draft"
  <2>1. phase' = "draft" /\ phase' # "loop" /\ phase' # "rollout"
    BY <1>1, <1>4
  <2> QED
    BY <1>3, <2>1, Zenon DEF SearchInv, Searching
<1>5. CASE Searching
  BY <1>1, <1>3, <1>5, WaitingStep, Zenon
<1>6. CASE phase # "draft" /\ ~Searching
  <2>1. TreeInv'
    BY <1>1, <1>2, <1>6, TreeStays, Zenon DEF SearchInv
  <2>2. ~Searching'
    BY <1>1, <1>6, Zenon DEF Searching
  <2> QED
    BY <1>3, <2>1, <2>2, Zenon DEF SearchInv, Searching
<1> QED
  BY <1>4, <1>5, <1>6, Zenon

(* Every step keeps the invariant.                                         *)
LEMMA SearchInvStep == SearchInv /\ [SearchNext]_searchVars => SearchInv'
<1>1. ASSUME SearchInv, SearchStep PROVE SearchInv'
  BY <1>1, VisitStep, VisitInnerStep, RolloutPickStep, RolloutEndsStep, EndingStep,
     Zenon DEF SearchStep
<1> QED
  BY <1>1, PrepareStep, CalledStep, TickStep, IdleStep, Zenon DEF SearchNext

(* The invariant of the tree and of the context.                           *)
LEMMA SearchInvariant == SearchSpec => []SearchInv
  BY SearchInvInit, SearchInvStep, PTL DEF SearchSpec

-----------------------------------------------------------------------------
(* What follows from it.                                                   *)

(* The nodes the search makes keep their types and form a tree, from which *)
(* calculate_best_pick takes its answer.                                   *)
THEOREM SearchTypeCorrect == SearchSpec => []SearchTypeOK
<1>1. SearchInv => SearchTypeOK
  <2>1. SUFFICES ASSUME SearchInv PROVE SearchTypeOK
    BY Zenon
  <2>2. ASSUME phase # "draft", NEW path \in DOMAIN tree
        PROVE  /\ path # <<>> => Last(path) \in Children(Front(path))
               /\ path # <<>> <=> tree[path].player \in Ids
               /\ tree[path].visited \in 0 .. VisitCap
               /\ tree[path].scores \in [Teams(config) -> ScoreClass]
    <3>1. TreeInv
      BY <2>1, <2>2, Zenon DEF SearchInv
    <3>2. tree[path] \in Node
      BY <3>1, Zenon DEF TreeInv
    <3>3. /\ tree[path].visited \in 0 .. VisitCap
          /\ tree[path].scores \in [Teams(config) -> ScoreClass]
      BY <3>2 DEF Node
    <3> QED
      BY <3>1, <3>3, Zenon DEF TreeInv, IsTree, NodesArePicks, Children
  <2> QED
    BY <2>1, <2>2, Zenon DEF SearchInv, CallInv, SearchTypeOK
<1> QED
  BY <1>1, SearchInvariant, PTL

(* However often the search starts again from the real draft, the context  *)
(* it carries down the tree is the real draft and the branch above its     *)
(* node (reset_search_context_to, make_pick).                              *)
THEOREM ContextFollows == SearchSpec => []ContextFollowsTree
<1>1. SearchInv => ContextFollowsTree
  <2>1. SUFFICES ASSUME SearchInv, Searching, context.node # NoNode, context.node # <<>>
                 PROVE  LET branch == Branch(Front(context.node)) IN
                        /\ context.taken = branch
                        /\ context.requirements = create_search_context(config, branch)
    BY Zenon DEF ContextFollowsTree
  <2>2. PICK node, branch, row :
          /\ node = context.node /\ branch = Branch(Front(node))
          /\ row = create_search_context(config, branch)
    BY Zenon
  <2>3. context = [node |-> node, taken |-> branch, requirements |-> row]
    BY <2>1, <2>2, Zenon DEF SearchInv, ContextInv, ContextAt
  <2>4. context.taken = branch /\ context.requirements = row
    BY <2>3
  <2> QED
    BY <2>2, <2>4, Zenon
<1> QED
  BY <1>1, SearchInvariant, PTL

(* No branch of the tree drafts a player twice or one already drafted, and *)
(* each of its nodes fills a slot the team on the clock then required.     *)
THEOREM BranchesLegal == SearchSpec => []BranchesAreLegal
<1>1. SearchInv => BranchesAreLegal
  <2>1. SUFFICES ASSUME SearchInv, Searching, context.node # NoNode
                 PROVE  LegalAt(context.node)
    BY Zenon DEF BranchesAreLegal, LegalAt
  <2>2. phase # "draft"
    BY <2>1 DEF Searching
  <2> QED
    BY <2>1, <2>2, Zenon DEF SearchInv, TreeInv, ContextInv
<1> QED
  BY <1>1, SearchInvariant, PTL

-----------------------------------------------------------------------------
(* Visits.                                                                 *)

(* The visits of a node's children in the tree u.                          *)
VisitsBelow(u, path) ==
  SumOver(u[path].children, [s \in u[path].children |-> u[Append(path, s)].visited])

(* What VisitsAddUp says of a node, if a visit waits to be passed on.      *)
AddsUp(u, path, waiting) ==
  u[path].children # {} /\ u[path].visited < VisitCap =>
    u[path].visited = 1 + VisitsBelow(u, path) + (IF waiting THEN 1 ELSE 0)

(* The module's sum of the visits of the children is SumOver's.            *)
LEMMA VisitsBelowIsSum ==
  ASSUME NEW path, IsFiniteSet(Children(path))
  PROVE  MapThenSumSet(LAMBDA s : Child(path, s).visited, Children(path))
           = VisitsBelow(tree, path)
<1> DEFINE K == Children(path)
           f == [s \in K |-> Child(path, s).visited]
           Sums(g) == g = [T \in SUBSET K |->
                             IF T = {} THEN 0
                             ELSE Child(path, AnyOf(T)).visited + g[T \ {AnyOf(T)}]]
           h == CHOOSE g : Sums(g)
<1>1. MapThenSumSet(LAMBDA s : Child(path, s).visited, Children(path)) = h[K]
  BY Zenon DEF MapThenSumSet, MapThenFoldSet, AnyOf
<1>2. ASSUME NEW g PROVE Sums(g) <=> SumsUp(K, f, g)
  <2>1. ASSUME NEW T \in SUBSET K, T # {} PROVE f[AnyOf(T)] = Child(path, AnyOf(T)).visited
    BY <2>1, AnyOfIsMember, Zenon
  <2> DEFINE left(T) == IF T = {} THEN 0
                        ELSE Child(path, AnyOf(T)).visited + g[T \ {AnyOf(T)}]
             right(T) == IF T = {} THEN 0 ELSE f[AnyOf(T)] + g[T \ {AnyOf(T)}]
  <2>2. \A T \in SUBSET K : left(T) = right(T)
    BY <2>1, Zenon
  <2>3. Sums(g) <=> g = [T \in SUBSET K |-> left(T)]
    BY Zenon
  <2>4. SumsUp(K, f, g) <=> g = [T \in SUBSET K |-> right(T)]
    BY Zenon DEF SumsUp
  <2>5. [T \in SUBSET K |-> left(T)] = [T \in SUBSET K |-> right(T)]
    <3> HIDE DEF left, right, K
    <3> QED
      BY <2>2, Zenon
  <2> HIDE DEF left, right, K, f, Sums
  <2> QED
    BY <2>3, <2>4, <2>5, Zenon
<1>3. PICK g : SumsUp(K, f, g)
  BY SumFunctionExists, Zenon
<1>4. Sums(h)
  <2>1. Sums(g)
    <3> HIDE DEF Sums
    <3> QED
      BY <1>2, <1>3, Zenon
  <2> QED
    BY <2>1, Zenon
<1>5. SumsUp(K, f, h)
  <2> HIDE DEF Sums, h
  <2> QED
    BY <1>2, <1>4, Zenon
<1>6. SumOver(K, f) = h[K]
  <2> HIDE DEF h, f
  <2> QED
    BY <1>5, SumValueIsValue, SumIsChosen, Zenon
<1>7. VisitsBelow(tree, path) = SumOver(K, f)
  BY Zenon DEF VisitsBelow, Children, Child
<1> QED
  BY <1>1, <1>6, <1>7, Zenon

(* A tree of nodes: what a lemma about visits needs of it.                 *)
CountedTree(u) ==
  /\ IsTree(u)
  /\ \A path \in DOMAIN u : /\ u[path].visited \in 0 .. VisitCap
                            /\ u[path].children \in SUBSET Nat
                            /\ IsFiniteSet(u[path].children)

(* v is u after a visit to a node, which may have given it children.       *)
Visit(u, v, node) ==
  /\ v[node].visited = IF u[node].visited < VisitCap THEN u[node].visited + 1 ELSE VisitCap
  /\ \A path \in DOMAIN u \ {node} : v[path].visited = u[path].visited
  /\ \A path \in DOMAIN u :
       u[path].children # {} \/ path # node => v[path].children = u[path].children

(* The children of a node are finitely many and their visits a number.     *)
LEMMA VisitsOfChildren ==
  ASSUME NEW u, NEW path \in DOMAIN u, CountedTree(u)
  PROVE  /\ IsFiniteSet(u[path].children)
         /\ \A s \in u[path].children :
              /\ Append(path, s) \in DOMAIN u
              /\ u[Append(path, s)].visited \in Nat
              /\ u[Append(path, s)].visited <= VisitsBelow(u, path)
         /\ VisitsBelow(u, path) \in Nat
<1> DEFINE K == u[path].children
           f == [s \in K |-> u[Append(path, s)].visited]
<1>1. IsFiniteSet(K) /\ \A s \in K : Append(path, s) \in DOMAIN u
  BY Zenon DEF CountedTree, IsTree
<1>2. \A n \in 0 .. VisitCap : n \in Nat
  BY VisitCapAssumption
<1>3. \A s \in K : u[Append(path, s)].visited \in Nat
  BY <1>1, <1>2, Zenon DEF CountedTree
<1>4. \A s \in K : f[s] = u[Append(path, s)].visited
  BY Zenon
<1>5. VisitsBelow(u, path) = SumOver(K, f)
  BY Zenon DEF VisitsBelow
<1> HIDE DEF f
<1>6. \A s \in K : f[s] <= SumOver(K, f)
  BY <1>1, <1>3, <1>4, SumBounds, Zenon
<1>7. SumOver(K, f) \in Nat
  BY <1>1, <1>3, <1>4, SumType, Zenon
<1> QED
  BY <1>1, <1>3, <1>4, <1>5, <1>6, <1>7, Zenon

(* The visits below a path that a visit does not pass through.             *)
LEMMA VisitElsewhere ==
  ASSUME NEW u, NEW v, NEW node \in DOMAIN u, NEW path \in DOMAIN u,
         CountedTree(u), Visit(u, v, node), u[path].children # {},
         \A s \in u[path].children : Append(path, s) # node
  PROVE  VisitsBelow(v, path) = VisitsBelow(u, path)
<1> DEFINE K == u[path].children
           f == [s \in K |-> u[Append(path, s)].visited]
           g == [s \in K |-> v[Append(path, s)].visited]
<1>1. IsFiniteSet(K) /\ v[path].children = K
  BY Zenon DEF CountedTree, Visit
<1>2. \A s \in K : Append(path, s) \in DOMAIN u \ {node}
  BY VisitsOfChildren, Zenon
<1>3. \A s \in K : f[s] = g[s]
  BY <1>2, Zenon DEF Visit
<1>4. VisitsBelow(u, path) = SumOver(K, f)
  BY Zenon DEF VisitsBelow
<1>5. VisitsBelow(v, path) = SumOver(K, g)
  <2>1. VisitsBelow(v, path) =
          SumOver(v[path].children, [s \in v[path].children |-> v[Append(path, s)].visited])
    BY Zenon DEF VisitsBelow
  <2> HIDE DEF K
  <2> QED
    BY <1>1, <2>1, Zenon
<1>6. SumOver(K, f) = SumOver(K, g)
  <2> HIDE DEF f, g, K
  <2> QED
    BY <1>1, <1>3, SumSame, Zenon
<1> QED
  BY <1>4, <1>5, <1>6, Zenon

(* A child of the path is visited, less often than the counts can tell.    *)
LEMMA VisitPassedOn ==
  ASSUME NEW u, NEW v, NEW node \in DOMAIN u, NEW path \in DOMAIN u,
         CountedTree(u), Visit(u, v, node),
         NEW e \in u[path].children, node = Append(path, e), path # node,
         \A s \in u[path].children : s # e => Append(path, s) # node,
         u[node].visited < VisitCap
  PROVE  VisitsBelow(v, path) = VisitsBelow(u, path) + 1
<1> DEFINE K == u[path].children
           f == [s \in K |-> u[Append(path, s)].visited]
           g == [s \in K |-> v[Append(path, s)].visited]
<1>1. IsFiniteSet(K) /\ v[path].children = K
  BY Zenon DEF CountedTree, Visit
<1>2. \A s \in K \ {e} : Append(path, s) \in DOMAIN u \ {node}
  BY VisitsOfChildren, Zenon
<1>3. \A s \in K \ {e} : g[s] = f[s]
  BY <1>2, Zenon DEF Visit
<1>4. g[e] = f[e] + 1
  <2>1. v[node].visited = u[node].visited + 1
    BY Zenon DEF Visit
  <2>2. g[e] = v[node].visited /\ f[e] = u[node].visited
    BY Zenon
  <2> QED
    BY <2>1, <2>2, Zenon
<1>5. \A s \in K : f[s] \in Nat
  BY VisitsOfChildren, Zenon
<1>6. VisitsBelow(u, path) = SumOver(K, f)
  BY Zenon DEF VisitsBelow
<1>7. VisitsBelow(v, path) = SumOver(K, g)
  <2>1. VisitsBelow(v, path) =
          SumOver(v[path].children, [s \in v[path].children |-> v[Append(path, s)].visited])
    BY Zenon DEF VisitsBelow
  <2> HIDE DEF K
  <2> QED
    BY <1>1, <2>1, Zenon
<1>8. SumOver(K, g) = SumOver(K, f) + 1
  <2>1. e \in K
    BY Zenon
  <2> HIDE DEF f, g, K
  <2> QED
    BY <1>1, <1>3, <1>4, <1>5, <2>1, SumGrows, Zenon
<1> QED
  BY <1>6, <1>7, <1>8, Zenon

(* A visit adds up everywhere but at the node itself.                      *)
LEMMA VisitAddsUp ==
  ASSUME NEW u, NEW v, NEW node \in DOMAIN u, NEW path \in DOMAIN u,
         CountedTree(u), Visit(u, v, node), path # node, u[path].children # {},
         AddsUp(u, path, node # <<>> /\ Front(node) = path)
  PROVE  AddsUp(v, path, FALSE)
<1>1. /\ v[path].visited = u[path].visited
      /\ v[path].children = u[path].children
  BY Zenon DEF Visit
<1>2. node \in Seq(Nat) /\ path \in Seq(Nat)
  BY Zenon DEF CountedTree, IsTree
<1>3. \A s \in u[path].children :
        s \in Nat /\ Append(path, s) # <<>> /\ Front(Append(path, s)) = path
          /\ Last(Append(path, s)) = s
  <2>1. u[path].children \in SUBSET Nat
    BY Zenon DEF CountedTree
  <2> QED
    BY <1>2, <2>1, ChildPath, Zenon
<1>4. SUFFICES ASSUME u[path].visited < VisitCap
               PROVE  v[path].visited = 1 + VisitsBelow(v, path)
  <2>1. \A n \in Nat : n + 0 = n
    OBVIOUS
  <2>2. CASE u[path].visited < VisitCap
    <3>1. v[path].visited = 1 + VisitsBelow(v, path) => AddsUp(v, path, FALSE)
      <4>1. v[path].visited \in Nat
        BY <1>1, VisitCapAssumption DEF CountedTree
      <4>2. v[path].visited = 1 + VisitsBelow(v, path)
              => v[path].visited = 1 + VisitsBelow(v, path) + 0
        BY <2>1, <4>1, Zenon
      <4> QED
        BY <4>2, Zenon DEF AddsUp
    <3> QED
      BY <2>2, <3>1, Zenon
  <2>3. CASE ~(u[path].visited < VisitCap)
    BY <1>1, <2>3, Zenon DEF AddsUp
  <2> QED
    BY <2>2, <2>3, Zenon
<1>5. VisitsBelow(u, path) \in Nat
  BY VisitsOfChildren, Zenon
<1>6. CASE node # <<>> /\ Front(node) = path
  <2> DEFINE e == Last(node)
  <2>1. e \in u[path].children
    BY <1>6, Zenon DEF CountedTree, IsTree
  <2>2. node = Append(path, e)
    <3>1. node = Append(Front(node), Last(node))
      BY <1>2, <1>6 DEF Front, Last
    <3> QED
      BY <1>6, <3>1, Zenon
  <2>3. \A s \in u[path].children : s # e => Append(path, s) # node
    BY <1>3, Zenon
  <2>4. u[path].visited = 1 + VisitsBelow(u, path) + 1
    BY <1>4, <1>6, Zenon DEF AddsUp
  <2>5. u[node].visited \in Nat /\ u[node].visited <= VisitsBelow(u, path)
    BY <2>1, <2>2, VisitsOfChildren, Zenon
  <2>6. u[node].visited < VisitCap
    BY <1>4, <1>5, <2>4, <2>5, VisitCapAssumption
  <2>7. VisitsBelow(v, path) = VisitsBelow(u, path) + 1
    <3> HIDE DEF e
    <3> QED
      BY <2>1, <2>2, <2>3, <2>6, VisitPassedOn, Zenon
  <2> QED
    BY <1>1, <1>5, <2>4, <2>7
<1>7. CASE ~(node # <<>> /\ Front(node) = path)
  <2>1. \A s \in u[path].children : Append(path, s) # node
    BY <1>3, <1>7, Zenon
  <2>2. VisitsBelow(v, path) = VisitsBelow(u, path)
    BY <2>1, VisitElsewhere, Zenon
  <2>3. u[path].visited = 1 + VisitsBelow(u, path) + 0
    BY <1>4, <1>7, Zenon DEF AddsUp
  <2> QED
    BY <1>1, <1>5, <2>2, <2>3
<1> QED
  BY <1>6, <1>7, Zenon

(* A node with children passes its visit on.                               *)
LEMMA VisitWaits ==
  ASSUME NEW u, NEW v, NEW node \in DOMAIN u,
         CountedTree(u), Visit(u, v, node), u[node].children # {},
         AddsUp(u, node, FALSE)
  PROVE  AddsUp(v, node, TRUE)
<1>1. node \in Seq(Nat) /\ v[node].children = u[node].children
  BY Zenon DEF CountedTree, IsTree, Visit
<1>2. \A s \in u[node].children : Append(node, s) # node
  <2>1. \A s \in Nat : Len(Append(node, s)) = Len(node) + 1
    BY <1>1, ChildPath, Zenon
  <2>2. Len(node) # Len(node) + 1
    BY <1>1
  <2>3. u[node].children \in SUBSET Nat
    BY Zenon DEF CountedTree
  <2> QED
    BY <2>1, <2>2, <2>3, Zenon
<1>3. VisitsBelow(v, node) = VisitsBelow(u, node) /\ VisitsBelow(u, node) \in Nat
  BY <1>2, VisitElsewhere, VisitsOfChildren, Zenon
<1>4. u[node].visited \in 0 .. VisitCap
  BY Zenon DEF CountedTree
<1>5. ASSUME v[node].visited < VisitCap
      PROVE  v[node].visited = 1 + VisitsBelow(v, node) + 1
  <2>1. u[node].visited < VisitCap /\ v[node].visited = u[node].visited + 1
    <3>1. CASE u[node].visited < VisitCap
      BY <3>1, Zenon DEF Visit
    <3>2. CASE ~(u[node].visited < VisitCap)
      <4>1. v[node].visited = VisitCap
        BY <3>2, Zenon DEF Visit
      <4> QED
        BY <1>5, <4>1, VisitCapAssumption
    <3> QED
      BY <3>1, <3>2
  <2>2. u[node].visited = 1 + VisitsBelow(u, node) + 0
    BY <2>1, Zenon DEF AddsUp
  <2> QED
    BY <1>3, <1>4, <2>1, <2>2
<1> QED
  BY <1>5, Zenon DEF AddsUp

(* A node visited for the first time is given children nobody has visited. *)
LEMMA FirstVisitAddsUp ==
  ASSUME NEW v, NEW node, v[node].visited = 1, IsFiniteSet(v[node].children),
         \A s \in v[node].children : v[Append(node, s)].visited = 0
  PROVE  AddsUp(v, node, FALSE)
<1> DEFINE K == v[node].children
           f == [s \in K |-> v[Append(node, s)].visited]
<1>1. VisitsBelow(v, node) = SumOver(K, f)
  BY Zenon DEF VisitsBelow
<1>2. \A s \in K : f[s] = 0
  BY Zenon
<1>3. SumOver(K, f) = 0
  <2> HIDE DEF f
  <2> QED
    BY <1>2, SumOfZeros, Zenon
<1>4. 1 = 1 + 0 + 0
  OBVIOUS
<1>5. VisitsBelow(v, node) = 0
  BY <1>1, <1>3, Zenon
<1> QED
  BY <1>4, <1>5, Zenon DEF AddsUp

(* The queries of the pool, while it stays as it is.                       *)
LEMMA QueriesStay ==
  ASSUME UNCHANGED <<players, slot_markers>>, NEW c, NEW s, NEW ids
  PROVE  whos_highest_projected(c, s, ids)' = whos_highest_projected(c, s, ids)
<1>1. Ids' = Ids
  BY Zenon DEF Ids, number_of_players
<1>2. \A mark : FirstFreeFrom(mark, ids)' = FirstFreeFrom(mark, ids)
  BY <1>1, Zenon DEF FirstFreeFrom
<1>3. \A id : points(id)' = points(id)
  BY Zenon DEF points
<1>4. OptionResults(c, s, ids)' = OptionResults(c, s, ids)
  BY <1>2, Zenon DEF OptionResults
<1> QED
  BY <1>2, <1>3, <1>4, Zenon DEF whos_highest_projected

(* What the root would find depends on the pool alone.                     *)
LEMMA RootChildrenStay ==
  ASSUME UNCHANGED <<players, slot_markers>>, NEW c, NEW row, NEW ids
  PROVE  RootChildren(c, row, ids)' = RootChildren(c, row, ids)
<1>1. \A s : whos_highest_projected(c, s, ids)' = whos_highest_projected(c, s, ids)
  BY QueriesStay, Zenon
<1> DEFINE R == { s \in Slots(c) : row[s] > 0 /\ whos_highest_projected(c, s, ids) # NoPlayer }
           Q == { s \in Slots(c) : row[s] > 0 /\ whos_highest_projected(c, s, ids)' # NoPlayer }
<1>2. \A s : s \in R <=> s \in Q
  BY <1>1, Zenon
<1>3. RootChildren(c, row, ids) = R /\ RootChildren(c, row, ids)' = Q
  BY Zenon DEF RootChildren, Slots
<1> HIDE DEF R, Q
<1> QED
  BY <1>2, <1>3, Zenon

(* No child is found for a node whose branch is b.                         *)
Barren(b) ==
  \/ Len(b) >= n_picks
  \/ RootChildren(config, create_search_context(config, b)[order[Len(b)]], IdsOf(b)) = {}

(* A draft without a legal pick stays one during the call.                 *)
LEMMA BarrenStays ==
  ASSUME Calling, NEW b, Len(b) \in Nat, Barren(b)
  PROVE  Barren(b)'
<1>1. PICK c, o, row, ids : /\ c = config /\ o = order /\ ids = IdsOf(b)
                            /\ row = create_search_context(c, b)[o[Len(b)]]
  BY Zenon
<1>2. create_search_context(c, b)' = create_search_context(c, b)
  BY SamePlayersSameContext, Zenon DEF Calling
<1>3. RootChildren(c, row, ids)' = RootChildren(c, row, ids)
  BY RootChildrenStay, Zenon DEF Calling
<1>4. n_picks' = n_picks /\ IdsOf(b)' = IdsOf(b)
  BY Zenon DEF Calling, n_picks, IdsOf
<1>5. config' = c /\ order' = o
  BY <1>1, Zenon DEF Calling
<1>6. CASE Len(b) >= n_picks
  BY <1>4, <1>6, Zenon DEF Barren
<1>7. CASE RootChildren(c, row, ids) = {}
  BY <1>1, <1>2, <1>3, <1>4, <1>5, <1>7, Zenon DEF Barren
<1> QED
  BY <1>1, <1>6, <1>7, Zenon DEF Barren

(* Expanding a leaf finds no child exactly where its branch is barren.     *)
LEMMA FindsNothing ==
  ASSUME CallInv, NEW node \in Seq(Nat), context = ContextAt(node)
  PROVE  DOMAIN expand_tree(node) = {} <=> Barren(Branch(node))
<1>1. PICK b, r : b = Branch(node) /\ r = create_search_context(config, b)
  BY Zenon
<1>2. PICK c : c = WithPickOf(context, node)
  OBVIOUS
<1>3. c.taken = b /\ c.requirements = r
  <2>1. c = ContextOf(node)
    BY <1>2, WithItsPick, Zenon
  <2>2. c = [node |-> node, taken |-> b, requirements |-> r]
    BY <1>1, <2>1, Zenon DEF ContextOf
  <2> QED
    BY <2>2
<1>4. PICK row : row = r[order[Len(b)]]
  OBVIOUS
<1>5. PICK found : found = expand_tree(node)
  OBVIOUS
<1>6. found = IF Len(b) >= n_picks THEN <<>>
              ELSE [s \in RootChildren(config, row, IdsOf(b)) |->
                     whos_highest_projected(config, s, IdsOf(b))]
  BY <1>2, <1>3, <1>4, <1>5, Zenon DEF expand_tree, OnTheClock
<1>7. CASE Len(b) >= n_picks
  <2>1. found = <<>>
    BY <1>6, <1>7, Zenon
  <2>2. DOMAIN found = {}
    BY <2>1
  <2> QED
    BY <1>1, <1>5, <1>7, <2>2, Zenon DEF Barren
<1>8. CASE ~(Len(b) >= n_picks)
  <2>1. DOMAIN found = RootChildren(config, row, IdsOf(b))
    BY <1>6, <1>8, Zenon
  <2> QED
    BY <1>1, <1>4, <1>5, <1>8, <2>1, Zenon DEF Barren
<1> QED
  BY <1>7, <1>8

(* A league has finitely many slots.                                       *)
LEMMA SlotsAreFinite ==
  ASSUME CallInv
  PROVE  IsFiniteSet(Slots(config))
<1>1. config.num_slots \in Nat
  BY Zenon DEF CallInv, WellShaped
<1>2. 0 \in Int /\ config.num_slots - 1 \in Int
  BY <1>1
<1> QED
  BY <1>2, FS_Interval, Zenon DEF Slots

(* Visits are numbers and children slots.                                  *)
LEMMA TreeIsCounted ==
  ASSUME CallInv, TreeInv
  PROVE  CountedTree(tree)
<1>1. ASSUME NEW path \in DOMAIN tree
      PROVE  /\ tree[path].visited \in 0 .. VisitCap
             /\ tree[path].children \in SUBSET Nat
             /\ IsFiniteSet(tree[path].children)
  <2>1. tree[path] \in Node
    BY Zenon DEF TreeInv
  <2>2. tree[path].visited \in 0 .. VisitCap /\ tree[path].children \in SUBSET Slots(config)
    BY <2>1 DEF Node
  <2> QED
    BY <2>2, SlotsAreFinite, SlotsAreNaturals, FS_Subset, Zenon
<1> QED
  BY <1>1, Zenon DEF TreeInv, CountedTree

(* A visit counts one, up to the bound.                                    *)
LEMMA VisitedOnce ==
  ASSUME TreeInv, NEW node \in DOMAIN tree
  PROVE  Visited(node)[node].visited =
           IF tree[node].visited < VisitCap THEN tree[node].visited + 1 ELSE VisitCap
<1>1. PICK r : r = tree[node]
  OBVIOUS
<1>2. r \in Node
  BY <1>1, Zenon DEF TreeInv
<1>3. r.visited + 1 \in Nat /\ VisitCap \in Nat /\ r.visited \in 0 .. VisitCap
  BY <1>2, VisitCapAssumption DEF Node
<1>4. PICK n : n = Min({r.visited + 1, VisitCap})
  OBVIOUS
<1>5. n \in {r.visited + 1, VisitCap} /\ \A y \in {r.visited + 1, VisitCap} : n <= y
  BY <1>3, <1>4, MinIsLeast
<1>6. n = IF r.visited < VisitCap THEN r.visited + 1 ELSE VisitCap
  BY <1>3, <1>5
<1>7. PICK q : q = [r EXCEPT !.visited = n]
  OBVIOUS
<1>8. q.visited = n
  BY <1>2, <1>7 DEF Node
<1>9. Visited(node)[node] = q
  BY <1>1, <1>4, <1>7, Zenon DEF Visited
<1> QED
  BY <1>1, <1>6, <1>8, <1>9, Zenon

(* And leaves every other node as it was.                                  *)
LEMMA VisitedIsVisit ==
  ASSUME TreeInv, NEW node \in DOMAIN tree, NEW v, v = Visited(node)
  PROVE  Visit(tree, v, node)
<1>1. \A path \in DOMAIN tree \ {node} : v[path] = tree[path]
  BY Zenon DEF Visited
<1>2. \A path \in DOMAIN tree : v[path].children = tree[path].children
  BY VisitedShape, Zenon DEF SamePick
<1>3. \A path \in DOMAIN tree \ {node} : v[path].visited = tree[path].visited
  BY <1>1, Zenon
<1> QED
  BY <1>2, <1>3, VisitedOnce, Zenon DEF Visit

(* A leaf expanded has been visited, and its children have not.            *)
LEMMA GrownIsVisit ==
  ASSUME TreeInv, NEW node \in DOMAIN tree, Children(node) = {},
         NEW found, Legal(node, found), NEW v, v = Grown(node, found)
  PROVE  /\ Visit(tree, v, node)
         /\ \A s \in DOMAIN found : v[Append(node, s)].visited = 0
<1> DEFINE added == { Append(node, s) : s \in DOMAIN found }
<1>1. Grew(node, found, v)
  BY GrownShape, Zenon
<1>2. DOMAIN v = DOMAIN tree \cup added
  BY Zenon DEF Grown
<1>3. \A path \in DOMAIN tree : path \notin added
  BY <1>1, Zenon DEF Grew
<1>4. \A path \in DOMAIN tree \ {node} : v[path] = tree[path]
  BY <1>2, <1>3, Zenon DEF Grown
<1>5. \A path \in DOMAIN tree \ {node} :
        v[path].visited = tree[path].visited /\ v[path].children = tree[path].children
  BY <1>4, Zenon
<1>6. v[node].visited = Visited(node)[node].visited
  <2>1. PICK r, K : r = Visited(node)[node] /\ K = DOMAIN found
    BY Zenon
  <2>2. r \in Node
    BY <2>1, VisitedShape, Zenon
  <2>3. PICK q : q = [r EXCEPT !.children = K]
    OBVIOUS
  <2>4. q.visited = r.visited
    BY <2>2, <2>3 DEF Node
  <2>5. v[node] = q
    BY <1>2, <1>3, <2>1, <2>3, Zenon DEF Grown
  <2> QED
    BY <2>1, <2>4, <2>5, Zenon
<1>7. ASSUME NEW s \in DOMAIN found PROVE v[Append(node, s)].visited = 0
  <2>1. PICK p : p = Append(node, s)
    OBVIOUS
  <2>2. p \in added
    BY <2>1, Zenon
  <2>3. PICK id : id = found[Last(p)]
    OBVIOUS
  <2>4. v[p] = create_node(id)
    BY <1>2, <2>2, <2>3, Zenon DEF Grown
  <2>5. PICK x : x = [t \in Teams(config) |-> "zero"]
    OBVIOUS
  <2>6. v[p] = [player |-> id, visited |-> 0, scores |-> x, children |-> {}]
    BY <2>4, <2>5, Zenon DEF create_node
  <2>7. v[p].visited = 0
    BY <2>6
  <2> QED
    BY <2>1, <2>7, Zenon
<1>8. Visit(tree, v, node)
  <2>1. \A path \in DOMAIN tree :
          tree[path].children # {} \/ path # node => v[path].children = tree[path].children
    BY <1>5, Zenon DEF Children
  <2> QED
    BY <1>5, <1>6, <2>1, VisitedOnce, Zenon DEF Visit
<1> QED
  BY <1>7, <1>8, Zenon

(* A score that goes up a branch leaves the visits as they are.            *)
LEMMA RescoredVisits ==
  ASSUME TreeInv, NEW node, NEW score, NEW team, NEW path \in DOMAIN tree
  PROVE  backpropogate_score(node, score, team)[path].visited = tree[path].visited
<1>1. PICK r : r = tree[path]
  OBVIOUS
<1>2. r \in Node
  BY <1>1, Zenon DEF TreeInv
<1>3. PICK q : q = backpropogate_score(node, score, team)[path]
  OBVIOUS
<1>4. q = r \/ \E x : q = [r EXCEPT !.scores[team] = x]
  BY <1>1, <1>3, Zenon DEF backpropogate_score
<1>5. ASSUME NEW x, q = [r EXCEPT !.scores[team] = x] PROVE q.visited = r.visited
  BY <1>2, <1>5 DEF Node
<1> QED
  BY <1>1, <1>3, <1>4, <1>5, Zenon

(* The invariant of the visits.  A visit waits at the node above the one   *)
(* the search has come to; a leaf visited without finding children never   *)
(* finds any.                                                              *)
Waits(path) == phase = "loop" /\ context.node # <<>> /\ Front(context.node) = path

VisitsAt(path) ==
  /\ AddsUp(tree, path, Waits(path))
  /\ Children(path) = {} /\ tree[path].visited > 0 => Barren(Branch(path))

VisitInv ==
  Searching /\ context.node # NoNode => \A path \in DOMAIN tree : VisitsAt(path)

(* The term for the visit under way, in two forms.                         *)
LEMMA WaitingOrNot ==
  ASSUME NEW u, NEW path, NEW waiting, NEW waits, AddsUp(u, path, waiting),
         waits <=> waiting
  PROVE  AddsUp(u, path, waits)
  BY Zenon DEF AddsUp

(* A node without children has nothing to add up.                          *)
LEMMA LeafAddsUp ==
  ASSUME NEW u, NEW path, u[path].children = {}, NEW waits
  PROVE  AddsUp(u, path, waits)
  BY Zenon DEF AddsUp

(* A barren leaf stays one.                                                *)
LEMMA LeafStays ==
  ASSUME CallInv, TreeInv, Calling, PlayersStay, NEW path \in DOMAIN tree,
         Barren(Branch(path))
  PROVE  Barren(Branch(path))'
<1>1. PICK b : b = Branch(path)
  OBVIOUS
<1>2. path \in Seq(Nat) /\ IsTree(tree)
  BY Zenon DEF TreeInv, IsTree
<1>3. Branch(path)' = b /\ Len(b) \in Nat
  BY <1>1, <1>2, BranchStays, BranchLength, Zenon
<1>4. Barren(b)'
  BY <1>1, <1>3, BarrenStays, Zenon
<1>5. PICK n, x : n = Len(b) /\ x = IdsOf(b)
  BY Zenon
<1> QED
  BY <1>3, <1>4, Zenon DEF Barren

(* Where nothing is visited and nothing is passed on.                      *)
LEMMA VisitsStay ==
  ASSUME SearchInv, VisitInv, Searching, Calling, TreeInv', PlayersStay,
         context.node # NoNode,
         DOMAIN tree' = DOMAIN tree,
         \A path \in DOMAIN tree : /\ tree'[path].visited = tree[path].visited
                                   /\ tree'[path].children = tree[path].children,
         \A path : Waits(path)' <=> Waits(path)
  PROVE  VisitInv'
<1>1. SUFFICES ASSUME NEW path \in DOMAIN tree PROVE VisitsAt(path)'
  BY Zenon DEF VisitInv
<1>2. VisitsAt(path)
  BY Zenon DEF VisitInv
<1>3. CallInv /\ TreeInv
  <2>1. phase # "draft"
    BY DEF Searching
  <2> QED
    BY <2>1, Zenon DEF SearchInv
<1>4. PICK u, v : u = tree /\ v = tree'
  BY Zenon
<1>5. VisitsBelow(v, path) = VisitsBelow(u, path) /\ v[path].children = u[path].children
  <2>1. PICK K : K = u[path].children
    OBVIOUS
  <2>2. \A s \in K : Append(path, s) \in DOMAIN u
    BY <1>3, <1>4, <2>1, Zenon DEF TreeInv, IsTree
  <2>3. \A s \in K : u[Append(path, s)].visited = v[Append(path, s)].visited
    BY <1>4, <2>2, Zenon
  <2>4. [s \in K |-> u[Append(path, s)].visited] = [s \in K |-> v[Append(path, s)].visited]
    BY <2>3, Zenon
  <2>5. v[path].children = K
    BY <1>4, <2>1, Zenon
  <2> QED
    BY <2>1, <2>4, <2>5, Zenon DEF VisitsBelow
<1>6. AddsUp(v, path, Waits(path))
  <2>1. PICK w : w = Waits(path)
    OBVIOUS
  <2>2. AddsUp(u, path, w)
    BY <1>2, <1>4, <2>1, Zenon DEF VisitsAt
  <2>3. AddsUp(v, path, w)
    BY <1>4, <1>5, <2>2, Zenon DEF AddsUp
  <2> QED
    BY <2>1, <2>3, Zenon
<1>7. AddsUp(tree', path, Waits(path)')
  BY <1>4, <1>6, WaitingOrNot, Zenon
<1>8. AddsUp(tree, path, Waits(path))'
  BY <1>7
<1>9. Children(path)' = {} /\ tree'[path].visited > 0 => Barren(Branch(path))'
  <2>1. SUFFICES ASSUME Children(path)' = {}, tree'[path].visited > 0
                 PROVE  Barren(Branch(path))'
    BY Zenon
  <2>2. Barren(Branch(path))
    BY <1>2, <2>1, Zenon DEF VisitsAt, Children
  <2> QED
    BY <1>3, <2>2, LeafStays, Zenon
<1> QED
  BY <1>8, <1>9, Zenon DEF VisitsAt

(* The visits add up when the call begins,                                 *)
LEMMA CalledVisits ==
  ASSUME NEW t \in ThinkTimes, calculate_best_pick_Called(t)
  PROVE  VisitInv'
<1>1. PICK u, r : u = tree' /\ r = create_node(NoPlayer)
  BY Zenon
<1>2. DOMAIN u = {<<>>} /\ u[<<>>] = r
  BY <1>1, Zenon DEF calculate_best_pick_Called
<1>3. r.visited = 0 /\ r.children = {}
  <2>1. PICK x : x = [team \in Teams(config) |-> "zero"]
    OBVIOUS
  <2>2. r = [player |-> NoPlayer, visited |-> 0, scores |-> x, children |-> {}]
    BY <1>1, <2>1, Zenon DEF create_node
  <2> QED
    BY <2>2
<1>4. ASSUME NEW path \in DOMAIN tree' PROVE VisitsAt(path)'
  <2>1. u[path].visited = 0 /\ u[path].children = {}
    BY <1>1, <1>2, <1>3, <1>4, Zenon
  <2>2. ~(tree'[path].visited > 0)
    BY <1>1, <2>1
  <2>3. AddsUp(tree', path, Waits(path)')
    BY <1>1, <2>1, LeafAddsUp, Zenon
  <2>4. AddsUp(tree, path, Waits(path))'
    BY <2>3
  <2> QED
    BY <2>2, <2>4, Zenon DEF VisitsAt
<1> QED
  BY <1>4, Zenon DEF VisitInv

(* after a visit to the root or to a leaf,                                 *)
LEMMA VisitStepVisits ==
  ASSUME SearchInv, SearchInv', VisitInv, VisitRoot \/ VisitLeaf
  PROVE  VisitInv'
<1>1. /\ TimeLeft /\ Calling
      /\ is_leaf(context.node)
      /\ ~expand_tree_Faults(context.node)
      /\ tree' = Grown(context.node, expand_tree(context.node))
      /\ \/ context' = MASTER_CONTEXT
         \/ phase' = "rollout"
  BY Zenon DEF VisitRoot, VisitLeaf, draftVars, poolVars, Calling
<1>2. phase = "loop" /\ context.node # NoNode
  BY <1>1, Zenon DEF TimeLeft
<1>3. Searching /\ phase # "draft"
  BY <1>2 DEF Searching
<1>4. CallInv /\ TreeInv /\ ContextInv
  BY <1>3, Zenon DEF SearchInv
<1>5. PICK node, found : node = context.node /\ found = expand_tree(node)
  BY Zenon
<1>6. node \in DOMAIN tree /\ context = ContextAt(node) /\ node \in Seq(Nat)
  BY <1>2, <1>4, <1>5, Zenon DEF ContextInv, TreeInv, IsTree
<1>7. Legal(node, found)
  BY <1>1, <1>4, <1>5, <1>6, FoundIsLegal, Zenon
<1>8. Children(node) = {}
  BY <1>1, <1>5, Zenon DEF is_leaf
<1>9. PlayersStay
  BY <1>1, <1>4, <1>5, <1>6, <1>7, <1>8, GrownTree, Zenon
<1>10. PICK u, v : u = tree /\ v = tree'
  BY Zenon
<1>11. Grew(node, found, v) /\ Visit(u, v, node)
         /\ \A s \in DOMAIN found : v[Append(node, s)].visited = 0
  <2>1. v = Grown(node, found)
    BY <1>1, <1>5, <1>10, Zenon
  <2>2. Grew(node, found, v)
    BY <1>4, <1>6, <1>7, <1>8, <2>1, GrownShape, Zenon
  <2>3. Visit(tree, v, node) /\ \A s \in DOMAIN found : v[Append(node, s)].visited = 0
    BY <1>4, <1>6, <1>7, <1>8, <2>1, GrownIsVisit, Zenon
  <2> QED
    BY <1>10, <2>2, <2>3, Zenon
<1>12. CountedTree(u)
  BY <1>4, <1>10, TreeIsCounted, Zenon
<1>13. \A path : ~Waits(path)'
  <2>1. CASE context' = MASTER_CONTEXT
    <3>1. context'.node = <<>>
      BY <2>1 DEF MASTER_CONTEXT
    <3> QED
      BY <3>1, Zenon DEF Waits
  <2>2. CASE phase' = "rollout"
    <3>1. phase' # "loop"
      BY <2>2
    <3> QED
      BY <3>1, Zenon DEF Waits
  <2> QED
    BY <1>1, <2>1, <2>2
<1>14. ASSUME NEW path \in DOMAIN tree PROVE VisitsAt(path)
  BY <1>2, <1>3, Zenon DEF VisitInv
<1>15. ASSUME NEW path \in DOMAIN tree', AddsUp(v, path, FALSE)
       PROVE  AddsUp(tree, path, Waits(path))'
  <2>1. AddsUp(tree', path, Waits(path)')
    BY <1>10, <1>13, <1>15, WaitingOrNot, Zenon
  <2> QED
    BY <2>1
<1>16. ASSUME NEW path \in DOMAIN tree \ {node}
       PROVE  VisitsAt(path)'
  <2>1. v[path].visited = u[path].visited /\ v[path].children = u[path].children
    BY <1>10, <1>11, Zenon DEF Visit
  <2>2. AddsUp(v, path, FALSE)
    <3>1. CASE u[path].children = {}
      BY <2>1, <3>1, LeafAddsUp, Zenon
    <3>2. CASE u[path].children # {}
      <4>1. AddsUp(u, path, node # <<>> /\ Front(node) = path)
        BY <1>2, <1>5, <1>10, <1>14, WaitingOrNot, Zenon DEF VisitsAt, Waits
      <4>2. node \in DOMAIN u /\ path \in DOMAIN u /\ path # node
        BY <1>6, <1>10, <1>16, Zenon
      <4> QED
        BY <1>11, <1>12, <3>2, <4>1, <4>2, VisitAddsUp, Zenon
    <3> QED
      BY <3>1, <3>2
  <2>3. Children(path)' = {} /\ tree'[path].visited > 0 => Barren(Branch(path))'
    <3>1. Children(path)' = {} /\ tree'[path].visited > 0 => Barren(Branch(path))
      BY <1>10, <1>14, <2>1, Zenon DEF VisitsAt, Children
    <3> QED
      BY <1>1, <1>4, <1>9, <3>1, LeafStays, Zenon
  <2>4. path \in DOMAIN tree'
    BY <1>10, <1>11, <1>16, Zenon DEF Grew
  <2> QED
    BY <1>15, <2>2, <2>3, <2>4, Zenon DEF VisitsAt
<1>17. VisitsAt(node)'
  <2>1. v[node].children = DOMAIN found /\ node \in DOMAIN tree'
    BY <1>6, <1>10, <1>11, Zenon DEF Grew
  <2>2. DOMAIN found = {} <=> Barren(Branch(node))
    BY <1>4, <1>5, <1>6, FindsNothing, Zenon
  <2>3. AddsUp(v, node, FALSE)
    <3>1. CASE DOMAIN found = {}
      BY <2>1, <3>1, LeafAddsUp, Zenon
    <3>2. CASE DOMAIN found # {}
      <4>1. ~(u[node].visited > 0)
        BY <1>6, <1>8, <1>10, <1>14, <2>2, <3>2, Zenon DEF VisitsAt
      <4>2. u[node].visited \in 0 .. VisitCap
        BY <1>6, <1>10, <1>12, Zenon DEF CountedTree
      <4>3. u[node].visited = 0 /\ 0 < VisitCap /\ 0 + 1 = 1
        BY <4>1, <4>2, VisitCapAssumption
      <4>4. v[node].visited = 1
        BY <1>11, <4>3, Zenon DEF Visit
      <4>5. IsFiniteSet(v[node].children)
        BY <1>4, <1>7, <2>1, SlotsAreFinite, FS_Subset, Zenon DEF Legal
      <4> QED
        BY <1>11, <2>1, <4>4, <4>5, FirstVisitAddsUp, Zenon
    <3> QED
      BY <3>1, <3>2
  <2>4. Children(node)' = {} /\ tree'[node].visited > 0 => Barren(Branch(node))'
    <3>1. Children(node)' = {} => Barren(Branch(node))
      BY <1>10, <2>1, <2>2, Zenon DEF Children
    <3> QED
      BY <1>1, <1>4, <1>6, <1>9, <3>1, LeafStays, Zenon
  <2> QED
    BY <1>15, <2>1, <2>3, <2>4, Zenon DEF VisitsAt
<1>18. ASSUME NEW s \in DOMAIN found PROVE VisitsAt(Append(node, s))'
  <2>1. PICK path : path = Append(node, s)
    OBVIOUS
  <2>2. v[path].children = {} /\ v[path].visited = 0 /\ path \in DOMAIN tree'
    BY <1>10, <1>11, <2>1, Zenon DEF Grew
  <2>3. AddsUp(v, path, FALSE)
    BY <2>2, LeafAddsUp, Zenon
  <2>4. ~(tree'[path].visited > 0)
    BY <1>10, <2>2
  <2>5. VisitsAt(path)'
    BY <1>15, <2>2, <2>3, <2>4, Zenon DEF VisitsAt
  <2> QED
    BY <2>1, <2>5, Zenon
<1>19. ASSUME NEW path \in DOMAIN tree' PROVE VisitsAt(path)'
  <2>1. path \in DOMAIN tree \/ \E s \in DOMAIN found : path = Append(node, s)
    <3>1. path \in DOMAIN tree \cup { Append(node, s) : s \in DOMAIN found }
      BY <1>10, <1>11, <1>19, Zenon DEF Grew
    <3> QED
      BY <3>1, Zenon
  <2> QED
    BY <1>16, <1>17, <1>18, <2>1, Zenon
<1> QED
  BY <1>19, Zenon DEF VisitInv

(* after a visit to a node with children,                                  *)
LEMMA VisitInnerVisits ==
  ASSUME SearchInv, SearchInv', VisitInv, VisitInner
  PROVE  VisitInv'
<1>1. /\ TimeLeft /\ Calling /\ UNCHANGED phase
      /\ tree' = Visited(context.node)
      /\ ~is_leaf(context.node)
  BY Zenon DEF VisitInner, draftVars, poolVars, Calling
<1>2. phase = "loop" /\ context.node # NoNode
  BY <1>1, Zenon DEF TimeLeft
<1>3. Searching /\ phase # "draft"
  BY <1>2 DEF Searching
<1>4. CallInv /\ TreeInv /\ ContextInv
  BY <1>3, Zenon DEF SearchInv
<1>5. PICK node : node = context.node
  OBVIOUS
<1>6. node \in DOMAIN tree /\ context = ContextAt(node) /\ node \in Seq(Nat)
  BY <1>2, <1>4, <1>5, Zenon DEF ContextInv, TreeInv, IsTree
<1>7. PICK u, v : u = tree /\ v = tree'
  BY Zenon
<1>8. Visit(u, v, node) /\ CountedTree(u) /\ DOMAIN v = DOMAIN u
  BY <1>1, <1>4, <1>5, <1>6, <1>7, VisitedIsVisit, TreeIsCounted, Zenon DEF Visited
<1>9. PlayersStay
  <2>1. /\ tree' \in [DOMAIN tree -> Node]
        /\ \A path \in DOMAIN tree : SamePick(tree[path], tree'[path])
    BY <1>1, <1>4, <1>5, <1>6, VisitedShape, Zenon
  <2> QED
    BY <1>1, <1>4, <2>1, ShapeKept, Zenon
<1>10. u[node].children # {}
  BY <1>1, <1>5, <1>7, Zenon DEF is_leaf, Children
<1>11. ASSUME NEW path \in DOMAIN tree PROVE VisitsAt(path)
  BY <1>2, <1>3, Zenon DEF VisitInv
<1>12. CASE context'.node = NoNode
  BY <1>12, Zenon DEF VisitInv
<1>13. CASE context'.node # NoNode
  <2>1. \A path : Waits(path)' <=> path = node
    <3>1. PICK s \in Children(node) : context'.node = Append(node, s)
      <4>1. PICK visited, team : \E next \in select_child(node, visited, team) :
              context' = [WithPickOf(context, node) EXCEPT !.node = next]
        <5>1. PICK visited, team : visited = tree'[node].visited
                                /\ team = OnTheClock(WithPickOf(context, node))
          BY Zenon
        <5> QED
          BY <1>5, <5>1, Zenon DEF VisitInner
      <4> PICK next \in select_child(node, visited, team) :
            context' = [WithPickOf(context, node) EXCEPT !.node = next]
        BY <4>1
      <4>2. context'.node = next
        <5>1. WithPickOf(context, node) = ContextOf(node)
          BY <1>4, <1>6, WithItsPick, Zenon
        <5>2. PICK k : k = [node |-> node, taken |-> Branch(node),
                            requirements |-> create_search_context(config, Branch(node))]
          OBVIOUS
        <5>3. context' = [k EXCEPT !.node = next]
          BY <5>1, <5>2, Zenon DEF ContextOf
        <5> QED
          BY <5>2, <5>3
      <4>3. ChildOrNone(node, next)
        BY <1>4, <1>6, SelectedIsChild, Zenon
      <4> QED
        BY <1>13, <4>2, <4>3, Zenon DEF ChildOrNone
    <3>2. s \in Nat
      BY <1>6, <1>7, <1>8, Zenon DEF CountedTree, Children
    <3>3. context'.node # <<>> /\ Front(context'.node) = node
      BY <1>6, <3>1, <3>2, ChildPath, Zenon
    <3>4. phase' = "loop"
      BY <1>1, <1>2
    <3> QED
      BY <3>3, <3>4, Zenon DEF Waits
  <2>2. AddsUp(v, node, TRUE)
    <3>1. ~(node # <<>> /\ Front(node) = node)
      <4>1. node # <<>> => Front(node) # node
        BY <1>6 DEF Front
      <4> QED
        BY <4>1, Zenon
    <3>2. AddsUp(u, node, FALSE)
      BY <1>2, <1>5, <1>6, <1>7, <1>11, <3>1, WaitingOrNot, Zenon DEF VisitsAt, Waits
    <3>3. node \in DOMAIN u
      BY <1>6, <1>7, Zenon
    <3> QED
      BY <1>8, <1>10, <3>2, <3>3, VisitWaits, Zenon
  <2>3. ASSUME NEW path \in DOMAIN tree, path # node PROVE AddsUp(v, path, FALSE)
    <3>1. v[path].children = u[path].children
      BY <1>7, <1>8, <2>3, Zenon DEF Visit
    <3>2. CASE u[path].children = {}
      BY <3>1, <3>2, LeafAddsUp, Zenon
    <3>3. CASE u[path].children # {}
      <4>1. AddsUp(u, path, node # <<>> /\ Front(node) = path)
        BY <1>2, <1>5, <1>7, <1>11, WaitingOrNot, Zenon DEF VisitsAt, Waits
      <4>2. node \in DOMAIN u /\ path \in DOMAIN u
        BY <1>6, <1>7, Zenon
      <4> QED
        BY <1>8, <2>3, <3>3, <4>1, <4>2, VisitAddsUp, Zenon
    <3> QED
      BY <3>2, <3>3
  <2>4. ASSUME NEW path \in DOMAIN tree PROVE VisitsAt(path)'
    <3>1. AddsUp(v, path, path = node)
      BY <2>2, <2>3, WaitingOrNot, Zenon
    <3>2. AddsUp(tree', path, Waits(path)')
      BY <1>7, <2>1, <3>1, WaitingOrNot, Zenon
    <3>3. AddsUp(tree, path, Waits(path))'
      BY <3>2
    <3>4. Children(path)' = {} /\ tree'[path].visited > 0 => Barren(Branch(path))'
      <4>1. CASE path = node
        BY <1>7, <1>8, <1>10, <4>1, Zenon DEF Visit, Children
      <4>2. CASE path # node
        <5>1. Children(path)' = {} /\ tree'[path].visited > 0 => Barren(Branch(path))
          BY <1>7, <1>8, <1>11, <4>2, Zenon DEF VisitsAt, Children, Visit
        <5> QED
          BY <1>1, <1>4, <1>9, <5>1, LeafStays, Zenon
      <4> QED
        BY <4>1, <4>2
    <3> QED
      BY <3>3, <3>4, Zenon DEF VisitsAt
  <2> QED
    BY <1>7, <1>8, <2>4, Zenon DEF VisitInv
<1> QED
  BY <1>12, <1>13

(* after the backpropagation,                                              *)
LEMMA RolloutEndsVisits ==
  ASSUME SearchInv, SearchInv', VisitInv, RolloutEnds
  PROVE  VisitInv'
<1>1. /\ Calling /\ phase = "rollout" /\ context' = MASTER_CONTEXT
  BY Zenon DEF RolloutEnds, draftVars, poolVars, Calling
<1>2. phase # "draft" /\ phase # "loop" /\ Searching
  BY <1>1 DEF Searching
<1>3. CallInv /\ TreeInv /\ ContextInv /\ context.node # NoNode
  BY <1>1, <1>2, Zenon DEF SearchInv, CallInv
<1>4. PICK node, score, team :
        node = context.node /\ tree' = backpropogate_score(node, score, team)
  BY Zenon DEF RolloutEnds
<1>5. node \in DOMAIN tree
  BY <1>3, <1>4, Zenon DEF ContextInv
<1>6. /\ tree' \in [DOMAIN tree -> Node]
      /\ \A path \in DOMAIN tree : SamePick(tree[path], tree'[path])
  BY <1>3, <1>4, <1>5, RescoredShape, Zenon
<1>7. TreeInv' /\ PlayersStay
  BY <1>1, <1>3, <1>6, ShapeKept, Zenon
<1>8. \A path \in DOMAIN tree : tree'[path].visited = tree[path].visited
  <2> TAKE path \in DOMAIN tree
  <2>1. backpropogate_score(node, score, team)[path].visited = tree[path].visited
    BY <1>3, RescoredVisits, Zenon
  <2> QED
    BY <1>4, <2>1, Zenon
<1>9. \A path \in DOMAIN tree : tree'[path].children = tree[path].children
  BY <1>6, Zenon DEF SamePick
<1>10. DOMAIN tree' = DOMAIN tree
  BY <1>6, Zenon
<1>11. \A path : ~Waits(path) /\ ~Waits(path)'
  <2>1. context'.node = <<>>
    BY <1>1 DEF MASTER_CONTEXT
  <2> QED
    BY <1>2, <2>1, Zenon DEF Waits
<1> QED
  BY <1>1, <1>2, <1>3, <1>7, <1>8, <1>9, <1>10, <1>11, VisitsStay, Zenon

(* and while the tree waits.                                               *)
LEMMA WaitingVisits ==
  ASSUME SearchInv, VisitInv, Calling, UNCHANGED <<phase, tree, context>>
  PROVE  VisitInv'
<1>1. SUFFICES ASSUME Searching, context.node # NoNode PROVE VisitInv'
  BY Zenon DEF VisitInv, Searching
<1>2. CallInv /\ TreeInv
  <2>1. phase # "draft"
    BY <1>1 DEF Searching
  <2> QED
    BY <2>1, Zenon DEF SearchInv
<1>3. TreeInv' /\ PlayersStay
  BY <1>2, TreeStays, Zenon
<1>4. \A path : Waits(path)' <=> Waits(path)
  BY Zenon DEF Waits
<1> QED
  BY <1>1, <1>3, <1>4, VisitsStay, Zenon

(* Every step keeps the visits adding up.                                  *)
LEMMA VisitInvStep == SearchInv /\ SearchInv' /\ VisitInv /\ [SearchNext]_searchVars => VisitInv'
<1>1. ASSUME SearchInv, SearchInv', VisitInv, SearchStep PROVE VisitInv'
  <2>1. ASSUME SearchAborts \/ SearchReturns PROVE VisitInv'
    <3>1. phase' \in {"aborted", "returned"}
      BY <2>1, Zenon DEF SearchAborts, SearchReturns
    <3>2. ~Searching'
      BY <3>1 DEF Searching
    <3> QED
      BY <3>2, Zenon DEF VisitInv
  <2>2. ASSUME RolloutPick PROVE VisitInv'
    BY <1>1, <2>2, WaitingVisits, Zenon DEF RolloutPick, draftVars, poolVars, Calling
  <2> QED
    BY <1>1, <2>1, <2>2, VisitStepVisits, VisitInnerVisits, RolloutEndsVisits, Zenon DEF SearchStep
<1>2. ASSUME Prepare PROVE VisitInv'
  <2>1. phase' = "draft"
    BY <1>2, PrepareIs, Zenon
  <2>2. ~Searching'
    BY <2>1 DEF Searching
  <2> QED
    BY <2>2, Zenon DEF VisitInv
<1>3. ASSUME SearchInv, VisitInv, Tick PROVE VisitInv'
  BY <1>3, WaitingVisits, Zenon DEF Tick, draftVars, poolVars, Calling
<1>4. ASSUME SearchInv, VisitInv, UNCHANGED searchVars PROVE VisitInv'
  BY <1>4, WaitingVisits, Zenon DEF searchVars, draftVars, poolVars, Calling
<1> QED
  BY <1>1, <1>2, <1>3, <1>4, CalledVisits, Zenon DEF SearchNext

(* The invariant of the visits.                                            *)
LEMMA VisitInvariant == SearchSpec => []VisitInv
<1>1. SearchInit => VisitInv
  <2>1. SearchInit => phase = "draft"
    BY Zenon DEF SearchInit
  <2>2. phase = "draft" => ~Searching
    BY DEF Searching
  <2> QED
    BY <2>1, <2>2, Zenon DEF VisitInv
<1> QED
  BY <1>1, SearchInvariant, VisitInvStep, PTL DEF SearchSpec

(* A visit to a node with children is passed on to one of them, but the    *)
(* one the search is about to pass on: along the tree of calculate_best_-  *)
(* pick the visits add up.                                                 *)
THEOREM VisitsAdd == SearchSpec => []VisitsAddUp
<1>1. SearchInv /\ VisitInv => VisitsAddUp
  <2>1. SUFFICES ASSUME SearchInv, VisitInv, Searching, context.node # NoNode,
                        NEW path \in DOMAIN tree, ~is_leaf(path), tree[path].visited < VisitCap
                 PROVE  tree[path].visited =
                          1 + MapThenSumSet(LAMBDA s : Child(path, s).visited, Children(path))
                            + (IF context.node # <<>> /\ phase = "loop"
                                                      /\ Front(context.node) = path
                                 THEN 1 ELSE 0)
    BY Zenon DEF VisitsAddUp
  <2>2. AddsUp(tree, path, Waits(path))
    BY <2>1, Zenon DEF VisitInv, VisitsAt
  <2>3. CallInv /\ TreeInv
    <3>1. phase # "draft"
      BY <2>1 DEF Searching
    <3> QED
      BY <2>1, <3>1, Zenon DEF SearchInv
  <2>4. IsFiniteSet(Children(path))
    BY <2>1, <2>3, TreeIsCounted, Zenon DEF CountedTree, Children
  <2>5. MapThenSumSet(LAMBDA s : Child(path, s).visited, Children(path))
          = VisitsBelow(tree, path)
    BY <2>4, VisitsBelowIsSum, Zenon
  <2>6. tree[path].visited = 1 + VisitsBelow(tree, path) + (IF Waits(path) THEN 1 ELSE 0)
    BY <2>1, <2>2, Zenon DEF AddsUp, is_leaf, Children
  <2>7. Waits(path) <=> context.node # <<>> /\ phase = "loop" /\ Front(context.node) = path
    BY Zenon DEF Waits
  <2> QED
    BY <2>5, <2>6, <2>7, Zenon
<1> QED
  BY <1>1, SearchInvariant, VisitInvariant, PTL

-----------------------------------------------------------------------------
(* Rollouts.                                                               *)

(* The pool the search reads has its type.                                 *)
LEMMA SearchPoolType == SearchSpec => []PoolTypeOK
<1>1. SearchInit => PoolTypeOK
  BY MaxPlayersAssumption DEF SearchInit, PoolInit, PoolTypeOK
<1>2. PoolTypeOK /\ [SearchNext]_searchVars => PoolTypeOK'
  <2>1. ASSUME PoolTypeOK, NEW file \in PoolFiles, load_player_pool(file) PROVE PoolTypeOK'
    BY <2>1, LoadedPool, Zenon DEF load_player_pool
  <2>2. ASSUME PoolTypeOK, NEW file \in PoolFiles, load_player_pool_Fails(file)
        PROVE  PoolTypeOK'
    BY <2>2, FailedLoadType, Zenon DEF load_player_pool_Fails
  <2>3. ASSUME PoolTypeOK, UNCHANGED poolVars PROVE PoolTypeOK'
    BY <2>3, Zenon DEF poolVars, PoolTypeOK
  <2>4. ASSUME load \/ undo_pick \/ (\E id : DraftPlayer(id)) \/ (\E p, team : give_pick(p, team))
        PROVE  UNCHANGED poolVars
    BY <2>4, Zenon DEF load, undo_pick, DraftPlayer, give_pick
  <2>5. ASSUME NEW file, load_draft_config(file) PROVE UNCHANGED poolVars
    BY <2>5, Zenon DEF load_draft_config
  <2>6. ASSUME NEW t, calculate_best_pick_Called(t) PROVE UNCHANGED poolVars
    BY <2>6, Zenon DEF calculate_best_pick_Called
  <2>7. ASSUME SearchStep \/ Tick \/ UNCHANGED searchVars PROVE UNCHANGED poolVars
    BY <2>7, Zenon DEF SearchStep, VisitRoot, VisitLeaf, VisitInner, RolloutPick, RolloutEnds,
                       SearchAborts, SearchReturns, Tick, searchVars, draftVars
  <2> QED
    BY <2>1, <2>2, <2>3, <2>4, <2>5, <2>6, <2>7, Zenon DEF SearchNext, Prepare
<1> QED
  BY <1>1, <1>2, PTL DEF SearchSpec

(* The points of a player are a number.                                    *)
LEMMA PointsType ==
  ASSUME PoolTypeOK, NEW id \in Ids
  PROVE  points(id) \in Nat
<1>1. PICK all : all = players
  OBVIOUS
<1>2. all \in Seq(PlayerRecord)
  BY <1>1, Zenon DEF PoolTypeOK
<1>3. id + 1 \in 1 .. Len(all)
  BY <1>1, <1>2 DEF Ids, number_of_players
<1>4. all[id + 1] \in PlayerRecord
  <2> HIDE DEF PlayerRecord
  <2> QED
    BY <1>2, <1>3
<1>5. all[id + 1].points \in Nat
  BY <1>4 DEF PlayerRecord
<1> QED
  BY <1>1, <1>5, Zenon DEF points

(* The points of the players of the picks a, and those a team makes of     *)
(* them after the first n.                                                 *)
PointsOf(a) == [i \in DOMAIN a |-> points(a[i].player_id)]

CountedPicks(a, n, team) == { i \in n + 1 .. Len(a) : a[i].by_team = team }

TotalOf(a, n, team) == SumOver(CountedPicks(a, n, team), PointsOf(a))

(* The picks of a team in a rollout are finitely many.                     *)
LEMMA CountedPicksAreFinite ==
  ASSUME NEW a, NEW n \in Nat, Len(a) \in Nat, NEW team
  PROVE  /\ IsFiniteSet(CountedPicks(a, n, team))
         /\ CountedPicks(a, n, team) \in SUBSET (n + 1 .. Len(a))
<1>1. n + 1 \in Int /\ Len(a) \in Int
  OBVIOUS
<1>2. IsFiniteSet(n + 1 .. Len(a))
  BY <1>1, FS_Interval, Zenon
<1> QED
  BY <1>2, FS_Subset, Zenon DEF CountedPicks

(* The module's sum over the picks of a rollout is SumOver's.              *)
LEMMA RolloutPointsAreSum ==
  ASSUME NEW K, IsFiniteSet(K), K \in SUBSET DOMAIN sim.taken
  PROVE  MapThenSumSet(LAMBDA i : points(sim.taken[i].player_id), K)
           = SumOver(K, PointsOf(sim.taken))
<1> DEFINE f == PointsOf(sim.taken)
           left(g, T) == IF T = {} THEN 0
                         ELSE points(sim.taken[AnyOf(T)].player_id) + g[T \ {AnyOf(T)}]
           right(g, T) == IF T = {} THEN 0 ELSE f[AnyOf(T)] + g[T \ {AnyOf(T)}]
           Sums(g) == g = [T \in SUBSET K |-> left(g, T)]
           h == CHOOSE g : Sums(g)
<1>1. MapThenSumSet(LAMBDA i : points(sim.taken[i].player_id), K) = h[K]
  BY Zenon DEF MapThenSumSet, MapThenFoldSet, AnyOf
<1>2. ASSUME NEW g PROVE Sums(g) <=> SumsUp(K, f, g)
  <2>1. ASSUME NEW T \in SUBSET K, T # {}
        PROVE  f[AnyOf(T)] = points(sim.taken[AnyOf(T)].player_id)
    BY <2>1, AnyOfIsMember, Zenon DEF PointsOf
  <2>2. \A T \in SUBSET K : left(g, T) = right(g, T)
    BY <2>1, Zenon
  <2>3. SumsUp(K, f, g) <=> g = [T \in SUBSET K |-> right(g, T)]
    BY Zenon DEF SumsUp
  <2>4. [T \in SUBSET K |-> left(g, T)] = [T \in SUBSET K |-> right(g, T)]
    <3> HIDE DEF left, right
    <3> QED
      BY <2>2, Zenon
  <2> HIDE DEF left, right, f
  <2> QED
    BY <2>3, <2>4, Zenon
<1> HIDE DEF Sums, f
<1>3. PICK g : SumsUp(K, f, g)
  BY SumFunctionExists, Zenon
<1>4. SumsUp(K, f, h)
  BY <1>2, <1>3, Zenon
<1>5. SumOver(K, f) = h[K]
  <2> HIDE DEF h
  <2> QED
    BY <1>4, SumValueIsValue, SumIsChosen, Zenon
<1> QED
  BY <1>1, <1>5, Zenon DEF f

(* The points along a branch, as the walk up the branch adds them.         *)
BranchPick(node, k) == tree[SubSeq(node, 1, k)].player

(* And so is the sum over the picks of a branch.                           *)
LEMMA BranchPointsAreSum ==
  ASSUME NEW K, IsFiniteSet(K), NEW node
  PROVE  MapThenSumSet(LAMBDA k : points(tree[SubSeq(node, 1, k)].player), K)
           = SumOver(K, [k \in K |-> points(BranchPick(node, k))])
<1> DEFINE f == [k \in K |-> points(BranchPick(node, k))]
           left(g, T) == IF T = {} THEN 0
                         ELSE points(tree[SubSeq(node, 1, AnyOf(T))].player)
                                + g[T \ {AnyOf(T)}]
           right(g, T) == IF T = {} THEN 0 ELSE f[AnyOf(T)] + g[T \ {AnyOf(T)}]
           Sums(g) == g = [T \in SUBSET K |-> left(g, T)]
           h == CHOOSE g : Sums(g)
<1>1. MapThenSumSet(LAMBDA k : points(tree[SubSeq(node, 1, k)].player), K) = h[K]
  BY Zenon DEF MapThenSumSet, MapThenFoldSet, AnyOf
<1>2. ASSUME NEW g PROVE Sums(g) <=> SumsUp(K, f, g)
  <2>1. ASSUME NEW T \in SUBSET K, T # {}
        PROVE  f[AnyOf(T)] = points(tree[SubSeq(node, 1, AnyOf(T))].player)
    BY <2>1, AnyOfIsMember, Zenon DEF BranchPick
  <2>2. \A T \in SUBSET K : left(g, T) = right(g, T)
    BY <2>1, Zenon
  <2>3. SumsUp(K, f, g) <=> g = [T \in SUBSET K |-> right(g, T)]
    BY Zenon DEF SumsUp
  <2>4. [T \in SUBSET K |-> left(g, T)] = [T \in SUBSET K |-> right(g, T)]
    <3> HIDE DEF left, right
    <3> QED
      BY <2>2, Zenon
  <2> HIDE DEF left, right, f
  <2> QED
    BY <2>3, <2>4, Zenon
<1> HIDE DEF Sums, f
<1>3. PICK g : SumsUp(K, f, g)
  BY SumFunctionExists, Zenon
<1>4. SumsUp(K, f, h)
  BY <1>2, <1>3, Zenon
<1>5. SumOver(K, f) = h[K]
  <2> HIDE DEF h
  <2> QED
    BY <1>4, SumValueIsValue, SumIsChosen, Zenon
<1> QED
  BY <1>1, <1>5, Zenon DEF f

(* A pick more counts for the team that makes it, and for no other.        *)
LEMMA TotalAfterPick ==
  ASSUME NEW T, NEW a \in Seq(T), NEW made, NEW n \in Nat, n <= Len(a), NEW team,
         \A i \in n + 1 .. Len(a) : points(a[i].player_id) \in Nat,
         points(made.player_id) \in Nat
  PROVE  TotalOf(Append(a, made), n, team) =
           TotalOf(a, n, team) + IF made.by_team = team THEN points(made.player_id) ELSE 0
<1> DEFINE b == Append(a, made)
           e == Len(a) + 1
           S == CountedPicks(a, n, team)
           f == PointsOf(a)
           g == PointsOf(b)
<1>1. /\ Len(a) \in Nat /\ Len(b) = e /\ DOMAIN a = 1 .. Len(a) /\ DOMAIN b = 1 .. e
      /\ b[e] = made /\ \A i \in 1 .. Len(a) : b[i] = a[i]
  <2>1. Len(b) = e /\ \A i \in 1 .. Len(a) : b[i] = a[i]
    BY AppendFacts
  <2>2. b[e] = made
    BY AppendFacts
  <2> QED
    BY <2>1, <2>2
<1>2. IsFiniteSet(S) /\ S \in SUBSET (n + 1 .. Len(a))
  BY <1>1, CountedPicksAreFinite, Zenon
<1>3. /\ n + 1 .. Len(a) \subseteq 1 .. Len(a) /\ 1 .. Len(a) \subseteq 1 .. e
      /\ n + 1 .. e = (n + 1 .. Len(a)) \cup {e}
      /\ e \notin n + 1 .. Len(a) /\ e \in 1 .. e
  BY <1>1
<1> HIDE DEF b, e
<1>4. \A i \in S : f[i] = points(a[i].player_id) /\ g[i] = f[i] /\ f[i] \in Nat
  BY <1>1, <1>2, <1>3, Zenon DEF PointsOf
<1>5. g[e] = points(made.player_id)
  BY <1>1, <1>3, Zenon DEF PointsOf
<1>6. SumOver(S, g) = SumOver(S, f)
  <2> HIDE DEF S, f, g
  <2> QED
    BY <1>2, <1>4, SumSame, Zenon
<1>7. SumOver(S, f) \in Nat
  <2> HIDE DEF S, f, g
  <2> QED
    BY <1>2, <1>4, SumType, Zenon
<1>8. CASE made.by_team = team
  <2>1. CountedPicks(b, n, team) = S \cup {e}
    BY <1>1, <1>3, <1>8, Zenon DEF CountedPicks
  <2>2. e \notin S /\ \A x \in S \cup {e} : g[x] \in Nat
    BY <1>2, <1>3, <1>4, <1>5, Zenon
  <2>3. SumOver(S \cup {e}, g) = g[e] + SumOver(S, g)
    <3> HIDE DEF S, g
    <3> QED
      BY <1>2, <2>2, SumWith, Zenon
  <2>4. TotalOf(b, n, team) = points(made.player_id) + SumOver(S, f)
    BY <1>5, <1>6, <2>1, <2>3, Zenon DEF TotalOf
  <2>5. points(made.player_id) + SumOver(S, f) = SumOver(S, f) + points(made.player_id)
    <3> HIDE DEF S, f
    <3> QED
      BY <1>7
  <2> QED
    BY <1>8, <2>4, <2>5, Zenon DEF TotalOf, b
<1>9. CASE made.by_team # team
  <2>1. CountedPicks(b, n, team) = S
    BY <1>1, <1>3, <1>9, Zenon DEF CountedPicks
  <2>2. TotalOf(b, n, team) = SumOver(S, f)
    BY <1>6, <2>1, Zenon DEF TotalOf
  <2>3. SumOver(S, f) = SumOver(S, f) + 0
    <3> HIDE DEF S, f
    <3> QED
      BY <1>7
  <2> QED
    BY <1>9, <2>2, <2>3, Zenon DEF TotalOf, b
<1> QED
  BY <1>8, <1>9

(* The invariant of the rollouts, whose context is a record.               *)
SimOf(a, requirements, scores, total) ==
  [taken |-> a, requirements |-> requirements, scores |-> scores, total |-> total]

Counts(a, scores) ==
  /\ \E T : a \in Seq(T)
  /\ Len(taken) <= Len(a)
  /\ \A i \in Len(taken) + 1 .. Len(a) : a[i].player_id \in Ids
  /\ scores \in [Teams(config) -> Nat]
  /\ \A team \in Teams(config) : scores[team] = TotalOf(a, Len(taken), team)

RolloutInv ==
  phase = "rollout" =>
    \E a, requirements, scores, total :
      sim = SimOf(a, requirements, scores, total) /\ Counts(a, scores)

(* Scores keep counting while the pool stays.                              *)
LEMMA CountsStay ==
  ASSUME Calling, NEW a, NEW scores, Counts(a, scores)
  PROVE  Counts(a, scores)'
<1>1. PICK n : n = Len(taken)
  OBVIOUS
<1>2. \A id : points(id)' = points(id)
  BY Zenon DEF Calling, points
<1>3. PointsOf(a)' = PointsOf(a)
  BY <1>2, Zenon DEF PointsOf
<1>4. \A team : TotalOf(a, n, team)' = TotalOf(a, n, team)
  BY <1>3, Zenon DEF TotalOf
<1>5. Ids' = Ids /\ Teams(config)' = Teams(config) /\ UNCHANGED taken
  BY Zenon DEF Calling, Ids, number_of_players, Teams
<1> QED
  BY <1>1, <1>4, <1>5, Zenon DEF Counts

(* The rollout from a node begins with the points along its branch.        *)
LEMMA BranchCounts ==
  ASSUME CallInv, TreeInv, PoolTypeOK, NEW node \in DOMAIN tree
  PROVE  Counts(Branch(node), BranchPoints(node, Len(Branch(node)) - 1))
<1> DEFINE n == Len(taken)
           m == Len(node)
           b == Branch(node)
           last == Len(b) - 1
           Mine(team) == { k \in 1 .. m : order[last - (m - k)] = team }
           F(team) == [k \in Mine(team) |-> points(BranchPick(node, k))]
<1>1. node \in Seq(Nat) /\ \A k \in 0 .. m : SubSeq(node, 1, k) \in DOMAIN tree
  BY Zenon DEF TreeInv, IsTree
<1>2. PICK S : taken \in Seq(S)
  BY Zenon DEF CallInv
<1>3. n \in Nat /\ m \in Nat /\ DOMAIN node = 1 .. m
  <2>1. n \in Nat
    BY <1>2
  <2> QED
    BY <1>1, <2>1, PathFacts, Zenon
<1>4. (\E T : b \in Seq(T)) /\ Len(b) = n + m /\ Len(b) \in Nat
  BY <1>1, BranchLength, Zenon
<1>5. \A k \in 1 .. m : b[n + k] = PickAt(order, taken, tree, node, k)
  <2>1. PICK t, o, u : t = taken /\ o = order /\ u = tree
    BY Zenon
  <2> DEFINE p == [k \in 1 .. m |-> PickAt(o, t, u, node, k)]
             T == S \cup { PickAt(o, t, u, node, k) : k \in 1 .. m }
  <2>2. b = t \o p
    BY <1>3, <2>1, BranchIsBranch, Zenon DEF BranchOf
  <2>3. p \in [1 .. m -> T] /\ S \subseteq T
    BY Zenon
  <2>4. \A k \in 1 .. m : p[k] = PickAt(o, t, u, node, k)
    BY Zenon
  <2>5. Len(t) = n /\ t \in Seq(S)
    BY <1>2, <2>1, Zenon
  <2>6. \A k \in 1 .. m : (t \o p)[n + k] = p[k]
    <3> HIDE DEF p, T, m, n
    <3> QED
      BY <1>3, <2>3, <2>5
  <2> HIDE DEF p, b
  <2> QED
    BY <2>1, <2>2, <2>4, <2>6, Zenon
<1>6. ASSUME NEW k \in 1 .. m
      PROVE  /\ b[n + k].player_id = BranchPick(node, k)
             /\ b[n + k].by_team = order[last - (m - k)]
             /\ BranchPick(node, k) \in Ids
  <2>1. PICK q : q = b[n + k]
    OBVIOUS
  <2>2. q = [player_id |-> BranchPick(node, k), by_team |-> order[n + k - 1]]
    BY <1>5, <2>1, Zenon DEF PickAt, BranchPick
  <2>3. q.player_id = BranchPick(node, k) /\ q.by_team = order[n + k - 1]
    BY <2>2
  <2>4. last - (m - k) = n + k - 1 /\ k \in 0 .. m /\ k # 0
    <3> HIDE DEF b, m, n
    <3> QED
      BY <1>3, <1>4
  <2>5. SubSeq(node, 1, k) # <<>>
    <3>1. SubSeq(node, 1, k) \in Seq(Nat) /\ Len(SubSeq(node, 1, k)) = k
      BY <1>1, <2>4, PrefixIsPath, Zenon
    <3> QED
      BY <2>4, <3>1, PathFacts, Zenon
  <2>6. BranchPick(node, k) \in Ids
    BY <1>1, <2>4, <2>5, Zenon DEF TreeInv, NodesArePicks, BranchPick
  <2> QED
    BY <2>1, <2>3, <2>4, <2>6, Zenon
<1>7. \A i \in n + 1 .. Len(b) : \E k \in 1 .. m : i = n + k
  <2>1. ASSUME NEW i \in n + 1 .. Len(b) PROVE i - n \in 1 .. m /\ i = n + (i - n)
    <3> HIDE DEF b, m, n
    <3> QED
      BY <1>3, <1>4
  <2> QED
    BY <2>1, Zenon
<1>8. \A k \in 1 .. m : n + k \in n + 1 .. Len(b) /\ n + k \in DOMAIN b
  <2>1. DOMAIN b = 1 .. Len(b)
    <3> HIDE DEF b
    <3> QED
      BY <1>4
  <2> HIDE DEF b, m, n
  <2> QED
    BY <1>3, <1>4, <2>1
<1>9. ASSUME NEW team
      PROVE  /\ IsFiniteSet(Mine(team))
             /\ \A k \in Mine(team) : F(team)[k] \in Nat
             /\ SumOver(Mine(team), F(team)) \in Nat
             /\ TotalOf(b, n, team) = SumOver(Mine(team), F(team))
  <2>1. IsFiniteSet(Mine(team))
    <3>1. 1 \in Int /\ m \in Int
      BY <1>3
    <3>2. IsFiniteSet(1 .. m)
      BY <3>1, FS_Interval, Zenon
    <3> QED
      BY <3>2, FS_Subset, Zenon
  <2>2. \A k \in Mine(team) : F(team)[k] \in Nat
    BY <1>6, PointsType, Zenon
  <2>3. SumOver(Mine(team), F(team)) \in Nat
    <3> PICK M, f : M = Mine(team) /\ f = F(team)
      BY Zenon
    <3> QED
      BY <2>1, <2>2, SumType, Zenon
  <2> DEFINE place == [k \in 1 .. m |-> n + k]
             M == Mine(team)
             f == F(team)
             g == PointsOf(b)
  <2>4. { place[k] : k \in M } = CountedPicks(b, n, team)
    <3>1. ASSUME NEW k \in M PROVE place[k] \in CountedPicks(b, n, team)
      BY <1>6, <1>8, Zenon DEF CountedPicks
    <3>2. ASSUME NEW i \in CountedPicks(b, n, team) PROVE \E k \in M : i = place[k]
      <4>1. i \in n + 1 .. Len(b) /\ b[i].by_team = team
        BY Zenon DEF CountedPicks
      <4>2. PICK k \in 1 .. m : i = n + k
        BY <1>7, <4>1, Zenon
      <4>3. k \in M
        BY <1>6, <4>1, <4>2, Zenon
      <4> QED
        BY <4>2, <4>3, Zenon
    <3> HIDE DEF M, place
    <3> QED
      BY <3>1, <3>2, Zenon
  <2>5. \A x, y \in M : place[x] = place[y] => x = y
    <3>1. \A x, y \in 1 .. m : n + x = n + y => x = y
      BY <1>3
    <3> QED
      BY <3>1, Zenon
  <2>6. \A k \in M : f[k] \in Nat /\ f[k] = g[place[k]]
    <3>1. ASSUME NEW k \in M PROVE f[k] = g[place[k]]
      <4>1. g[place[k]] = points(b[n + k].player_id)
        BY <1>8, Zenon DEF PointsOf
      <4>2. f[k] = points(BranchPick(node, k))
        BY Zenon
      <4> QED
        BY <1>6, <4>1, <4>2, Zenon
    <3> QED
      BY <2>2, <3>1, Zenon
  <2>7. SumOver({ place[k] : k \in M }, g) = SumOver(M, f)
    <3>1. PICK K, p, u, v : K = M /\ p = place /\ u = f /\ v = g
      BY Zenon
    <3>2. IsFiniteSet(K)
      BY <2>1, <3>1, Zenon
    <3>3. \A x, y \in K : p[x] = p[y] => x = y
      BY <2>5, <3>1, Zenon
    <3>4. \A k \in K : u[k] \in Nat /\ u[k] = v[p[k]]
      BY <2>6, <3>1, Zenon
    <3>5. SameSum(K, p, u, v)
      BY <3>2, <3>3, <3>4, SumRenamed, Zenon
    <3> HIDE DEF M, f, g, place
    <3> QED
      BY <3>1, <3>5, Zenon DEF SameSum
  <2> QED
    BY <2>1, <2>2, <2>3, <2>4, <2>7, Zenon DEF TotalOf
<1>10. PICK scores : scores = BranchPoints(node, last)
  OBVIOUS
<1>11. scores = [t \in Teams(config) |-> SumOver(Mine(t), F(t))]
  <2>1. scores = [t \in Teams(config) |->
                   MapThenSumSet(LAMBDA k : points(tree[SubSeq(node, 1, k)].player), Mine(t))]
    BY <1>10, Zenon DEF BranchPoints
  <2>2. ASSUME NEW t
        PROVE  MapThenSumSet(LAMBDA k : points(tree[SubSeq(node, 1, k)].player), Mine(t))
                 = SumOver(Mine(t), F(t))
    <3>1. IsFiniteSet(Mine(t))
      BY <1>9, Zenon
    <3> HIDE DEF Mine
    <3> QED
      BY <3>1, BranchPointsAreSum, Zenon
  <2> QED
    BY <2>1, <2>2, Zenon
<1>12. \A t \in Teams(config) : scores[t] = SumOver(Mine(t), F(t))
  BY <1>11, Zenon
<1>13. scores \in [Teams(config) -> Nat]
  <2>1. \A t \in Teams(config) : SumOver(Mine(t), F(t)) \in Nat
    BY <1>9, Zenon
  <2> HIDE DEF Mine, F
  <2> QED
    BY <1>11, <2>1, Zenon
<1>14. \A t \in Teams(config) : scores[t] = TotalOf(b, n, t)
  BY <1>9, <1>12, Zenon
<1>15. n <= Len(b)
  <2> HIDE DEF b, m, n
  <2> QED
    BY <1>3, <1>4
<1>16. \A i \in n + 1 .. Len(b) : b[i].player_id \in Ids
  BY <1>6, <1>7, Zenon
<1> QED
  BY <1>4, <1>10, <1>13, <1>14, <1>15, <1>16, Zenon DEF Counts

(* The scores a rollout starts with are those of its branch.               *)
LEMMA VisitLeafCounts ==
  ASSUME SearchInv, PoolTypeOK, VisitLeaf
  PROVE  RolloutInv'
<1>1. Calling /\ TimeLeft /\ sim' = simulate_score(context.node)
  BY Zenon DEF VisitLeaf, draftVars, poolVars, Calling
<1>2. phase = "loop" /\ context.node # NoNode
  BY <1>1, Zenon DEF TimeLeft
<1>3. phase # "draft" /\ Searching
  BY <1>2 DEF Searching
<1>4. CallInv /\ TreeInv /\ ContextInv
  BY <1>3, Zenon DEF SearchInv
<1>5. PICK node : node = context.node
  OBVIOUS
<1>6. node \in DOMAIN tree /\ context = ContextAt(node) /\ node \in Seq(Nat)
  BY <1>2, <1>4, <1>5, Zenon DEF ContextInv, TreeInv, IsTree
<1>7. PICK c, b, r : /\ c = WithPickOf(context, node)
                     /\ b = Branch(node) /\ r = create_search_context(config, b)
  BY Zenon
<1>8. c.taken = b /\ c.requirements = r
  <2>1. c = [node |-> node, taken |-> b, requirements |-> r]
    BY <1>4, <1>6, <1>7, WithItsPick, Zenon DEF ContextOf
  <2> QED
    BY <2>1
<1>9. PICK scores : scores = BranchPoints(node, Len(b) - 1)
  OBVIOUS
<1>10. sim' = SimOf(b, r, scores, 0)
  BY <1>1, <1>5, <1>7, <1>8, <1>9, Zenon DEF simulate_score, SimOf
<1>11. Counts(b, scores)'
  <2>1. Counts(b, scores)
    BY <1>4, <1>6, <1>7, <1>9, BranchCounts, Zenon
  <2> QED
    BY <1>1, <2>1, CountsStay, Zenon
<1>12. SimOf(b, r, scores, 0)' = SimOf(b, r, scores, 0)
  BY Zenon DEF SimOf
<1> QED
  BY <1>10, <1>11, <1>12, Zenon DEF RolloutInv

(* What a pick of the rollout makes of its context.                        *)
Became(c, id, a, requirements, scores, total) ==
  [make_pick(c, id) EXCEPT !.scores[OnTheClock(c)] = @ + points(id),
                           !.total = @ + points(id)]
    = SimOf(a, requirements, scores, total)

PickBy(id, team) == [player_id |-> id, by_team |-> team]

(* The fields of the simulation after a pick, one by one.                  *)
LEMMA SimAfterPick ==
  ASSUME NEW a, NEW requirements, NEW scores, NEW total, NEW id,
         sim = SimOf(a, requirements, scores, total)
  PROVE  Became(sim, id, Append(a, PickBy(id, order[Len(a)])),
                charge(config, requirements, PickBy(id, order[Len(a)])),
                [scores EXCEPT ![order[Len(a)]] = @ + points(id)], total + points(id))
<1>1. PICK team, x, w, pts : /\ team = order[Len(a)]
                             /\ x = Append(a, [player_id |-> id, by_team |-> team])
                             /\ pts = points(id)
                             /\ w = [scores EXCEPT ![team] = @ + pts]
  BY Zenon
<1>2. sim.taken = a /\ sim.requirements = requirements
  BY DEF SimOf
<1>3. PICK y : y = [requirements EXCEPT ![team] =
                     fill_slot(config, @, get_player_by_id(id).position)]
  OBVIOUS
<1>4. make_pick(sim, id) = SimOf(x, y, scores, total)
  <2>1. make_pick(sim, id) =
          [sim EXCEPT !.taken = Append(@, [player_id |-> id, by_team |-> team]),
                      !.requirements[team] =
                        fill_slot(config, @, get_player_by_id(id).position)]
    BY <1>1, <1>2, Zenon DEF make_pick
  <2>2. PICK j : j = [sim EXCEPT !.taken = x]
    OBVIOUS
  <2>3. j = SimOf(x, requirements, scores, total)
    BY <2>2 DEF SimOf
  <2>4. j.requirements = requirements
    BY <2>3 DEF SimOf
  <2>5. [j EXCEPT !.requirements = y] = SimOf(x, y, scores, total)
    BY <2>3 DEF SimOf
  <2>6. make_pick(sim, id) = [j EXCEPT !.requirements = y]
    BY <1>1, <1>2, <1>3, <2>1, <2>2, <2>4, Zenon
  <2> QED
    BY <2>5, <2>6, Zenon
<1>5. PICK k : k = make_pick(sim, id)
  OBVIOUS
<1>6. k = SimOf(x, y, scores, total) /\ k.scores = scores /\ k.total = total
  <2>1. k = SimOf(x, y, scores, total)
    BY <1>4, <1>5, Zenon
  <2> QED
    BY <2>1 DEF SimOf
<1>7. PICK l : l = [k EXCEPT !.scores = w]
  OBVIOUS
<1>8. l = SimOf(x, y, w, total) /\ l.total = total
  <2>1. l = SimOf(x, y, w, total)
    BY <1>6, <1>7 DEF SimOf
  <2> QED
    BY <2>1 DEF SimOf
<1>9. [l EXCEPT !.total = total + pts] = SimOf(x, y, w, total + pts)
  BY <1>8 DEF SimOf
<1>10. [k EXCEPT !.scores[team] = @ + pts, !.total = @ + pts]
         = [l EXCEPT !.total = total + pts]
  BY <1>1, <1>6, <1>7, <1>8, Zenon
<1>11. OnTheClock(sim) = team
  BY <1>1, <1>2, Zenon DEF OnTheClock
<1>12. [make_pick(sim, id) EXCEPT !.scores[OnTheClock(sim)] = @ + points(id),
                                  !.total = @ + points(id)]
         = SimOf(x, y, w, total + pts)
  BY <1>1, <1>5, <1>9, <1>10, <1>11, Zenon
<1>13. Became(sim, id, x, y, w, total + pts)
  BY <1>12, Zenon DEF Became
<1>14. PICK made : made = PickBy(id, team)
  OBVIOUS
<1>15. made.player_id = id /\ made.by_team = team
  BY <1>14 DEF PickBy
<1>16. x = Append(a, made) /\ y = charge(config, requirements, made)
  BY <1>1, <1>3, <1>14, <1>15, Zenon DEF charge, PickBy
<1> QED
  BY <1>1, <1>13, <1>14, <1>16, Zenon

(* A pick adds its points to the team that makes it.                       *)
LEMMA PickCounts ==
  ASSUME CallInv, PoolTypeOK, NEW a, NEW scores, Counts(a, scores), NEW id \in Ids, NEW team
  PROVE  Counts(Append(a, [player_id |-> id, by_team |-> team]),
                [scores EXCEPT ![team] = @ + points(id)])
<1>1. PICK made, b, w, n : /\ made = [player_id |-> id, by_team |-> team]
                           /\ b = Append(a, made)
                           /\ w = [scores EXCEPT ![team] = @ + points(id)]
                           /\ n = Len(taken)
  BY Zenon
<1>2. made.player_id = id /\ made.by_team = team
  BY <1>1
<1>3. PICK T : a \in Seq(T)
  BY Zenon DEF Counts
<1>4. /\ n <= Len(a)
      /\ \A i \in n + 1 .. Len(a) : a[i].player_id \in Ids
      /\ scores \in [Teams(config) -> Nat]
      /\ \A t \in Teams(config) : scores[t] = TotalOf(a, n, t)
  BY <1>1, Zenon DEF Counts
<1>5. n \in Nat /\ Len(a) \in Nat
  <2>1. PICK S : taken \in Seq(S)
    BY Zenon DEF CallInv
  <2> QED
    BY <1>1, <1>3, <2>1
<1>6. /\ Len(b) = Len(a) + 1
      /\ \A i \in 1 .. Len(a) : b[i] = a[i]
      /\ b[Len(a) + 1] = made
  BY <1>1, <1>3, AppendFacts
<1>7. \E U : b \in Seq(U)
  <2> DEFINE U == T \cup {made}
  <2>1. a \in Seq(U) /\ made \in U
    BY <1>3
  <2> HIDE DEF U
  <2>2. Append(a, made) \in Seq(U)
    BY <2>1
  <2> QED
    BY <1>1, <2>2, Zenon
<1>8. n <= Len(b)
  BY <1>4, <1>5, <1>6
<1>9. ASSUME NEW i \in n + 1 .. Len(b) PROVE b[i].player_id \in Ids
  <2>1. (i \in 1 .. Len(a) /\ i \in n + 1 .. Len(a)) \/ i = Len(a) + 1
    BY <1>5, <1>6
  <2> QED
    BY <1>2, <1>4, <1>6, <2>1, Zenon
<1>10. points(id) \in Nat
  BY PointsType, Zenon
<1>11. w \in [Teams(config) -> Nat]
  <2> PICK pts : pts = points(id)
    OBVIOUS
  <2>1. CASE team \in Teams(config)
    <3>1. scores[team] + pts \in Nat
      BY <1>4, <1>10, <2>1
    <3> QED
      BY <1>1, <1>4, <3>1, Zenon
  <2>2. CASE team \notin Teams(config)
    BY <1>1, <1>4, <2>2, Zenon
  <2> QED
    BY <2>1, <2>2
<1>12. ASSUME NEW t \in Teams(config) PROVE w[t] = TotalOf(b, n, t)
  <2>1. \A i \in n + 1 .. Len(a) : points(a[i].player_id) \in Nat
    BY <1>4, PointsType, Zenon
  <2>2. TotalOf(b, n, t) = TotalOf(a, n, t) + IF team = t THEN points(id) ELSE 0
    <3>1. TotalOf(Append(a, made), n, t)
            = TotalOf(a, n, t) + IF made.by_team = t THEN points(made.player_id) ELSE 0
      BY <1>2, <1>3, <1>4, <1>5, <1>10, <2>1, TotalAfterPick
    <3> QED
      BY <1>1, <1>2, <3>1, Zenon
  <2>3. scores[t] \in Nat /\ scores[t] = TotalOf(a, n, t)
    BY <1>4, Zenon
  <2>4. CASE team = t
    <3>1. w[t] = scores[t] + points(id)
      BY <1>1, <1>4, <2>4, Zenon
    <3> QED
      BY <2>2, <2>3, <2>4, <3>1, Zenon
  <2>5. CASE team # t
    <3>1. w[t] = scores[t]
      BY <1>1, <1>4, <2>5, Zenon
    <3>2. scores[t] + 0 = scores[t]
      BY <2>3
    <3> QED
      BY <2>2, <2>3, <2>5, <3>1, <3>2, Zenon
  <2> QED
    BY <2>4, <2>5
<1> QED
  BY <1>1, <1>7, <1>8, <1>9, <1>11, <1>12, Zenon DEF Counts

(* The context c is that of a rollout with the picks a and one more.       *)
Picked(id, a, scores, c) ==
  \E r, total :
    c = SimOf(Append(a, [player_id |-> id, by_team |-> order[Len(a)]]), r,
              [scores EXCEPT ![order[Len(a)]] = @ + points(id)], total)

(* What a step of the rollout does to its picks and scores.                *)
LEMMA RolloutPicks ==
  ASSUME SearchInv, PoolTypeOK, RolloutInv, RolloutPick
  PROVE  \E a, scores : \E id \in Ids :
           /\ \E requirements, total : sim = SimOf(a, requirements, scores, total)
           /\ Counts(a, scores)
           /\ Picked(id, a, scores, sim')
<1>1. phase = "rollout" /\ CallInv
  BY Zenon DEF RolloutPick, SearchInv
<1>2. PICK a, requirements, scores, total :
        sim = SimOf(a, requirements, scores, total) /\ Counts(a, scores)
  BY <1>1, Zenon DEF RolloutInv
<1>3. PICK id \in sim_pick_for_team(sim) :
        sim' = [make_pick(sim, id) EXCEPT !.scores[OnTheClock(sim)] = @ + points(id),
                                          !.total = @ + points(id)]
  BY Zenon DEF RolloutPick
<1>4. id \in Ids
  <2>1. PICK k, row, ids : /\ k = config /\ ids = IdsOf(sim.taken)
                           /\ row = sim.requirements[OnTheClock(sim)]
    BY Zenon
  <2>2. PICK s \in RootChildren(k, row, ids) : id = whos_highest_projected(k, s, ids)
    BY <2>1, Zenon DEF sim_pick_for_team, BestPicks
  <2>3. s \in Slots(k) /\ whos_highest_projected(k, s, ids) # NoPlayer
    BY Zenon DEF RootChildren
  <2>4. ~FlexFaults(k, s, ids)
    BY <2>1, <2>3, Zenon DEF RolloutPick, sim_pick_Faults
  <2>5. DOMAIN k.flex[s] \subseteq Nat
    BY <1>1, <2>1, <2>3, Zenon DEF CallInv, WellShaped
  <2>6. whos_highest_projected(k, s, ids) \in Ids \ ids
    BY <2>3, <2>4, <2>5, HighestProjectedIsFree, Zenon
  <2> QED
    BY <2>2, <2>6, Zenon
<1>5. Became(sim, id, Append(a, PickBy(id, order[Len(a)])),
             charge(config, requirements, PickBy(id, order[Len(a)])),
             [scores EXCEPT ![order[Len(a)]] = @ + points(id)], total + points(id))
  BY <1>2, SimAfterPick, Zenon
<1>6. Picked(id, a, scores, sim')
  BY <1>3, <1>5, Zenon DEF Became, Picked, PickBy
<1> QED
  BY <1>2, <1>4, <1>6, Zenon

(* So the scores count the picks after it.                                 *)
LEMMA RolloutPickCounts ==
  ASSUME SearchInv, PoolTypeOK, RolloutInv, RolloutPick
  PROVE  RolloutInv'
<1>1. Calling /\ CallInv
  BY Zenon DEF RolloutPick, draftVars, poolVars, Calling, SearchInv
<1>2. PICK a, scores : \E id \in Ids : Counts(a, scores) /\ Picked(id, a, scores, sim')
  BY RolloutPicks, Zenon
<1>3. PICK id \in Ids : Counts(a, scores) /\ Picked(id, a, scores, sim')
  BY <1>2
<1>4. PICK b, w : /\ b = Append(a, [player_id |-> id, by_team |-> order[Len(a)]])
                  /\ w = [scores EXCEPT ![order[Len(a)]] = @ + points(id)]
  BY Zenon
<1>5. PICK r, x : sim' = SimOf(b, r, w, x)
  BY <1>3, <1>4, Zenon DEF Picked
<1>6. Counts(b, w)'
  <2>1. Counts(b, w)
    BY <1>1, <1>3, <1>4, PickCounts, Zenon
  <2> QED
    BY <1>1, <2>1, CountsStay, Zenon
<1>7. SimOf(b, r, w, x)' = SimOf(b, r, w, x)
  BY Zenon DEF SimOf
<1> QED
  BY <1>5, <1>6, <1>7, Zenon DEF RolloutInv

(* Every step keeps the scores of the rollout counting its picks.          *)
LEMMA RolloutInvStep ==
  SearchInv /\ PoolTypeOK /\ RolloutInv /\ [SearchNext]_searchVars => RolloutInv'
<1>1. ASSUME RolloutInv, Calling, UNCHANGED <<phase, sim>> PROVE RolloutInv'
  <2>1. SUFFICES ASSUME phase = "rollout" PROVE RolloutInv'
    BY <1>1, Zenon DEF RolloutInv
  <2>2. PICK a, requirements, scores, total :
          sim = SimOf(a, requirements, scores, total) /\ Counts(a, scores)
    BY <1>1, <2>1, Zenon DEF RolloutInv
  <2>3. Counts(a, scores)'
    BY <1>1, <2>2, CountsStay, Zenon
  <2>4. SimOf(a, requirements, scores, total)' = SimOf(a, requirements, scores, total)
    BY Zenon DEF SimOf
  <2> QED
    BY <1>1, <2>2, <2>3, <2>4, Zenon DEF RolloutInv
<1>2. ASSUME phase' # "rollout" PROVE RolloutInv'
  BY <1>2, Zenon DEF RolloutInv
<1>3. ASSUME Prepare PROVE phase' # "rollout"
  <2>1. phase' = "draft"
    BY <1>3, PrepareIs, Zenon
  <2> QED
    BY <2>1
<1>4. ASSUME VisitRoot \/ VisitInner \/ RolloutEnds \/ SearchAborts \/ SearchReturns
      PROVE  phase' # "rollout"
  <2>1. phase' \in {"loop", "aborted", "returned"}
    BY <1>4, Zenon DEF VisitRoot, VisitInner, RolloutEnds, SearchAborts, SearchReturns, TimeLeft
  <2> QED
    BY <2>1
<1>5. ASSUME NEW t \in ThinkTimes, calculate_best_pick_Called(t) PROVE phase' # "rollout"
  <2>1. phase' = "loop"
    BY <1>5, Zenon DEF calculate_best_pick_Called
  <2> QED
    BY <2>1
<1>6. ASSUME RolloutInv, Tick \/ UNCHANGED searchVars PROVE RolloutInv'
  <2>1. Calling /\ UNCHANGED <<phase, sim>>
    BY <1>6, Zenon DEF Tick, searchVars, draftVars, poolVars, Calling
  <2> QED
    BY <1>1, <1>6, <2>1, Zenon
<1> QED
  BY <1>2, <1>3, <1>4, <1>5, <1>6, VisitLeafCounts, RolloutPickCounts,
     Zenon DEF SearchNext, SearchStep

(* The invariant of the rollout.                                           *)
LEMMA RolloutInvariant == SearchSpec => []RolloutInv
<1>1. SearchInit => RolloutInv
  <2>1. SearchInit => phase = "draft"
    BY Zenon DEF SearchInit
  <2>2. phase = "draft" => phase # "rollout"
    OBVIOUS
  <2> QED
    BY <2>1, <2>2, Zenon DEF RolloutInv
<1> QED
  BY <1>1, SearchInvariant, SearchPoolType, RolloutInvStep, PTL DEF SearchSpec

(* The points a rollout counts for a team are those of the players that    *)
(* the branch and the rollout give it: the walk of simulate_score up the   *)
(* branch and its walk down the rest of the draft miss no pick and count   *)
(* none twice.                                                             *)
THEOREM RolloutsCountEveryPick == SearchSpec => []RolloutCountsEveryPick
<1>1. SearchInv /\ RolloutInv => RolloutCountsEveryPick
  <2>1. SUFFICES ASSUME SearchInv, RolloutInv, phase = "rollout", NEW t \in Teams(config)
                 PROVE  sim.scores[t] =
                          MapThenSumSet(LAMBDA i : points(sim.taken[i].player_id),
                                        { i \in Len(taken) + 1 .. Len(sim.taken) :
                                            sim.taken[i].by_team = t })
    BY Zenon DEF RolloutCountsEveryPick
  <2>2. PICK a, requirements, scores, total :
          sim = SimOf(a, requirements, scores, total) /\ Counts(a, scores)
    BY <2>1, Zenon DEF RolloutInv
  <2>3. sim.taken = a /\ sim.scores = scores
    BY <2>2 DEF SimOf
  <2>4. PICK n : n = Len(taken)
    OBVIOUS
  <2>5. Len(a) \in Nat /\ DOMAIN a = 1 .. Len(a) /\ n \in Nat
    <3>1. PICK T : a \in Seq(T)
      BY <2>2, Zenon DEF Counts
    <3>2. PICK S : taken \in Seq(S)
      BY <2>1, Zenon DEF SearchInv, CallInv
    <3> QED
      BY <2>4, <3>1, <3>2
  <2>6. PICK K : K = CountedPicks(a, n, t)
    OBVIOUS
  <2>7. IsFiniteSet(K) /\ K \in SUBSET DOMAIN a
    <3>1. n + 1 .. Len(a) \subseteq 1 .. Len(a)
      BY <2>5
    <3> QED
      BY <2>5, <2>6, <3>1, CountedPicksAreFinite, Zenon
  <2>8. K = { i \in Len(taken) + 1 .. Len(sim.taken) : sim.taken[i].by_team = t }
    BY <2>3, <2>4, <2>6, Zenon DEF CountedPicks
  <2>9. scores[t] = SumOver(K, PointsOf(a))
    BY <2>2, <2>4, <2>6, Zenon DEF Counts, TotalOf
  <2>10. MapThenSumSet(LAMBDA i : points(sim.taken[i].player_id), K) = SumOver(K, PointsOf(a))
    BY <2>3, <2>7, RolloutPointsAreSum, Zenon
  <2> QED
    BY <2>3, <2>8, <2>9, <2>10, Zenon
<1> QED
  BY <1>1, SearchInvariant, RolloutInvariant, PTL

-----------------------------------------------------------------------------
(* Classes of scores.                                                      *)

(* A sum is NaN only if a term is.                                         *)
LEMMA PlusKeeps ==
  ASSUME NEW a, NEW b, a # "nan", b # "nan"
  PROVE  Plus(a, b) # "nan"
  BY DEF Plus

(* A score and a positive term make a positive sum.                        *)
LEMMA PlusPositive ==
  ASSUME NEW a, a # "nan"
  PROVE  Plus(a, "positive") \in {"positive", "infinite"}
  BY DEF Plus

(* A score times a count is NaN only for an infinity and none.             *)
LEMMA TimesKeeps ==
  ASSUME NEW n \in Int, NEW a, a # "nan", n > 0 \/ a = "zero"
  PROVE  Times(n, a) # "nan"
  BY DEF Times

(* A positive part of a total is no NaN.                                   *)
LEMMA PartIsScore ==
  ASSUME NEW part \in Nat, part > 0, NEW total
  PROVE  ClassOfQuotient(part, total) # "nan"
<1>1. part # 0
  OBVIOUS
<1> QED
  BY <1>1, Zenon DEF ClassOfQuotient

(* FoldSet adds up a set of classes by a recursive function.  One there is, *)
(* for the sum of classes is their greatest, whatever the order.           *)
ClassSum(S, g) ==
  g = [s \in SUBSET S |-> IF s = {} THEN "zero" ELSE Plus(AnyOf(s), g[s \ {AnyOf(s)}])]

GreatestClass(s) ==
  IF "nan" \in s THEN "nan"
  ELSE IF "infinite" \in s THEN "infinite"
  ELSE IF "positive" \in s THEN "positive"
  ELSE "zero"

(* The greatest class of a set is the sum over it.                         *)
LEMMA GreatestClassAdds ==
  ASSUME NEW s, NEW x \in s
  PROVE  GreatestClass(s) = Plus(x, GreatestClass(s \ {x}))
<1> DEFINE r == s \ {x}
<1>1. CASE "nan" \in s
  <2>1. GreatestClass(s) = "nan"
    BY <1>1 DEF GreatestClass
  <2>2. x = "nan" \/ GreatestClass(r) = "nan"
    BY <1>1 DEF GreatestClass
  <2> QED
    BY <2>1, <2>2 DEF Plus
<1>2. CASE "nan" \notin s /\ "infinite" \in s
  <2>1. GreatestClass(s) = "infinite"
    BY <1>2 DEF GreatestClass
  <2>2. x # "nan" /\ GreatestClass(r) # "nan" /\ (x = "infinite" \/ GreatestClass(r) = "infinite")
    BY <1>2 DEF GreatestClass
  <2> QED
    BY <2>1, <2>2 DEF Plus
<1>3. CASE "nan" \notin s /\ "infinite" \notin s /\ "positive" \in s
  <2>1. GreatestClass(s) = "positive"
    BY <1>3 DEF GreatestClass
  <2>2. /\ x # "nan" /\ x # "infinite"
        /\ GreatestClass(r) # "nan" /\ GreatestClass(r) # "infinite"
        /\ (x = "positive" \/ GreatestClass(r) = "positive")
    BY <1>3 DEF GreatestClass
  <2> QED
    BY <2>1, <2>2 DEF Plus
<1>4. CASE "nan" \notin s /\ "infinite" \notin s /\ "positive" \notin s
  <2>1. GreatestClass(s) = "zero" /\ GreatestClass(r) = "zero"
    BY <1>4 DEF GreatestClass
  <2>2. x # "nan" /\ x # "infinite" /\ x # "positive"
    BY <1>4
  <2> QED
    BY <2>1, <2>2 DEF Plus
<1> QED
  BY <1>1, <1>2, <1>3, <1>4, Zenon

(* There is a recursive function that adds up a set of classes.            *)
LEMMA ClassSumExists ==
  ASSUME NEW S
  PROVE  \E g : ClassSum(S, g)
<1> DEFINE g == [s \in SUBSET S |-> GreatestClass(s)]
<1>1. \A s \in SUBSET S :
        g[s] = IF s = {} THEN "zero" ELSE Plus(AnyOf(s), g[s \ {AnyOf(s)}])
  <2> TAKE s \in SUBSET S
  <2>1. g[s] = GreatestClass(s)
    BY Zenon
  <2>2. (s \ {AnyOf(s)}) \in SUBSET S
    BY Zenon
  <2>3. g[s \ {AnyOf(s)}] = GreatestClass(s \ {AnyOf(s)})
    BY <2>2, Zenon
  <2>4. CASE s = {}
    <3>1. GreatestClass({}) = "zero"
      BY DEF GreatestClass
    <3> HIDE DEF g
    <3> QED
      BY <2>1, <2>4, <3>1, Zenon
  <2>5. CASE s # {}
    <3>1. PICK x : x = AnyOf(s)
      OBVIOUS
    <3>2. x \in s
      BY <2>5, <3>1, AnyOfIsMember, Zenon
    <3>3. GreatestClass(s) = Plus(x, GreatestClass(s \ {x}))
      BY <3>2, GreatestClassAdds, Zenon
    <3> HIDE DEF g
    <3> QED
      BY <2>1, <2>3, <2>5, <3>1, <3>3, Zenon
  <2> QED
    BY <2>4, <2>5
<1>2. g = [s \in SUBSET S |-> g[s]]
  BY Zenon
<1> HIDE DEF g
<1>3. g = [s \in SUBSET S |-> IF s = {} THEN "zero" ELSE Plus(AnyOf(s), g[s \ {AnyOf(s)}])]
  BY <1>1, <1>2, Zenon
<1> QED
  BY <1>3, Zenon DEF ClassSum

(* A sum of scores is NaN only if one of them is.                          *)
LEMMA FoldIsScore ==
  ASSUME NEW S, IsFiniteSet(S), "nan" \notin S
  PROVE  FoldSet(Plus, "zero", S) # "nan"
<1> DEFINE h == CHOOSE g : ClassSum(S, g)
<1>1. FoldSet(Plus, "zero", S) = h[S]
  BY Zenon DEF FoldSet, MapThenFoldSet, ClassSum, AnyOf
<1>2. ClassSum(S, h)
  BY ClassSumExists, Zenon
<1> HIDE DEF h
<1>3. \A s \in SUBSET S :
        h[s] = IF s = {} THEN "zero" ELSE Plus(AnyOf(s), h[s \ {AnyOf(s)}])
  BY <1>2, Zenon DEF ClassSum
<1> DEFINE Bad == { s \in SUBSET S : h[s] = "nan" }
<1>4. ASSUME Bad # {} PROVE FALSE
  <2>1. PICK s \in Bad : \A t \in SUBSET s : t # s => t \notin Bad
    <3>1. Bad \in SUBSET (SUBSET S)
      BY Zenon
    <3> HIDE DEF Bad
    <3> QED
      BY <1>4, <3>1, SmallestSet, Zenon
  <2>2. s \in SUBSET S /\ h[s] = "nan"
    BY Zenon
  <2>3. s # {}
    <3>1. CASE s = {}
      <4>1. h[s] = "zero"
        BY <1>3, <2>2, <3>1, Zenon
      <4>2. "zero" # "nan"
        OBVIOUS
      <4> QED
        BY <2>2, <4>1, <4>2, Zenon
    <3> QED
      BY <3>1, Zenon
  <2>4. PICK x, r : x = AnyOf(s) /\ r = s \ {AnyOf(s)}
    BY Zenon
  <2>5. x \in s /\ x # "nan" /\ r \in SUBSET s /\ r # s
    BY <2>2, <2>3, <2>4, AnyOfIsMember, Zenon
  <2>6. h[r] # "nan"
    BY <2>1, <2>2, <2>5, Zenon
  <2>7. h[s] = Plus(x, h[r])
    BY <1>3, <2>2, <2>3, <2>4, Zenon
  <2> QED
    BY <2>2, <2>5, <2>6, <2>7, PlusKeeps, Zenon
<1> QED
  BY <1>1, <1>4, Zenon

-----------------------------------------------------------------------------
(* Where no score is NaN the search finds a node to go to.                 *)

(* Among scores that are numbers, one is the greatest.                     *)
LEMMA GreatestExists ==
  ASSUME NEW score, NEW s \in DOMAIN score, score[s] \in {"positive", "infinite"}
  PROVE  GreatestOf(score) # {}
<1> DEFINE among(class) == { x \in DOMAIN score : score[x] = class }
<1>1. GreatestOf(score) = IF among("infinite") # {} THEN {Min(among("infinite"))}
                                                    ELSE among("positive")
  BY Zenon DEF GreatestOf
<1>2. s \in among("infinite") \/ s \in among("positive")
  BY Zenon
<1> HIDE DEF among
<1> QED
  BY <1>1, <1>2, Zenon

(* The bound of a visited node is positive.                                *)
LEMMA BoundIsPositive ==
  ASSUME CallInv, TreeInv, NEW path \in DOMAIN tree, NEW visited, visited > 1, NEW team,
         \A q \in DOMAIN tree : tree[q].scores[team] # "nan"
  PROVE  calculate_ucb(path, visited, team) \in {"positive", "infinite"}
<1> DEFINE S == { Child(path, s).scores[team] : s \in Children(path) }
<1>1. IsFiniteSet(S)
  <2>1. IsFiniteSet(Children(path))
    BY TreeIsCounted, Zenon DEF CountedTree, Children
  <2>2. [s \in Children(path) |-> Child(path, s).scores[team]] \in Surjection(Children(path), S)
    BY DEF Surjection
  <2> HIDE DEF S
  <2> QED
    BY <2>1, <2>2, FS_Surjection, Zenon
<1>2. "nan" \notin S
  <2>1. \A s \in Children(path) : Append(path, s) \in DOMAIN tree
    BY Zenon DEF TreeInv, IsTree, Children
  <2> QED
    BY <2>1, Zenon DEF Child
<1>3. PICK f : f = FoldSet(Plus, "zero", S)
  OBVIOUS
<1>4. f # "nan"
  <2> HIDE DEF S
  <2> QED
    BY <1>1, <1>2, <1>3, FoldIsScore, Zenon
<1>5. calculate_ucb(path, visited, team) = Plus(f, "positive")
  BY <1>3, Zenon DEF calculate_ucb
<1> QED
  BY <1>4, <1>5, PlusPositive, Zenon

IsChild(path, node) == \E s \in Children(node) : path = Append(node, s)

(* So select_child finds a child of a node that has some.                  *)
LEMMA ChildIsFound ==
  ASSUME CallInv, TreeInv, NEW node \in DOMAIN tree, Children(node) # {},
         NEW visited, visited > 1, NEW team,
         \A q \in DOMAIN tree : tree[q].scores[team] # "nan",
         NEW next \in select_child(node, visited, team)
  PROVE  IsChild(next, node)
<1> DEFINE unvisited == { s \in Children(node) : Child(node, s).visited = 0 }
           bound == [s \in Children(node) |->
                      calculate_ucb(Append(node, s), visited, team)]
           best == GreatestOf(bound)
<1>1. Children(node) \in SUBSET Nat
  BY SlotsAreNaturals, Zenon DEF TreeInv, Children, Node
<1>2. unvisited # {} => Min(unvisited) \in unvisited
  <2> PICK S : S = unvisited
    OBVIOUS
  <2> QED
    BY <1>1, MinIsMember
<1>3. best \subseteq Children(node) /\ best # {}
  <2>1. DOMAIN bound = Children(node)
    BY Zenon
  <2>2. PICK s : s \in Children(node)
    BY Zenon
  <2>3. bound[s] \in {"positive", "infinite"}
    <3>1. Append(node, s) \in DOMAIN tree
      BY <2>2, Zenon DEF TreeInv, IsTree, Children
    <3>2. calculate_ucb(Append(node, s), visited, team) \in {"positive", "infinite"}
      BY <3>1, BoundIsPositive, Zenon
    <3> QED
      BY <2>2, <3>2, Zenon
  <2> HIDE DEF bound
  <2> QED
    BY <1>1, <2>1, <2>2, <2>3, GreatestIsOneOf, GreatestExists, Zenon
<1>4. select_child(node, visited, team)
        = IF unvisited # {} THEN {Append(node, Min(unvisited))}
          ELSE IF best # {} THEN { Append(node, s) : s \in best }
          ELSE {NoNode}
  BY Zenon DEF select_child
<1>5. CASE unvisited # {}
  <2>1. Min(unvisited) \in Children(node)
    BY <1>2, <1>5, Zenon
  <2> HIDE DEF unvisited
  <2> QED
    BY <1>4, <1>5, <2>1, Zenon DEF IsChild
<1>6. CASE unvisited = {}
  <2> HIDE DEF unvisited, best
  <2> QED
    BY <1>3, <1>4, <1>6, Zenon DEF IsChild
<1> QED
  BY <1>5, <1>6

-----------------------------------------------------------------------------
(* The invariant of the scores, while every player is projected above zero. *)

AllPositive == \A id \in Ids : points(id) > 0

(* The teams on the clock are teams of the league.                         *)
OrderInv ==
  /\ order \in [0 .. n_picks - 1 -> Teams(config)]
  /\ phase # "draft" => Len(taken) < n_picks

NoneNaN(u, path) == \A t \in Teams(config) : u[path].scores[t] # "nan"
AllZero(u, path) == \A t \in Teams(config) : u[path].scores[t] = "zero"

ScoresAt(u, path) ==
  /\ NoneNaN(u, path)
  /\ u[path].visited = 0 => AllZero(u, path)
  /\ u[path].children # {} => u[path].visited > 0
  /\ Len(taken) + Len(path) <= n_picks

(* The nodes above one the search has come to were visited before.         *)
OnWay(u, node) == \A k \in 0 .. Len(node) - 1 : u[SubSeq(node, 1, k)].visited > 1

(* The team that picked the leaf of a rollout has points in it.            *)
LeafScores(node) ==
  /\ node # <<>>
  /\ tree[node].visited > 0
  /\ tree[node].visited = 1 => AllZero(tree, node)
  /\ sim.scores[OnTheClock(context)] > 0

ScoreInv ==
  Searching /\ AllPositive =>
    /\ context.node # NoNode
    /\ \A path \in DOMAIN tree : ScoresAt(tree, path)
    /\ OnWay(tree, context.node)
    /\ phase = "rollout" => LeafScores(context.node)

(* The teams of the snake order are of the league,                         *)
LEMMA SnakeOfConfig ==
  ASSUME NEW c, WellShaped(c)
  PROVE  build_snake_order(get_number_of_picks(c), c.num_teams)
           \in [0 .. get_number_of_picks(c) - 1 -> Teams(c)]
<1>1. PICK n, t : n = get_number_of_picks(c) /\ t = c.num_teams
  BY Zenon
<1>2. n \in Nat /\ t \in Nat \ {0}
  BY <1>1, Zenon DEF WellShaped
<1>3. build_snake_order(n, t) \in [0 .. n - 1 -> 0 .. t - 1]
  BY <1>2, SnakeOrderType, Zenon
<1> QED
  BY <1>1, <1>3, Zenon DEF Teams

LEMMA OrderInvInit == SearchInit => OrderInv
<1>1. SUFFICES ASSUME SearchInit PROVE OrderInv
  BY Zenon
<1>2. WellShaped(config)
  BY <1>1, SearchInvInit, Zenon DEF SearchInv, CallInv
<1>3. PICK c : c = config
  BY Zenon
<1>4. build_snake_order(get_number_of_picks(c), c.num_teams)
        \in [0 .. get_number_of_picks(c) - 1 -> Teams(c)]
  BY <1>2, <1>3, SnakeOfConfig, Zenon
<1>5. order = build_snake_order(n_picks, config.num_teams) /\ phase = "draft"
  BY <1>1, Zenon DEF SearchInit
<1> QED
  BY <1>3, <1>4, <1>5, Zenon DEF OrderInv, n_picks

(* and stay so,                                                            *)
LEMMA OrderInvStep == SearchInv' /\ OrderInv /\ [SearchNext]_searchVars => OrderInv'
<1>1. ASSUME OrderInv, UNCHANGED <<config, order, taken>>,
             phase' # "draft" => phase # "draft" \/ Len(taken) < n_picks
      PROVE  OrderInv'
  <2>1. n_picks' = n_picks /\ Teams(config)' = Teams(config)
    BY <1>1, Zenon DEF n_picks, Teams
  <2> QED
    BY <1>1, <2>1, Zenon DEF OrderInv
<1>2. ASSUME SearchInv', OrderInv, Prepare PROVE OrderInv'
  <2>1. phase' = "draft" /\ TurnsChange
    BY <1>2, PrepareIs, Zenon
  <2>2. PICK d, n, T : d = config' /\ n = n_picks' /\ T = Teams(config)'
    BY Zenon
  <2>3. n = get_number_of_picks(d) /\ T = Teams(d)
    BY <2>2, Zenon DEF n_picks, Teams
  <2>4. order' \in [0 .. n - 1 -> T]
    <3>1. CASE UNCHANGED config /\ (\/ UNCHANGED order
                                    \/ \E p \in DOMAIN order, team \in Teams(config) :
                                         order' = [order EXCEPT ![p] = team])
      <4>1. n = n_picks /\ T = Teams(config)
        BY <2>2, <3>1, Zenon DEF n_picks, Teams
      <4>2. order \in [0 .. n - 1 -> T]
        BY <1>2, <4>1, Zenon DEF OrderInv
      <4> QED
        BY <3>1, <4>1, <4>2, Zenon
    <3>2. CASE order' = build_snake_order(get_number_of_picks(d), d.num_teams)
      <4>1. WellShaped(config)'
        BY <1>2, Zenon DEF SearchInv, CallInv
      <4>2. WellShaped(d)
        BY <2>2, <4>1, Zenon
      <4> QED
        BY <2>3, <3>2, <4>2, SnakeOfConfig, Zenon
    <3> QED
      BY <2>1, <2>2, <3>1, <3>2, Zenon DEF TurnsChange
  <2>5. ~(phase' # "draft")
    BY <2>1
  <2> QED
    BY <2>2, <2>4, <2>5, Zenon DEF OrderInv
<1>3. ASSUME NEW t \in ThinkTimes, calculate_best_pick_Called(t)
      PROVE  UNCHANGED <<config, order, taken>> /\ Len(taken) < n_picks
  BY <1>3, Zenon DEF calculate_best_pick_Called
<1>4. ASSUME SearchStep \/ Tick PROVE UNCHANGED <<config, order, taken>> /\ phase # "draft"
  <2>1. phase \in {"loop", "rollout"}
    BY <1>4, Zenon DEF SearchStep, VisitRoot, VisitLeaf, VisitInner, RolloutPick, RolloutEnds,
                       SearchAborts, SearchReturns, Tick, TimeLeft
  <2>2. UNCHANGED <<config, order, taken>>
    BY <1>4, Zenon DEF SearchStep, VisitRoot, VisitLeaf, VisitInner, RolloutPick, RolloutEnds,
                       SearchAborts, SearchReturns, Tick, draftVars
  <2> QED
    BY <2>1, <2>2
<1>5. ASSUME UNCHANGED searchVars PROVE UNCHANGED <<config, order, taken, phase>>
  BY <1>5, Zenon DEF searchVars, draftVars
<1> QED
  BY <1>1, <1>2, <1>3, <1>4, <1>5, Zenon DEF SearchNext

(* in every state.                                                         *)
LEMMA OrderInvariant == SearchSpec => []OrderInv
  BY OrderInvInit, OrderInvStep, SearchInvariant, PTL DEF SearchSpec

(* What is said of the nodes is said of the next tree.                     *)
LEMMA ScoresNext ==
  ASSUME UNCHANGED <<config, taken>>,
         \A path \in DOMAIN tree' : ScoresAt(tree', path)
  PROVE  \A path \in DOMAIN tree' : ScoresAt(tree, path)'
<1>1. n_picks' = n_picks /\ Teams(config)' = Teams(config)
  BY Zenon DEF n_picks, Teams
<1> QED
  BY <1>1, Zenon DEF ScoresAt, NoneNaN, AllZero

(* Projections do not change while the pool stays.                         *)
LEMMA PositiveStays ==
  ASSUME UNCHANGED <<players, slot_markers>>
  PROVE  AllPositive' <=> AllPositive
<1>1. Ids' = Ids /\ \A id : points(id)' = points(id)
  BY Zenon DEF Ids, number_of_players, points
<1> QED
  BY <1>1, Zenon DEF AllPositive

(* A node that was there before the step and keeps its scores.             *)
LEMMA ScoresKept ==
  ASSUME NEW u, NEW v, NEW path, ScoresAt(u, path), v[path].scores = u[path].scores,
         \/ v[path].visited = u[path].visited /\ v[path].children = u[path].children
         \/ v[path].visited > 0
  PROVE  ScoresAt(v, path)
<1>1. NoneNaN(v, path) /\ (AllZero(v, path) <=> AllZero(u, path))
  BY Zenon DEF ScoresAt, NoneNaN, AllZero
<1>2. CASE v[path].visited = u[path].visited /\ v[path].children = u[path].children
  BY <1>1, <1>2, Zenon DEF ScoresAt
<1>3. CASE v[path].visited > 0
  <2>1. v[path].visited # 0
    BY <1>3
  <2> QED
    BY <1>1, <1>3, <2>1, Zenon DEF ScoresAt
<1> QED
  BY <1>2, <1>3, Zenon

(* A visit is one more, or the bound.                                      *)
LEMMA VisitIsMore ==
  ASSUME NEW n \in 0 .. VisitCap, NEW m, m = IF n < VisitCap THEN n + 1 ELSE VisitCap
  PROVE  m > 0 /\ (n > 0 => m > 1) /\ (m = 1 => n = 0)
  BY VisitCapAssumption

(* A visit changes no score.                                               *)
LEMMA VisitedScores ==
  ASSUME TreeInv, NEW node \in DOMAIN tree, NEW path \in DOMAIN tree
  PROVE  Visited(node)[path].scores = tree[path].scores
<1>1. CASE path # node
  BY <1>1, Zenon DEF Visited
<1>2. CASE path = node
  <2>1. PICK r, n : r = tree[node] /\ n = Min({tree[node].visited + 1, VisitCap})
    BY Zenon
  <2>2. r \in Node
    BY <2>1, Zenon DEF TreeInv
  <2>3. PICK q : q = [r EXCEPT !.visited = n]
    OBVIOUS
  <2>4. q.scores = r.scores
    BY <2>2, <2>3 DEF Node
  <2>5. Visited(node)[node] = q
    BY <2>1, <2>3, Zenon DEF Visited
  <2> QED
    BY <1>2, <2>1, <2>4, <2>5, Zenon
<1> QED
  BY <1>1, <1>2

(* New nodes have zero scores, and the others keep theirs.                 *)
LEMMA GrownScores ==
  ASSUME TreeInv, NEW node \in DOMAIN tree, Children(node) = {},
         NEW found, Legal(node, found), NEW v, v = Grown(node, found)
  PROVE  /\ \A path \in DOMAIN tree : v[path].scores = tree[path].scores
         /\ \A s \in DOMAIN found : AllZero(v, Append(node, s))
<1> DEFINE added == { Append(node, s) : s \in DOMAIN found }
<1>1. Grew(node, found, v)
  BY GrownShape, Zenon
<1>2. DOMAIN v = DOMAIN tree \cup added
  BY Zenon DEF Grown
<1>3. \A path \in DOMAIN tree : path \notin added
  BY <1>1, Zenon DEF Grew
<1>4. \A path \in DOMAIN tree \ {node} : v[path].scores = tree[path].scores
  BY <1>2, <1>3, Zenon DEF Grown
<1>5. v[node].scores = tree[node].scores
  <2>1. PICK r, K : r = Visited(node)[node] /\ K = DOMAIN found
    BY Zenon
  <2>2. r \in Node
    BY <2>1, VisitedShape, Zenon
  <2>3. PICK q : q = [r EXCEPT !.children = K]
    OBVIOUS
  <2>4. q.scores = r.scores
    BY <2>2, <2>3 DEF Node
  <2>5. v[node] = q
    BY <1>2, <1>3, <2>1, <2>3, Zenon DEF Grown
  <2> QED
    BY <2>1, <2>4, <2>5, VisitedScores, Zenon
<1>6. ASSUME NEW s \in DOMAIN found, NEW t \in Teams(config)
      PROVE  v[Append(node, s)].scores[t] = "zero"
  <2>1. PICK p : p = Append(node, s)
    OBVIOUS
  <2>2. p \in added
    BY <2>1, Zenon
  <2>3. PICK id : id = found[Last(p)]
    OBVIOUS
  <2>4. v[p] = create_node(id)
    BY <1>2, <2>2, <2>3, Zenon DEF Grown
  <2>5. PICK x : x = [team \in Teams(config) |-> "zero"]
    OBVIOUS
  <2>6. v[p] = [player |-> id, visited |-> 0, scores |-> x, children |-> {}]
    BY <2>4, <2>5, Zenon DEF create_node
  <2>7. v[p].scores = x
    BY <2>6
  <2> QED
    BY <2>1, <2>5, <2>7, Zenon
<1>7. \A path \in DOMAIN tree : v[path].scores = tree[path].scores
  BY <1>4, <1>5, Zenon
<1>8. \A s \in DOMAIN found : AllZero(v, Append(node, s))
  BY <1>6, Zenon DEF AllZero
<1> QED
  BY <1>7, <1>8, Zenon

-----------------------------------------------------------------------------
(* The score of a rollout on its way up.                                   *)

(* Backpropagation makes no NaN of numbers.                                *)
LEMMA RescoredScores ==
  ASSUME TreeInv, NEW node \in DOMAIN tree, NEW score, score # "nan", NEW team,
         \A k \in 0 .. Len(node) :
           Times(tree[SubSeq(node, 1, k)].visited - 1,
                 tree[SubSeq(node, 1, k)].scores[team]) # "nan",
         NEW path \in DOMAIN tree,
         NEW t \in Teams(config), tree[path].scores[t] # "nan"
  PROVE  backpropogate_score(node, score, team)[path].scores[t] # "nan"
<1> DEFINE n == Len(node)
           x == [k \in 0 .. n |->
                  Times(tree[SubSeq(node, 1, k)].visited - 1,
                        tree[SubSeq(node, 1, k)].scores[team])]
           Up(g) == g = [k \in 0 .. n |->
                          Plus(IF k = n THEN score ELSE g[k + 1],
                               Times(tree[SubSeq(node, 1, k)].visited - 1,
                                     tree[SubSeq(node, 1, k)].scores[team]))]
           g0 == CHOOSE g : Up(g)
           u == [p \in DOMAIN tree |->
                  IF IsPrefix(p, node)
                    THEN [tree[p] EXCEPT !.scores[team] = g0[Len(p)]]
                    ELSE tree[p]]
<1>1. /\ tree \in [DOMAIN tree -> Node] /\ \A p \in DOMAIN tree : p \in Seq(Nat)
      /\ n \in Nat
  <2>1. tree \in [DOMAIN tree -> Node] /\ \A p \in DOMAIN tree : p \in Seq(Nat)
    BY Zenon DEF TreeInv, IsTree
  <2> QED
    BY <2>1, PathFacts, Zenon
<1>2. \E g : Up(g)
  <2>1. PICK g : UpFunction(n, score, x, g)
    BY <1>1, UpFunctionExists, Zenon
  <2>2. Up(g)
    BY <2>1, Zenon DEF UpFunction
  <2> QED
    BY <2>2, Zenon
<1>3. PICK g : g = g0
  OBVIOUS
<1>4. \A k \in 0 .. n : g[k] = Plus(IF k = n THEN score ELSE g[k + 1], x[k]) /\ x[k] # "nan"
  <2>1. Up(g)
    BY <1>2, <1>3, Zenon
  <2> QED
    BY <2>1, Zenon
<1>5. \A k \in 0 .. n : g[k] # "nan"
  <2> DEFINE Bad == { m \in 0 .. n : g[n - m] = "nan" }
  <2>1. ASSUME Bad # {} PROVE FALSE
    <3>1. PICK m \in Bad : \A y \in Bad : m <= y
      <4>1. Bad \in SUBSET Nat
        <5>1. 0 .. n \subseteq Nat
          OBVIOUS
        <5> QED
          BY <5>1, Zenon
      <4> HIDE DEF Bad
      <4> QED
        BY <2>1, <4>1, MinIsLeast, Zenon
    <3>2. m \in 0 .. n /\ g[n - m] = "nan"
      BY <3>1, Zenon
    <3>3. PICK k : k = n - m
      OBVIOUS
    <3>4. k \in 0 .. n
      BY <1>1, <3>2, <3>3
    <3>5. PICK a, b : a = (IF k = n THEN score ELSE g[k + 1]) /\ b = x[k]
      BY Zenon
    <3>6. g[k] = Plus(a, b) /\ b # "nan"
      <4> HIDE DEF x, n
      <4> QED
        BY <1>4, <3>4, <3>5, Zenon
    <3>7. a # "nan"
      <4>1. CASE k = n
        BY <3>5, <4>1, Zenon
      <4>2. CASE k # n
        <5>1. m - 1 \in 0 .. n /\ n - (m - 1) = k + 1 /\ ~(m <= m - 1)
          <6> HIDE DEF n
          <6> QED
            BY <1>1, <3>2, <3>3, <4>2
        <5>2. g[n - (m - 1)] # "nan"
          <6>1. m - 1 \notin Bad
            BY <3>1, <5>1, Zenon
          <6> QED
            BY <5>1, <6>1, Zenon
        <5> QED
          BY <3>5, <4>2, <5>1, <5>2, Zenon
      <4> QED
        BY <4>1, <4>2
    <3> QED
      BY <3>2, <3>3, <3>6, <3>7, PlusKeeps, Zenon
  <2>2. ASSUME NEW k \in 0 .. n PROVE g[k] # "nan"
    <3>1. n - k \in 0 .. n /\ n - (n - k) = k
      <4> HIDE DEF n
      <4> QED
        BY <1>1
    <3>2. n - k \notin Bad
      BY <2>1, Zenon
    <3> QED
      BY <3>1, <3>2, Zenon
  <2> QED
    BY <2>2, Zenon
<1>6. backpropogate_score(node, score, team) = u
  BY Zenon DEF backpropogate_score
<1>7. PICK r : r = tree[path]
  OBVIOUS
<1>8. CASE ~IsPrefix(path, node)
  <2>1. u[path] = r
    BY <1>7, <1>8, Zenon
  <2> HIDE DEF u
  <2> QED
    BY <1>6, <1>7, <2>1, Zenon
<1>9. CASE IsPrefix(path, node)
  <2>1. Len(path) \in 0 .. n
    <3>1. Len(path) <= n
      BY <1>9, Zenon DEF IsPrefix
    <3>2. Len(path) \in Nat
      BY <1>1, PathFacts, Zenon
    <3> QED
      BY <1>1, <3>1, <3>2
  <2>2. PICK y : y = g[Len(path)]
    OBVIOUS
  <2>3. y # "nan"
    <3> HIDE DEF n
    <3> QED
      BY <1>5, <2>1, <2>2, Zenon
  <2>4. PICK z : z = [r.scores EXCEPT ![team] = y]
    OBVIOUS
  <2>5. PICK q : q = [r EXCEPT !.scores = z]
    OBVIOUS
  <2>6. u[path] = [r EXCEPT !.scores[team] = y]
    BY <1>3, <1>7, <1>9, <2>2, Zenon
  <2>7. [r EXCEPT !.scores[team] = y] = q
    BY <2>4, <2>5, Zenon
  <2>8. r \in Node
    BY <1>1, <1>7, Zenon
  <2>9. q.scores = z /\ r.scores \in [Teams(config) -> ScoreClass]
    BY <2>5, <2>8 DEF Node
  <2>10. z[t] # "nan"
    <3>1. CASE t = team
      BY <2>3, <2>4, <2>9, <3>1, Zenon
    <3>2. CASE t # team
      BY <1>7, <2>4, <2>9, <3>2, Zenon
    <3> QED
      BY <3>1, <3>2
  <2>11. u[path].scores = z
    <3> HIDE DEF u
    <3> QED
      BY <2>6, <2>7, <2>9, Zenon
  <2> HIDE DEF u
  <2> QED
    BY <1>6, <2>10, <2>11, Zenon
<1> QED
  BY <1>8, <1>9

(* It changes the nodes on the way to the root only.                       *)
LEMMA RescoredElsewhere ==
  ASSUME NEW node, NEW score, NEW team, NEW path \in DOMAIN tree, ~IsPrefix(path, node)
  PROVE  backpropogate_score(node, score, team)[path] = tree[path]
  BY Zenon DEF backpropogate_score

(* Those are the prefixes of the path.                                     *)
LEMMA PrefixIsNode ==
  ASSUME TreeInv, NEW node \in DOMAIN tree, NEW path \in DOMAIN tree, IsPrefix(path, node)
  PROVE  Len(path) \in 0 .. Len(node) /\ path = SubSeq(node, 1, Len(path))
<1>1. path \in Seq(Nat) /\ node \in Seq(Nat)
  BY Zenon DEF TreeInv, IsTree
<1>2. Len(path) \in Nat /\ Len(node) \in Nat /\ SubSeq(path, 1, Len(path)) = path
  BY <1>1, PathFacts, Zenon
<1>3. Len(path) <= Len(node) /\ SubSeq(path, 1, Len(path)) = SubSeq(node, 1, Len(path))
  BY Zenon DEF IsPrefix
<1> QED
  BY <1>2, <1>3

(* The team of a pick before the end is of the league.                     *)
LEMMA TeamOnTheClock ==
  ASSUME CallInv, OrderInv, NEW k \in Nat, k < n_picks
  PROVE  order[k] \in Teams(config)
<1>1. PICK n : n = n_picks
  OBVIOUS
<1>2. n \in Nat
  BY <1>1, Zenon DEF CallInv, WellShaped, n_picks
<1>3. k \in 0 .. n - 1
  BY <1>1, <1>2
<1> QED
  BY <1>1, <1>3, Zenon DEF OrderInv

(* A node with children is above the end of the draft.                     *)
LEMMA ParentIsBeforeTheEnd ==
  ASSUME CallInv, TreeInv, NEW node \in DOMAIN tree, Children(node) # {},
         \A path \in DOMAIN tree : ScoresAt(tree, path)
  PROVE  Len(Branch(node)) < n_picks
<1>1. node \in Seq(Nat) /\ Children(node) \in SUBSET Nat
  BY SlotsAreNaturals, Zenon DEF TreeInv, IsTree, Children, Node
<1>2. PICK s : s \in Children(node)
  BY Zenon
<1>3. Append(node, s) \in DOMAIN tree /\ Len(Append(node, s)) = Len(node) + 1
  BY <1>1, <1>2, ChildPath, Zenon DEF TreeInv, IsTree, Children
<1>4. Len(taken) + (Len(node) + 1) <= n_picks
  BY <1>3, Zenon DEF ScoresAt
<1>5. Len(Branch(node)) = Len(taken) + Len(node) /\ Len(Branch(node)) \in Nat
  BY <1>1, BranchLength, Zenon
<1>6. n_picks \in Nat /\ Len(node) \in Nat
  BY <1>1, PathFacts, Zenon DEF CallInv, WellShaped, n_picks
<1>7. Len(taken) \in Nat
  <2>1. PICK S : taken \in Seq(S)
    BY Zenon DEF CallInv
  <2> QED
    BY <2>1
<1> QED
  BY <1>4, <1>5, <1>6, <1>7

(* A NULL node is none of the tree.                                        *)
LEMMA NoNodeIsNoPath ==
  ASSUME NEW path \in Seq(Nat)
  PROVE  path # NoNode
  BY NoNodeAssumption, Zenon

(* The root has no node above it.                                          *)
LEMMA RootIsPath == <<>> \in Seq(Nat) /\ Len(<<>>) = 0 /\ 0 .. Len(<<>>) - 1 = {}
  OBVIOUS

(* Nothing is above the root.                                              *)
LEMMA OnWayToRoot ==
  ASSUME NEW u
  PROVE  OnWay(u, <<>>)
<1>1. 0 .. Len(<<>>) - 1 = {}
  BY RootIsPath, Zenon
<1> QED
  BY <1>1, Zenon DEF OnWay

(* The nodes above a node are others.                                      *)
LEMMA AboveIsElsewhere ==
  ASSUME TreeInv, NEW node \in DOMAIN tree, NEW k \in 0 .. Len(node) - 1
  PROVE  SubSeq(node, 1, k) \in DOMAIN tree \ {node}
<1>1. node \in Seq(Nat) /\ \A j \in 0 .. Len(node) : SubSeq(node, 1, j) \in DOMAIN tree
  BY Zenon DEF TreeInv, IsTree
<1>2. k \in 0 .. Len(node) /\ k # Len(node)
  BY <1>1
<1>3. Len(SubSeq(node, 1, k)) = k
  BY <1>1, <1>2, PrefixIsPath, Zenon
<1> QED
  BY <1>1, <1>2, <1>3, Zenon

(* The invariant of the scores holds when the call begins,                 *)
LEMMA CalledScores ==
  ASSUME SearchInv, NEW t \in ThinkTimes, calculate_best_pick_Called(t)
  PROVE  ScoreInv'
<1>1. /\ phase' = "loop" /\ Len(taken) < n_picks /\ phase = "draft"
      /\ tree' = [path \in {<<>>} |-> create_node(NoPlayer)]
      /\ context' = MASTER_CONTEXT
      /\ UNCHANGED <<config, taken>>
  BY Zenon DEF calculate_best_pick_Called
<1>2. context'.node = <<>>
  BY <1>1 DEF MASTER_CONTEXT
<1>3. PICK x, v : x = [team \in Teams(config) |-> "zero"] /\ v = tree'
  BY Zenon
<1>4. v[<<>>] = [player |-> NoPlayer, visited |-> 0, scores |-> x, children |-> {}]
      /\ DOMAIN v = {<<>>}
  BY <1>1, <1>3, Zenon DEF create_node
<1>5. v[<<>>].scores = x /\ v[<<>>].children = {}
  BY <1>4
<1>6. Len(taken) + Len(<<>>) <= n_picks
  <2>1. PICK S : taken \in Seq(S)
    BY Zenon DEF SearchInv, CallInv
  <2>2. n_picks \in Nat
    BY Zenon DEF SearchInv, CallInv, WellShaped, n_picks
  <2>3. Len(taken) \in Nat /\ Len(<<>>) = 0
    BY <2>1
  <2> QED
    BY <1>1, <2>2, <2>3
<1>7. ScoresAt(v, <<>>)
  <2>1. "zero" # "nan"
    OBVIOUS
  <2>2. NoneNaN(v, <<>>) /\ AllZero(v, <<>>)
    BY <1>3, <1>5, <2>1, Zenon DEF NoneNaN, AllZero
  <2> QED
    BY <1>5, <1>6, <2>2, Zenon DEF ScoresAt
<1>8. \A path \in DOMAIN tree' : ScoresAt(tree, path)'
  BY <1>1, <1>3, <1>4, <1>7, ScoresNext, Zenon
<1>9. context'.node # NoNode
  BY <1>2, RootIsPath, NoNodeIsNoPath, Zenon
<1>10. OnWay(tree, context.node)'
  <2>1. OnWay(v, <<>>)
    BY OnWayToRoot, Zenon
  <2> QED
    BY <1>2, <1>3, <2>1, Zenon DEF OnWay
<1>11. phase' # "rollout"
  BY <1>1
<1> QED
  BY <1>8, <1>9, <1>10, <1>11, Zenon DEF ScoreInv

(* The pick of the leaf counts for the team that makes it.                 *)
LEMMA LastPickCounts ==
  ASSUME NEW T, NEW a \in Seq(T), NEW made, NEW scores, NEW n \in Nat, n <= Len(a),
         PoolTypeOK, AllPositive, n = Len(taken),
         Counts(Append(a, made), scores),
         made.player_id \in Ids, made.by_team \in Teams(config)
  PROVE  scores[made.by_team] > 0
<1>1. PICK b, team, id : b = Append(a, made) /\ team = made.by_team /\ id = made.player_id
  BY Zenon
<1>2. Len(b) = Len(a) + 1 /\ Len(a) \in Nat /\ b[Len(a) + 1] = made
      /\ \A i \in 1 .. Len(a) : b[i] = a[i]
  <2>1. Len(a) \in Nat
    OBVIOUS
  <2>2. Len(b) = Len(a) + 1 /\ \A i \in 1 .. Len(a) : b[i] = a[i]
    BY <1>1, AppendFacts
  <2>3. b[Len(a) + 1] = made
    BY <1>1, AppendFacts
  <2> QED
    BY <2>1, <2>2, <2>3, Zenon
<1>3. scores[team] = TotalOf(b, n, team)
      /\ \A i \in n + 1 .. Len(b) : b[i].player_id \in Ids
  BY <1>1, Zenon DEF Counts
<1>4. points(id) \in Nat /\ points(id) > 0
  BY <1>1, PointsType, Zenon DEF AllPositive
<1>5. ASSUME NEW i \in n + 1 .. Len(a) PROVE points(a[i].player_id) \in Nat
  <2>1. i \in n + 1 .. Len(b) /\ i \in 1 .. Len(a)
    BY <1>2
  <2>2. b[i] = a[i]
    BY <1>2, <2>1, Zenon
  <2> QED
    BY <1>3, <2>1, <2>2, PointsType, Zenon
<1>6. TotalOf(b, n, team) = TotalOf(a, n, team) + points(id)
  <2>1. TotalOf(Append(a, made), n, team)
          = TotalOf(a, n, team) + IF made.by_team = team THEN points(made.player_id) ELSE 0
    BY <1>1, <1>4, <1>5, TotalAfterPick
  <2> QED
    BY <1>1, <2>1, Zenon
<1>7. TotalOf(a, n, team) \in Nat
  <2>1. PICK K, f : K = CountedPicks(a, n, team) /\ f = PointsOf(a)
    BY Zenon
  <2>2. IsFiniteSet(K)
    BY <1>2, <2>1, CountedPicksAreFinite, Zenon
  <2>3. ASSUME NEW i \in K PROVE f[i] \in Nat
    <3>1. i \in n + 1 .. Len(a)
      BY <2>1, Zenon DEF CountedPicks
    <3>2. i \in DOMAIN a
      BY <1>2, <3>1
    <3> QED
      BY <1>5, <2>1, <3>1, <3>2, Zenon DEF PointsOf
  <2>4. SumOver(K, f) \in Nat
    BY <2>2, <2>3, SumType, Zenon
  <2> QED
    BY <2>1, <2>4, Zenon DEF TotalOf
<1>8. scores[team] > 0
  BY <1>3, <1>4, <1>6, <1>7
<1> QED
  BY <1>1, <1>8, Zenon

(* A node expanded.                                                        *)
LEMMA GrownScoresAt ==
  ASSUME CallInv, TreeInv, NEW node \in DOMAIN tree, context = ContextAt(node),
         Children(node) = {}, NEW found, found = expand_tree(node), Legal(node, found),
         \A path \in DOMAIN tree : ScoresAt(tree, path),
         NEW v, v = Grown(node, found)
  PROVE  \A path \in DOMAIN v : ScoresAt(v, path)
<1>1. PICK u : u = tree
  OBVIOUS
<1>2. Grew(node, found, v)
  BY GrownShape, Zenon
<1>3. Visit(u, v, node) /\ \A s \in DOMAIN found : v[Append(node, s)].visited = 0
  BY <1>1, GrownIsVisit, ZenonT(60)
<1>4. /\ \A path \in DOMAIN u : v[path].scores = u[path].scores
      /\ \A s \in DOMAIN found : AllZero(v, Append(node, s))
  <2>1. \A path \in DOMAIN tree : v[path].scores = tree[path].scores
    <3> TAKE path \in DOMAIN tree
    <3> QED
      BY GrownScores, ZenonT(60)
  <2>2. \A s \in DOMAIN found : AllZero(v, Append(node, s))
    <3> TAKE s \in DOMAIN found
    <3> QED
      BY GrownScores, Zenon
  <2> QED
    BY <1>1, <2>1, <2>2, Zenon
<1>5. node \in Seq(Nat)
  BY Zenon DEF TreeInv, IsTree
<1>6. v[node].visited > 0
  <2>1. u[node].visited \in 0 .. VisitCap
    BY <1>1, TreeIsCounted, Zenon DEF CountedTree
  <2> QED
    BY <1>3, <2>1, VisitIsMore, Zenon DEF Visit
<1>7. ASSUME NEW path \in DOMAIN tree PROVE ScoresAt(v, path)
  <2>1. CASE path = node
    BY <1>1, <1>4, <1>6, <2>1, ScoresKept, Zenon
  <2>2. CASE path # node
    <3>1. v[path].visited = u[path].visited /\ v[path].children = u[path].children
      BY <1>1, <1>3, <2>2, Zenon DEF Visit
    <3> QED
      BY <1>1, <1>4, <3>1, ScoresKept, Zenon
  <2> QED
    BY <2>1, <2>2
<1>8. ASSUME NEW s \in DOMAIN found PROVE ScoresAt(v, Append(node, s))
  <2>1. PICK path : path = Append(node, s)
    OBVIOUS
  <2>2. NoneNaN(v, path) /\ AllZero(v, path)
    <3>1. "zero" # "nan"
      OBVIOUS
    <3>2. AllZero(v, path)
      BY <1>4, <2>1, Zenon
    <3> QED
      BY <3>1, <3>2, Zenon DEF NoneNaN, AllZero
  <2>3. v[path].children = {}
    BY <1>2, <2>1, Zenon DEF Grew
  <2>4. Len(taken) + Len(path) <= n_picks
    <3>1. ~(Len(Branch(node)) >= n_picks)
      BY <1>5, FindsNothing, Zenon DEF Barren
    <3>2. Len(Branch(node)) = Len(taken) + Len(node) /\ Len(Branch(node)) \in Nat
      BY <1>5, BranchLength, Zenon
    <3>3. n_picks \in Nat
      BY Zenon DEF CallInv, WellShaped, n_picks
    <3>4. Len(taken) \in Nat /\ Len(node) \in Nat
      <4>1. PICK S : taken \in Seq(S)
        BY Zenon DEF CallInv
      <4> QED
        BY <1>5, <4>1
    <3>5. Len(path) = Len(node) + 1
      <4>1. s \in Nat
        BY SlotsAreNaturals, Zenon DEF Legal
      <4> QED
        BY <1>5, <2>1, <4>1, ChildPath, Zenon
    <3> QED
      BY <3>1, <3>2, <3>3, <3>4, <3>5
  <2>5. ScoresAt(v, path)
    BY <2>2, <2>3, <2>4, Zenon DEF ScoresAt
  <2> QED
    BY <2>1, <2>5, Zenon
<1>9. ASSUME NEW path \in DOMAIN v PROVE ScoresAt(v, path)
  <2>1. path \in DOMAIN tree \cup { Append(node, s) : s \in DOMAIN found }
    BY <1>2, Zenon DEF Grew
  <2> QED
    BY <1>7, <1>8, <2>1, Zenon
<1> QED
  BY <1>9, Zenon

(* What a visit to a leaf knows.                                           *)
LEMMA LeafVisited ==
  ASSUME SearchInv, ScoreInv, AllPositive, VisitRoot \/ VisitLeaf
  PROVE  /\ CallInv /\ TreeInv
         /\ context.node \in DOMAIN tree /\ context = ContextAt(context.node)
         /\ \A path \in DOMAIN tree : ScoresAt(tree, path)
         /\ OnWay(tree, context.node)
         /\ \A path \in DOMAIN tree' : ScoresAt(tree, path)'
         /\ Visit(tree, tree', context.node)
         /\ tree'[context.node].scores = tree[context.node].scores
<1>1. /\ TimeLeft /\ is_leaf(context.node) /\ ~expand_tree_Faults(context.node)
      /\ tree' = Grown(context.node, expand_tree(context.node))
      /\ UNCHANGED <<config, taken>>
  BY Zenon DEF VisitRoot, VisitLeaf, draftVars
<1>2. phase = "loop" /\ context.node # NoNode
  BY <1>1, Zenon DEF TimeLeft
<1>3. phase # "draft" /\ Searching
  BY <1>2 DEF Searching
<1>4. CallInv /\ TreeInv /\ ContextInv
  BY <1>3, Zenon DEF SearchInv
<1>5. PICK node, found : node = context.node /\ found = expand_tree(node)
  BY Zenon
<1>6. node \in DOMAIN tree /\ context = ContextAt(node)
  BY <1>2, <1>4, <1>5, Zenon DEF ContextInv
<1>7. Legal(node, found) /\ Children(node) = {}
  BY <1>1, <1>4, <1>5, <1>6, FoundIsLegal, Zenon DEF is_leaf
<1>8. PICK v : v = tree'
  OBVIOUS
<1>9. v = Grown(node, found)
  BY <1>1, <1>5, <1>8, Zenon
<1>10. (\A path \in DOMAIN tree : ScoresAt(tree, path)) /\ OnWay(tree, context.node)
  BY <1>3, Zenon DEF ScoreInv
<1>11. \A path \in DOMAIN v : ScoresAt(v, path)
  BY <1>4, <1>5, <1>6, <1>7, <1>9, <1>10, GrownScoresAt, Zenon
<1>12. \A path \in DOMAIN tree' : ScoresAt(tree, path)'
  BY <1>1, <1>8, <1>11, ScoresNext, Zenon
<1>13. Visit(tree, v, node) /\ v[node].scores = tree[node].scores
  BY <1>4, <1>6, <1>7, <1>9, GrownIsVisit, GrownScores, Zenon
<1> QED
  BY <1>4, <1>5, <1>6, <1>8, <1>10, <1>12, <1>13, Zenon

(* after a root without children is expanded,                              *)
LEMMA VisitRootScores ==
  ASSUME SearchInv, ScoreInv, VisitRoot
  PROVE  ScoreInv'
<1>1. /\ context' = MASTER_CONTEXT /\ UNCHANGED <<phase, players, slot_markers>> /\ phase = "loop"
  BY Zenon DEF VisitRoot, draftVars, poolVars, TimeLeft
<1>2. SUFFICES ASSUME AllPositive PROVE ScoreInv'
  BY <1>1, PositiveStays, Zenon DEF ScoreInv
<1>3. \A path \in DOMAIN tree' : ScoresAt(tree, path)'
  BY <1>2, LeafVisited, Zenon
<1>4. context'.node = <<>>
  BY <1>1 DEF MASTER_CONTEXT
<1>5. context'.node # NoNode
  BY <1>4, RootIsPath, NoNodeIsNoPath, Zenon
<1>6. OnWay(tree, context.node)'
  <2>1. PICK v : v = tree'
    OBVIOUS
  <2>2. OnWay(v, <<>>)
    BY OnWayToRoot, Zenon
  <2> QED
    BY <1>4, <2>1, <2>2, Zenon DEF OnWay
<1>7. phase' # "rollout"
  BY <1>1
<1> QED
  BY <1>3, <1>5, <1>6, <1>7, Zenon DEF ScoreInv

(* after a visit to a leaf,                                                *)
LEMMA VisitLeafScores ==
  ASSUME SearchInv, PoolTypeOK, OrderInv, ScoreInv, VisitLeaf
  PROVE  ScoreInv'
<1>1. /\ Calling /\ TimeLeft /\ UNCHANGED context /\ phase = "loop" /\ phase' = "rollout"
      /\ sim' = simulate_score(context.node) /\ context.node # <<>>
  BY Zenon DEF VisitLeaf, draftVars, poolVars, Calling, TimeLeft
<1>2. SUFFICES ASSUME AllPositive PROVE ScoreInv'
  BY <1>1, PositiveStays, Zenon DEF ScoreInv, Calling
<1>3. PICK node, u, v : node = context.node /\ u = tree /\ v = tree'
  BY Zenon
<1>4. /\ CallInv /\ TreeInv
      /\ node \in DOMAIN u /\ context = ContextAt(node)
      /\ \A path \in DOMAIN u : ScoresAt(u, path)
      /\ OnWay(u, node)
      /\ \A path \in DOMAIN tree' : ScoresAt(tree, path)'
      /\ Visit(u, v, node)
      /\ v[node].scores = u[node].scores
  BY <1>2, <1>3, LeafVisited, Zenon
<1>5. node \in Seq(Nat) /\ u[node].visited \in 0 .. VisitCap
  BY <1>3, <1>4, TreeIsCounted, Zenon DEF CountedTree, TreeInv, IsTree
<1>6. context'.node = node /\ node # NoNode /\ node # <<>>
  BY <1>1, <1>3, <1>5, NoNodeIsNoPath, Zenon
<1>7. OnWay(v, node)
  <2>1. ASSUME NEW k \in 0 .. Len(node) - 1 PROVE v[SubSeq(node, 1, k)].visited > 1
    <3>1. SubSeq(node, 1, k) \in DOMAIN u \ {node}
      BY <1>3, <1>4, AboveIsElsewhere, Zenon
    <3> QED
      BY <1>4, <3>1, Zenon DEF Visit, OnWay
  <2> QED
    BY <2>1, Zenon DEF OnWay
<1>8. v[node].visited > 0 /\ (v[node].visited = 1 => u[node].visited = 0)
  BY <1>4, <1>5, VisitIsMore, Zenon DEF Visit
<1>9. v[node].visited = 1 => AllZero(v, node)
  BY <1>4, <1>8, Zenon DEF ScoresAt, AllZero
<1>10. PICK a, n : a = Branch(Front(node)) /\ n = Len(taken)
  BY Zenon
<1>11. context.taken = a
  <2>1. PICK row : row = create_search_context(config, a)
    OBVIOUS
  <2>2. context = [node |-> node, taken |-> a, requirements |-> row]
    BY <1>4, <1>6, <1>10, <2>1, Zenon DEF ContextAt
  <2> QED
    BY <2>2
<1>12. /\ (\E T : a \in Seq(T)) /\ n \in Nat /\ Len(a) \in Nat
       /\ n <= Len(a) /\ Len(a) < n_picks
  <2>1. Front(node) \in Seq(Nat) /\ Len(Front(node)) = Len(node) - 1 /\ Len(node) \in Nat \ {0}
    <3>1. Front(node) = SubSeq(node, 1, Len(node) - 1) /\ Len(node) - 1 \in 0 .. Len(node)
      BY <1>5, <1>6, FrontOfPath, Zenon
    <3>2. Len(node) \in Nat \ {0}
      BY <1>5, <1>6
    <3> QED
      BY <1>5, <3>1, <3>2, PrefixIsPath, Zenon
  <2>2. /\ \E T : a \in Seq(T)
        /\ Len(a) = Len(taken) + Len(Front(node)) /\ Len(a) \in Nat
    BY <1>4, <1>10, <2>1, BranchLength, Zenon
  <2>3. Len(taken) + Len(node) <= n_picks
    BY <1>4, Zenon DEF ScoresAt
  <2>4. n \in Nat
    <3>1. PICK S : taken \in Seq(S)
      BY <1>4, Zenon DEF CallInv
    <3> QED
      BY <1>10, <3>1
  <2>5. n_picks \in Nat
    BY <1>4, Zenon DEF CallInv, WellShaped, n_picks
  <2> QED
    BY <1>10, <2>1, <2>2, <2>3, <2>4, <2>5
<1>13. order[Len(a)] \in Teams(config)
  BY <1>4, <1>12, TeamOnTheClock, Zenon
<1>14. PICK made : made = [player_id |-> u[node].player, by_team |-> order[Len(a)]]
  OBVIOUS
<1>15. /\ made.player_id = u[node].player /\ made.by_team = order[Len(a)]
  BY <1>14
<1>16. Branch(node) = Append(a, made)
  BY <1>3, <1>4, <1>5, <1>6, <1>10, <1>14, BranchOfNode, Zenon
<1>17. made.player_id \in Ids
  BY <1>3, <1>4, <1>6, <1>15, Zenon DEF TreeInv, NodesArePicks
<1>18. PICK scores : scores = BranchPoints(node, Len(Branch(node)) - 1)
  OBVIOUS
<1>19. Counts(Branch(node), scores)
  BY <1>3, <1>4, <1>18, BranchCounts, Zenon
<1>20. scores[order[Len(a)]] > 0
  <2>1. PICK T : a \in Seq(T)
    BY <1>12
  <2>2. scores[made.by_team] > 0
    BY <1>2, <1>10, <1>12, <1>13, <1>15, <1>16, <1>17, <1>19, <2>1, LastPickCounts, Zenon
  <2> QED
    BY <1>15, <2>2, Zenon
<1>21. sim'.scores = scores
  <2>1. PICK c, b : c = WithPickOf(context, node) /\ b = Branch(node)
    BY Zenon
  <2>2. c.taken = b
    <3>1. PICK r : r = create_search_context(config, b)
      OBVIOUS
    <3>2. c = [node |-> node, taken |-> b, requirements |-> r]
      BY <1>4, <1>5, <2>1, <3>1, WithItsPick, Zenon DEF ContextOf
    <3> QED
      BY <3>2
  <2>3. sim' = SimOf(b, c.requirements, scores, 0)
    BY <1>1, <1>3, <1>18, <2>1, <2>2, Zenon DEF simulate_score, SimOf
  <2> QED
    BY <2>3 DEF SimOf
<1>22. OnTheClock(context)' = order[Len(a)]
  BY <1>1, <1>11, Zenon DEF OnTheClock, Calling
<1>23. LeafScores(context.node)'
  <2>1. AllZero(v, node) <=> AllZero(tree, context.node)'
    BY <1>1, <1>3, <1>6, Zenon DEF AllZero, Teams, Calling
  <2>2. sim'.scores[OnTheClock(context)'] > 0
    BY <1>20, <1>21, <1>22, Zenon
  <2> QED
    BY <1>3, <1>6, <1>8, <1>9, <2>1, <2>2, Zenon DEF LeafScores
<1>24. OnWay(tree, context.node)'
  BY <1>3, <1>6, <1>7, Zenon DEF OnWay
<1> QED
  BY <1>4, <1>6, <1>23, <1>24, Zenon DEF ScoreInv

(* The team that picked the leaf of a rollout is one of the league.        *)
LEMMA LeafTeam ==
  ASSUME CallInv, TreeInv, ContextInv, OrderInv, context.node # NoNode, context.node # <<>>,
         \A path \in DOMAIN tree : ScoresAt(tree, path)
  PROVE  OnTheClock(context) \in Teams(config)
<1>1. PICK node, up : node = context.node /\ up = Branch(Front(node))
  BY Zenon
<1>2. node \in DOMAIN tree /\ node # <<>> /\ context = ContextAt(node) /\ node \in Seq(Nat)
  BY <1>1, Zenon DEF ContextInv, TreeInv, IsTree
<1>3. context.taken = up
  <2>1. PICK row : row = create_search_context(config, up)
    OBVIOUS
  <2>2. context = [node |-> node, taken |-> up, requirements |-> row]
    BY <1>1, <1>2, <2>1, Zenon DEF ContextAt
  <2> QED
    BY <2>2
<1>4. Front(node) \in Seq(Nat) /\ Len(Front(node)) = Len(node) - 1 /\ Len(node) \in Nat \ {0}
  <2>1. Front(node) = SubSeq(node, 1, Len(node) - 1) /\ Len(node) - 1 \in 0 .. Len(node)
    BY <1>2, FrontOfPath, Zenon
  <2>2. Len(node) \in Nat \ {0}
    BY <1>2
  <2> QED
    BY <1>2, <2>1, <2>2, PrefixIsPath, Zenon
<1>5. Len(up) = Len(taken) + Len(Front(node)) /\ Len(up) \in Nat
  BY <1>1, <1>4, BranchLength, Zenon
<1>6. Len(taken) + Len(node) <= n_picks
  BY <1>2, Zenon DEF ScoresAt
<1>7. Len(taken) \in Nat /\ n_picks \in Nat
  <2>1. PICK S : taken \in Seq(S)
    BY Zenon DEF CallInv
  <2>2. n_picks \in Nat
    BY Zenon DEF CallInv, WellShaped, n_picks
  <2> QED
    BY <2>1, <2>2
<1>8. Len(up) < n_picks
  BY <1>4, <1>5, <1>6, <1>7
<1> QED
  BY <1>3, <1>5, <1>8, TeamOnTheClock, Zenon DEF OnTheClock

(* after a visit to a node with children, which has a child to go to,      *)
LEMMA VisitInnerScores ==
  ASSUME SearchInv, OrderInv, ScoreInv, VisitInner
  PROVE  ScoreInv'
<1>1. /\ Calling /\ TimeLeft /\ phase = "loop" /\ phase' = "loop"
      /\ tree' = Visited(context.node) /\ ~is_leaf(context.node)
  BY Zenon DEF VisitInner, draftVars, poolVars, Calling, TimeLeft
<1>2. SUFFICES ASSUME AllPositive PROVE ScoreInv'
  BY <1>1, PositiveStays, Zenon DEF ScoreInv, Calling
<1>3. phase # "draft" /\ Searching /\ context.node # NoNode
  BY <1>1 DEF Searching, TimeLeft
<1>4. CallInv /\ TreeInv /\ ContextInv
  BY <1>3, Zenon DEF SearchInv
<1>5. PICK node, u, v : node = context.node /\ u = tree /\ v = tree'
  BY Zenon
<1>6. /\ node \in DOMAIN u /\ context = ContextAt(node)
      /\ node \in Seq(Nat)
  BY <1>3, <1>4, <1>5, Zenon DEF ContextInv, TreeInv, IsTree
<1>7. (\A path \in DOMAIN u : ScoresAt(u, path)) /\ OnWay(u, node)
  BY <1>2, <1>3, <1>5, Zenon DEF ScoreInv
<1>8. Visit(u, v, node) /\ DOMAIN v = DOMAIN u
  BY <1>1, <1>4, <1>5, <1>6, VisitedIsVisit, Zenon DEF Visited
<1>9. \A path \in DOMAIN u : v[path].scores = u[path].scores
  <2> TAKE path \in DOMAIN u
  <2> QED
    BY <1>1, <1>4, <1>5, <1>6, VisitedScores, Zenon
<1>10. Children(node) # {}
  BY <1>1, <1>5, Zenon DEF is_leaf
<1>11. v[node].visited > 1
  <2>1. u[node].visited \in 0 .. VisitCap
    BY <1>4, <1>5, <1>6, TreeIsCounted, Zenon DEF CountedTree
  <2>2. u[node].visited > 0
    BY <1>5, <1>6, <1>7, <1>10, Zenon DEF ScoresAt, Children
  <2> QED
    BY <1>8, <2>1, <2>2, VisitIsMore, Zenon DEF Visit
<1>12. ASSUME NEW path \in DOMAIN u PROVE ScoresAt(v, path)
  <2>1. CASE path = node
    <3>1. v[node].visited > 0
      <4>1. v[node].visited \in Nat
        <5>1. u[node].visited \in 0 .. VisitCap
          BY <1>4, <1>5, <1>6, TreeIsCounted, Zenon DEF CountedTree
        <5>2. v[node].visited = IF u[node].visited < VisitCap THEN u[node].visited + 1 ELSE VisitCap
          BY <1>8, Zenon DEF Visit
        <5> QED
          BY <5>1, <5>2, VisitCapAssumption
      <4> QED
        BY <1>11, <4>1
    <3> QED
      BY <1>7, <1>9, <2>1, <3>1, ScoresKept, Zenon
  <2>2. CASE path # node
    <3>1. v[path].visited = u[path].visited /\ v[path].children = u[path].children
      BY <1>8, <2>2, Zenon DEF Visit
    <3> QED
      BY <1>7, <1>9, <3>1, ScoresKept, Zenon
  <2> QED
    BY <2>1, <2>2
<1>13. \A path \in DOMAIN tree' : ScoresAt(tree, path)'
  BY <1>1, <1>5, <1>8, <1>12, ScoresNext, Zenon DEF Calling
<1>14. PICK c, visited, team : /\ c = WithPickOf(context, node)
                               /\ visited = v[node].visited /\ team = OnTheClock(c)
  BY Zenon
<1>15. PICK next \in select_child(node, visited, team) : context' = [c EXCEPT !.node = next]
  BY <1>5, <1>14, Zenon DEF VisitInner
<1>16. c = [node |-> node, taken |-> Branch(node),
            requirements |-> create_search_context(config, Branch(node))]
  BY <1>4, <1>6, <1>14, WithItsPick, Zenon DEF ContextOf
<1>17. c.taken = Branch(node) /\ context'.node = next
  <2>1. PICK b, r : b = Branch(node) /\ r = create_search_context(config, b)
    BY Zenon
  <2>2. c = [node |-> node, taken |-> b, requirements |-> r]
    BY <1>16, <2>1, Zenon
  <2> QED
    BY <1>15, <2>1, <2>2
<1>18. team \in Teams(config)
  <2>1. Len(Branch(node)) < n_picks
    BY <1>4, <1>5, <1>6, <1>7, <1>10, ParentIsBeforeTheEnd, Zenon
  <2>2. Len(Branch(node)) \in Nat
    BY <1>4, <1>6, BranchLength, Zenon
  <2>3. team = order[Len(Branch(node))]
    BY <1>14, <1>17, Zenon DEF OnTheClock
  <2> QED
    BY <1>4, <2>1, <2>2, <2>3, TeamOnTheClock, Zenon
<1>19. PICK s \in Children(node) : next = Append(node, s)
  <2>1. \A q \in DOMAIN tree : tree[q].scores[team] # "nan"
    BY <1>5, <1>7, <1>18, Zenon DEF ScoresAt, NoneNaN
  <2>2. visited > 1
    BY <1>11, <1>14, Zenon
  <2>3. node \in DOMAIN tree
    BY <1>5, <1>6, Zenon
  <2>4. IsChild(next, node)
    BY <1>4, <1>10, <1>15, <2>1, <2>2, <2>3, ChildIsFound, Zenon
  <2> QED
    BY <2>4, Zenon DEF IsChild
<1>20. /\ next \in Seq(Nat) /\ Len(next) = Len(node) + 1
       /\ \A k \in 0 .. Len(node) : SubSeq(next, 1, k) = SubSeq(node, 1, k)
  <2>1. s \in Nat
    <3>1. Children(node) \in SUBSET Nat
      BY <1>4, <1>5, <1>6, TreeIsCounted, Zenon DEF CountedTree, Children
    <3> QED
      BY <3>1, Zenon
  <2>2. PICK q : q = Append(node, s)
    OBVIOUS
  <2>3. /\ q \in Seq(Nat) /\ Len(q) = Len(node) + 1
        /\ \A k \in 0 .. Len(node) : SubSeq(q, 1, k) = SubSeq(node, 1, k)
    BY <1>6, <2>1, <2>2, ChildPath, Zenon
  <2> QED
    BY <1>19, <2>2, <2>3, Zenon
<1>21. context'.node # NoNode
  BY <1>17, <1>20, NoNodeIsNoPath, Zenon
<1>22. ASSUME NEW k \in 0 .. Len(next) - 1 PROVE v[SubSeq(next, 1, k)].visited > 1
  <2>1. k \in 0 .. Len(node) /\ Len(node) \in Nat
    BY <1>6, <1>20
  <2>2. SubSeq(next, 1, k) = SubSeq(node, 1, k)
    BY <1>20, <2>1, Zenon
  <2>3. CASE k = Len(node)
    <3>1. SubSeq(node, 1, k) = node
      BY <1>6, <2>3, PathFacts, Zenon
    <3> QED
      BY <1>11, <2>2, <3>1, Zenon
  <2>4. CASE k # Len(node)
    <3>1. k \in 0 .. Len(node) - 1
      BY <2>1, <2>4
    <3>2. SubSeq(node, 1, k) \in DOMAIN u \ {node}
      BY <1>4, <1>5, <1>6, <3>1, AboveIsElsewhere, Zenon
    <3> QED
      BY <1>7, <1>8, <2>2, <3>1, <3>2, Zenon DEF Visit, OnWay
  <2> QED
    BY <2>3, <2>4
<1>23. OnWay(tree, context.node)'
  BY <1>5, <1>17, <1>22, Zenon DEF OnWay
<1>24. phase' # "rollout"
  BY <1>1
<1> QED
  BY <1>13, <1>21, <1>23, <1>24, Zenon DEF ScoreInv

(* A pick of the rollout takes no points away.                             *)
LEMMA RolloutPickScores ==
  ASSUME SearchInv, PoolTypeOK, OrderInv, RolloutInv, ScoreInv, RolloutPick
  PROVE  ScoreInv'
<1>1. /\ Calling /\ phase = "rollout" /\ UNCHANGED <<phase, tree, context>>
  BY Zenon DEF RolloutPick, draftVars, poolVars, Calling
<1>2. SUFFICES ASSUME AllPositive PROVE ScoreInv'
  BY <1>1, PositiveStays, Zenon DEF ScoreInv, Calling
<1>3. Searching /\ phase # "draft" /\ CallInv /\ TreeInv /\ ContextInv
  <2>1. Searching /\ phase # "draft"
    BY <1>1 DEF Searching
  <2> QED
    BY <2>1, Zenon DEF SearchInv
<1>4. /\ context.node # NoNode
      /\ \A path \in DOMAIN tree : ScoresAt(tree, path)
      /\ OnWay(tree, context.node)
      /\ LeafScores(context.node)
  BY <1>1, <1>2, <1>3, Zenon DEF ScoreInv
<1>5. PICK a, scores : \E id \in Ids :
           /\ \E requirements, total : sim = SimOf(a, requirements, scores, total)
           /\ Counts(a, scores)
           /\ Picked(id, a, scores, sim')
  BY RolloutPicks, Zenon
<1>6. PICK id \in Ids : /\ \E requirements, total : sim = SimOf(a, requirements, scores, total)
                        /\ Counts(a, scores)
                        /\ Picked(id, a, scores, sim')
  BY <1>5
<1>7. sim.scores = scores
  BY <1>6 DEF SimOf
<1>8. PICK w : w = [scores EXCEPT ![order[Len(a)]] = @ + points(id)]
  OBVIOUS
<1>9. sim'.scores = w
  <2>1. PICK b : b = Append(a, [player_id |-> id, by_team |-> order[Len(a)]])
    OBVIOUS
  <2>2. PICK r, x : sim' = SimOf(b, r, w, x)
    BY <1>6, <1>8, <2>1, Zenon DEF Picked
  <2> QED
    BY <2>2 DEF SimOf
<1>10. PICK team : team = OnTheClock(context)
  OBVIOUS
<1>11. team \in Teams(config)
  <2>1. context.node \in DOMAIN tree /\ context.node # <<>>
    BY <1>3, <1>4, Zenon DEF ContextInv, LeafScores
  <2> QED
    BY <1>3, <1>4, <1>10, <2>1, LeafTeam, Zenon
<1>12. w[team] > 0
  <2>1. scores \in [Teams(config) -> Nat] /\ scores[team] \in Nat
    BY <1>6, <1>11, Zenon DEF Counts
  <2>2. scores[team] > 0
    BY <1>4, <1>7, <1>10, Zenon DEF LeafScores
  <2>3. points(id) \in Nat
    BY PointsType, Zenon
  <2>4. CASE team = order[Len(a)]
    <3>1. w[team] = scores[team] + points(id)
      BY <1>8, <1>11, <2>1, <2>4, Zenon
    <3> QED
      BY <2>1, <2>2, <2>3, <3>1
  <2>5. CASE team # order[Len(a)]
    <3>1. w[team] = scores[team]
      BY <1>8, <1>11, <2>1, <2>5, Zenon
    <3> QED
      BY <2>2, <3>1, Zenon
  <2> QED
    BY <2>4, <2>5
<1>13. LeafScores(context.node)'
  <2>1. OnTheClock(context)' = team
    BY <1>1, <1>10, Zenon DEF OnTheClock, Calling
  <2>2. AllZero(tree, context.node)' <=> AllZero(tree, context.node)
    BY <1>1, Zenon DEF AllZero, Teams, Calling
  <2> QED
    BY <1>1, <1>4, <1>9, <1>12, <2>1, <2>2, Zenon DEF LeafScores
<1>14. \A path \in DOMAIN tree' : ScoresAt(tree, path)'
  <2>1. \A path \in DOMAIN tree' : ScoresAt(tree', path)
    <3>1. PICK u, v : u = tree /\ v = tree'
      BY Zenon
    <3> QED
      BY <1>1, <1>4, <3>1, Zenon
  <2> QED
    BY <1>1, <2>1, ScoresNext, Zenon DEF Calling
<1>15. OnWay(tree, context.node)' /\ context'.node # NoNode
  BY <1>1, <1>4, Zenon DEF OnWay
<1> QED
  BY <1>13, <1>14, <1>15, Zenon DEF ScoreInv

(* after the backpropagation,                                              *)
LEMMA RolloutEndsScores ==
  ASSUME SearchInv, RolloutInv, ScoreInv, OrderInv, RolloutEnds
  PROVE  ScoreInv'
<1>1. /\ Calling /\ phase = "rollout" /\ phase' = "loop" /\ context' = MASTER_CONTEXT
  BY Zenon DEF RolloutEnds, draftVars, poolVars, Calling
<1>2. SUFFICES ASSUME AllPositive PROVE ScoreInv'
  BY <1>1, PositiveStays, Zenon DEF ScoreInv, Calling
<1>3. Searching /\ phase # "draft" /\ CallInv /\ TreeInv /\ ContextInv
  <2>1. Searching /\ phase # "draft"
    BY <1>1 DEF Searching
  <2> QED
    BY <2>1, Zenon DEF SearchInv
<1>4. PICK node, team, score :
        /\ node = context.node /\ team = OnTheClock(context)
        /\ score = ClassOfQuotient(sim.scores[team], sim.total)
        /\ tree' = backpropogate_score(node, score, team)
  BY Zenon DEF RolloutEnds
<1>5. /\ node # NoNode
      /\ \A path \in DOMAIN tree : ScoresAt(tree, path)
      /\ OnWay(tree, node)
      /\ LeafScores(node)
  BY <1>1, <1>2, <1>3, <1>4, Zenon DEF ScoreInv
<1>6. node \in DOMAIN tree /\ node \in Seq(Nat)
  BY <1>3, <1>4, <1>5, Zenon DEF ContextInv, TreeInv, IsTree
<1>7. team \in Teams(config)
  BY <1>3, <1>4, <1>5, LeafTeam, Zenon DEF LeafScores
<1>8. score # "nan"
  <2>1. PICK a, requirements, scores, total :
          sim = SimOf(a, requirements, scores, total) /\ Counts(a, scores)
    BY <1>1, Zenon DEF RolloutInv
  <2>2. sim.scores = scores
    BY <2>1 DEF SimOf
  <2>3. scores[team] \in Nat
    BY <1>7, <2>1, Zenon DEF Counts
  <2>4. scores[team] > 0
    BY <1>4, <1>5, <2>2, Zenon DEF LeafScores
  <2> QED
    BY <1>4, <2>2, <2>3, <2>4, PartIsScore, Zenon
<1>9. ASSUME NEW k \in 0 .. Len(node)
      PROVE  LET r == tree[SubSeq(node, 1, k)] IN
             r.visited > 0 /\ Times(r.visited - 1, r.scores[team]) # "nan"
  <2>1. PICK q, r : q = SubSeq(node, 1, k) /\ r = tree[q]
    BY Zenon
  <2>2. q \in DOMAIN tree
    BY <1>3, <1>6, <2>1, Zenon DEF TreeInv, IsTree
  <2>3. r.visited \in 0 .. VisitCap
    BY <1>3, <2>1, <2>2, TreeIsCounted, Zenon DEF CountedTree
  <2>4. r.scores[team] # "nan"
    BY <1>5, <1>7, <2>1, <2>2, Zenon DEF ScoresAt, NoneNaN
  <2>5. r.visited > 0 /\ (r.visited = 1 => r.scores[team] = "zero")
    <3>1. CASE k = Len(node)
      <4>1. q = node
        BY <1>6, <2>1, <3>1, PathFacts, Zenon
      <4> QED
        BY <1>5, <1>7, <2>1, <4>1, Zenon DEF LeafScores, AllZero
    <3>2. CASE k # Len(node)
      <4>1. k \in 0 .. Len(node) - 1
        BY <1>6, <3>2
      <4>2. r.visited > 1
        BY <1>5, <2>1, <4>1, Zenon DEF OnWay
      <4> QED
        BY <2>3, <4>2, VisitCapAssumption
    <3> QED
      BY <3>1, <3>2
  <2>6. r.visited - 1 \in Int /\ (r.visited - 1 > 0 \/ r.visited = 1)
    BY <2>3, <2>5, VisitCapAssumption
  <2>7. Times(r.visited - 1, r.scores[team]) # "nan"
    BY <2>4, <2>5, <2>6, TimesKeeps, Zenon
  <2> QED
    BY <2>1, <2>5, <2>7, Zenon
<1>10. PICK v : v = tree'
  OBVIOUS
<1>11. DOMAIN v = DOMAIN tree
  BY <1>4, <1>10, Zenon DEF backpropogate_score
<1>12. ASSUME NEW path \in DOMAIN tree PROVE ScoresAt(v, path)
  <2>1. /\ v[path].visited = tree[path].visited
        /\ v[path].children = tree[path].children
    <3>1. SamePick(tree[path], backpropogate_score(node, score, team)[path])
      BY <1>3, <1>6, RescoredShape, Zenon
    <3>2. backpropogate_score(node, score, team)[path].visited = tree[path].visited
      BY <1>3, RescoredVisits, Zenon
    <3>3. v[path] = backpropogate_score(node, score, team)[path]
      BY <1>4, <1>10, Zenon
    <3> QED
      BY <3>1, <3>2, <3>3, Zenon DEF SamePick
  <2>2. ScoresAt(tree, path)
    BY <1>5, Zenon
  <2>3. ASSUME NEW t \in Teams(config) PROVE v[path].scores[t] # "nan"
    <3>1. tree[path].scores[t] # "nan"
      BY <2>2, Zenon DEF ScoresAt, NoneNaN
    <3> QED
      BY <1>3, <1>4, <1>6, <1>8, <1>9, <1>10, <3>1, RescoredScores, Zenon
  <2>4. v[path].visited = 0 => AllZero(v, path)
    <3>1. CASE IsPrefix(path, node)
      <4>1. Len(path) \in 0 .. Len(node) /\ path = SubSeq(node, 1, Len(path))
        BY <1>3, <1>6, <3>1, PrefixIsNode, Zenon
      <4>2. tree[path].visited > 0
        BY <1>9, <4>1, Zenon
      <4>3. v[path].visited # 0
        BY <2>1, <4>2
      <4> QED
        BY <4>3, Zenon
    <3>2. CASE ~IsPrefix(path, node)
      <4>1. backpropogate_score(node, score, team)[path] = tree[path]
        BY <3>2, RescoredElsewhere, Zenon
      <4>2. v[path] = tree[path]
        BY <1>4, <1>10, <4>1, Zenon
      <4> QED
        BY <2>2, <4>2, Zenon DEF ScoresAt, AllZero
    <3> QED
      BY <3>1, <3>2
  <2> QED
    BY <2>1, <2>2, <2>3, <2>4, Zenon DEF ScoresAt, NoneNaN
<1>13. \A path \in DOMAIN tree' : ScoresAt(tree, path)'
  BY <1>1, <1>10, <1>11, <1>12, ScoresNext, Zenon DEF Calling
<1>14. context'.node = <<>>
  BY <1>1 DEF MASTER_CONTEXT
<1>15. context'.node # NoNode
  BY <1>14, RootIsPath, NoNodeIsNoPath, Zenon
<1>16. OnWay(tree, context.node)'
  <2>1. OnWay(v, <<>>)
    BY OnWayToRoot, Zenon
  <2> QED
    BY <1>10, <1>14, <2>1, Zenon DEF OnWay
<1>17. phase' # "rollout"
  BY <1>1
<1> QED
  BY <1>13, <1>15, <1>16, <1>17, Zenon DEF ScoreInv

(* and while the search waits.                                             *)
LEMMA WaitingScores ==
  ASSUME ScoreInv, Calling, UNCHANGED <<phase, tree, context, sim>>
  PROVE  ScoreInv'
<1>1. AllPositive' <=> AllPositive
  BY PositiveStays, Zenon DEF Calling
<1>2. SUFFICES ASSUME AllPositive, Searching PROVE ScoreInv'
  BY <1>1, Zenon DEF ScoreInv, Searching
<1>3. /\ context.node # NoNode
      /\ \A path \in DOMAIN tree : ScoresAt(tree, path)
      /\ OnWay(tree, context.node)
      /\ phase = "rollout" => LeafScores(context.node)
  BY <1>2, Zenon DEF ScoreInv
<1>4. \A path \in DOMAIN tree' : ScoresAt(tree, path)'
  <2>1. \A path \in DOMAIN tree' : ScoresAt(tree', path)
    <3>1. PICK u, v : u = tree /\ v = tree'
      BY Zenon
    <3> QED
      BY <1>3, <3>1, Zenon
  <2> QED
    BY <2>1, ScoresNext, Zenon DEF Calling
<1>5. LeafScores(context.node)' <=> LeafScores(context.node)
  <2>1. AllZero(tree, context.node)' <=> AllZero(tree, context.node)
    BY Zenon DEF AllZero, Teams, Calling
  <2>2. OnTheClock(context)' = OnTheClock(context)
    BY Zenon DEF OnTheClock, Calling
  <2> QED
    BY <2>1, <2>2, Zenon DEF LeafScores
<1> QED
  BY <1>3, <1>4, <1>5, Zenon DEF ScoreInv, OnWay

(* Every step keeps the scores numbers.                                    *)
LEMMA ScoreInvStep ==
  /\ SearchInv /\ PoolTypeOK /\ OrderInv /\ RolloutInv /\ ScoreInv
  /\ [SearchNext]_searchVars
  => ScoreInv'
<1>1. ASSUME phase' \in {"draft", "aborted", "returned"} PROVE ScoreInv'
  <2>1. ~Searching'
    BY <1>1 DEF Searching
  <2> QED
    BY <2>1, Zenon DEF ScoreInv
<1>2. ASSUME Prepare \/ SearchAborts \/ SearchReturns
      PROVE  phase' \in {"draft", "aborted", "returned"}
  <2>1. ASSUME Prepare PROVE phase' = "draft"
    BY <2>1, PrepareIs, Zenon
  <2> QED
    BY <1>2, <2>1, Zenon DEF SearchAborts, SearchReturns
<1>3. ASSUME ScoreInv, Tick \/ UNCHANGED searchVars PROVE ScoreInv'
  <2>1. Calling /\ UNCHANGED <<phase, tree, context, sim>>
    BY <1>3, Zenon DEF Tick, searchVars, draftVars, poolVars, Calling
  <2> QED
    BY <1>3, <2>1, WaitingScores, Zenon
<1> QED
  BY <1>1, <1>2, <1>3, CalledScores, VisitRootScores, VisitLeafScores, VisitInnerScores,
     RolloutPickScores, RolloutEndsScores, Zenon DEF SearchNext, SearchStep

(* The invariant of the scores.                                            *)
LEMMA ScoreInvariant == SearchSpec => []ScoreInv
<1>1. SearchInit => ScoreInv
  <2>1. SearchInit => phase = "draft"
    BY Zenon DEF SearchInit
  <2>2. phase = "draft" => ~Searching
    BY DEF Searching
  <2> QED
    BY <2>1, <2>2, Zenon DEF ScoreInv
<1> QED
  BY <1>1, SearchInvariant, SearchPoolType, OrderInvariant, RolloutInvariant, ScoreInvStep,
     PTL DEF SearchSpec

(* drafter.c:151: while every player is projected above zero no score is   *)
(* NaN, so select_child always finds a node and only the clock ends the    *)
(* search.                                                                 *)
THEOREM OnlyTheClockStops == SearchSpec => []OnlyTimeStopsIt
<1>1. ScoreInv => OnlyTimeStopsIt
  BY Zenon DEF ScoreInv, OnlyTimeStopsIt, AllPositive
<1> QED
  BY <1>1, ScoreInvariant, PTL

-----------------------------------------------------------------------------
(* The steps of a search, by what they do to the tree.                     *)

(* The same nodes, visited or not as they were.                            *)
Kept(u, v) ==
  /\ DOMAIN v = DOMAIN u
  /\ \A path \in DOMAIN u :
       SamePick(u[path], v[path]) /\ (v[path].visited > 0 <=> u[path].visited > 0)

(* The node the search is at is expanded.                                  *)
Expands(node, found, v) ==
  /\ CallInv /\ TreeInv /\ Calling /\ phase = "loop" /\ clock' = clock
  /\ node = context.node /\ node \in DOMAIN tree /\ node \in Seq(Nat)
  /\ context = ContextAt(node)
  /\ Children(node) = {} /\ ~expand_tree_Faults(node)
  /\ found = expand_tree(node) /\ Legal(node, found)
  /\ v = tree' /\ Grew(node, found, v) /\ Visit(tree, v, node)
  /\ v[node].visited > 0
  /\ \A s \in DOMAIN found : v[Append(node, s)].visited = 0

(* A visit to a leaf expands it.                                           *)
LEMMA VisitExpands ==
  ASSUME SearchInv, VisitRoot \/ VisitLeaf
  PROVE  \E node, found, v : Expands(node, found, v)
<1>1. /\ TimeLeft /\ is_leaf(context.node) /\ ~expand_tree_Faults(context.node)
      /\ tree' = Grown(context.node, expand_tree(context.node))
      /\ Calling /\ clock' = clock
  BY Zenon DEF VisitRoot, VisitLeaf, draftVars, poolVars, Calling
<1>2. phase = "loop" /\ context.node # NoNode
  BY <1>1, Zenon DEF TimeLeft
<1>3. phase # "draft" /\ Searching
  BY <1>2 DEF Searching
<1>4. CallInv /\ TreeInv /\ ContextInv
  BY <1>3, Zenon DEF SearchInv
<1>5. PICK node, found, v : node = context.node /\ found = expand_tree(node) /\ v = tree'
  BY Zenon
<1>6. node \in DOMAIN tree /\ context = ContextAt(node)
  BY <1>2, <1>4, <1>5, Zenon DEF ContextInv
<1>7. node \in Seq(Nat)
  BY <1>4, <1>6, Zenon DEF TreeInv, IsTree
<1>8. Legal(node, found) /\ Children(node) = {} /\ ~expand_tree_Faults(node)
  BY <1>1, <1>4, <1>5, <1>6, FoundIsLegal, Zenon DEF is_leaf
<1>9. v = Grown(node, found)
  BY <1>1, <1>5, Zenon
<1>10. Grew(node, found, v)
  BY <1>4, <1>6, <1>8, <1>9, GrownShape, Zenon
<1>11. Visit(tree, v, node) /\ \A s \in DOMAIN found : v[Append(node, s)].visited = 0
  <2>1. PICK u : u = tree
    OBVIOUS
  <2>2. Visit(u, v, node)
    BY <1>4, <1>6, <1>8, <1>9, <2>1, GrownIsVisit, ZenonT(60)
  <2>3. ASSUME NEW s \in DOMAIN found PROVE v[Append(node, s)].visited = 0
    BY <1>4, <1>6, <1>8, <1>9, GrownIsVisit, ZenonT(60)
  <2> QED
    BY <2>1, <2>2, <2>3, Zenon
<1>12. v[node].visited > 0
  <2>1. tree[node].visited \in 0 .. VisitCap
    BY <1>4, <1>6, TreeIsCounted, Zenon DEF CountedTree
  <2> QED
    BY <1>11, <2>1, VisitIsMore, Zenon DEF Visit
<1>13. Expands(node, found, v)
  BY <1>1, <1>2, <1>4, <1>5, <1>6, <1>7, <1>8, <1>10, <1>11, <1>12, Zenon DEF Expands
<1> QED
  BY <1>13, Zenon

(* A node with children has been visited.                                  *)
LEMMA ParentVisited ==
  ASSUME SearchInv, VisitInv, Searching, context.node # NoNode,
         NEW path \in DOMAIN tree, Children(path) # {}
  PROVE  tree[path].visited > 0
<1>1. phase # "draft"
  BY DEF Searching
<1>2. CallInv /\ TreeInv
  BY <1>1, Zenon DEF SearchInv
<1>3. AddsUp(tree, path, Waits(path))
  BY Zenon DEF VisitInv, VisitsAt
<1>4. tree[path].visited \in 0 .. VisitCap
  BY <1>2, TreeIsCounted, Zenon DEF CountedTree
<1>5. VisitsBelow(tree, path) \in Nat
  BY <1>2, TreeIsCounted, VisitsOfChildren, Zenon
<1>6. PICK w : w = VisitsBelow(tree, path)
  OBVIOUS
<1>7. tree[path].visited < VisitCap =>
        tree[path].visited = 1 + w + (IF Waits(path) THEN 1 ELSE 0)
  BY <1>3, <1>6, Zenon DEF AddsUp, Children
<1>8. tree[path].visited < VisitCap =>
        tree[path].visited = 1 + w + 1 \/ tree[path].visited = 1 + w + 0
  BY <1>7, Zenon
<1>9. w \in Nat
  BY <1>5, <1>6, Zenon
<1> QED
  BY <1>4, <1>8, <1>9, VisitCapAssumption

(* A visit to a node with children.                                        *)
Passes(node, v) ==
  /\ CallInv /\ TreeInv /\ Calling /\ phase = "loop" /\ phase' = "loop" /\ clock' = clock
  /\ node = context.node /\ node \in DOMAIN tree /\ node \in Seq(Nat)
  /\ context = ContextAt(node) /\ node # NoNode
  /\ Children(node) # {} /\ tree[node].visited > 0
  /\ v = tree' /\ v = Visited(node) /\ Visit(tree, v, node) /\ Kept(tree, v)
  /\ v[node].visited > 1

(* A visit to another node passes on.                                      *)
LEMMA VisitPasses ==
  ASSUME SearchInv, VisitInv, VisitInner
  PROVE  \E node, v : Passes(node, v)
<1>1. /\ Calling /\ TimeLeft /\ phase = "loop" /\ phase' = "loop" /\ clock' = clock
      /\ tree' = Visited(context.node) /\ ~is_leaf(context.node)
  BY Zenon DEF VisitInner, draftVars, poolVars, Calling, TimeLeft
<1>2. phase # "draft" /\ Searching /\ context.node # NoNode
  BY <1>1 DEF Searching, TimeLeft
<1>3. CallInv /\ TreeInv /\ ContextInv
  BY <1>2, Zenon DEF SearchInv
<1>4. PICK node, v : node = context.node /\ v = tree'
  BY Zenon
<1>5. /\ node \in DOMAIN tree /\ context = ContextAt(node)
      /\ node \in Seq(Nat) /\ node # NoNode
  BY <1>2, <1>3, <1>4, Zenon DEF ContextInv, TreeInv, IsTree
<1>6. v = Visited(node) /\ Visit(tree, v, node) /\ DOMAIN v = DOMAIN tree
  BY <1>1, <1>3, <1>4, <1>5, VisitedIsVisit, Zenon DEF Visited
<1>7. Children(node) # {}
  BY <1>1, <1>4, Zenon DEF is_leaf
<1>8. tree[node].visited > 0
  BY <1>2, <1>5, <1>7, ParentVisited, Zenon
<1>9. v[node].visited > 0 /\ v[node].visited > 1
  <2>1. tree[node].visited \in 0 .. VisitCap
    BY <1>3, <1>5, TreeIsCounted, Zenon DEF CountedTree
  <2> QED
    BY <1>6, <1>8, <2>1, VisitIsMore, Zenon DEF Visit
<1>10. ASSUME NEW path \in DOMAIN tree
       PROVE  /\ SamePick(tree[path], v[path])
              /\ v[path].visited > 0 <=> tree[path].visited > 0
  <2>1. SamePick(tree[path], v[path])
    BY <1>3, <1>5, <1>6, VisitedShape, Zenon
  <2>2. CASE path = node
    BY <1>8, <1>9, <2>1, <2>2, Zenon
  <2>3. CASE path # node
    <3>1. v[path].visited = tree[path].visited
      BY <1>6, <2>3, Zenon DEF Visit
    <3> QED
      BY <2>1, <3>1, Zenon
  <2> QED
    BY <2>2, <2>3
<1>11. Kept(tree, v)
  BY <1>6, <1>10, Zenon DEF Kept
<1> QED
  BY <1>1, <1>3, <1>4, <1>5, <1>6, <1>7, <1>8, <1>9, <1>11, Zenon DEF Passes

(* The steps that make no node.                                            *)
Keeps ==
  \/ VisitInner \/ RolloutPick \/ RolloutEnds \/ SearchAborts \/ SearchReturns \/ Tick
  \/ UNCHANGED searchVars

(* They keep its nodes, and which of them are visited.                     *)
LEMMA KeepsTree ==
  ASSUME SearchInv, VisitInv, phase # "draft", Keeps
  PROVE  Calling /\ \E u, v : u = tree /\ v = tree' /\ Kept(u, v)
<1>1. CallInv /\ TreeInv
  BY Zenon DEF SearchInv
<1>2. ASSUME UNCHANGED tree, Calling
      PROVE  Calling /\ \E u, v : u = tree /\ v = tree' /\ Kept(u, v)
  <2>1. PICK u : u = tree
    OBVIOUS
  <2>2. Kept(u, u)
    BY Zenon DEF Kept, SamePick
  <2>3. tree' = u
    BY <1>2, <2>1, Zenon
  <2> QED
    BY <1>2, <2>1, <2>2, <2>3, Zenon
<1>3. CASE VisitInner
  <2>1. PICK node, v : Passes(node, v)
    BY <1>3, VisitPasses, Zenon
  <2>2. Calling /\ Kept(tree, v) /\ v = tree'
    BY <2>1, Zenon DEF Passes
  <2> QED
    BY <2>2, Zenon
<1>4. CASE RolloutEnds
  <2>1. Calling /\ phase = "rollout"
    BY <1>4, Zenon DEF RolloutEnds, draftVars, poolVars, Calling
  <2>2. PICK node, team, score :
          node = context.node /\ tree' = backpropogate_score(node, score, team)
    BY <1>4, Zenon DEF RolloutEnds
  <2>3. node \in DOMAIN tree
    <3>1. Searching /\ context.node # NoNode
      BY <1>1, <2>1 DEF Searching, CallInv
    <3> QED
      BY <2>2, <3>1, Zenon DEF SearchInv, ContextInv
  <2>4. PICK u, v : u = tree /\ v = tree'
    BY Zenon
  <2>5. DOMAIN v = DOMAIN u
    BY <2>2, <2>4, Zenon DEF backpropogate_score
  <2>6. ASSUME NEW path \in DOMAIN u
        PROVE  SamePick(u[path], v[path]) /\ v[path].visited = u[path].visited
    <3>1. SamePick(tree[path], backpropogate_score(node, score, team)[path])
      BY <1>1, <2>3, <2>4, RescoredShape, Zenon
    <3>2. backpropogate_score(node, score, team)[path].visited = tree[path].visited
      BY <1>1, <2>4, RescoredVisits, Zenon
    <3> QED
      BY <2>2, <2>4, <3>1, <3>2, Zenon
  <2>7. Kept(u, v)
    BY <2>5, <2>6, Zenon DEF Kept
  <2> QED
    BY <2>1, <2>4, <2>7, Zenon
<1>5. CASE RolloutPick \/ SearchAborts \/ SearchReturns \/ Tick \/ UNCHANGED searchVars
  <2>1. UNCHANGED tree /\ Calling
    BY <1>5, Zenon DEF RolloutPick, SearchAborts, SearchReturns, Tick, searchVars, draftVars,
       poolVars, Calling
  <2> QED
    BY <1>2, <2>1, Zenon
<1> QED
  BY <1>3, <1>4, <1>5, Zenon DEF Keeps

(* Every step is one of these.                                             *)
LEMMA StepsOfTree ==
  ASSUME [SearchNext]_searchVars
  PROVE  \/ Prepare
         \/ \E t \in ThinkTimes : calculate_best_pick_Called(t)
         \/ VisitRoot \/ VisitLeaf
         \/ Keeps
  BY Zenon DEF SearchNext, SearchStep, Keeps

-----------------------------------------------------------------------------
(* The depth of the tree and the children of its root.                     *)

WithinDraft(u) == \A path \in DOMAIN u : Len(taken) + Len(path) <= n_picks

DepthInv == phase # "draft" => WithinDraft(tree)

(* What the team on the clock requires when the search is called.          *)
AskedRow == create_search_context(config, taken)[order[Len(taken)]]

(* What the root is once it has been expanded.                             *)
Expanded(u) ==
  /\ ~RootFaults(config, AskedRow, IdsOf(taken))
  /\ u[<<>>].children = RootChildren(config, AskedRow, IdsOf(taken))
  /\ \A s \in u[<<>>].children :
       u[Append(<<>>, s)].player = whos_highest_projected(config, s, IdsOf(taken))

RootIsFound(u) ==
  IF u[<<>>].visited > 0 THEN Expanded(u) ELSE u[<<>>].children = {}

RootInv == phase # "draft" => RootIsFound(tree)

(* A tree is as deep in the next state, and its root as expanded.          *)
LEMMA WithinDraftStays ==
  ASSUME Calling, NEW u
  PROVE  WithinDraft(u)' <=> WithinDraft(u)
<1>1. n_picks' = n_picks /\ taken' = taken
  BY Zenon DEF n_picks, Calling
<1> QED
  BY <1>1, Zenon DEF WithinDraft

(* The faults of the queries depend on the pool alone,                     *)
LEMMA FaultsStay ==
  ASSUME UNCHANGED <<players, slot_markers>>, NEW c, NEW s, NEW ids
  PROVE  FlexFaults(c, s, ids)' <=> FlexFaults(c, s, ids)
<1>1. Ids' = Ids
  BY Zenon DEF Ids, number_of_players
<1>2. OptionResults(c, s, ids)' = OptionResults(c, s, ids)
  BY <1>1, Zenon DEF OptionResults, FirstFreeFrom
<1> QED
  BY <1>2, Zenon DEF FlexFaults

(* those of the root too,                                                  *)
LEMMA RootFaultsStay ==
  ASSUME UNCHANGED <<players, slot_markers>>, NEW c, NEW row, NEW ids
  PROVE  RootFaults(c, row, ids)' <=> RootFaults(c, row, ids)
  BY FaultsStay, Zenon DEF RootFaults

(* and what the team on the clock requires does not change.                *)
LEMMA AskedStays ==
  ASSUME CallInv, Calling
  PROVE  AskedRow' = AskedRow
<1>1. Len(taken) \in Nat
  <2>1. PICK S : taken \in Seq(S)
    BY Zenon DEF CallInv
  <2> QED
    BY <2>1
<1>2. PICK c, t : c = config /\ t = taken
  BY Zenon
<1>3. create_search_context(c, t)' = create_search_context(c, t)
  BY <1>1, <1>2, SamePlayersSameContext, Zenon DEF Calling
<1>4. config' = c /\ taken' = t /\ order' = order
  BY <1>2, Zenon DEF Calling
<1>5. create_search_context(config, taken)' = create_search_context(c, t)'
  BY <1>4, Zenon
<1> QED
  BY <1>2, <1>3, <1>4, <1>5, Zenon DEF AskedRow

(* So a root that is as it should be still is in the next state.           *)
LEMMA RootIsFoundStays ==
  ASSUME CallInv, Calling, NEW u
  PROVE  RootIsFound(u)' <=> RootIsFound(u)
<1>1. PICK c, t, row, ids : c = config /\ t = taken /\ row = AskedRow /\ ids = IdsOf(t)
  BY Zenon
<1>2. config' = c /\ taken' = t /\ AskedRow' = row
  BY <1>1, AskedStays, Zenon DEF Calling
<1>3. IdsOf(taken)' = ids /\ IdsOf(taken) = ids
  BY <1>1, <1>2, Zenon DEF IdsOf
<1>4. RootFaults(config, AskedRow, IdsOf(taken))' <=> RootFaults(c, row, ids)
  <2>1. RootFaults(config, AskedRow, IdsOf(taken))' <=> RootFaults(c, row, ids)'
    BY <1>2, <1>3, Zenon
  <2> QED
    BY <2>1, RootFaultsStay, Zenon DEF Calling
<1>5. RootChildren(config, AskedRow, IdsOf(taken))' = RootChildren(c, row, ids)
  <2>1. RootChildren(config, AskedRow, IdsOf(taken))' = RootChildren(c, row, ids)'
    BY <1>2, <1>3, Zenon
  <2> QED
    BY <2>1, RootChildrenStay, Zenon DEF Calling
<1>6. ASSUME NEW s
      PROVE  whos_highest_projected(config, s, IdsOf(taken))' = whos_highest_projected(c, s, ids)
  <2>1. whos_highest_projected(config, s, IdsOf(taken))' = whos_highest_projected(c, s, ids)'
    BY <1>2, <1>3, Zenon
  <2> QED
    BY <2>1, QueriesStay, Zenon DEF Calling
<1>7. Expanded(u)' <=> Expanded(u)
  BY <1>1, <1>3, <1>4, <1>5, <1>6, Zenon DEF Expanded
<1> QED
  BY <1>7, Zenon DEF RootIsFound

(* A tree that is kept.                                                    *)
LEMMA KeptTreeStays ==
  ASSUME NEW u, NEW v, Kept(u, v), IsTree(u)
  PROVE  /\ WithinDraft(u) => WithinDraft(v)
         /\ RootIsFound(u) => RootIsFound(v)
<1>1. WithinDraft(u) => WithinDraft(v)
  BY Zenon DEF Kept, WithinDraft
<1>2. <<>> \in DOMAIN u /\ \A s \in u[<<>>].children : Append(<<>>, s) \in DOMAIN u
  BY Zenon DEF IsTree
<1>3. /\ v[<<>>].children = u[<<>>].children
      /\ v[<<>>].visited > 0 <=> u[<<>>].visited > 0
      /\ \A s \in u[<<>>].children : v[Append(<<>>, s)].player = u[Append(<<>>, s)].player
  BY <1>2, Zenon DEF Kept, SamePick
<1>4. Expanded(u) => Expanded(v)
  BY <1>3, Zenon DEF Expanded
<1> QED
  BY <1>1, <1>3, <1>4, Zenon DEF RootIsFound

(* What expand_tree finds, in terms of the branch of its node.             *)
LEMMA ExpandFinds ==
  ASSUME CallInv, NEW node \in Seq(Nat), context = ContextAt(node),
         NEW b, b = Branch(node), NEW row, row = create_search_context(config, b)[order[Len(b)]]
  PROVE  /\ expand_tree(node) =
              IF Len(b) >= n_picks THEN <<>>
              ELSE [s \in RootChildren(config, row, IdsOf(b)) |->
                     whos_highest_projected(config, s, IdsOf(b))]
         /\ expand_tree_Faults(node) <=> Len(b) < n_picks /\ RootFaults(config, row, IdsOf(b))
<1>1. PICK r : r = create_search_context(config, b)
  BY Zenon
<1>2. PICK c : c = WithPickOf(context, node)
  OBVIOUS
<1>3. c.taken = b /\ c.requirements = r
  <2>1. c = ContextOf(node)
    BY <1>2, WithItsPick, Zenon
  <2>2. c = [node |-> node, taken |-> b, requirements |-> r]
    BY <1>1, <2>1, Zenon DEF ContextOf
  <2> QED
    BY <2>2
<1>4. OnTheClock(c) = order[Len(b)]
  BY <1>3, Zenon DEF OnTheClock
<1>5. expand_tree_Faults(node) <=> Len(b) < n_picks /\ RootFaults(config, row, IdsOf(b))
  BY <1>1, <1>2, <1>3, <1>4, Zenon DEF expand_tree_Faults
<1>6. expand_tree(node) =
        IF Len(b) >= n_picks THEN <<>>
        ELSE [s \in RootChildren(config, row, IdsOf(b)) |->
               whos_highest_projected(config, s, IdsOf(b))]
  BY <1>1, <1>2, <1>3, <1>4, Zenon DEF expand_tree
<1> QED
  BY <1>5, <1>6, Zenon

(* Expanding a node keeps the tree within the draft,                       *)
LEMMA ExpandedWithinDraft ==
  ASSUME NEW node, NEW found, NEW v, Expands(node, found, v), WithinDraft(tree)
  PROVE  WithinDraft(v)
<1>1. /\ CallInv /\ node \in Seq(Nat) /\ context = ContextAt(node) /\ found = expand_tree(node)
      /\ Legal(node, found) /\ Grew(node, found, v)
  BY Zenon DEF Expands
<1>2. ASSUME NEW s \in DOMAIN found PROVE Len(taken) + Len(Append(node, s)) <= n_picks
  <2>1. DOMAIN found # {}
    BY Zenon
  <2>2. ~Barren(Branch(node))
    BY <1>1, <2>1, FindsNothing, Zenon
  <2>3. ~(Len(Branch(node)) >= n_picks)
    BY <2>2, Zenon DEF Barren
  <2>4. Len(Branch(node)) = Len(taken) + Len(node) /\ Len(Branch(node)) \in Nat
    BY <1>1, BranchLength, Zenon
  <2>5. n_picks \in Nat
    BY <1>1, Zenon DEF CallInv, WellShaped, n_picks
  <2>6. Len(taken) \in Nat
    <3>1. PICK S : taken \in Seq(S)
      BY <1>1, Zenon DEF CallInv
    <3> QED
      BY <3>1
  <2>7. Len(Append(node, s)) = Len(node) + 1 /\ Len(node) \in Nat
    <3>1. s \in Nat
      BY <1>1, SlotsAreNaturals, Zenon DEF Legal
    <3> QED
      BY <1>1, <3>1, ChildPath, PathFacts, Zenon
  <2> QED
    BY <2>3, <2>4, <2>5, <2>6, <2>7
<1> QED
  BY <1>1, <1>2, Zenon DEF WithinDraft, Grew

(* and its root expanded as it was, or now.                                *)
LEMMA ExpandedRoot ==
  ASSUME NEW node, NEW found, NEW v, Expands(node, found, v), RootIsFound(tree),
         Len(taken) < n_picks
  PROVE  RootIsFound(v)
<1>1. /\ CallInv /\ TreeInv /\ node \in Seq(Nat) /\ node \in DOMAIN tree
      /\ context = ContextAt(node) /\ found = expand_tree(node)
      /\ ~expand_tree_Faults(node) /\ v[node].visited > 0 /\ Children(node) = {}
      /\ Legal(node, found) /\ Grew(node, found, v) /\ Visit(tree, v, node)
  BY Zenon DEF Expands
<1>2. CASE node = <<>>
  <2>1. PICK b, row : b = taken /\ row = AskedRow
    BY Zenon
  <2>2. b = Branch(node) /\ row = create_search_context(config, b)[order[Len(b)]]
    BY <1>1, <1>2, <2>1, ContextAtRoot, Zenon DEF AskedRow
  <2>3. Len(b) < n_picks /\ ~(Len(b) >= n_picks)
    <3>1. n_picks \in Nat
      BY <1>1, Zenon DEF CallInv, WellShaped, n_picks
    <3>2. PICK S : taken \in Seq(S)
      BY <1>1, Zenon DEF CallInv
    <3>3. Len(taken) \in Nat
      BY <3>2
    <3> QED
      BY <2>1, <3>1, <3>3
  <2>4. expand_tree_Faults(node) <=> Len(b) < n_picks /\ RootFaults(config, row, IdsOf(b))
    BY <1>1, <2>2, ExpandFinds
  <2>5. found = IF Len(b) >= n_picks THEN <<>>
                ELSE [s \in RootChildren(config, row, IdsOf(b)) |->
                        whos_highest_projected(config, s, IdsOf(b))]
    BY <1>1, <2>2, ExpandFinds
  <2>6. /\ DOMAIN found = RootChildren(config, row, IdsOf(b))
        /\ \A s \in DOMAIN found : found[s] = whos_highest_projected(config, s, IdsOf(b))
    BY <2>3, <2>5, Zenon
  <2>7. /\ v[<<>>].children = DOMAIN found
        /\ \A s \in DOMAIN found : v[Append(<<>>, s)].player = found[s]
    BY <1>1, <1>2, Zenon DEF Grew
  <2>8. Expanded(v)
    BY <1>1, <2>1, <2>3, <2>4, <2>6, <2>7, Zenon DEF Expanded
  <2> QED
    BY <1>1, <1>2, <2>8, Zenon DEF RootIsFound
<1>3. CASE node # <<>>
  <2>1. IsTree(tree)
    BY <1>1, Zenon DEF TreeInv
  <2>2. <<>> \in DOMAIN tree \ {node}
    BY <1>3, <2>1, Zenon DEF IsTree
  <2>3. v[<<>>].visited = tree[<<>>].visited /\ v[<<>>].children = tree[<<>>].children
    BY <1>1, <2>2, Zenon DEF Visit, Grew, SamePick
  <2>4. ASSUME NEW s \in tree[<<>>].children
        PROVE  v[Append(<<>>, s)].player = tree[Append(<<>>, s)].player
    <3>1. Append(<<>>, s) \in DOMAIN tree
      BY <2>1, Zenon DEF IsTree
    <3> QED
      BY <1>1, <3>1, Zenon DEF Grew, SamePick
  <2>5. Expanded(tree) => Expanded(v)
    BY <2>3, <2>4, Zenon DEF Expanded
  <2> QED
    BY <2>3, <2>5, Zenon DEF RootIsFound
<1> QED
  BY <1>2, <1>3

(* When the call begins the tree is a root not yet visited.                *)
LEMMA CalledRoot ==
  ASSUME SearchInv, NEW t \in ThinkTimes, calculate_best_pick_Called(t)
  PROVE  DepthInv' /\ RootInv'
<1>1. /\ Len(taken) < n_picks /\ tree' = [path \in {<<>>} |-> create_node(NoPlayer)]
      /\ UNCHANGED <<config, taken>>
  BY Zenon DEF calculate_best_pick_Called
<1>2. PICK x, v : x = [team \in Teams(config) |-> "zero"] /\ v = tree'
  BY Zenon
<1>3. v[<<>>] = [player |-> NoPlayer, visited |-> 0, scores |-> x, children |-> {}]
      /\ DOMAIN v = {<<>>}
  BY <1>1, <1>2, Zenon DEF create_node
<1>4. v[<<>>].visited = 0 /\ v[<<>>].children = {}
  BY <1>3
<1>5. Len(taken) + Len(<<>>) <= n_picks
  <2>1. PICK S : taken \in Seq(S)
    BY Zenon DEF SearchInv, CallInv
  <2>2. n_picks \in Nat
    BY Zenon DEF SearchInv, CallInv, WellShaped, n_picks
  <2>3. Len(taken) \in Nat /\ Len(<<>>) = 0
    BY <2>1
  <2> QED
    BY <1>1, <2>2, <2>3
<1>6. n_picks' = n_picks
  BY <1>1, Zenon DEF n_picks
<1>7. DepthInv'
  BY <1>1, <1>2, <1>3, <1>5, <1>6, Zenon DEF DepthInv, WithinDraft
<1>8. ~(v[<<>>].visited > 0)
  BY <1>4
<1> QED
  BY <1>2, <1>4, <1>7, <1>8, Zenon DEF RootInv, RootIsFound

(* Both hold throughout.                                                   *)
LEMMA RootInvStep ==
  /\ SearchInv /\ VisitInv /\ OrderInv /\ DepthInv /\ RootInv
  /\ [SearchNext]_searchVars
  => DepthInv' /\ RootInv'
<1>1. SUFFICES ASSUME SearchInv, VisitInv, OrderInv, DepthInv, RootInv, [SearchNext]_searchVars
               PROVE  DepthInv' /\ RootInv'
  BY Zenon
<1>2. ASSUME phase # "draft", Calling, NEW v, v = tree', WithinDraft(v), RootIsFound(v)
      PROVE  DepthInv' /\ RootInv'
  <2>1. CallInv
    BY <1>1, Zenon DEF SearchInv
  <2>2. WithinDraft(v)' /\ RootIsFound(v)'
    BY <1>2, <2>1, WithinDraftStays, RootIsFoundStays, Zenon
  <2>3. WithinDraft(tree)' /\ RootIsFound(tree)'
    BY <1>2, <2>2, Zenon DEF WithinDraft, RootIsFound, Expanded
  <2> QED
    BY <2>3, Zenon DEF DepthInv, RootInv
<1>3. CASE Prepare \/ (UNCHANGED searchVars /\ phase = "draft")
  <2>1. phase' = "draft"
    BY <1>3, PrepareIs, Zenon DEF searchVars
  <2> QED
    BY <2>1, Zenon DEF DepthInv, RootInv
<1>4. CASE VisitRoot \/ VisitLeaf
  <2>1. PICK node, found, v : Expands(node, found, v)
    BY <1>1, <1>4, VisitExpands
  <2>2. v = tree' /\ Calling /\ phase = "loop"
    BY <2>1, Zenon DEF Expands
  <2>3. phase # "draft"
    BY <2>2
  <2>4. WithinDraft(v)
    BY <1>1, <2>1, <2>3, ExpandedWithinDraft, Zenon DEF DepthInv
  <2>5. RootIsFound(v)
    BY <1>1, <2>1, <2>3, ExpandedRoot, Zenon DEF RootInv, OrderInv
  <2> QED
    BY <1>2, <2>2, <2>3, <2>4, <2>5, Zenon
<1>5. CASE Keeps /\ phase # "draft"
  <2>1. PICK u, v : Calling /\ u = tree /\ v = tree' /\ Kept(u, v)
    BY <1>1, <1>5, KeepsTree, Zenon
  <2>2. IsTree(u)
    BY <1>1, <1>5, <2>1, Zenon DEF SearchInv, TreeInv
  <2>3. WithinDraft(u) /\ RootIsFound(u)
    BY <1>1, <1>5, <2>1, Zenon DEF DepthInv, RootInv
  <2>4. WithinDraft(v) /\ RootIsFound(v)
    BY <2>1, <2>2, <2>3, KeptTreeStays, Zenon
  <2> QED
    BY <1>2, <1>5, <2>1, <2>4, Zenon
<1>6. CASE Keeps /\ phase = "draft"
  <2>1. ASSUME VisitInner \/ RolloutPick \/ RolloutEnds \/ SearchAborts \/ SearchReturns \/ Tick
        PROVE  phase \in {"loop", "rollout"}
    BY <2>1, Zenon DEF VisitInner, RolloutPick, RolloutEnds, SearchAborts, SearchReturns, Tick,
       TimeLeft
  <2>2. UNCHANGED searchVars
    BY <1>6, <2>1 DEF Keeps
  <2> QED
    BY <1>3, <1>6, <2>2, Zenon
<1> QED
  BY <1>1, <1>3, <1>4, <1>5, <1>6, CalledRoot, StepsOfTree, Zenon

(* The tree stays within the draft, and its root is as expand_tree made it.*)
LEMMA RootInvariant == SearchSpec => [](DepthInv /\ RootInv)
<1>1. SearchInit => DepthInv /\ RootInv
  BY Zenon DEF SearchInit, DepthInv, RootInv
<1> QED
  BY <1>1, SearchInvariant, VisitInvariant, OrderInvariant, RootInvStep, PTL DEF SearchSpec

-----------------------------------------------------------------------------
(* Where a visit to a node with children leads.                            *)

(* To a child, never visited unless all have been, or to none.             *)
GoesTo(node, next) ==
  /\ ChildOrNone(node, next)
  /\ \/ \E s \in Children(node) : next = Append(node, s) /\ tree[next].visited = 0
     \/ \A s \in Children(node) : tree[Append(node, s)].visited # 0

(* So it is with what select_child returns.                                *)
LEMMA SelectedGoesTo ==
  ASSUME TreeInv, NEW node \in DOMAIN tree, NEW visited, NEW team,
         NEW next \in select_child(node, visited, team)
  PROVE  GoesTo(node, next)
<1> DEFINE unvisited == { s \in Children(node) : Child(node, s).visited = 0 }
<1>1. ChildOrNone(node, next)
  BY SelectedIsChild, Zenon
<1>2. CASE unvisited = {}
  <2>1. \A s \in Children(node) : Child(node, s).visited # 0
    BY <1>2, Zenon
  <2> QED
    BY <1>1, <2>1, Zenon DEF GoesTo, Child
<1>3. CASE unvisited # {}
  <2>1. Children(node) \in SUBSET Nat
    BY SlotsAreNaturals, Zenon DEF TreeInv, Children, Node
  <2>2. PICK S : S = unvisited
    OBVIOUS
  <2>3. S \in SUBSET Nat /\ S # {}
    BY <1>3, <2>1, <2>2, Zenon
  <2>4. Min(S) \in S
    BY <2>3, MinIsMember
  <2>5. next = Append(node, Min(S))
    <3> DEFINE best == GreatestOf([s \in Children(node) |->
                                     calculate_ucb(Append(node, s), visited, team)])
    <3>1. select_child(node, visited, team)
            = IF unvisited # {} THEN {Append(node, Min(unvisited))}
              ELSE IF best # {} THEN { Append(node, s) : s \in best }
              ELSE {NoNode}
      BY Zenon DEF select_child
    <3> HIDE DEF unvisited, best
    <3> QED
      BY <1>3, <2>2, <3>1, Zenon
  <2>6. Min(S) \in Children(node) /\ Child(node, Min(S)).visited = 0
    BY <2>2, <2>4, Zenon
  <2> QED
    BY <1>1, <2>5, <2>6, Zenon DEF GoesTo, Child
<1> QED
  BY <1>2, <1>3

(* And so the search goes on from a node it visits.                        *)
LEMMA PassesTo ==
  ASSUME SearchInv, VisitInner, NEW node, NEW v, Passes(node, v)
  PROVE  \E next : context'.node = next /\ GoesTo(node, next)
<1>1. /\ CallInv /\ TreeInv /\ node = context.node /\ node \in DOMAIN tree /\ node \in Seq(Nat)
      /\ context = ContextAt(node)
  BY Zenon DEF Passes
<1>2. PICK c, visited, team : /\ c = WithPickOf(context, node)
                              /\ visited = tree'[node].visited /\ team = OnTheClock(c)
  BY Zenon
<1>3. PICK next \in select_child(node, visited, team) : context' = [c EXCEPT !.node = next]
  BY <1>1, <1>2, Zenon DEF VisitInner
<1>4. c = [node |-> node, taken |-> Branch(node),
           requirements |-> create_search_context(config, Branch(node))]
  BY <1>1, <1>2, WithItsPick, Zenon DEF ContextOf
<1>5. context'.node = next
  <2>1. PICK b, r : b = Branch(node) /\ r = create_search_context(config, b)
    BY Zenon
  <2>2. c = [node |-> node, taken |-> b, requirements |-> r]
    BY <1>4, <2>1, Zenon
  <2> QED
    BY <1>3, <2>2
<1>6. GoesTo(node, next)
  BY <1>1, <1>3, SelectedGoesTo, Zenon
<1> QED
  BY <1>5, <1>6, Zenon

-----------------------------------------------------------------------------
(* A look at each of the root's children.                                  *)

LooksDone(u) ==
  /\ u[<<>>].visited > 0
  /\ \A s \in u[<<>>].children : u[Append(<<>>, s)].visited > 0

(* When the search has looked at them all: after the first second, and     *)
(* once it is below them or nowhere.                                       *)
HasLooked(u, node, k, ph) ==
  \/ k > 1
  \/ node = NoNode
  \/ node # <<>> /\ Front(node) # <<>>
  \/ node # <<>> /\ ph = "loop" /\ u[node].visited > 0

LookInv == Searching => (HasLooked(tree, context.node, clock, phase) => LooksDone(tree))

(* The looks are not undone.                                               *)
LEMMA KeptLooks ==
  ASSUME NEW u, NEW v, Kept(u, v), IsTree(u), LooksDone(u)
  PROVE  LooksDone(v)
<1>1. <<>> \in DOMAIN u /\ \A s \in u[<<>>].children : Append(<<>>, s) \in DOMAIN u
  BY Zenon DEF IsTree
<1> QED
  BY <1>1, Zenon DEF Kept, SamePick, LooksDone

(* Nor are they by an expansion.                                           *)
LEMMA ExpandedLooks ==
  ASSUME NEW node, NEW found, NEW v, Expands(node, found, v), RootIsFound(tree), RootIsFound(v),
         LooksDone(tree)
  PROVE  LooksDone(v)
<1>1. /\ TreeInv /\ node \in DOMAIN tree /\ Children(node) = {} /\ v[node].visited > 0
      /\ Grew(node, found, v) /\ Visit(tree, v, node)
  BY Zenon DEF Expands
<1>2. CASE node = <<>>
  <2>1. Expanded(tree) /\ Expanded(v)
    BY <1>1, <1>2, Zenon DEF RootIsFound, LooksDone
  <2>2. v[<<>>].children = tree[<<>>].children
    BY <2>1, Zenon DEF Expanded
  <2>3. v[<<>>].children = {}
    BY <1>1, <1>2, <2>2, Zenon DEF Children
  <2> QED
    BY <1>1, <1>2, <2>3, Zenon DEF LooksDone
<1>3. CASE node # <<>>
  <2>1. IsTree(tree)
    BY <1>1, Zenon DEF TreeInv
  <2>2. <<>> \in DOMAIN tree \ {node}
    BY <1>3, <2>1, Zenon DEF IsTree
  <2>3. v[<<>>].visited = tree[<<>>].visited /\ v[<<>>].children = tree[<<>>].children
    BY <1>1, <2>2, Zenon DEF Visit, Grew, SamePick
  <2>4. ASSUME NEW s \in tree[<<>>].children PROVE v[Append(<<>>, s)].visited > 0
    <3>1. PICK path : path = Append(<<>>, s)
      OBVIOUS
    <3>2. path \in DOMAIN tree
      BY <2>1, <3>1, Zenon DEF IsTree
    <3>3. CASE path = node
      BY <1>1, <3>1, <3>3, Zenon
    <3>4. CASE path # node
      <4>1. v[path].visited = tree[path].visited
        BY <1>1, <3>2, <3>4, Zenon DEF Visit
      <4> QED
        BY <3>1, <4>1, Zenon DEF LooksDone
    <3> QED
      BY <3>3, <3>4
  <2> QED
    BY <2>3, <2>4, Zenon DEF LooksDone
<1> QED
  BY <1>2, <1>3

(* The node a visit leads to from the root, or from below it.              *)
LEMMA PassedLooks ==
  ASSUME SearchInv, NEW node, NEW v, Passes(node, v), NEW next, GoesTo(node, next),
         HasLooked(tree, node, clock, "loop") => LooksDone(tree),
         HasLooked(v, next, clock, "loop")
  PROVE  LooksDone(v)
<1>1. /\ CallInv /\ TreeInv /\ node \in DOMAIN tree /\ node \in Seq(Nat) /\ node # NoNode
      /\ Children(node) # {} /\ tree[node].visited > 0
      /\ Kept(tree, v)
  BY Zenon DEF Passes
<1>2. IsTree(tree)
  BY <1>1, Zenon DEF TreeInv
<1>3. SUFFICES LooksDone(tree)
  BY <1>1, <1>2, KeptLooks, Zenon
<1>4. CASE HasLooked(tree, node, clock, "loop")
  BY <1>4
<1>5. CASE ~HasLooked(tree, node, clock, "loop")
  <2>1. node = <<>> /\ ~(clock > 1)
    BY <1>1, <1>5, Zenon DEF HasLooked
  <2>2. Children(node) \in SUBSET Nat
    BY <1>1, SlotsAreNaturals, Zenon DEF TreeInv, Children, Node
  <2>3. CASE \A s \in Children(node) : tree[Append(node, s)].visited # 0
    <3>1. ASSUME NEW s \in tree[<<>>].children PROVE tree[Append(<<>>, s)].visited > 0
      <4>1. PICK path : path = Append(<<>>, s)
        OBVIOUS
      <4>2. path \in DOMAIN tree /\ tree[path].visited # 0
        BY <1>2, <2>1, <2>3, <4>1, Zenon DEF IsTree, Children
      <4>3. tree[path].visited \in 0 .. VisitCap
        BY <1>1, <4>2, TreeIsCounted, Zenon DEF CountedTree
      <4> QED
        BY <4>1, <4>2, <4>3
    <3> QED
      BY <1>1, <2>1, <3>1, Zenon DEF LooksDone
  <2>4. ASSUME NEW s \in Children(node), next = Append(node, s), tree[next].visited = 0
        PROVE  FALSE
    <3>1. s \in Nat
      BY <2>2, Zenon
    <3>2. next \in Seq(Nat) /\ Front(next) = <<>>
      BY <1>1, <2>1, <2>4, <3>1, ChildPath, Zenon
    <3>3. next # NoNode
      BY <3>2, NoNodeIsNoPath, Zenon
    <3>4. next \in DOMAIN tree
      BY <1>1, <1>2, <2>4, Zenon DEF IsTree, Children
    <3>5. ~(v[next].visited > 0)
      <4>1. ~(tree[next].visited > 0)
        BY <2>4
      <4> QED
        BY <1>1, <3>4, <4>1, Zenon DEF Kept
    <3> QED
      BY <2>1, <3>2, <3>3, <3>5, Zenon DEF HasLooked
  <2> QED
    BY <2>3, <2>4, Zenon DEF GoesTo
<1> QED
  BY <1>4, <1>5

(* Every step keeps it so.                                                 *)
LEMMA LookInvStep ==
  /\ SearchInv /\ VisitInv /\ RootInv /\ RootInv' /\ LookInv
  /\ [SearchNext]_searchVars
  => LookInv'
<1>1. SUFFICES ASSUME SearchInv, VisitInv, RootInv, RootInv', LookInv, [SearchNext]_searchVars,
                      Searching', HasLooked(tree, context.node, clock, phase)'
               PROVE  LooksDone(tree)'
  BY Zenon DEF LookInv
<1>2. PICK v, next, k, ph : v = tree' /\ next = context'.node /\ k = clock' /\ ph = phase'
  BY Zenon
<1>3. HasLooked(v, next, k, ph) /\ ph \in {"loop", "rollout"}
  BY <1>1, <1>2, Zenon DEF HasLooked, Searching
<1>4. SUFFICES LooksDone(v)
  BY <1>2, Zenon DEF LooksDone
<1>5. ph # "draft" /\ phase' # "draft"
  BY <1>2, <1>3
<1>6. CASE Prepare
  <2>1. phase' = "draft"
    BY <1>6, PrepareIs, Zenon
  <2> QED
    BY <1>5, <2>1
<1>7. ASSUME NEW t \in ThinkTimes, calculate_best_pick_Called(t) PROVE LooksDone(v)
  <2>1. phase = "draft" /\ context' = MASTER_CONTEXT /\ clock' = clock
    BY <1>7, Zenon DEF calculate_best_pick_Called
  <2>2. clock = 0
    BY <1>1, <2>1, Zenon DEF SearchInv, CallInv
  <2>3. next = <<>>
    BY <1>2, <2>1 DEF MASTER_CONTEXT
  <2>4. next # NoNode
    BY <2>3, RootIsPath, NoNodeIsNoPath, Zenon
  <2>5. ~(k > 1)
    BY <1>2, <2>1, <2>2
  <2> QED
    BY <1>3, <2>3, <2>4, <2>5, Zenon DEF HasLooked
<1>8. CASE VisitRoot \/ VisitLeaf
  <2>1. PICK node, found, w : Expands(node, found, w)
    BY <1>1, <1>8, VisitExpands
  <2>2. /\ w = v /\ phase = "loop" /\ k = clock /\ node = context.node /\ node \in Seq(Nat)
    BY <1>2, <2>1, Zenon DEF Expands
  <2>3. Searching /\ phase # "draft"
    BY <2>2 DEF Searching
  <2>4. RootIsFound(tree) /\ RootIsFound(v)
    <3>1. RootIsFound(tree)' /\ Calling /\ CallInv
      BY <1>1, <1>5, <2>1, Zenon DEF RootInv, Expands
    <3>2. RootIsFound(v)' <=> RootIsFound(v)
      BY <3>1, RootIsFoundStays, Zenon
    <3>3. RootIsFound(v)'
      BY <1>2, <3>1, Zenon DEF RootIsFound, Expanded
    <3> QED
      BY <1>1, <2>3, <3>2, <3>3, Zenon DEF RootInv
  <2>5. HasLooked(tree, node, clock, "loop") => LooksDone(tree)
    BY <1>1, <2>2, <2>3, Zenon DEF LookInv
  <2>6. HasLooked(tree, node, clock, "loop")
    <3>1. CASE VisitRoot
      <4>1. context' = MASTER_CONTEXT
        BY <3>1, Zenon DEF VisitRoot
      <4>2. next = <<>>
        BY <1>2, <4>1 DEF MASTER_CONTEXT
      <4>3. next # NoNode
        BY <4>2, RootIsPath, NoNodeIsNoPath, Zenon
      <4> QED
        BY <1>3, <2>2, <4>2, <4>3, Zenon DEF HasLooked
    <3>2. CASE VisitLeaf
      <4>1. next = node /\ ph = "rollout"
        BY <1>2, <2>2, <3>2, Zenon DEF VisitLeaf
      <4>2. ph # "loop"
        BY <4>1
      <4> QED
        BY <1>3, <2>2, <4>1, <4>2, Zenon DEF HasLooked
    <3> QED
      BY <1>8, <3>1, <3>2
  <2> QED
    BY <2>1, <2>2, <2>4, <2>5, <2>6, ExpandedLooks, Zenon
<1>9. CASE Keeps
  <2>1. phase # "draft"
    <3>1. ASSUME VisitInner \/ RolloutPick \/ RolloutEnds \/ SearchAborts \/ SearchReturns \/ Tick
          PROVE  phase \in {"loop", "rollout"}
      BY <3>1, Zenon DEF VisitInner, RolloutPick, RolloutEnds, SearchAborts, SearchReturns, Tick,
         TimeLeft
    <3>2. UNCHANGED searchVars => phase' = phase
      BY Zenon DEF searchVars
    <3> QED
      BY <1>5, <1>9, <3>1, <3>2 DEF Keeps
  <2>2. PICK u, w : Calling /\ u = tree /\ w = tree' /\ Kept(u, w)
    BY <1>1, <1>9, <2>1, KeepsTree, Zenon
  <2>3. IsTree(u) /\ u = tree /\ w = v /\ Kept(u, v)
    BY <1>1, <1>2, <2>1, <2>2, Zenon DEF SearchInv, TreeInv
  <2>4. CASE VisitInner
    <3>1. PICK node, z : Passes(node, z)
      BY <1>1, <2>4, VisitPasses, Zenon
    <3>2. PICK after : context'.node = after /\ GoesTo(node, after)
      BY <1>1, <2>4, <3>1, PassesTo, Zenon
    <3>3. /\ node = context.node /\ phase = "loop" /\ phase' = "loop" /\ clock' = clock /\ z = tree'
      BY <3>1, Zenon DEF Passes
    <3>4. z = v /\ ph = "loop" /\ k = clock /\ after = next
      BY <1>2, <3>2, <3>3, Zenon
    <3>5. Searching
      BY <3>3 DEF Searching
    <3>6. HasLooked(tree, node, clock, "loop") => LooksDone(tree)
      BY <1>1, <3>3, <3>5, Zenon DEF LookInv
    <3>7. HasLooked(v, next, clock, "loop")
      BY <1>3, <3>4, Zenon
    <3> QED
      BY <1>1, <3>1, <3>2, <3>4, <3>6, <3>7, PassedLooks, Zenon
  <2>5. CASE RolloutEnds
    <3>1. context' = MASTER_CONTEXT /\ k = clock /\ phase = "rollout"
      BY <1>2, <2>5, Zenon DEF RolloutEnds
    <3>2. next = <<>>
      BY <1>2, <3>1 DEF MASTER_CONTEXT
    <3>3. next # NoNode
      BY <3>2, RootIsPath, NoNodeIsNoPath, Zenon
    <3>4. clock > 1
      BY <1>3, <3>1, <3>2, <3>3, Zenon DEF HasLooked
    <3>5. Searching
      BY <3>1 DEF Searching
    <3>6. LooksDone(u)
      BY <1>1, <2>3, <3>4, <3>5, Zenon DEF LookInv, HasLooked
    <3> QED
      BY <2>3, <3>6, KeptLooks, Zenon
  <2>6. CASE SearchAborts \/ SearchReturns
    <3>1. ph \notin {"loop", "rollout"}
      BY <1>2, <2>6 DEF SearchAborts, SearchReturns
    <3> QED
      BY <1>3, <3>1
  <2>7. CASE RolloutPick \/ Tick \/ UNCHANGED searchVars
    <3>1. UNCHANGED <<phase, tree, context>>
      BY <2>7, Zenon DEF RolloutPick, Tick, searchVars
    <3>2. u = v /\ Searching /\ next = context.node /\ ph = phase
      BY <1>2, <1>3, <2>3, <3>1, Zenon DEF Searching
    <3>3. CASE HasLooked(tree, next, clock, ph)
      BY <1>1, <2>3, <3>2, <3>3, Zenon DEF LookInv
    <3>4. CASE ~HasLooked(tree, next, clock, ph)
      <4>1. k > 1 /\ ~(clock > 1)
        BY <1>3, <2>3, <3>2, <3>4, Zenon DEF HasLooked
      <4>2. Tick
        <5>1. RolloutPick \/ UNCHANGED searchVars => clock' = clock
          BY Zenon DEF RolloutPick, searchVars
        <5> QED
          BY <1>2, <2>7, <4>1, <5>1, Zenon
      <4>3. clock > 0
        <5>1. clock \in Nat
          <6>1. clock \in 0 .. think_time
            BY <1>1, Zenon DEF SearchInv, CallInv
          <6> QED
            BY <6>1
        <5>2. k = clock + 1
          BY <1>2, <4>2, Zenon DEF Tick
        <5> QED
          BY <4>1, <5>1, <5>2
      <4>4. tree[<<>>].visited > 0 /\ \A s \in Children(<<>>) : Child(<<>>, s).visited > 0
        BY <4>2, <4>3, Zenon DEF Tick
      <4> QED
        BY <2>3, <3>2, <4>4, Zenon DEF LooksDone, Children, Child
    <3> QED
      BY <3>3, <3>4
  <2> QED
    BY <1>9, <2>4, <2>5, <2>6, <2>7, Zenon DEF Keeps
<1> QED
  BY <1>1, <1>6, <1>7, <1>8, <1>9, StepsOfTree, Zenon

(* All of the root's children are looked at before the search goes deeper. *)
LEMMA LookInvariant == SearchSpec => []LookInv
<1>1. SearchInit => LookInv
  <2>1. SearchInit => phase = "draft"
    BY Zenon DEF SearchInit
  <2>2. phase = "draft" => ~Searching
    BY DEF Searching
  <2> QED
    BY <2>1, <2>2, Zenon DEF LookInv
<1> QED
  BY <1>1, SearchInvariant, VisitInvariant, RootInvariant, LookInvStep, PTL DEF SearchSpec

-----------------------------------------------------------------------------
(* The way from the root to the node the search is at.                     *)

Arrived(u, node, ph) ==
  /\ OnWay(u, node)
  /\ ph = "rollout" => node # <<>> /\ u[node].visited > 0

WayInv == Searching /\ context.node # NoNode => Arrived(tree, context.node, phase)

(* Nothing is above the root.                                              *)
LEMMA ArrivedAtRoot ==
  ASSUME NEW u
  PROVE  Arrived(u, <<>>, "loop")
<1>1. "loop" # "rollout"
  OBVIOUS
<1> QED
  BY <1>1, OnWayToRoot, Zenon DEF Arrived

(* A visit to a leaf leaves the search where it is,                        *)
LEMMA ExpandedWay ==
  ASSUME NEW node, NEW found, NEW v, Expands(node, found, v), OnWay(tree, node), node # <<>>
  PROVE  Arrived(v, node, "rollout")
<1>1. /\ TreeInv /\ node \in DOMAIN tree /\ v[node].visited > 0 /\ Visit(tree, v, node)
  BY Zenon DEF Expands
<1>2. ASSUME NEW k \in 0 .. Len(node) - 1 PROVE v[SubSeq(node, 1, k)].visited > 1
  <2>1. SubSeq(node, 1, k) \in DOMAIN tree \ {node}
    BY <1>1, AboveIsElsewhere, Zenon
  <2> QED
    BY <1>1, <2>1, Zenon DEF Visit, OnWay
<1> QED
  BY <1>1, <1>2, Zenon DEF Arrived, OnWay

(* and a visit to a node with children brings it one further.              *)
LEMMA PassedWay ==
  ASSUME NEW node, NEW v, Passes(node, v), OnWay(tree, node), NEW next, GoesTo(node, next),
         next # NoNode
  PROVE  Arrived(v, next, "loop")
<1>1. /\ CallInv /\ TreeInv /\ node \in DOMAIN tree /\ node \in Seq(Nat)
      /\ Visit(tree, v, node) /\ v[node].visited > 1
  BY Zenon DEF Passes
<1>2. PICK s \in Children(node) : next = Append(node, s)
  BY Zenon DEF GoesTo, ChildOrNone
<1>3. s \in Nat
  <2>1. Children(node) \in SUBSET Nat
    BY <1>1, TreeIsCounted, Zenon DEF CountedTree, Children
  <2> QED
    BY <2>1, Zenon
<1>4. /\ Len(next) = Len(node) + 1
      /\ \A k \in 0 .. Len(node) : SubSeq(next, 1, k) = SubSeq(node, 1, k)
  <2>1. PICK q : q = Append(node, s)
    OBVIOUS
  <2>2. /\ Len(q) = Len(node) + 1
        /\ \A k \in 0 .. Len(node) : SubSeq(q, 1, k) = SubSeq(node, 1, k)
    BY <1>1, <1>3, <2>1, ChildPath, Zenon
  <2> QED
    BY <1>2, <2>1, <2>2, Zenon
<1>5. ASSUME NEW k \in 0 .. Len(next) - 1 PROVE v[SubSeq(next, 1, k)].visited > 1
  <2>1. k \in 0 .. Len(node) /\ Len(node) \in Nat
    BY <1>1, <1>4
  <2>2. SubSeq(next, 1, k) = SubSeq(node, 1, k)
    BY <1>4, <2>1, Zenon
  <2>3. CASE k = Len(node)
    <3>1. SubSeq(node, 1, k) = node
      BY <1>1, <2>3, PathFacts, Zenon
    <3> QED
      BY <1>1, <2>2, <3>1, Zenon
  <2>4. CASE k # Len(node)
    <3>1. k \in 0 .. Len(node) - 1
      BY <2>1, <2>4
    <3>2. SubSeq(node, 1, k) \in DOMAIN tree \ {node}
      BY <1>1, <3>1, AboveIsElsewhere, Zenon
    <3> QED
      BY <1>1, <2>2, <3>1, <3>2, Zenon DEF Visit, OnWay
  <2> QED
    BY <2>3, <2>4
<1>6. "loop" # "rollout"
  OBVIOUS
<1> QED
  BY <1>5, <1>6, Zenon DEF Arrived, OnWay

(* The way is right whatever the step.                                     *)
LEMMA WayInvStep ==
  SearchInv /\ VisitInv /\ WayInv /\ [SearchNext]_searchVars => WayInv'
<1>1. SUFFICES ASSUME SearchInv, VisitInv, WayInv, [SearchNext]_searchVars,
                      Searching', context'.node # NoNode
               PROVE  Arrived(tree, context.node, phase)'
  BY Zenon DEF WayInv
<1>2. PICK v, next, ph : v = tree' /\ next = context'.node /\ ph = phase'
  BY Zenon
<1>3. ph \in {"loop", "rollout"}
  BY <1>1, <1>2, Zenon DEF Searching
<1>4. SUFFICES Arrived(v, next, ph)
  BY <1>2, Zenon DEF Arrived, OnWay
<1>5. ASSUME context' = MASTER_CONTEXT, ph = "loop" PROVE Arrived(v, next, ph)
  <2>1. next = <<>>
    BY <1>2, <1>5 DEF MASTER_CONTEXT
  <2> QED
    BY <1>5, <2>1, ArrivedAtRoot, Zenon
<1>6. CASE Prepare \/ SearchAborts \/ SearchReturns
  <2>1. Prepare => phase' = "draft"
    BY PrepareIs, Zenon
  <2>2. ph \in {"draft", "aborted", "returned"}
    BY <1>2, <1>6, <2>1 DEF SearchAborts, SearchReturns
  <2> QED
    BY <1>3, <2>2
<1>7. ASSUME NEW t \in ThinkTimes, calculate_best_pick_Called(t) PROVE Arrived(v, next, ph)
  BY <1>2, <1>5, <1>7, Zenon DEF calculate_best_pick_Called
<1>8. CASE VisitRoot
  BY <1>2, <1>5, <1>8, Zenon DEF VisitRoot, TimeLeft
<1>9. CASE VisitLeaf
  <2>1. PICK node, found, w : Expands(node, found, w)
    BY <1>1, <1>9, VisitExpands
  <2>2. /\ w = tree' /\ phase = "loop" /\ node = context.node /\ node \in Seq(Nat)
    BY <2>1, Zenon DEF Expands
  <2>3. context' = context /\ phase' = "rollout" /\ context.node # <<>>
    BY <1>9, Zenon DEF VisitLeaf
  <2>4. w = v /\ next = node /\ ph = "rollout" /\ node # <<>>
    BY <1>2, <2>2, <2>3, Zenon
  <2>5. Searching /\ node # NoNode
    BY <2>2, NoNodeIsNoPath DEF Searching
  <2>6. OnWay(tree, node)
    BY <1>1, <2>2, <2>5, Zenon DEF WayInv, Arrived
  <2> QED
    BY <2>1, <2>4, <2>6, ExpandedWay, Zenon
<1>10. CASE VisitInner
  <2>1. PICK node, z : Passes(node, z)
    BY <1>1, <1>10, VisitPasses, Zenon
  <2>2. PICK after : context'.node = after /\ GoesTo(node, after)
    BY <1>1, <1>10, <2>1, PassesTo, Zenon
  <2>3. /\ node = context.node /\ phase = "loop" /\ phase' = "loop" /\ z = tree' /\ node # NoNode
    BY <2>1, Zenon DEF Passes
  <2>4. z = v /\ ph = "loop" /\ after = next
    BY <1>2, <2>2, <2>3, Zenon
  <2>5. Searching
    BY <2>3 DEF Searching
  <2>6. OnWay(tree, node)
    BY <1>1, <2>3, <2>5, Zenon DEF WayInv, Arrived
  <2> QED
    BY <1>1, <1>2, <2>1, <2>2, <2>4, <2>6, PassedWay, Zenon
<1>11. CASE RolloutEnds
  BY <1>2, <1>5, <1>11, Zenon DEF RolloutEnds
<1>12. CASE RolloutPick \/ Tick \/ UNCHANGED searchVars
  <2>1. UNCHANGED <<phase, tree, context>>
    BY <1>12, Zenon DEF RolloutPick, Tick, searchVars
  <2>2. Searching /\ context.node # NoNode
    BY <1>1, <2>1, Zenon DEF Searching
  <2>3. Arrived(tree, context.node, phase)
    BY <1>1, <2>2, Zenon DEF WayInv
  <2>4. v = tree /\ next = context.node /\ ph = phase
    BY <1>2, <2>1, Zenon
  <2> QED
    BY <2>3, <2>4, Zenon
<1> QED
  BY <1>1, <1>6, <1>7, <1>8, <1>9, <1>10, <1>11, <1>12, Zenon DEF SearchNext, SearchStep

(* The nodes above the one the search is at were visited before.           *)
LEMMA WayInvariant == SearchSpec => []WayInv
<1>1. SearchInit => WayInv
  <2>1. SearchInit => phase = "draft"
    BY Zenon DEF SearchInit
  <2>2. phase = "draft" => ~Searching
    BY DEF Searching
  <2> QED
    BY <2>1, <2>2, Zenon DEF WayInv
<1> QED
  BY <1>1, SearchInvariant, VisitInvariant, WayInvStep, PTL DEF SearchSpec

-----------------------------------------------------------------------------
(* The score of the team on the clock below a player worth points.         *)

Above == {"positive", "infinite"}

(* A sum with a part above zero is above zero, unless a part is NaN.       *)
LEMMA PlusAbove ==
  ASSUME NEW a \in Above, NEW b, b # "nan"
  PROVE  Plus(a, b) \in Above
  BY DEF Plus, Above

(* A score above zero stays so on its way up, below the root.              *)
LEMMA RescoredAbove ==
  ASSUME TreeInv, NEW node \in DOMAIN tree, NEW score \in Above, NEW team \in Teams(config),
         \A k \in 1 .. Len(node) :
           Times(tree[SubSeq(node, 1, k)].visited - 1,
                 tree[SubSeq(node, 1, k)].scores[team]) # "nan",
         NEW path \in DOMAIN tree, IsPrefix(path, node), path # <<>>
  PROVE  backpropogate_score(node, score, team)[path].scores[team] \in Above
<1> DEFINE n == Len(node)
           x == [k \in 0 .. n |->
                  Times(tree[SubSeq(node, 1, k)].visited - 1,
                        tree[SubSeq(node, 1, k)].scores[team])]
           Up(g) == g = [k \in 0 .. n |->
                          Plus(IF k = n THEN score ELSE g[k + 1],
                               Times(tree[SubSeq(node, 1, k)].visited - 1,
                                     tree[SubSeq(node, 1, k)].scores[team]))]
           g0 == CHOOSE g : Up(g)
           u == [p \in DOMAIN tree |->
                  IF IsPrefix(p, node)
                    THEN [tree[p] EXCEPT !.scores[team] = g0[Len(p)]]
                    ELSE tree[p]]
<1>1. /\ tree \in [DOMAIN tree -> Node] /\ path \in Seq(Nat)
      /\ n \in Nat
  <2>1. tree \in [DOMAIN tree -> Node] /\ path \in Seq(Nat) /\ node \in Seq(Nat)
    BY Zenon DEF TreeInv, IsTree
  <2> QED
    BY <2>1, PathFacts, Zenon
<1>2. \E g : Up(g)
  <2>1. PICK g : UpFunction(n, score, x, g)
    BY <1>1, UpFunctionExists, Zenon
  <2>2. Up(g)
    BY <2>1, Zenon DEF UpFunction
  <2> QED
    BY <2>2, Zenon
<1>3. PICK g : g = g0
  OBVIOUS
<1>4. \A k \in 1 .. n : g[k] = Plus(IF k = n THEN score ELSE g[k + 1], x[k]) /\ x[k] # "nan"
  <2>1. Up(g)
    BY <1>2, <1>3, Zenon
  <2>2. ASSUME NEW k \in 1 .. n
        PROVE  g[k] = Plus(IF k = n THEN score ELSE g[k + 1], x[k]) /\ x[k] # "nan"
    <3>1. k \in 0 .. n
      <4> HIDE DEF n
      <4> QED
        BY <1>1
    <3> QED
      BY <2>1, <3>1, Zenon
  <2> QED
    BY <2>2, Zenon
<1>5. \A k \in 1 .. n : g[k] \in Above
  <2> DEFINE Bad == { m \in 0 .. n - 1 : g[n - m] \notin Above }
  <2>1. ASSUME Bad # {} PROVE FALSE
    <3>1. PICK m \in Bad : \A y \in Bad : m <= y
      <4>1. Bad \in SUBSET Nat
        <5>1. 0 .. n - 1 \subseteq Nat
          OBVIOUS
        <5> QED
          BY <5>1, Zenon
      <4> HIDE DEF Bad
      <4> QED
        BY <2>1, <4>1, MinIsLeast, Zenon
    <3>2. m \in 0 .. n - 1 /\ g[n - m] \notin Above
      BY <3>1, Zenon
    <3>3. PICK k : k = n - m
      OBVIOUS
    <3>4. k \in 1 .. n
      <4> HIDE DEF n
      <4> QED
        BY <1>1, <3>2, <3>3
    <3>5. PICK a, b : a = (IF k = n THEN score ELSE g[k + 1]) /\ b = x[k]
      BY Zenon
    <3>6. g[k] = Plus(a, b) /\ b # "nan"
      <4> HIDE DEF x, n
      <4> QED
        BY <1>4, <3>4, <3>5, Zenon
    <3>7. a \in Above
      <4>1. CASE k = n
        BY <3>5, <4>1, Zenon
      <4>2. CASE k # n
        <5>1. m - 1 \in 0 .. n - 1 /\ n - (m - 1) = k + 1 /\ ~(m <= m - 1)
          <6>1. PICK i, j : i = m /\ j = n
            BY Zenon
          <6>2. j \in Nat /\ i \in 0 .. j - 1 /\ k = j - i /\ k # j
            BY <1>1, <3>2, <3>3, <4>2, <6>1, Zenon
          <6>3. i - 1 \in 0 .. j - 1 /\ j - (i - 1) = k + 1 /\ ~(i <= i - 1)
            BY <6>2
          <6> QED
            BY <6>1, <6>3, Zenon
        <5>2. g[n - (m - 1)] \in Above
          <6>1. m - 1 \notin Bad
            BY <3>1, <5>1, Zenon
          <6> QED
            BY <5>1, <6>1, Zenon
        <5> QED
          BY <3>5, <4>2, <5>1, <5>2, Zenon
      <4> QED
        BY <4>1, <4>2
    <3> QED
      BY <3>2, <3>3, <3>6, <3>7, PlusAbove, Zenon
  <2>2. ASSUME NEW k \in 1 .. n PROVE g[k] \in Above
    <3>1. n - k \in 0 .. n - 1 /\ n - (n - k) = k
      <4> HIDE DEF n
      <4> QED
        BY <1>1
    <3>2. n - k \notin Bad
      BY <2>1, Zenon
    <3> QED
      BY <3>1, <3>2, Zenon
  <2> QED
    BY <2>2, Zenon
<1>6. backpropogate_score(node, score, team) = u
  BY Zenon DEF backpropogate_score
<1>7. PICK r : r = tree[path]
  OBVIOUS
<1>8. Len(path) \in 1 .. n
  <2>1. Len(path) <= n
    BY Zenon DEF IsPrefix
  <2>2. Len(path) \in Nat /\ Len(path) # 0
    BY <1>1, PathFacts, Zenon
  <2> HIDE DEF n
  <2> QED
    BY <1>1, <2>1, <2>2
<1>9. PICK y : y = g[Len(path)]
  OBVIOUS
<1>10. y \in Above
  <2> HIDE DEF n
  <2> QED
    BY <1>5, <1>8, <1>9, Zenon
<1>11. PICK z : z = [r.scores EXCEPT ![team] = y]
  OBVIOUS
<1>12. PICK q : q = [r EXCEPT !.scores = z]
  OBVIOUS
<1>13. u[path] = [r EXCEPT !.scores[team] = y]
  BY <1>3, <1>7, <1>9, Zenon
<1>14. [r EXCEPT !.scores[team] = y] = q
  BY <1>11, <1>12, Zenon
<1>15. r \in Node
  BY <1>1, <1>7, Zenon
<1>16. q.scores = z /\ r.scores \in [Teams(config) -> ScoreClass]
  BY <1>12, <1>15 DEF Node
<1>17. z[team] \in Above
  BY <1>10, <1>11, <1>16, Zenon
<1>18. u[path].scores = z
  <2> HIDE DEF u
  <2> QED
    BY <1>13, <1>14, <1>16, Zenon
<1> HIDE DEF u
<1> QED
  BY <1>6, <1>17, <1>18, Zenon

(* The scores of the other teams stay.                                     *)
SameScore(u, v, path, t) == v[path].scores[t] = u[path].scores[t]

LEMMA RescoredOthers ==
  ASSUME TreeInv, NEW node \in DOMAIN tree, NEW score, NEW team, NEW path \in DOMAIN tree,
         NEW t \in Teams(config), t # team \/ ~IsPrefix(path, node)
  PROVE  SameScore(tree, backpropogate_score(node, score, team), path, t)
<1> SUFFICES backpropogate_score(node, score, team)[path].scores[t] = tree[path].scores[t]
  BY Zenon DEF SameScore
<1>1. CASE ~IsPrefix(path, node)
  BY <1>1, RescoredElsewhere, Zenon
<1>2. CASE IsPrefix(path, node)
  <2>1. PICK r : r = tree[path]
    OBVIOUS
  <2>2. r \in Node
    BY <2>1, Zenon DEF TreeInv
  <2>3. PICK y : backpropogate_score(node, score, team)[path] = [r EXCEPT !.scores[team] = y]
    BY <1>2, <2>1, Zenon DEF backpropogate_score
  <2>4. PICK z : z = [r.scores EXCEPT ![team] = y]
    OBVIOUS
  <2>5. PICK q : q = [r EXCEPT !.scores = z]
    OBVIOUS
  <2>6. [r EXCEPT !.scores[team] = y] = q
    BY <2>4, <2>5, Zenon
  <2>7. q.scores = z /\ r.scores \in [Teams(config) -> ScoreClass]
    BY <2>2, <2>5 DEF Node
  <2>8. z[t] = r.scores[t]
    BY <1>2, <2>4, <2>7, Zenon
  <2>9. backpropogate_score(node, score, team)[path].scores = z
    BY <2>3, <2>6, <2>7, Zenon
  <2> QED
    BY <2>1, <2>8, <2>9, Zenon
<1> QED
  BY <1>1, <1>2

(* What holds of a node below a player worth points, for the team m that   *)
(* was on the clock when the search was called.                            *)
Worthy(u, path) == path # <<>> /\ points(u[SubSeq(path, 1, 1)].player) > 0

MoverAt(u, m, path) ==
  Worthy(u, path) => /\ u[path].scores[m] # "nan"
                     /\ u[path].visited = 0 => u[path].scores[m] = "zero"

Settled(u, m, path) ==
  Worthy(u, path) /\ Len(path) = 1 /\ u[path].visited > 0 => u[path].scores[m] \in Above

MoverScores(u, node, ph, m) ==
  \A path \in DOMAIN u :
    MoverAt(u, m, path) /\ (Settled(u, m, path) \/ (ph = "rollout" /\ path = node))

MoverLeaf(u, node, m, part) ==
  Worthy(u, node) => part > 0 /\ (u[node].visited = 1 => u[node].scores[m] = "zero")

Mover == order[Len(taken)]

MoverInv ==
  Searching =>
    /\ MoverScores(tree, context.node, phase, Mover)
    /\ phase = "rollout" => MoverLeaf(tree, context.node, Mover, sim.scores[Mover])

(* It is a team of the league.                                             *)
LEMMA MoverType ==
  ASSUME CallInv, OrderInv, phase # "draft"
  PROVE  Mover \in Teams(config)
<1>1. PICK n : n = Len(taken)
  OBVIOUS
<1>2. PICK S : taken \in Seq(S)
  BY Zenon DEF CallInv
<1>3. n \in Nat
  BY <1>1, <1>2
<1>4. n < n_picks
  BY <1>1, Zenon DEF OrderInv
<1> QED
  BY <1>1, <1>3, <1>4, TeamOnTheClock, Zenon DEF Mover

(* What is said of a tree does not change in a step.                       *)
LEMMA MoverStays ==
  ASSUME Calling
  PROVE  /\ Mover' = Mover
         /\ \A u, node, ph, m :
              (MoverScores(u, node, ph, m)' <=> MoverScores(u, node, ph, m))
         /\ \A u, node, m, part :
              (MoverLeaf(u, node, m, part)' <=> MoverLeaf(u, node, m, part))
<1>1. \A id : points(id)' = points(id)
  BY Zenon DEF Calling, points
<1>2. \A u, path : Worthy(u, path)' <=> Worthy(u, path)
  BY <1>1, Zenon DEF Worthy
<1>3. \A u, m, path : /\ MoverAt(u, m, path)' <=> MoverAt(u, m, path)
                      /\ Settled(u, m, path)' <=> Settled(u, m, path)
  BY <1>2, Zenon DEF MoverAt, Settled
<1> QED
  BY <1>2, <1>3, Zenon DEF Mover, MoverScores, MoverLeaf, Calling

(* The first node of a path is one of the tree.                            *)
LEMMA FirstIsNode ==
  ASSUME NEW u, IsTree(u), NEW path \in DOMAIN u, path # <<>>
  PROVE  SubSeq(path, 1, 1) \in DOMAIN u
<1>1. path \in Seq(Nat) /\ \A k \in 0 .. Len(path) : SubSeq(path, 1, k) \in DOMAIN u
  BY Zenon DEF IsTree
<1>2. 1 \in 0 .. Len(path)
  BY <1>1
<1> QED
  BY <1>1, <1>2, Zenon

(* Nor does the first player of a path.                                    *)
LEMMA WorthyStays ==
  ASSUME NEW u, NEW v, IsTree(u), \A path \in DOMAIN u : v[path].player = u[path].player,
         NEW path \in DOMAIN u
  PROVE  Worthy(v, path) <=> Worthy(u, path)
<1>1. CASE path = <<>>
  BY <1>1, Zenon DEF Worthy
<1>2. CASE path # <<>>
  <2>1. SubSeq(path, 1, 1) \in DOMAIN u
    BY <1>2, FirstIsNode, Zenon
  <2> QED
    BY <2>1, Zenon DEF Worthy
<1> QED
  BY <1>1, <1>2

(* A node that keeps its scores and stays unvisited or was visited.        *)
LEMMA MoverKept ==
  ASSUME NEW u, NEW v, NEW m, NEW path, Worthy(v, path) <=> Worthy(u, path),
         v[path].scores = u[path].scores,
         MoverAt(u, m, path), Settled(u, m, path),
         v[path].visited > 0 <=> u[path].visited > 0,
         v[path].visited = 0 => u[path].visited = 0
  PROVE  MoverAt(v, m, path) /\ Settled(v, m, path)
  BY Zenon DEF MoverAt, Settled

(* After a visit to a node with children,                                  *)
LEMMA PassedMover ==
  ASSUME NEW node, NEW v, Passes(node, v), NEW m, MoverScores(tree, node, "loop", m), NEW next
  PROVE  MoverScores(v, next, "loop", m)
<1>1. /\ CallInv /\ TreeInv /\ node \in DOMAIN tree /\ v = Visited(node) /\ Kept(tree, v)
      /\ Visit(tree, v, node) /\ v[node].visited > 1
  BY Zenon DEF Passes
<1>2. DOMAIN v = DOMAIN tree /\ IsTree(tree)
  BY <1>1, Zenon DEF Kept, TreeInv
<1>3. ASSUME NEW path \in DOMAIN tree
      PROVE  MoverAt(v, m, path) /\ Settled(v, m, path)
  <2>1. Worthy(v, path) <=> Worthy(tree, path)
    <3>1. \A p \in DOMAIN tree : v[p].player = tree[p].player
      BY <1>1, Zenon DEF Kept, SamePick
    <3> QED
      BY <1>2, <3>1, WorthyStays, Zenon
  <2>2. v[path].scores = tree[path].scores
    BY <1>1, VisitedScores, Zenon
  <2>3. v[path].visited > 0 <=> tree[path].visited > 0
    BY <1>1, Zenon DEF Kept
  <2>4. v[path].visited = 0 => tree[path].visited = 0
    <3>1. CASE path = node
      <4>1. v[node].visited # 0
        BY <1>1
      <4> QED
        BY <3>1, <4>1, Zenon
    <3>2. CASE path # node
      BY <1>1, <3>2, Zenon DEF Visit
    <3> QED
      BY <3>1, <3>2
  <2>5. "loop" # "rollout"
    OBVIOUS
  <2>6. MoverAt(tree, m, path) /\ Settled(tree, m, path)
    BY <2>5, Zenon DEF MoverScores
  <2> QED
    BY <2>1, <2>2, <2>3, <2>4, <2>6, MoverKept, Zenon
<1> QED
  BY <1>2, <1>3, Zenon DEF MoverScores

(* to a leaf,                                                              *)
LEMMA ExpandedMover ==
  ASSUME NEW node, NEW found, NEW v, Expands(node, found, v), v = Grown(node, found),
         NEW m \in Teams(config), MoverScores(tree, node, "loop", m)
  PROVE  /\ MoverScores(v, node, "rollout", m)
         /\ node = <<>> => MoverScores(v, node, "loop", m)
         /\ Worthy(v, node) <=> Worthy(tree, node)
         /\ Worthy(v, node) /\ v[node].visited = 1 => v[node].scores[m] = "zero"
<1>1. /\ CallInv /\ TreeInv /\ node \in DOMAIN tree /\ node \in Seq(Nat) /\ Children(node) = {}
      /\ Legal(node, found) /\ Grew(node, found, v) /\ Visit(tree, v, node)
      /\ v[node].visited > 0
      /\ \A s \in DOMAIN found : v[Append(node, s)].visited = 0
  BY Zenon DEF Expands
<1>2. IsTree(tree)
  BY <1>1, Zenon DEF TreeInv
<1>3. \A path \in DOMAIN tree : v[path].scores = tree[path].scores
  <2> TAKE path \in DOMAIN tree
  <2> QED
    BY <1>1, GrownScores, ZenonT(60)
<1>4. \A s \in DOMAIN found : AllZero(v, Append(node, s))
  <2> TAKE s \in DOMAIN found
  <2> QED
    BY <1>1, GrownScores, ZenonT(60)
<1>5. \A path \in DOMAIN tree : Worthy(v, path) <=> Worthy(tree, path)
  <2>1. \A path \in DOMAIN tree : v[path].player = tree[path].player
    BY <1>1, Zenon DEF Grew, SamePick
  <2> QED
    BY <1>2, <2>1, WorthyStays, Zenon
<1>6. \A path \in DOMAIN tree : MoverAt(tree, m, path) /\ Settled(tree, m, path)
  <2>1. "loop" # "rollout"
    OBVIOUS
  <2> QED
    BY <2>1, Zenon DEF MoverScores
<1>7. MoverAt(v, m, node)
  <2>1. v[node].visited # 0
    BY <1>1
  <2> QED
    BY <1>1, <1>3, <1>5, <1>6, <2>1, Zenon DEF MoverAt
<1>8. ASSUME NEW path \in DOMAIN v, path # node
      PROVE  MoverAt(v, m, path) /\ Settled(v, m, path)
  <2>1. CASE path \in DOMAIN tree
    <3>1. v[path].visited = tree[path].visited
      BY <1>1, <1>8, <2>1, Zenon DEF Visit
    <3> QED
      BY <1>3, <1>5, <1>6, <2>1, <3>1, MoverKept, Zenon
  <2>2. CASE path \notin DOMAIN tree
    <3>1. PICK s \in DOMAIN found : path = Append(node, s)
      BY <1>1, <2>2, Zenon DEF Grew
    <3>2. v[path].visited = 0 /\ v[path].scores[m] = "zero"
      BY <1>1, <1>4, <3>1, Zenon DEF AllZero
    <3>3. ~(v[path].visited > 0) /\ "zero" # "nan"
      BY <3>2
    <3> QED
      BY <3>2, <3>3, Zenon DEF MoverAt, Settled
  <2> QED
    BY <2>1, <2>2
<1>9. MoverScores(v, node, "rollout", m)
  BY <1>7, <1>8, Zenon DEF MoverScores
<1>10. ASSUME node = <<>> PROVE MoverScores(v, node, "loop", m)
  <2>1. Settled(v, m, node)
    BY <1>10, Zenon DEF Settled, Worthy
  <2> QED
    BY <1>7, <1>8, <2>1, Zenon DEF MoverScores
<1>11. ASSUME Worthy(v, node), v[node].visited = 1 PROVE v[node].scores[m] = "zero"
  <2>1. tree[node].visited \in 0 .. VisitCap
    BY <1>1, TreeIsCounted, Zenon DEF CountedTree
  <2>2. tree[node].visited = 0
    BY <1>1, <1>11, <2>1, VisitIsMore, Zenon DEF Visit
  <2> QED
    BY <1>1, <1>3, <1>5, <1>6, <1>11, <2>2, Zenon DEF MoverAt
<1> QED
  BY <1>1, <1>5, <1>9, <1>10, <1>11, Zenon

(* The first pick below the real draft is made by the team on the clock.   *)
LEMMA FirstPick ==
  ASSUME CallInv, NEW node \in Seq(Nat), node # <<>>
  PROVE  Branch(node)[Len(taken) + 1]
           = [player_id |-> tree[SubSeq(node, 1, 1)].player, by_team |-> Mover]
<1> DEFINE m == Len(node)
           p == [k \in 1 .. m |-> PickAt(order, taken, tree, node, k)]
<1>1. m \in Nat /\ DOMAIN node = 1 .. m /\ 1 \in 1 .. m
  BY PathFacts
<1>2. PICK t, b, S, a, T : /\ t = taken /\ b = Branch(node) /\ a = p /\ t \in Seq(S)
                           /\ T = S \cup { PickAt(order, taken, tree, node, k) : k \in 1 .. m }
  BY Zenon DEF CallInv
<1>3. b = t \o a
  BY <1>1, <1>2, BranchIsBranch, Zenon DEF BranchOf
<1>4. a \in [1 .. m -> T] /\ S \subseteq T
  BY <1>2, Zenon
<1>5. a[1] = PickAt(order, taken, tree, node, 1)
  BY <1>1, <1>2, Zenon
<1>6. (t \o a)[Len(t) + 1] = a[1]
  <2> HIDE DEF m, p
  <2> QED
    BY <1>1, <1>2, <1>4
<1>7. Len(taken) + 1 - 1 = Len(taken)
  <2>1. Len(taken) \in Nat
    BY <1>2
  <2> QED
    BY <2>1
<1> HIDE DEF m, p
<1> QED
  BY <1>2, <1>3, <1>5, <1>6, <1>7, Zenon DEF PickAt, Mover

(* So the points of its first player count for that team.                  *)
LEMMA MoverCounted ==
  ASSUME CallInv, TreeInv, PoolTypeOK, Mover \in Teams(config),
         NEW node \in DOMAIN tree, Worthy(tree, node), NEW scores, Counts(Branch(node), scores)
  PROVE  scores[Mover] > 0
<1>1. PICK b, n, i, m : b = Branch(node) /\ n = Len(taken) /\ i = n + 1 /\ m = Mover
  BY Zenon
<1>2. node \in Seq(Nat) /\ node # <<>>
  BY Zenon DEF TreeInv, IsTree, Worthy
<1>3. PICK id : id = tree[SubSeq(node, 1, 1)].player
  OBVIOUS
<1>4. b[i] = [player_id |-> id, by_team |-> m]
  BY <1>1, <1>2, <1>3, FirstPick, Zenon
<1>5. b[i].player_id = id /\ b[i].by_team = m
  BY <1>4
<1>6. n \in Nat /\ Len(b) = n + Len(node) /\ Len(b) \in Nat /\ (\E T : b \in Seq(T))
  <2>1. PICK S : taken \in Seq(S)
    BY Zenon DEF CallInv
  <2>2. n \in Nat
    BY <1>1, <2>1
  <2> QED
    BY <1>1, <1>2, <2>2, BranchLength, Zenon
<1>7. i \in n + 1 .. Len(b) /\ i \in DOMAIN b /\ \A j \in n + 1 .. Len(b) : j \in DOMAIN b
  <2>1. Len(node) \in Nat /\ Len(node) # 0
    BY <1>2, PathFacts, Zenon
  <2>2. DOMAIN b = 1 .. Len(b)
    BY <1>6
  <2> QED
    BY <1>1, <1>6, <2>1, <2>2
<1>8. /\ \A j \in n + 1 .. Len(b) : b[j].player_id \in Ids
      /\ scores[m] = TotalOf(b, n, m)
  BY <1>1, Zenon DEF Counts
<1>9. PICK K, f : K = CountedPicks(b, n, m) /\ f = PointsOf(b)
  BY Zenon
<1>10. IsFiniteSet(K) /\ i \in K
  <2>1. IsFiniteSet(CountedPicks(b, n, m))
    BY <1>6, CountedPicksAreFinite, Zenon
  <2>2. i \in CountedPicks(b, n, m)
    BY <1>5, <1>7, Zenon DEF CountedPicks
  <2> QED
    BY <1>9, <2>1, <2>2, Zenon
<1>11. ASSUME NEW j \in K PROVE f[j] \in Nat
  <2>1. j \in n + 1 .. Len(b)
    BY <1>9, Zenon DEF CountedPicks
  <2> QED
    BY <1>7, <1>8, <1>9, <2>1, PointsType, Zenon DEF PointsOf
<1>12. f[i] = points(id) /\ points(id) > 0
  BY <1>3, <1>5, <1>7, <1>9, Zenon DEF PointsOf, Worthy
<1>13. f[i] <= SumOver(K, f) /\ SumOver(K, f) \in Nat /\ f[i] \in Nat
  BY <1>10, <1>11, SumBounds, SumType, Zenon
<1>14. scores[m] = SumOver(K, f)
  BY <1>8, <1>9, Zenon DEF TotalOf
<1> QED
  BY <1>1, <1>12, <1>13, <1>14

(* Prefixes of a path begin as it does.                                    *)
LEMMA PrefixWorthy ==
  ASSUME NEW u, NEW node \in Seq(Nat), NEW k \in 1 .. Len(node)
  PROVE  Worthy(u, SubSeq(node, 1, k)) <=> Worthy(u, node)
<1>1. PICK q : q = SubSeq(node, 1, k)
  OBVIOUS
<1>2. k \in 0 .. Len(node) /\ node # <<>>
  OBVIOUS
<1>3. q \in Seq(Nat) /\ Len(q) = k /\ q # <<>>
  <2>1. q \in Seq(Nat) /\ Len(q) = k
    BY <1>1, <1>2, PrefixIsPath, Zenon
  <2> QED
    BY <2>1
<1>4. SubSeq(q, 1, 1) = SubSeq(node, 1, 1)
  BY <1>1, <1>2, <1>3
<1> QED
  BY <1>1, <1>2, <1>3, <1>4, Zenon DEF Worthy

(* A positive part of a total makes a score above zero.                    *)
LEMMA PartIsAbove ==
  ASSUME NEW part \in Nat, part > 0, NEW total
  PROVE  ClassOfQuotient(part, total) \in Above
<1>1. part # 0
  OBVIOUS
<1> QED
  BY <1>1, Zenon DEF ClassOfQuotient, Above

(* After the backpropagation: for the team m on the clock of the call, and *)
(* the team that picked the leaf.                                          *)
LEMMA RescoredMover ==
  ASSUME CallInv, TreeInv, NEW node \in DOMAIN tree, node # <<>>,
         Arrived(tree, node, "rollout"), NEW m \in Teams(config),
         MoverScores(tree, node, "rollout", m),
         NEW team, Len(node) = 1 => team = m,
         NEW part, NEW total, team = m => part \in Nat /\ MoverLeaf(tree, node, m, part),
         NEW v, v = backpropogate_score(node, ClassOfQuotient(part, total), team)
  PROVE  MoverScores(v, <<>>, "loop", m)
<1>1. PICK score : score = ClassOfQuotient(part, total)
  OBVIOUS
<1>2. DOMAIN v = DOMAIN tree
  BY Zenon DEF backpropogate_score
<1>3. IsTree(tree) /\ node \in Seq(Nat) /\ OnWay(tree, node) /\ tree[node].visited > 0
  BY Zenon DEF TreeInv, IsTree, Arrived
<1>4. ASSUME NEW path \in DOMAIN tree
      PROVE  v[path].visited = tree[path].visited /\ v[path].player = tree[path].player
  <2>1. SamePick(tree[path], backpropogate_score(node, score, team)[path])
    BY RescoredShape, Zenon
  <2>2. backpropogate_score(node, score, team)[path].visited = tree[path].visited
    BY RescoredVisits, Zenon
  <2> QED
    BY <1>1, <2>1, <2>2, Zenon DEF SamePick
<1>5. ASSUME NEW path \in DOMAIN tree PROVE Worthy(v, path) <=> Worthy(tree, path)
  BY <1>3, <1>4, WorthyStays, Zenon
<1>6. ASSUME NEW path \in DOMAIN tree, team # m \/ ~IsPrefix(path, node)
      PROVE  MoverAt(v, m, path) /\ Settled(v, m, path)
  <2>1. v[path].scores[m] = tree[path].scores[m]
    <3>1. m # team \/ ~IsPrefix(path, node)
      BY <1>6, Zenon
    <3>2. SameScore(tree, backpropogate_score(node, score, team), path, m)
      BY <3>1, RescoredOthers, Zenon
    <3> QED
      BY <1>1, <3>2, Zenon DEF SameScore
  <2>2. MoverAt(tree, m, path)
    BY Zenon DEF MoverScores
  <2>3. MoverAt(v, m, path)
    BY <1>4, <1>5, <2>1, <2>2, Zenon DEF MoverAt
  <2>4. CASE path # node
    <3>1. Settled(tree, m, path)
      BY <2>4, Zenon DEF MoverScores
    <3> QED
      BY <1>4, <1>5, <2>1, <2>3, <3>1, Zenon DEF Settled
  <2>5. CASE path = node
    <3>1. IsPrefix(node, node)
      <4>1. Len(node) <= Len(node)
        BY <1>3
      <4> QED
        BY <4>1, Zenon DEF IsPrefix
    <3>2. team # m
      BY <1>6, <2>5, <3>1, Zenon
    <3> QED
      BY <2>3, <2>5, <3>2, Zenon DEF Settled
  <2> QED
    BY <2>4, <2>5
<1>7. ASSUME NEW path \in DOMAIN tree, team = m, IsPrefix(path, node)
      PROVE  MoverAt(v, m, path) /\ Settled(v, m, path)
  <2>1. SUFFICES ASSUME Worthy(tree, path) PROVE MoverAt(v, m, path) /\ Settled(v, m, path)
    BY <1>5, Zenon DEF MoverAt, Settled
  <2>2. path # <<>>
    BY <2>1, Zenon DEF Worthy
  <2>3. Len(path) \in 0 .. Len(node) /\ path = SubSeq(node, 1, Len(path)) /\ path \in Seq(Nat)
    BY <1>3, <1>7, PrefixIsNode, Zenon DEF IsTree
  <2>4. Len(path) \in 1 .. Len(node)
    <3>1. Len(path) # 0
      BY <2>2, <2>3, PathFacts, Zenon
    <3> QED
      BY <2>3, <3>1
  <2>5. Worthy(tree, node)
    BY <1>3, <2>1, <2>3, <2>4, PrefixWorthy, Zenon
  <2>6. part \in Nat /\ part > 0 /\ (tree[node].visited = 1 => tree[node].scores[m] = "zero")
    BY <1>7, <2>5, Zenon DEF MoverLeaf
  <2>7. score \in Above
    BY <1>1, <2>6, PartIsAbove, Zenon
  <2>8. ASSUME NEW k \in 1 .. Len(node)
        PROVE  LET r == tree[SubSeq(node, 1, k)] IN
               r.visited > 0 /\ Times(r.visited - 1, r.scores[m]) # "nan"
    <3>1. PICK q, r : q = SubSeq(node, 1, k) /\ r = tree[q]
      BY Zenon
    <3>2. q \in DOMAIN tree
      <4>1. k \in 0 .. Len(node)
        OBVIOUS
      <4> QED
        BY <1>3, <3>1, <4>1, Zenon DEF IsTree
    <3>3. r.visited \in 0 .. VisitCap
      BY <3>1, <3>2, TreeIsCounted, Zenon DEF CountedTree
    <3>4. r.scores[m] # "nan"
      <4>1. Worthy(tree, q)
        BY <1>3, <2>5, <3>1, PrefixWorthy, Zenon
      <4> QED
        BY <3>1, <3>2, <4>1, Zenon DEF MoverScores, MoverAt
    <3>5. r.visited > 0 /\ (r.visited = 1 => r.scores[m] = "zero")
      <4>1. CASE k = Len(node)
        <5>1. q = node
          BY <1>3, <3>1, <4>1, PathFacts, Zenon
        <5> QED
          BY <1>3, <2>6, <3>1, <5>1, Zenon
      <4>2. CASE k # Len(node)
        <5>1. k \in 0 .. Len(node) - 1
          BY <1>3, <4>2
        <5>2. r.visited > 1
          BY <1>3, <3>1, <5>1, Zenon DEF OnWay
        <5> QED
          BY <3>3, <5>2, VisitCapAssumption
      <4> QED
        BY <4>1, <4>2
    <3>6. r.visited - 1 \in Int /\ (r.visited - 1 > 0 \/ r.visited = 1)
      BY <3>3, <3>5, VisitCapAssumption
    <3>7. Times(r.visited - 1, r.scores[m]) # "nan"
      BY <3>4, <3>5, <3>6, TimesKeeps, Zenon
    <3> QED
      BY <3>1, <3>5, <3>7, Zenon
  <2>9. v[path].scores[m] \in Above
    <3>1. \A k \in 1 .. Len(node) : Times(tree[SubSeq(node, 1, k)].visited - 1,
                                          tree[SubSeq(node, 1, k)].scores[m]) # "nan"
      BY <2>8, Zenon
    <3>2. backpropogate_score(node, score, m)[path].scores[m] \in Above
      BY <1>7, <2>2, <2>7, <3>1, RescoredAbove, Zenon
    <3> QED
      BY <1>1, <1>7, <3>2, Zenon
  <2>10. v[path].scores[m] # "nan"
    BY <2>9 DEF Above
  <2>11. v[path].visited # 0
    <3>1. tree[path].visited > 0
      BY <2>3, <2>4, <2>8, Zenon
    <3>2. v[path].visited > 0
      BY <1>4, <3>1, Zenon
    <3> QED
      BY <3>2
  <2> QED
    BY <2>9, <2>10, <2>11, Zenon DEF MoverAt, Settled
<1> QED
  BY <1>2, <1>6, <1>7, Zenon DEF MoverScores

(* The invariant in the next state, by its parts.                          *)
LEMMA MoverInvNext ==
  ASSUME Calling, NEW v, NEW next, NEW ph, v = tree', next = context'.node, ph = phase',
         MoverScores(v, next, ph, Mover),
         ph = "rollout" => MoverLeaf(v, next, Mover, sim'.scores[Mover])
  PROVE  MoverInv'
<1>1. PICK m, part : m = Mover /\ part = sim'.scores[Mover]
  BY Zenon
<1>2. Mover' = m
  BY <1>1, MoverStays, Zenon
<1>3. MoverScores(v, next, ph, m)' /\ (ph = "rollout" => MoverLeaf(v, next, m, part)')
  BY <1>1, MoverStays, Zenon
<1>4. MoverScores(tree, context.node, phase, Mover)'
  BY <1>2, <1>3, Zenon DEF MoverScores, MoverAt, Settled, Worthy
<1>5. sim'.scores[Mover'] = part
  BY <1>1, <1>2, Zenon
<1>6. phase' = "rollout" => MoverLeaf(tree, context.node, Mover, sim.scores[Mover])'
  BY <1>2, <1>3, <1>5, Zenon DEF MoverLeaf, Worthy
<1> QED
  BY <1>4, <1>6, Zenon DEF MoverInv

(* when the call begins,                                                   *)
LEMMA CalledMover ==
  ASSUME SearchInv, OrderInv', NEW t \in ThinkTimes, calculate_best_pick_Called(t)
  PROVE  MoverInv'
<1>1. /\ phase' = "loop"
      /\ tree' = [path \in {<<>>} |-> create_node(NoPlayer)]
  BY Zenon DEF calculate_best_pick_Called
<1>2. DOMAIN tree' = {<<>>} /\ phase' # "rollout"
  BY <1>1
<1>3. ASSUME NEW path \in DOMAIN tree'
      PROVE  MoverAt(tree, Mover, path)' /\ Settled(tree, Mover, path)'
  <2>1. path = <<>>
    BY <1>2, Zenon
  <2> QED
    BY <2>1, Zenon DEF MoverAt, Settled, Worthy
<1> QED
  BY <1>2, <1>3, Zenon DEF MoverInv, MoverScores

(* when a node is expanded,                                                *)
LEMMA VisitMover ==
  ASSUME SearchInv, PoolTypeOK, OrderInv, MoverInv, VisitRoot \/ VisitLeaf
  PROVE  MoverInv'
<1>1. PICK node, found, v : Expands(node, found, v)
  BY VisitExpands
<1>2. /\ CallInv /\ TreeInv /\ Calling /\ phase = "loop" /\ node = context.node
      /\ node \in DOMAIN tree /\ node \in Seq(Nat) /\ context = ContextAt(node)
      /\ found = expand_tree(node) /\ v = tree'
  BY <1>1, Zenon DEF Expands
<1>3. Searching /\ phase # "draft"
  BY <1>2 DEF Searching
<1>4. PICK m : m = Mover
  OBVIOUS
<1>5. m \in Teams(config)
  BY <1>2, <1>3, <1>4, MoverType, Zenon
<1>6. MoverScores(tree, node, "loop", m)
  BY <1>2, <1>3, <1>4, Zenon DEF MoverInv
<1>7. v = Grown(node, found)
  BY <1>2, Zenon DEF VisitRoot, VisitLeaf
<1>8. /\ MoverScores(v, node, "rollout", m)
      /\ node = <<>> => MoverScores(v, node, "loop", m)
      /\ Worthy(v, node) <=> Worthy(tree, node)
      /\ Worthy(v, node) /\ v[node].visited = 1 => v[node].scores[m] = "zero"
  BY <1>1, <1>5, <1>6, <1>7, ExpandedMover, Zenon
<1>9. CASE VisitRoot
  <2>1. node = <<>> /\ context' = MASTER_CONTEXT /\ phase' = "loop"
    BY <1>2, <1>9, Zenon DEF VisitRoot
  <2>2. context'.node = node
    BY <2>1 DEF MASTER_CONTEXT
  <2>3. "loop" # "rollout"
    OBVIOUS
  <2> QED
    BY <1>2, <1>4, <1>8, <2>1, <2>2, <2>3, MoverInvNext, Zenon
<1>10. CASE VisitLeaf
  <2>1. /\ context' = context /\ phase' = "rollout" /\ sim' = simulate_score(node)
    BY <1>2, <1>10, Zenon DEF VisitLeaf
  <2>2. PICK c, b, r : /\ c = WithPickOf(context, node)
                       /\ b = Branch(node) /\ r = create_search_context(config, b)
    BY Zenon
  <2>3. c.taken = b /\ c.requirements = r
    <3>1. c = [node |-> node, taken |-> b, requirements |-> r]
      BY <1>2, <2>2, WithItsPick, Zenon DEF ContextOf
    <3> QED
      BY <3>1
  <2>4. PICK scores : scores = BranchPoints(node, Len(b) - 1)
    OBVIOUS
  <2>5. sim' = SimOf(b, r, scores, 0)
    BY <2>1, <2>2, <2>3, <2>4, Zenon DEF simulate_score, SimOf
  <2>6. sim'.scores = scores
    BY <2>5 DEF SimOf
  <2>7. Counts(Branch(node), scores)
    BY <1>2, <2>2, <2>4, BranchCounts, Zenon
  <2>8. Worthy(v, node) => scores[m] > 0
    BY <1>2, <1>4, <1>5, <1>8, <2>7, MoverCounted, Zenon
  <2>9. MoverLeaf(v, node, m, scores[m])
    BY <1>8, <2>8, Zenon DEF MoverLeaf
  <2>10. context'.node = node /\ phase' = "rollout" /\ sim'.scores[m] = scores[m]
    BY <1>2, <2>1, <2>6, Zenon
  <2> QED
    BY <1>2, <1>4, <1>8, <2>9, <2>10, MoverInvNext, Zenon
<1> QED
  BY <1>9, <1>10

(* when one with children is visited,                                      *)
LEMMA VisitInnerMover ==
  ASSUME SearchInv, VisitInv, MoverInv, VisitInner
  PROVE  MoverInv'
<1>1. PICK node, v : Passes(node, v)
  BY VisitPasses, Zenon
<1>2. /\ Calling /\ phase = "loop" /\ phase' = "loop" /\ node = context.node /\ v = tree'
  BY <1>1, Zenon DEF Passes
<1>3. Searching
  BY <1>2 DEF Searching
<1>4. MoverScores(tree, node, "loop", Mover)
  BY <1>2, <1>3, Zenon DEF MoverInv
<1>5. PICK m, next : m = Mover /\ next = context'.node
  BY Zenon
<1>6. MoverScores(v, next, "loop", m)
  BY <1>1, <1>4, <1>5, PassedMover, Zenon
<1>7. "loop" # "rollout"
  OBVIOUS
<1> QED
  BY <1>2, <1>5, <1>6, <1>7, MoverInvNext, Zenon

(* by a pick of the rollout,                                               *)
LEMMA RolloutPickMover ==
  ASSUME SearchInv, PoolTypeOK, OrderInv, RolloutInv, MoverInv, RolloutPick
  PROVE  MoverInv'
<1>1. /\ Calling /\ phase = "rollout" /\ UNCHANGED <<phase, tree, context>>
  BY Zenon DEF RolloutPick, draftVars, poolVars, Calling
<1>2. Searching /\ phase # "draft"
  BY <1>1 DEF Searching
<1>3. PICK node, u, m : node = context.node /\ u = tree /\ m = Mover
  BY Zenon
<1>4. MoverScores(u, node, "rollout", m) /\ MoverLeaf(u, node, m, sim.scores[m])
  BY <1>1, <1>2, <1>3, Zenon DEF MoverInv
<1>5. m \in Teams(config)
  BY <1>2, <1>3, MoverType, Zenon DEF SearchInv
<1>6. PICK a, scores : \E id \in Ids :
           /\ \E requirements, total : sim = SimOf(a, requirements, scores, total)
           /\ Counts(a, scores)
           /\ Picked(id, a, scores, sim')
  BY RolloutPicks, Zenon
<1>7. PICK id \in Ids : /\ \E requirements, total : sim = SimOf(a, requirements, scores, total)
                        /\ Counts(a, scores)
                        /\ Picked(id, a, scores, sim')
  BY <1>6
<1>8. sim.scores = scores
  BY <1>7 DEF SimOf
<1>9. PICK w : w = [scores EXCEPT ![order[Len(a)]] = @ + points(id)]
  OBVIOUS
<1>10. sim'.scores = w
  <2>1. PICK b : b = Append(a, [player_id |-> id, by_team |-> order[Len(a)]])
    OBVIOUS
  <2>2. PICK r, x : sim' = SimOf(b, r, w, x)
    BY <1>7, <1>9, <2>1, Zenon DEF Picked
  <2> QED
    BY <2>2 DEF SimOf
<1>11. scores[m] > 0 => w[m] > 0
  <2>1. scores \in [Teams(config) -> Nat] /\ scores[m] \in Nat
    BY <1>5, <1>7, Zenon DEF Counts
  <2>2. points(id) \in Nat
    BY PointsType, Zenon
  <2>3. CASE m = order[Len(a)]
    <3>1. w[m] = scores[m] + points(id)
      BY <1>5, <1>9, <2>1, <2>3, Zenon
    <3> QED
      BY <2>1, <2>2, <3>1
  <2>4. CASE m # order[Len(a)]
    <3>1. w[m] = scores[m]
      BY <1>5, <1>9, <2>1, <2>4, Zenon
    <3> QED
      BY <3>1, Zenon
  <2> QED
    BY <2>3, <2>4
<1>12. MoverLeaf(u, node, m, w[m])
  BY <1>4, <1>8, <1>11, Zenon DEF MoverLeaf
<1>13. u = tree' /\ node = context'.node /\ phase' = "rollout" /\ sim'.scores[m] = w[m]
  BY <1>1, <1>3, <1>10, Zenon
<1> QED
  BY <1>1, <1>3, <1>4, <1>12, <1>13, MoverInvNext, Zenon

(* and by the backpropagation.                                             *)
LEMMA RolloutEndsMover ==
  ASSUME SearchInv, OrderInv, RolloutInv, WayInv, MoverInv, RolloutEnds
  PROVE  MoverInv'
<1>1. /\ Calling /\ phase = "rollout" /\ phase' = "loop" /\ context' = MASTER_CONTEXT
  BY Zenon DEF RolloutEnds, draftVars, poolVars, Calling
<1>2. Searching /\ phase # "draft"
  BY <1>1 DEF Searching
<1>3. CallInv /\ TreeInv /\ ContextInv /\ context.node # NoNode
  BY <1>1, <1>2, Zenon DEF SearchInv, CallInv
<1>4. PICK node, team, part, total :
        /\ node = context.node /\ team = OnTheClock(context)
        /\ part = sim.scores[team] /\ total = sim.total
        /\ tree' = backpropogate_score(node, ClassOfQuotient(part, total), team)
  BY Zenon DEF RolloutEnds
<1>5. PICK m, v : m = Mover /\ v = tree'
  BY Zenon
<1>6. /\ node \in DOMAIN tree /\ node \in Seq(Nat) /\ node # <<>>
      /\ context = ContextAt(node) /\ Arrived(tree, node, "rollout")
  BY <1>1, <1>2, <1>3, <1>4, Zenon DEF ContextInv, TreeInv, IsTree, WayInv, Arrived
<1>7. MoverScores(tree, node, "rollout", m) /\ MoverLeaf(tree, node, m, sim.scores[m])
  BY <1>1, <1>2, <1>4, <1>5, Zenon DEF MoverInv
<1>8. m \in Teams(config)
  BY <1>2, <1>3, <1>5, MoverType, Zenon
<1>9. ASSUME Len(node) = 1 PROVE team = m
  <2>1. Front(node) = SubSeq(node, 1, Len(node) - 1) /\ Len(node) - 1 \in 0 .. Len(node)
    BY <1>6, FrontOfPath, Zenon
  <2>2. Len(node) - 1 = 0
    BY <1>9
  <2>3. Front(node) \in Seq(Nat) /\ Len(Front(node)) = 0
    BY <1>6, <2>1, <2>2, PrefixIsPath, Zenon
  <2>4. Front(node) = <<>>
    BY <2>3, PathFacts, Zenon
  <2>5. PICK row : row = create_search_context(config, taken)
    OBVIOUS
  <2>6. context = [node |-> node, taken |-> taken, requirements |-> row]
    BY <1>3, <1>6, <2>4, <2>5, ContextAtRoot, Zenon DEF ContextAt
  <2>7. context.taken = taken
    BY <2>6
  <2> QED
    BY <1>4, <1>5, <2>7, Zenon DEF OnTheClock, Mover
<1>10. team = m => part \in Nat /\ MoverLeaf(tree, node, m, part)
  <2>1. PICK a, requirements, scores, all :
          sim = SimOf(a, requirements, scores, all) /\ Counts(a, scores)
    BY <1>1, Zenon DEF RolloutInv
  <2>2. sim.scores = scores
    BY <2>1 DEF SimOf
  <2>3. scores[m] \in Nat
    BY <1>8, <2>1, Zenon DEF Counts
  <2> QED
    BY <1>4, <1>7, <2>2, <2>3, Zenon
<1>11. MoverScores(v, <<>>, "loop", m)
  BY <1>3, <1>4, <1>5, <1>6, <1>7, <1>8, <1>9, <1>10, RescoredMover, Zenon
<1>12. context'.node = <<>>
  BY <1>1 DEF MASTER_CONTEXT
<1>13. "loop" # "rollout"
  OBVIOUS
<1> QED
  BY <1>1, <1>5, <1>11, <1>12, <1>13, MoverInvNext, Zenon

(* Every step keeps the scores so.                                         *)
LEMMA MoverInvStep ==
  /\ SearchInv /\ PoolTypeOK /\ OrderInv /\ OrderInv' /\ VisitInv /\ RolloutInv /\ WayInv
  /\ MoverInv /\ [SearchNext]_searchVars
  => MoverInv'
<1>1. ASSUME Prepare \/ SearchAborts \/ SearchReturns PROVE MoverInv'
  <2>1. Prepare => phase' = "draft"
    BY PrepareIs, Zenon
  <2>2. phase' \in {"draft", "aborted", "returned"}
    BY <1>1, <2>1 DEF SearchAborts, SearchReturns
  <2>3. ~Searching'
    BY <2>2 DEF Searching
  <2> QED
    BY <2>3, Zenon DEF MoverInv
<1>2. ASSUME MoverInv, Tick \/ UNCHANGED searchVars PROVE MoverInv'
  <2>1. Calling /\ UNCHANGED <<phase, tree, context, sim>>
    BY <1>2, Zenon DEF Tick, searchVars, draftVars, poolVars, Calling
  <2>2. CASE Searching
    <3>1. PICK u, node, ph : u = tree /\ node = context.node /\ ph = phase
      BY Zenon
    <3>2. u = tree' /\ node = context'.node /\ ph = phase'
      BY <2>1, <3>1, Zenon
    <3>3. MoverScores(u, node, ph, Mover)
      BY <1>2, <2>2, <3>1, Zenon DEF MoverInv
    <3>4. ph = "rollout" => MoverLeaf(u, node, Mover, sim'.scores[Mover])
      BY <1>2, <2>1, <2>2, <3>1, Zenon DEF MoverInv
    <3> QED
      BY <2>1, <3>2, <3>3, <3>4, MoverInvNext, Zenon
  <2>3. CASE ~Searching
    BY <2>1, <2>3, Zenon DEF MoverInv, Searching
  <2> QED
    BY <2>2, <2>3
<1> QED
  BY <1>1, <1>2, CalledMover, VisitMover, VisitInnerMover, RolloutPickMover, RolloutEndsMover,
     Zenon DEF SearchNext, SearchStep

(* Below a player worth points the team that asked scores above zero.      *)
LEMMA MoverInvariant == SearchSpec => []MoverInv
<1>1. SearchInit => MoverInv
  <2>1. SearchInit => phase = "draft"
    BY Zenon DEF SearchInit
  <2>2. phase = "draft" => ~Searching
    BY DEF Searching
  <2> QED
    BY <2>1, <2>2, Zenon DEF MoverInv
<1> QED
  BY <1>1, SearchInvariant, SearchPoolType, OrderInvariant, VisitInvariant, RolloutInvariant,
     WayInvariant, MoverInvStep, PTL DEF SearchSpec

-----------------------------------------------------------------------------
(* Drafts that can be played out.                                          *)

(* With a pick by the team on the clock a draft still can.                 *)
LEMMA SufficesAfterPick ==
  ASSUME PoolTypeOK, CallInv, OrderInv, NEW S, NEW b \in Seq(S), Len(b) < n_picks,
         Suffices(config, order, b), NEW made, made.by_team = order[Len(b)]
  PROVE  Suffices(config, order, Append(b, made))
<1>1. PICK c, o, d : c = config /\ o = order /\ d = Append(b, made)
  BY Zenon
<1>2. /\ WellShaped(c) /\ o \in [0 .. get_number_of_picks(c) - 1 -> Teams(c)]
      /\ Len(b) < get_number_of_picks(c) /\ made.by_team = o[Len(b)]
  BY <1>1, Zenon DEF CallInv, OrderInv, n_picks
<1>3. TeamsHaveRoom(c, o, b, create_search_context(c, b)) /\ PlayersSuffice(c, b, PlayersOf(b))
  BY <1>1, Zenon DEF Suffices
<1>4. TeamsHaveRoom(c, o, d, create_search_context(c, d))
  BY <1>1, <1>2, <1>3, RoomAfterPick, Zenon
<1>5. PlayersSuffice(c, d, PlayersOf(d))
  BY <1>1, <1>2, <1>3, PlayersAfterPick, Zenon
<1> QED
  BY <1>1, <1>4, <1>5, Zenon DEF Suffices

(* So every branch of the tree can, if the real draft can.                 *)
LEMMA BranchSuffices ==
  ASSUME PoolTypeOK, CallInv, TreeInv, OrderInv, WithinDraft(tree),
         Suffices(config, order, taken), NEW node \in DOMAIN tree
  PROVE  Suffices(config, order, Branch(node))
<1> DEFINE Good(k) == Suffices(config, order, Branch(SubSeq(node, 1, k)))
           Bad == { k \in 0 .. Len(node) : ~Good(k) }
<1>1. /\ node \in Seq(Nat) /\ Len(node) \in Nat /\ SubSeq(node, 1, Len(node)) = node
      /\ \A k \in 0 .. Len(node) : SubSeq(node, 1, k) \in DOMAIN tree
  BY PathFacts, Zenon DEF TreeInv, IsTree
<1>2. Good(0)
  <2>1. 0 \in 0 .. Len(node)
    BY <1>1
  <2>2. PICK p : p = SubSeq(node, 1, 0)
    OBVIOUS
  <2>3. p \in Seq(Nat) /\ Len(p) = 0
    BY <1>1, <2>1, <2>2, PrefixIsPath, Zenon
  <2>4. p = <<>>
    BY <2>3, PathFacts, Zenon
  <2>5. Branch(p) = taken
    BY <2>4, ContextAtRoot, Zenon
  <2> QED
    BY <2>2, <2>5, Zenon
<1>3. ASSUME Bad # {} PROVE FALSE
  <2>1. PICK k \in Bad : \A y \in Bad : k <= y
    <3>1. Bad \in SUBSET Nat
      <4>1. 0 .. Len(node) \in SUBSET Nat
        BY <1>1
      <4> HIDE DEF Good
      <4> QED
        BY <4>1, Zenon
    <3> HIDE DEF Bad
    <3> QED
      BY <1>3, <3>1, MinIsLeast, Zenon
  <2>2. k \in 0 .. Len(node) /\ ~Good(k)
    BY Zenon
  <2>3. k # 0
    <3> HIDE DEF Good
    <3> QED
      BY <1>2, <2>2, Zenon
  <2>4. k - 1 \in 0 .. Len(node) /\ ~(k <= k - 1) /\ k \in Nat
    BY <1>1, <2>2, <2>3
  <2>5. Good(k - 1)
    <3> HIDE DEF Good
    <3> QED
      BY <2>1, <2>4, Zenon
  <2>6. PICK p, up : p = SubSeq(node, 1, k) /\ up = SubSeq(node, 1, k - 1)
    BY Zenon
  <2>7. /\ p \in Seq(Nat) /\ Len(p) = k /\ p \in DOMAIN tree
        /\ up \in Seq(Nat) /\ Len(up) = k - 1
    BY <1>1, <2>2, <2>4, <2>6, PrefixIsPath, Zenon
  <2>8. p # <<>> /\ Front(p) = up
    <3>1. p # <<>>
      BY <2>3, <2>7, PathFacts, Zenon
    <3>2. Front(p) = SubSeq(p, 1, k - 1)
      BY <2>7, <3>1, FrontOfPath, Zenon
    <3>3. SubSeq(p, 1, k - 1) = up
      BY <1>1, <2>2, <2>4, <2>6
    <3> QED
      BY <3>1, <3>2, <3>3, Zenon
  <2>9. PICK b : b = Branch(up)
    OBVIOUS
  <2>10. PICK T : b \in Seq(T)
    BY <2>7, <2>9, BranchLength, Zenon
  <2>11. Len(b) < n_picks
    <3>1. Len(b) = Len(taken) + Len(up) /\ Len(taken) + Len(p) <= n_picks
      BY <2>7, <2>9, BranchLength, Zenon DEF WithinDraft
    <3>2. PICK n, j : n = Len(taken) /\ j = n_picks
      BY Zenon
    <3>3. n \in Nat
      <4>1. PICK S : taken \in Seq(S)
        BY Zenon DEF CallInv
      <4> QED
        BY <3>2, <4>1
    <3>4. j \in Nat
      BY <3>2, Zenon DEF CallInv, WellShaped, n_picks
    <3>5. Len(b) = n + (k - 1) /\ n + k <= j
      BY <2>7, <3>1, <3>2, Zenon
    <3>6. n + (k - 1) < j
      BY <2>4, <3>3, <3>4, <3>5
    <3> QED
      BY <3>2, <3>5, <3>6, Zenon
  <2>12. PICK made : made = [player_id |-> tree[p].player, by_team |-> order[Len(b)]]
    OBVIOUS
  <2>13. made.by_team = order[Len(b)]
    BY <2>12
  <2>14. Branch(p) = Append(b, made)
    BY <2>7, <2>8, <2>9, <2>12, BranchOfNode, Zenon
  <2>15. Suffices(config, order, b)
    BY <2>5, <2>6, <2>9, Zenon
  <2>16. Suffices(config, order, Append(b, made))
    BY <2>10, <2>11, <2>13, <2>15, SufficesAfterPick, Zenon
  <2> QED
    BY <2>2, <2>6, <2>14, <2>16, Zenon
<1>4. Len(node) \in 0 .. Len(node)
  BY <1>1
<1>5. Good(Len(node))
  <2> HIDE DEF Good
  <2> QED
    BY <1>3, <1>4, Zenon
<1> QED
  BY <1>1, <1>5, Zenon

-----------------------------------------------------------------------------
(* The drafts that rollouts play out.                                      *)

Room(a, r) ==
  /\ \E T : a \in Seq(T)
  /\ Len(taken) < Len(a) /\ Len(a) <= n_picks
  /\ r = create_search_context(config, a)
  /\ Suffices(config, order, taken) => Suffices(config, order, a)

RoomInv ==
  phase = "rollout" =>
    \E a, r, scores, total : sim = SimOf(a, r, scores, total) /\ Room(a, r)

(* Whether a draft can be played out depends on the pool alone.            *)
LEMMA SufficesStays ==
  ASSUME UNCHANGED <<players, slot_markers>>, NEW c, NEW o, NEW b, Len(b) \in Nat
  PROVE  Suffices(c, o, b)' <=> Suffices(c, o, b)
<1>1. PICK r : r = create_search_context(c, b)
  OBVIOUS
<1>2. create_search_context(c, b)' = r
  BY <1>1, SamePlayersSameContext, Zenon
<1>3. TeamsHaveRoom(c, o, b, r)' <=> TeamsHaveRoom(c, o, b, r)
  BY Zenon DEF TeamsHaveRoom
<1>4. Ids' = Ids /\ \A id : points(id)' = points(id)
  BY Zenon DEF Ids, number_of_players, points
<1>5. PICK ids : ids = PlayersOf(b)
  OBVIOUS
<1>6. PlayersSuffice(c, b, ids)' <=> PlayersSuffice(c, b, ids)
  BY <1>4, Zenon DEF PlayersSuffice
<1> QED
  BY <1>1, <1>2, <1>3, <1>5, <1>6, Zenon DEF Suffices

(* So a rollout that can still can in the next state.                      *)
LEMMA RoomStays ==
  ASSUME CallInv, Calling, NEW a, NEW r, Room(a, r)
  PROVE  Room(a, r)'
<1>1. PICK c, o, t : c = config /\ o = order /\ t = taken
  BY Zenon
<1>2. c = config' /\ o = order' /\ t = taken' /\ UNCHANGED <<players, slot_markers>>
  BY <1>1, Zenon DEF Calling
<1>3. PICK T : a \in Seq(T)
  BY Zenon DEF Room
<1>4. Len(a) \in Nat /\ Len(t) \in Nat
  <2>1. PICK S : taken \in Seq(S)
    BY Zenon DEF CallInv
  <2> QED
    BY <1>1, <1>3, <2>1
<1>5. /\ Suffices(c, o, a)' <=> Suffices(c, o, a)
      /\ Suffices(c, o, t)' <=> Suffices(c, o, t)
  BY <1>2, <1>4, SufficesStays, Zenon
<1>6. create_search_context(c, a)' = create_search_context(c, a)
  BY <1>2, <1>4, SamePlayersSameContext, Zenon
<1>7. n_picks' = n_picks
  BY <1>1, <1>2, Zenon DEF n_picks
<1>8. /\ Len(t) < Len(a) /\ Len(a) <= n_picks /\ r = create_search_context(c, a)
      /\ Suffices(c, o, t) => Suffices(c, o, a)
  BY <1>1, Zenon DEF Room
<1>9. /\ create_search_context(config, a)' = create_search_context(c, a)'
      /\ Suffices(config, order, a)' <=> Suffices(c, o, a)'
      /\ Suffices(config, order, taken)' <=> Suffices(c, o, t)'
  BY <1>2, Zenon
<1>10. (\E U : a \in Seq(U))' /\ Len(a)' = Len(a) /\ Len(taken)' = Len(t)
  BY <1>2, <1>3, Zenon
<1> QED
  BY <1>5, <1>6, <1>7, <1>8, <1>9, <1>10, Zenon DEF Room

(* A rollout from a node,                                                  *)
LEMMA VisitLeafRoom ==
  ASSUME SearchInv, PoolTypeOK, OrderInv, DepthInv, VisitLeaf
  PROVE  RoomInv'
<1>1. Calling /\ TimeLeft /\ sim' = simulate_score(context.node) /\ context.node # <<>>
  BY Zenon DEF VisitLeaf, draftVars, poolVars, Calling
<1>2. phase = "loop" /\ context.node # NoNode
  BY <1>1, Zenon DEF TimeLeft
<1>3. phase # "draft" /\ Searching
  BY <1>2 DEF Searching
<1>4. CallInv /\ TreeInv /\ ContextInv /\ WithinDraft(tree)
  BY <1>3, Zenon DEF SearchInv, DepthInv
<1>5. PICK node : node = context.node
  OBVIOUS
<1>6. node \in DOMAIN tree /\ context = ContextAt(node) /\ node \in Seq(Nat) /\ node # <<>>
  BY <1>1, <1>2, <1>4, <1>5, Zenon DEF ContextInv, TreeInv, IsTree
<1>7. PICK c, b, r : /\ c = WithPickOf(context, node)
                     /\ b = Branch(node) /\ r = create_search_context(config, b)
  BY Zenon
<1>8. c.taken = b /\ c.requirements = r
  <2>1. c = [node |-> node, taken |-> b, requirements |-> r]
    BY <1>4, <1>6, <1>7, WithItsPick, Zenon DEF ContextOf
  <2> QED
    BY <2>1
<1>9. PICK scores : scores = BranchPoints(node, Len(b) - 1)
  OBVIOUS
<1>10. sim' = SimOf(b, r, scores, 0)
  BY <1>1, <1>5, <1>7, <1>8, <1>9, Zenon DEF simulate_score, SimOf
<1>11. Room(b, r)
  <2>1. /\ \E T : b \in Seq(T)
        /\ Len(b) = Len(taken) + Len(node) /\ Len(taken) + Len(node) <= n_picks
    BY <1>4, <1>6, <1>7, BranchLength, Zenon DEF WithinDraft
  <2>2. Len(node) \in Nat /\ Len(node) # 0
    BY <1>6, PathFacts, Zenon
  <2>3. PICK S : taken \in Seq(S)
    BY <1>4, Zenon DEF CallInv
  <2>4. Len(taken) \in Nat
    BY <2>3
  <2>5. Len(taken) < Len(b) /\ Len(b) <= n_picks
    BY <2>1, <2>2, <2>4
  <2>6. Suffices(config, order, taken) => Suffices(config, order, b)
    BY <1>4, <1>6, <1>7, BranchSuffices, Zenon
  <2> QED
    BY <1>7, <2>1, <2>5, <2>6, Zenon DEF Room
<1>12. Room(b, r)'
  BY <1>1, <1>4, <1>11, RoomStays, Zenon
<1>13. SimOf(b, r, scores, 0)' = SimOf(b, r, scores, 0)
  BY Zenon DEF SimOf
<1> QED
  BY <1>10, <1>12, <1>13, Zenon DEF RoomInv

(* and after each of its picks.                                            *)
LEMMA RolloutPickRoom ==
  ASSUME SearchInv, PoolTypeOK, OrderInv, RoomInv, RolloutPick
  PROVE  RoomInv'
<1>1. Calling /\ CallInv /\ phase = "rollout" /\ Len(sim.taken) < n_picks
  BY Zenon DEF RolloutPick, draftVars, poolVars, Calling, SearchInv
<1>2. PICK a, r, scores, total : sim = SimOf(a, r, scores, total) /\ Room(a, r)
  BY <1>1, Zenon DEF RoomInv
<1>3. sim.taken = a
  BY <1>2 DEF SimOf
<1>4. PICK id : sim' = [make_pick(sim, id) EXCEPT !.scores[OnTheClock(sim)] = @ + points(id),
                                                  !.total = @ + points(id)]
  BY Zenon DEF RolloutPick
<1>5. PICK made, d, q, w, x : /\ made = PickBy(id, order[Len(a)]) /\ d = Append(a, made)
                              /\ q = charge(config, r, made)
                              /\ w = [scores EXCEPT ![order[Len(a)]] = @ + points(id)]
                              /\ x = total + points(id)
  BY Zenon
<1>6. sim' = SimOf(d, q, w, x)
  <2>1. Became(sim, id, d, q, w, x)
    BY <1>2, <1>5, SimAfterPick, Zenon
  <2> QED
    BY <1>4, <2>1, Zenon DEF Became
<1>7. PICK T : a \in Seq(T)
  BY <1>2, Zenon DEF Room
<1>8. Room(d, q)
  <2>1. Len(a) \in Nat /\ Len(d) = Len(a) + 1
    BY <1>5, <1>7
  <2>2. \E U : d \in Seq(U)
    <3> DEFINE U == T \cup {made}
    <3>1. a \in Seq(U) /\ made \in U
      BY <1>7
    <3> HIDE DEF U
    <3>2. d \in Seq(U)
      BY <1>5, <3>1
    <3> QED
      BY <3>2, Zenon
  <2>3. Len(taken) < Len(a) /\ Len(a) < n_picks
    BY <1>1, <1>2, <1>3, Zenon DEF Room
  <2>4. Len(taken) < Len(d) /\ Len(d) <= n_picks
    <3>1. PICK S : taken \in Seq(S)
      BY <1>1, Zenon DEF CallInv
    <3>2. Len(taken) \in Nat
      BY <3>1
    <3>3. n_picks \in Nat
      BY <1>1, Zenon DEF CallInv, WellShaped, n_picks
    <3> QED
      BY <2>1, <2>3, <3>2, <3>3
  <2>5. q = create_search_context(config, d)
    <3>1. PICK c : c = config
      OBVIOUS
    <3>2. create_search_context(c, Append(a, made)) = charge(c, create_search_context(c, a), made)
      BY <1>7, ContextAppend, Zenon
    <3>3. r = create_search_context(c, a)
      BY <1>2, <3>1, Zenon DEF Room
    <3> QED
      BY <1>5, <3>1, <3>2, <3>3, Zenon
  <2>6. ASSUME Suffices(config, order, taken) PROVE Suffices(config, order, d)
    <3>1. Suffices(config, order, a)
      BY <1>2, <2>6, Zenon DEF Room
    <3>2. made.by_team = order[Len(a)]
      BY <1>5 DEF PickBy
    <3> QED
      BY <1>1, <1>5, <1>7, <2>3, <3>1, <3>2, SufficesAfterPick, Zenon
  <2> QED
    BY <2>2, <2>4, <2>5, <2>6, Zenon DEF Room
<1>9. Room(d, q)'
  BY <1>1, <1>8, RoomStays, Zenon
<1>10. SimOf(d, q, w, x)' = SimOf(d, q, w, x)
  BY Zenon DEF SimOf
<1> QED
  BY <1>6, <1>9, <1>10, Zenon DEF RoomInv

(* Every step keeps it so.                                                 *)
LEMMA RoomInvStep ==
  /\ SearchInv /\ PoolTypeOK /\ OrderInv /\ DepthInv /\ RoomInv /\ [SearchNext]_searchVars
  => RoomInv'
<1>1. ASSUME SearchInv, RoomInv, Calling, UNCHANGED <<phase, sim>> PROVE RoomInv'
  <2>1. SUFFICES ASSUME phase = "rollout" PROVE RoomInv'
    BY <1>1, Zenon DEF RoomInv
  <2>2. PICK a, r, scores, total : sim = SimOf(a, r, scores, total) /\ Room(a, r)
    BY <1>1, <2>1, Zenon DEF RoomInv
  <2>3. Room(a, r)'
    BY <1>1, <2>2, RoomStays, Zenon DEF SearchInv
  <2>4. SimOf(a, r, scores, total)' = SimOf(a, r, scores, total)
    BY Zenon DEF SimOf
  <2> QED
    BY <1>1, <2>2, <2>3, <2>4, Zenon DEF RoomInv
<1>2. ASSUME phase' # "rollout" PROVE RoomInv'
  BY <1>2, Zenon DEF RoomInv
<1>3. ASSUME Prepare PROVE phase' # "rollout"
  <2>1. phase' = "draft"
    BY <1>3, PrepareIs, Zenon
  <2> QED
    BY <2>1
<1>4. ASSUME VisitRoot \/ VisitInner \/ RolloutEnds \/ SearchAborts \/ SearchReturns
      PROVE  phase' # "rollout"
  <2>1. phase' \in {"loop", "aborted", "returned"}
    BY <1>4, Zenon DEF VisitRoot, VisitInner, RolloutEnds, SearchAborts, SearchReturns, TimeLeft
  <2> QED
    BY <2>1
<1>5. ASSUME NEW t \in ThinkTimes, calculate_best_pick_Called(t) PROVE phase' # "rollout"
  <2>1. phase' = "loop"
    BY <1>5, Zenon DEF calculate_best_pick_Called
  <2> QED
    BY <2>1
<1>6. ASSUME SearchInv, RoomInv, Tick \/ UNCHANGED searchVars PROVE RoomInv'
  <2>1. Calling /\ UNCHANGED <<phase, sim>>
    BY <1>6, Zenon DEF Tick, searchVars, draftVars, poolVars, Calling
  <2> QED
    BY <1>1, <1>6, <2>1, Zenon
<1> QED
  BY <1>2, <1>3, <1>4, <1>5, <1>6, VisitLeafRoom, RolloutPickRoom,
     Zenon DEF SearchNext, SearchStep

(* Every rollout can be played out if the real draft can.                  *)
LEMMA RoomInvariant == SearchSpec => []RoomInv
<1>1. SearchInit => RoomInv
  <2>1. SearchInit => phase = "draft"
    BY Zenon DEF SearchInit
  <2>2. phase = "draft" => phase # "rollout"
    OBVIOUS
  <2> QED
    BY <2>1, <2>2, Zenon DEF RoomInv
<1> QED
  BY <1>1, SearchInvariant, SearchPoolType, OrderInvariant, RootInvariant, RoomInvStep,
     PTL DEF SearchSpec

-----------------------------------------------------------------------------
(* The thinking time of a call.                                            *)

ThinkInv == phase # "draft" => think_time \in Nat \ {0}

(* It is one of ThinkTimes, and does not change.                           *)
LEMMA ThinkInvStep ==
  ThinkInv /\ [SearchNext]_searchVars => ThinkInv'
<1>1. SUFFICES ASSUME ThinkInv, [SearchNext]_searchVars PROVE ThinkInv'
  BY Zenon
<1>2. CASE Prepare
  <2>1. phase' = "draft"
    BY <1>2, PrepareIs, Zenon
  <2> QED
    BY <2>1, Zenon DEF ThinkInv
<1>3. ASSUME NEW t \in ThinkTimes, calculate_best_pick_Called(t) PROVE ThinkInv'
  <2>1. think_time' = t
    BY <1>3, Zenon DEF calculate_best_pick_Called
  <2> QED
    BY <2>1, SearchTimesAssumption, Zenon DEF ThinkInv
<1>4. CASE SearchStep \/ Tick
  <2>1. phase \in {"loop", "rollout"} /\ think_time' = think_time
    BY <1>4, Zenon DEF SearchStep, VisitRoot, VisitLeaf, VisitInner, RolloutPick, RolloutEnds,
       SearchAborts, SearchReturns, Tick, TimeLeft, draftVars
  <2>2. phase # "draft"
    BY <2>1
  <2> QED
    BY <1>1, <2>1, <2>2, Zenon DEF ThinkInv
<1>5. CASE UNCHANGED searchVars
  BY <1>1, <1>5, Zenon DEF ThinkInv, searchVars, draftVars
<1> QED
  BY <1>1, <1>2, <1>3, <1>4, <1>5, Zenon DEF SearchNext

(* So it is a second or more.                                              *)
LEMMA ThinkInvariant == SearchSpec => []ThinkInv
<1>1. SearchInit => ThinkInv
  BY Zenon DEF SearchInit, ThinkInv
<1> QED
  BY <1>1, ThinkInvStep, PTL DEF SearchSpec

-----------------------------------------------------------------------------
(* What the command loop is promised of the call.                          *)

Promise == calculate_best_pick(config, order, taken, think_time)

MayAbort ==
  RolloutMayAbort(config, order, taken, create_search_context(config, taken), IdsOf(taken))

(* The promise, by its fields.                                             *)
LEMMA PromiseFields ==
  /\ RootFaults(config, AskedRow, IdsOf(taken)) =>
       /\ think_time = 1 => NoPlayer \in Promise.players
       /\ Promise.abort
  /\ ~RootFaults(config, AskedRow, IdsOf(taken)) =>
       /\ BestPicks(config, AskedRow, IdsOf(taken)) \subseteq Promise.players
       /\ NullPossible(config, AskedRow, IdsOf(taken), think_time) =>
            NoPlayer \in Promise.players
       /\ RootChildren(config, AskedRow, IdsOf(taken)) # {} /\ MayAbort => Promise.abort
<1>1. PICK c, ids, row, all : /\ c = config /\ ids = IdsOf(taken) /\ row = AskedRow
                              /\ all = create_search_context(config, taken)
  BY Zenon
<1>2. PICK rest, null :
        /\ rest = (RootChildren(c, row, ids) # {} /\ RolloutMayAbort(c, order, taken, all, ids))
        /\ null = IF NullPossible(c, row, ids, think_time) THEN {NoPlayer} ELSE {}
  BY Zenon
<1>3. PICK some : some = IF think_time = 1 THEN {NoPlayer} ELSE {}
  OBVIOUS
<1>4. Promise = IF RootFaults(c, row, ids)
                  THEN [players |-> some, abort |-> TRUE]
                  ELSE [players |-> BestPicks(c, row, ids) \cup null, abort |-> rest]
  BY <1>1, <1>2, <1>3, Zenon DEF Promise, calculate_best_pick, IdsOf, AskedRow
<1>5. CASE RootFaults(c, row, ids)
  <2>1. Promise = [players |-> some, abort |-> TRUE]
    BY <1>4, <1>5, Zenon
  <2>2. Promise.players = some /\ Promise.abort = TRUE
    BY <2>1
  <2> QED
    BY <1>1, <1>3, <1>5, <2>2, Zenon
<1>6. CASE ~RootFaults(c, row, ids)
  <2>1. PICK best : best = BestPicks(c, row, ids)
    OBVIOUS
  <2>2. Promise = [players |-> best \cup null, abort |-> rest]
    BY <1>4, <1>6, <2>1, Zenon
  <2>3. Promise.players = best \cup null /\ Promise.abort = rest
    BY <2>2
  <2>4. MayAbort = RolloutMayAbort(c, order, taken, all, ids)
    BY <1>1, Zenon DEF MayAbort
  <2>5. RootChildren(c, row, ids) # {} /\ MayAbort => Promise.abort
    BY <1>2, <2>3, <2>4, Zenon
  <2> QED
    BY <1>1, <1>2, <1>6, <2>1, <2>3, <2>5, Zenon
<1> QED
  BY <1>5, <1>6

-----------------------------------------------------------------------------
(* The answer is promised.                                                 *)

(* If the default slot is vacant and no child scores, none is worth points. *)
ScoresOfRoot == [s \in Children(<<>>) |-> Child(<<>>, s).scores[Mover]]

NoneWorth == \A id \in BestPicks(config, AskedRow, IdsOf(taken)) : points(id) = 0

LEMMA NoneIsWorth ==
  ASSUME CallInv, TreeInv, PoolTypeOK, phase = "loop", MoverInv, LooksDone(tree), Expanded(tree),
         GreatestOf(ScoresOfRoot) = {}
  PROVE  NoneWorth
<1>1. SUFFICES ASSUME NEW s \in RootChildren(config, AskedRow, IdsOf(taken)), NEW id,
                      id = whos_highest_projected(config, s, IdsOf(taken))
               PROVE  points(id) = 0
  BY Zenon DEF BestPicks, NoneWorth
<1>2. PICK path, m : path = Append(<<>>, s) /\ m = Mover
  BY Zenon
<1>3. s \in tree[<<>>].children /\ tree[path].player = id
  BY <1>1, <1>2, Zenon DEF Expanded
<1>4. s \in Nat
  BY <1>1, SlotsAreNaturals, Zenon DEF RootChildren
<1>5. path # <<>> /\ Len(path) = 1 /\ path \in Seq(Nat) /\ SubSeq(path, 1, 1) = path
  <2>1. PICK root : root = <<>> /\ root \in Seq(Nat) /\ Len(root) = 0
    BY RootIsPath, Zenon
  <2>2. path \in Seq(Nat) /\ path # <<>> /\ Len(path) = Len(root) + 1
    BY <1>2, <1>4, <2>1, ChildPath, Zenon
  <2>3. Len(path) = 1
    BY <2>1, <2>2
  <2> QED
    BY <2>2, <2>3, PathFacts, Zenon
<1>6. path \in DOMAIN tree
  BY <1>2, <1>3, Zenon DEF TreeInv, IsTree
<1>7. tree[path].visited > 0
  BY <1>2, <1>3, Zenon DEF LooksDone
<1>8. points(id) \in Nat
  <2>1. id \in Ids
    BY <1>3, <1>5, <1>6, Zenon DEF TreeInv, NodesArePicks
  <2> QED
    BY <2>1, PointsType, Zenon
<1>9. ASSUME points(id) > 0 PROVE FALSE
  <2>1. Searching /\ phase # "rollout"
    BY DEF Searching
  <2>2. Settled(tree, m, path)
    BY <1>2, <1>6, <2>1, Zenon DEF MoverInv, MoverScores
  <2>3. Worthy(tree, path)
    BY <1>3, <1>5, <1>9, Zenon DEF Worthy
  <2>4. tree[path].scores[m] \in Above
    BY <1>5, <1>7, <2>2, <2>3, Zenon DEF Settled
  <2>5. PICK score : score = [x \in Children(<<>>) |-> Child(<<>>, x).scores[m]]
    OBVIOUS
  <2>6. s \in DOMAIN score /\ score[s] \in {"positive", "infinite"}
    BY <1>2, <1>3, <2>4, <2>5, Zenon DEF Children, Child, Above
  <2>7. GreatestOf(score) # {}
    BY <2>6, GreatestExists, Zenon
  <2> QED
    BY <1>2, <2>5, <2>7, Zenon DEF ScoresOfRoot
<1> QED
  BY <1>8, <1>9

(* What SearchReturns returns is promised.                                 *)
LEMMA AnswerIsPromised ==
  ASSUME SearchInv, PoolTypeOK, RootInv, LookInv, MoverInv, ThinkInv, SearchReturns
  PROVE  answer' \in Promise.players
<1>1. /\ phase = "loop" /\ (clock >= think_time \/ context.node = NoNode)
      /\ Searching /\ phase # "draft"
  BY DEF SearchReturns, Searching
<1>2. CallInv /\ TreeInv /\ RootIsFound(tree) /\ think_time \in Nat \ {0}
      /\ (HasLooked(tree, context.node, clock, phase) => LooksDone(tree))
  BY <1>1, Zenon DEF SearchInv, RootInv, ThinkInv, LookInv
<1>3. PICK s \in ChosenChildren :
        answer' = IF s \in Children(<<>>) THEN Child(<<>>, s).player ELSE NoPlayer
  BY Zenon DEF SearchReturns
<1>4. PICK row, ids : row = AskedRow /\ ids = IdsOf(taken)
  BY Zenon
<1>5. CASE s \in Children(<<>>)
  <2>1. tree[<<>>].visited > 0
    BY <1>2, <1>5, Zenon DEF RootIsFound, Children
  <2>2. Expanded(tree)
    BY <1>2, <2>1, Zenon DEF RootIsFound
  <2>3. s \in RootChildren(config, row, ids) /\ ~RootFaults(config, row, ids)
    BY <1>4, <1>5, <2>2, Zenon DEF Expanded, Children
  <2>4. answer' = whos_highest_projected(config, s, ids)
    BY <1>3, <1>4, <1>5, <2>2, Zenon DEF Expanded, Children, Child
  <2>5. answer' \in BestPicks(config, row, ids)
    BY <2>3, <2>4, Zenon DEF BestPicks
  <2> QED
    BY <1>4, <2>3, <2>5, PromiseFields, Zenon
<1>6. CASE s \notin Children(<<>>)
  <2>1. answer' = NoPlayer
    BY <1>3, <1>6, Zenon
  <2>2. CASE ~LooksDone(tree)
    <3>1. ~(clock > 1) /\ context.node # NoNode
      BY <1>2, <2>2, Zenon DEF HasLooked
    <3>2. clock \in 0 .. think_time /\ clock >= think_time
      BY <1>1, <1>2, <3>1, Zenon DEF CallInv
    <3>3. think_time = 1
      BY <1>2, <3>1, <3>2
    <3>4. NullPossible(config, row, ids, think_time)
      BY <3>3, Zenon DEF NullPossible
    <3> QED
      BY <1>4, <2>1, <3>3, <3>4, PromiseFields, Zenon
  <2>3. CASE LooksDone(tree)
    <3>1. Expanded(tree)
      BY <1>2, <2>3, Zenon DEF LooksDone, RootIsFound
    <3>2. PICK score : score = ScoresOfRoot
      OBVIOUS
    <3>3. ChosenChildren = IF GreatestOf(score) = {} THEN {0} ELSE GreatestOf(score)
      BY <3>2, Zenon DEF ChosenChildren, ScoresOfRoot, Mover
    <3>4. DOMAIN score \in SUBSET Nat
      <4>1. <<>> \in DOMAIN tree
        BY <1>2, Zenon DEF TreeInv, IsTree
      <4>2. Children(<<>>) \in SUBSET Nat
        BY <1>2, <4>1, SlotsAreNaturals, Zenon DEF TreeInv, Children, Node
      <4> QED
        BY <3>2, <4>2, Zenon DEF ScoresOfRoot
    <3>5. GreatestOf(score) \subseteq Children(<<>>)
      <4>1. GreatestOf(score) \subseteq DOMAIN score
        BY <3>4, GreatestIsOneOf
      <4> QED
        BY <3>2, <4>1, Zenon DEF ScoresOfRoot
    <3>6. GreatestOf(score) = {} /\ s = 0
      BY <1>3, <1>6, <3>3, <3>5, Zenon
    <3>7. \A id \in BestPicks(config, row, ids) : points(id) = 0
      <4>1. NoneWorth
        BY <1>1, <1>2, <2>3, <3>1, <3>2, <3>6, NoneIsWorth, Zenon
      <4> QED
        BY <1>4, <4>1, Zenon DEF NoneWorth
    <3>8. 0 \notin RootChildren(config, row, ids)
      BY <1>4, <1>6, <3>1, <3>6, Zenon DEF Expanded, Children
    <3>9. NullPossible(config, row, ids, think_time)
      BY <3>7, <3>8, Zenon DEF NullPossible
    <3> QED
      BY <1>4, <2>1, <3>1, <3>9, PromiseFields, Zenon DEF Expanded
  <2> QED
    BY <2>2, <2>3
<1> QED
  BY <1>5, <1>6

-----------------------------------------------------------------------------
(* The process ends in it only where that is promised.                     *)

LEMMA IdsAreThosePlayers ==
  ASSUME NEW b
  PROVE  IdsOf(b) = PlayersOf(b)
  BY Zenon DEF IdsOf, PlayersOf

(* A node below the root shows that the root was expanded.                 *)
LEMMA BelowRoot ==
  ASSUME TreeInv, RootIsFound(tree), NEW node \in DOMAIN tree, node # <<>>
  PROVE  /\ ~RootFaults(config, AskedRow, IdsOf(taken))
         /\ RootChildren(config, AskedRow, IdsOf(taken)) # {}
<1>1. /\ node \in Seq(Nat) /\ \A k \in 0 .. Len(node) : SubSeq(node, 1, k) \in DOMAIN tree
      /\ Len(node) \in Nat /\ Len(node) # 0
  BY PathFacts, Zenon DEF TreeInv, IsTree
<1>2. 1 \in 0 .. Len(node)
  BY <1>1
<1>3. PICK p : p = SubSeq(node, 1, 1)
  OBVIOUS
<1>4. p \in DOMAIN tree /\ p \in Seq(Nat) /\ Len(p) = 1
  BY <1>1, <1>2, <1>3, PrefixIsPath, Zenon
<1>5. Len(p) # 0 /\ Len(p) - 1 = 0
  BY <1>4
<1>6. p # <<>>
  BY <1>4, <1>5, PathFacts, Zenon
<1>7. Front(p) = SubSeq(p, 1, Len(p) - 1) /\ Len(p) - 1 \in 0 .. Len(p)
  BY <1>4, <1>6, FrontOfPath, Zenon
<1>8. Front(p) \in Seq(Nat) /\ Len(Front(p)) = Len(p) - 1
  BY <1>4, <1>7, PrefixIsPath, Zenon
<1>9. Front(p) = <<>>
  BY <1>5, <1>8, PathFacts, Zenon
<1>10. Last(p) \in tree[<<>>].children
  BY <1>4, <1>6, <1>9, Zenon DEF TreeInv, IsTree
<1>11. Expanded(tree)
  BY <1>10, Zenon DEF RootIsFound
<1> QED
  BY <1>10, <1>11, Zenon DEF Expanded

(* A draft that can be played out meets no NULL flex player.               *)
LEMMA NoFaults ==
  ASSUME PoolTypeOK, CallInv, NEW b, Len(b) \in Nat, Len(b) < n_picks,
         Suffices(config, order, b)
  PROVE  \A s \in Slots(config) : ~FlexFaults(config, s, IdsOf(b))
<1>1. PICK c : c = config
  OBVIOUS
<1>2. WellShaped(c) /\ Len(b) < get_number_of_picks(c) /\ PlayersSuffice(c, b, PlayersOf(b))
  BY <1>1, Zenon DEF CallInv, n_picks, Suffices
<1>3. \A s \in Slots(c) : ~FlexFaults(c, s, PlayersOf(b))
  BY <1>2, QueriesFind, Zenon
<1> QED
  BY <1>1, <1>3, IdsAreThosePlayers, Zenon

(* Where SearchAborts ends the process the promise says so.                *)
LEMMA AbortIsPromised ==
  ASSUME SearchInv, PoolTypeOK, OrderInv, DepthInv, RootInv, WayInv, RoomInv, SearchAborts
  PROVE  Promise.abort
<1> DEFINE Expanding == /\ TimeLeft /\ is_leaf(context.node)
                        /\ expand_tree_Faults(context.node)
           Playing == /\ phase = "rollout"
                      /\ Len(sim.taken) < n_picks
                      /\ ~sim_pick_Faults(sim) => sim_pick_for_team(sim) = {}
<1>1. Expanding \/ Playing
  BY Zenon DEF SearchAborts
<1>2. ASSUME Searching
      PROVE  /\ CallInv /\ TreeInv /\ ContextInv /\ WithinDraft(tree) /\ RootIsFound(tree)
             /\ Len(taken) \in Nat /\ n_picks \in Nat
  <2>1. phase # "draft"
    BY <1>2 DEF Searching
  <2>2. /\ CallInv /\ TreeInv /\ ContextInv /\ WithinDraft(tree) /\ RootIsFound(tree)
    BY <1>2, <2>1, Zenon DEF SearchInv, DepthInv, RootInv
  <2>3. PICK S : taken \in Seq(S)
    BY <2>2, Zenon DEF CallInv
  <2>4. Len(taken) \in Nat
    BY <2>3
  <2>5. n_picks \in Nat
    BY <2>2, Zenon DEF CallInv, WellShaped, n_picks
  <2> QED
    BY <2>2, <2>4, <2>5, Zenon
<1>3. ASSUME Searching, NEW node \in DOMAIN tree, node # <<>>, Len(taken) + 1 < n_picks,
             ~Suffices(config, order, taken)
      PROVE  Promise.abort
  <2>1. /\ ~RootFaults(config, AskedRow, IdsOf(taken))
        /\ RootChildren(config, AskedRow, IdsOf(taken)) # {}
    BY <1>2, <1>3, BelowRoot, Zenon
  <2>2. MayAbort
    BY <1>3, IdsAreThosePlayers, Zenon DEF MayAbort, RolloutMayAbort, Suffices, n_picks
  <2> QED
    BY <2>1, <2>2, PromiseFields, Zenon
<1>4. CASE Expanding
  <2>1. phase = "loop" /\ context.node # NoNode /\ expand_tree_Faults(context.node)
    BY <1>4, Zenon DEF TimeLeft
  <2>2. Searching
    BY <2>1 DEF Searching
  <2>3. PICK node, b, row : /\ node = context.node /\ b = Branch(node)
                            /\ row = create_search_context(config, b)[order[Len(b)]]
    BY Zenon
  <2>4. node \in DOMAIN tree /\ context = ContextAt(node) /\ node \in Seq(Nat)
    BY <1>2, <2>1, <2>2, <2>3, Zenon DEF ContextInv, TreeInv, IsTree
  <2>5. Len(b) < n_picks /\ RootFaults(config, row, IdsOf(b))
    <3>1. CallInv /\ expand_tree_Faults(node)
      BY <1>2, <2>1, <2>2, <2>3, Zenon
    <3>2. expand_tree_Faults(node) <=> Len(b) < n_picks /\ RootFaults(config, row, IdsOf(b))
      BY <2>3, <2>4, <3>1, ExpandFinds
    <3> QED
      BY <3>1, <3>2, Zenon
  <2>6. CASE node = <<>>
    <3>1. b = taken
      BY <1>2, <2>2, <2>3, <2>6, ContextAtRoot, Zenon
    <3>2. RootFaults(config, AskedRow, IdsOf(taken))
      BY <2>3, <2>5, <3>1, Zenon DEF AskedRow
    <3> QED
      BY <3>2, PromiseFields, Zenon
  <2>7. CASE node # <<>>
    <3>1. Len(b) = Len(taken) + Len(node) /\ Len(b) \in Nat /\ Len(node) \in Nat /\ Len(node) # 0
      BY <1>2, <2>2, <2>3, <2>4, <2>7, BranchLength, PathFacts, Zenon
    <3>2. Len(taken) + 1 < n_picks
      <4>1. Len(taken) \in Nat /\ n_picks \in Nat
        BY <1>2, <2>2, Zenon
      <4> QED
        BY <2>5, <3>1, <4>1
    <3>3. ASSUME Suffices(config, order, taken) PROVE FALSE
      <4>1. CallInv /\ TreeInv /\ WithinDraft(tree)
        BY <1>2, <2>2, Zenon
      <4>2. Suffices(config, order, b)
        BY <2>3, <2>4, <3>3, <4>1, BranchSuffices, Zenon
      <4>3. \A s \in Slots(config) : ~FlexFaults(config, s, IdsOf(b))
        BY <2>5, <3>1, <4>1, <4>2, NoFaults, Zenon
      <4> QED
        BY <2>5, <4>3, Zenon DEF RootFaults
    <3> QED
      BY <1>3, <2>2, <2>4, <2>7, <3>2, <3>3, Zenon
  <2> QED
    BY <2>6, <2>7
<1>5. CASE Playing
  <2>1. Searching
    BY <1>5 DEF Searching
  <2>2. PICK a, r, scores, total : sim = SimOf(a, r, scores, total) /\ Room(a, r)
    BY <1>5, Zenon DEF RoomInv
  <2>3. sim.taken = a /\ sim.requirements = r
    BY <2>2 DEF SimOf
  <2>4. PICK T : a \in Seq(T)
    BY <2>2, Zenon DEF Room
  <2>5. Len(a) \in Nat
    BY <2>4
  <2>6. Len(taken) < Len(a) /\ Len(a) < n_picks /\ r = create_search_context(config, a)
    BY <1>5, <2>2, <2>3, Zenon DEF Room
  <2>7. Len(taken) + 1 < n_picks
    <3>1. Len(taken) \in Nat /\ n_picks \in Nat
      BY <1>2, <2>1, Zenon
    <3> QED
      BY <2>5, <2>6, <3>1
  <2>8. context.node \in DOMAIN tree /\ context.node # <<>>
    <3>1. context.node # NoNode
      BY <1>2, <1>5, <2>1, Zenon DEF CallInv
    <3> QED
      BY <1>2, <1>5, <2>1, <3>1, Zenon DEF ContextInv, WayInv, Arrived
  <2>9. ASSUME Suffices(config, order, taken) PROVE FALSE
    <3>1. CallInv /\ Suffices(config, order, a)
      BY <1>2, <2>1, <2>2, <2>9, Zenon DEF Room
    <3>2. \A s \in Slots(config) : ~FlexFaults(config, s, IdsOf(a))
      BY <2>5, <2>6, <3>1, NoFaults, Zenon
    <3>3. ~sim_pick_Faults(sim)
      BY <2>3, <3>2, Zenon DEF sim_pick_Faults
    <3>4. sim_pick_for_team(sim) = {}
      BY <1>5, <3>3, Zenon
    <3>5. PICK c, o : c = config /\ o = order
      BY Zenon
    <3>6. /\ WellShaped(c) /\ o \in [0 .. get_number_of_picks(c) - 1 -> Teams(c)]
          /\ Len(a) < get_number_of_picks(c) /\ Suffices(c, o, a)
      BY <2>6, <3>1, <3>5, Zenon DEF CallInv, OrderInv, n_picks
    <3>7. BestPicks(c, create_search_context(c, a)[o[Len(a)]], PlayersOf(a)) # {}
      BY <2>5, <3>6, TeamFindsPick, Zenon
    <3>8. sim_pick_for_team(sim) # {}
      BY <2>3, <2>6, <3>5, <3>7, IdsAreThosePlayers, Zenon DEF sim_pick_for_team, OnTheClock
    <3> QED
      BY <3>4, <3>8, Zenon
  <2> QED
    BY <1>3, <2>1, <2>7, <2>8, <2>9, Zenon
<1> HIDE DEF Expanding, Playing
<1> QED
  BY <1>1, <1>4, <1>5, Zenon

(* What is promised does not change while the pool does not.               *)
LEMMA CallStable ==
  ASSUME UNCHANGED <<players, slot_markers>>, NEW c, NEW o, NEW t, Len(t) \in Nat, NEW k
  PROVE  calculate_best_pick(c, o, t, k)' = calculate_best_pick(c, o, t, k)
<1>1. PICK ids, all, row : /\ ids = { t[i].player_id : i \in DOMAIN t }
                           /\ all = create_search_context(c, t)
                           /\ row = all[o[Len(t)]]
  BY Zenon
<1>2. create_search_context(c, t)' = all
  BY <1>1, SamePlayersSameContext, Zenon
<1>3. Ids' = Ids /\ \A id : points(id)' = points(id)
  BY Zenon DEF Ids, number_of_players, points
<1>4. RootFaults(c, row, ids)' <=> RootFaults(c, row, ids)
  BY RootFaultsStay, Zenon
<1>5. RootChildren(c, row, ids)' = RootChildren(c, row, ids)
  BY RootChildrenStay, Zenon
<1>6. \A s : whos_highest_projected(c, s, ids)' = whos_highest_projected(c, s, ids)
  BY QueriesStay, Zenon
<1>7. BestPicks(c, row, ids)' = BestPicks(c, row, ids)
  BY <1>5, <1>6, Zenon DEF BestPicks
<1>8. NullPossible(c, row, ids, k)' <=> NullPossible(c, row, ids, k)
  BY <1>3, <1>5, <1>7, Zenon DEF NullPossible
<1>9. PlayersSuffice(c, t, ids)' <=> PlayersSuffice(c, t, ids)
  BY <1>3, Zenon DEF PlayersSuffice
<1>10. TeamsHaveRoom(c, o, t, all)' <=> TeamsHaveRoom(c, o, t, all)
  BY Zenon DEF TeamsHaveRoom
<1>11. RolloutMayAbort(c, o, t, all, ids)' <=> RolloutMayAbort(c, o, t, all, ids)
  BY <1>9, <1>10, Zenon DEF RolloutMayAbort
<1> DEFINE some == IF k = 1 THEN {NoPlayer} ELSE {}
           null == IF NullPossible(c, row, ids, k) THEN {NoPlayer} ELSE {}
           rest == RootChildren(c, row, ids) # {} /\ RolloutMayAbort(c, o, t, all, ids)
<1>12. null' = null
  BY <1>8, Zenon
<1>13. rest' = rest
  <2>1. rest' <=> rest
    BY <1>5, <1>11, Zenon
  <2> QED
    BY <2>1
<1>14. calculate_best_pick(c, o, t, k) =
         IF RootFaults(c, row, ids)
           THEN [players |-> some, abort |-> TRUE]
           ELSE [players |-> BestPicks(c, row, ids) \cup null, abort |-> rest]
  BY <1>1, Zenon DEF calculate_best_pick
<1>15. calculate_best_pick(c, o, t, k)' =
         IF RootFaults(c, row, ids)'
           THEN [players |-> some, abort |-> TRUE]
           ELSE [players |-> BestPicks(c, row, ids)' \cup null', abort |-> rest']
  BY <1>1, <1>2, Zenon DEF calculate_best_pick
<1> HIDE DEF some, null, rest
<1> QED
  BY <1>4, <1>7, <1>12, <1>13, <1>14, <1>15, Zenon

(* So it is during a call.                                                 *)
LEMMA PromiseStays ==
  ASSUME CallInv, Calling
  PROVE  Promise' = Promise
<1>1. PICK c, o, t, k : c = config /\ o = order /\ t = taken /\ k = think_time
  BY Zenon
<1>2. Len(t) \in Nat
  <2>1. PICK S : taken \in Seq(S)
    BY Zenon DEF CallInv
  <2> QED
    BY <1>1, <2>1
<1>3. calculate_best_pick(c, o, t, k)' = calculate_best_pick(c, o, t, k)
  BY <1>2, CallStable, Zenon DEF Calling
<1>4. c = config' /\ o = order' /\ t = taken' /\ k = think_time'
  BY <1>1, Zenon DEF Calling
<1>5. Promise' = calculate_best_pick(c, o, t, k)'
  BY <1>4, Zenon DEF Promise
<1> QED
  BY <1>1, <1>3, <1>5, Zenon DEF Promise

-----------------------------------------------------------------------------
(* The search answers as the command loop's model of it says.              *)

(* What PickAnswer sees of a state of the search.                          *)
Stage == CASE phase = "returned"           -> "answered"
           [] phase \in {"loop", "rollout"} -> "asked"
           [] OTHER                         -> phase

Asked == IF phase = "draft" THEN [players |-> {}, abort |-> FALSE]
         ELSE calculate_best_pick(config, order, taken, think_time)

(* The stage, by the phase,                                                *)
LEMMA StageIs ==
  /\ phase = "draft" => Stage = "draft"
  /\ phase \in {"loop", "rollout"} => Stage = "asked"
  /\ phase = "returned" => Stage = "answered"
  /\ phase = "aborted" => Stage = "aborted"
<1>1. phase = "draft" => Stage = "draft"
  BY DEF Stage
<1>2. phase \in {"loop", "rollout"} => Stage = "asked"
  BY DEF Stage
<1>3. phase = "returned" => Stage = "answered"
  BY DEF Stage
<1>4. phase = "aborted" => Stage = "aborted"
  BY DEF Stage
<1> QED
  BY <1>1, <1>2, <1>3, <1>4

(* and in the next state.                                                  *)
LEMMA NextStageIs ==
  /\ phase' = "draft" => Stage' = "draft"
  /\ phase' \in {"loop", "rollout"} => Stage' = "asked"
  /\ phase' = "returned" => Stage' = "answered"
  /\ phase' = "aborted" => Stage' = "aborted"
<1>1. phase' = "draft" => Stage' = "draft"
  BY DEF Stage
<1>2. phase' \in {"loop", "rollout"} => Stage' = "asked"
  BY DEF Stage
<1>3. phase' = "returned" => Stage' = "answered"
  BY DEF Stage
<1>4. phase' = "aborted" => Stage' = "aborted"
  BY DEF Stage
<1> QED
  BY <1>1, <1>2, <1>3, <1>4

(* The end of a call leaves its promise as it was.                         *)
LEMMA AskedAtEnd ==
  ASSUME CallInv, Calling, phase # "draft", phase' # "draft"
  PROVE  Asked = Promise /\ Asked' = Asked
<1>1. Asked = Promise
  BY Zenon DEF Asked, Promise
<1>2. Asked' = Promise'
  BY Zenon DEF Asked, Promise
<1> QED
  BY <1>1, <1>2, PromiseStays, Zenon

(* A step of the search is one of PickAnswer, or none.                     *)
LEMMA SearchStepAnswers ==
  ASSUME SearchInv, PoolTypeOK, OrderInv, DepthInv, RootInv, LookInv, WayInv, MoverInv, RoomInv,
         ThinkInv, [SearchNext]_searchVars
  PROVE  [P!Prepare \/ P!Ask \/ P!Answer \/ P!Abort]_(P!answerVars)
<1>1. CASE Prepare
  <2>1. phase = "draft" /\ phase' = "draft"
    BY <1>1, PrepareIs, Zenon
  <2>2. Stage = "draft" /\ Stage' = "draft"
    BY <2>1, StageIs, NextStageIs, Zenon
  <2>3. P!Prepare
    BY <2>2, Zenon DEF P!Prepare, Stage
  <2> QED
    BY <2>3, Zenon
<1>2. ASSUME NEW t \in ThinkTimes, calculate_best_pick_Called(t)
      PROVE  P!Ask
  <2>1. phase = "draft" /\ phase' \in {"loop", "rollout"} /\ answer' = answer
    BY <1>2 DEF calculate_best_pick_Called
  <2>2. Stage = "draft" /\ Stage' = "asked"
    BY <2>1, StageIs, NextStageIs, Zenon
  <2> QED
    BY <2>1, <2>2, Zenon DEF P!Ask, Stage
<1>3. CASE VisitRoot \/ VisitLeaf \/ VisitInner \/ RolloutPick \/ RolloutEnds \/ Tick
  <2>1. phase \in {"loop", "rollout"} /\ phase' \in {"loop", "rollout"} /\ answer' = answer
    BY <1>3 DEF VisitRoot, VisitLeaf, VisitInner, RolloutPick, RolloutEnds, Tick, TimeLeft
  <2>2. Stage = "asked" /\ Stage' = "asked"
    BY <2>1, StageIs, NextStageIs, Zenon
  <2>3. UNCHANGED P!answerVars
    BY <2>1, <2>2, Zenon DEF P!answerVars, Stage
  <2> QED
    BY <2>3, Zenon
<1>4. CASE SearchReturns
  <2>1. /\ phase \in {"loop", "rollout"} /\ phase' = "returned"
        /\ phase # "draft" /\ phase' # "draft"
    BY <1>4 DEF SearchReturns
  <2>2. CallInv /\ Calling
    BY <1>4, Zenon DEF SearchInv, SearchReturns, draftVars, poolVars, Calling
  <2>3. Stage = "asked" /\ Stage' = "answered"
    BY <2>1, StageIs, NextStageIs, Zenon
  <2>4. Asked = Promise /\ Asked' = Asked
    BY <2>1, <2>2, AskedAtEnd, Zenon
  <2>5. answer' \in Asked.players
    BY <1>4, <2>4, AnswerIsPromised, Zenon
  <2>6. P!Answer
    BY <2>3, <2>4, <2>5, Zenon DEF P!Answer, Stage, Asked
  <2> QED
    BY <2>6, Zenon
<1>5. CASE SearchAborts
  <2>1. phase \in {"loop", "rollout"} /\ phase' = "aborted" /\ answer' = answer
    BY <1>5 DEF SearchAborts, TimeLeft
  <2>2. phase # "draft" /\ phase' # "draft"
    BY <2>1
  <2>3. CallInv /\ Calling
    BY <1>5, Zenon DEF SearchInv, SearchAborts, draftVars, poolVars, Calling
  <2>4. Stage = "asked" /\ Stage' = "aborted"
    BY <2>1, StageIs, NextStageIs, Zenon
  <2>5. Asked = Promise /\ Asked' = Asked
    BY <2>2, <2>3, AskedAtEnd, Zenon
  <2>6. Asked.abort
    BY <1>5, <2>5, AbortIsPromised, Zenon
  <2>7. P!Abort
    BY <2>1, <2>4, <2>5, <2>6, Zenon DEF P!Abort, Stage, Asked
  <2> QED
    BY <2>7, Zenon
<1>6. CASE UNCHANGED searchVars
  <2>1. phase' = phase /\ answer' = answer
    BY <1>6, Zenon DEF searchVars
  <2>2. Stage' = Stage
    BY <2>1, Zenon DEF Stage
  <2>3. UNCHANGED P!answerVars
    BY <2>1, <2>2, Zenon DEF P!answerVars, Stage
  <2> QED
    BY <2>3, Zenon
<1> QED
  BY <1>1, <1>2, <1>3, <1>4, <1>5, <1>6, Zenon DEF SearchNext, SearchStep

(* Every search, of every league and pool and with every thinking time,    *)
(* answers at most once and with a player the command loop's model of      *)
(* calculate_best_pick allows, and ends the process only where that model  *)
(* allows it.                                                              *)
THEOREM SearchAnswers == SearchSpec => AnswersAsPromised
<1>1. SearchInit => P!AnswerInit
  <2>1. SearchInit => phase = "draft"
    BY Zenon DEF SearchInit
  <2>2. phase = "draft" => Stage = "draft"
    BY StageIs, Zenon
  <2> QED
    BY <2>1, <2>2, Zenon DEF P!AnswerInit, Stage
<1>2. /\ SearchInv /\ PoolTypeOK /\ OrderInv /\ DepthInv /\ RootInv /\ LookInv /\ WayInv
      /\ MoverInv /\ RoomInv /\ ThinkInv /\ [SearchNext]_searchVars
      => [P!Prepare \/ P!Ask \/ P!Answer \/ P!Abort]_(P!answerVars)
  BY SearchStepAnswers
<1> QED
  BY <1>1, <1>2, SearchInvariant, SearchPoolType, OrderInvariant, RootInvariant, LookInvariant,
     WayInvariant, MoverInvariant, RoomInvariant, ThinkInvariant,
     PTL DEF SearchSpec, AnswersAsPromised, P!AnswerSpec
====
