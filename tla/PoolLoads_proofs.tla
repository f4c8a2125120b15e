-------------------------- MODULE PoolLoads_proofs --------------------------
(***************************************************************************)
(* Proofs about PoolLoads, for every set of configurations and csv files   *)
(* and every length of the array: the array and its markers keep their     *)
(* shape and overrun by one at most, a load loses no player and copies     *)
(* none, and the queries find the best free player.                        *)
(***************************************************************************)
EXTENDS PoolLoads, Drafter_proofs

-----------------------------------------------------------------------------
(* The inductive invariant: a successful load leaves the players of the    *)
(* real slots sorted by position, then best first, and the marker of each  *)
(* position that has players divides those below it from the others.       *)

Sorted ==
  \A i, j \in Ids : i < j =>
    \/ players[i + 1].position < players[j + 1].position
    \/ /\ players[i + 1].position = players[j + 1].position
       /\ points(i) >= points(j)

MarkersDivide ==
  \A h, id \in Ids :
    players[id + 1].position < players[h + 1].position
      <=> id < slot_markers[players[h + 1].position]

Arranged(c) ==
  /\ \A id \in Ids : players[id + 1].position \in RealSlots(c)
  /\ Sorted
  /\ MarkersDivide

IsLoaded(c) ==
  \E file \in ConfigFiles :
    /\ Loadable(file)
    /\ \E unwritten \in UnwrittenValues(file) : c = load_config(file, unwritten)

PoolInv ==
  /\ PoolTypeOK
  /\ config = NoConfig \/ IsLoaded(config)
  /\ grouped => IsLoaded(config) /\ Arranged(config)

LEMMA LoadedIsWellShaped ==
  ASSUME NEW c, IsLoaded(c)
  PROVE  WellShaped(c) /\ Slots(c) \subseteq 0 .. MAX_NUM_SLOTS - 1
<1>1. PICK file \in ConfigFiles :
        /\ Loadable(file)
        /\ \E unwritten \in UnwrittenValues(file) : c = load_config(file, unwritten)
  BY Zenon DEF IsLoaded
<1>2. WellShaped(c) /\ c.num_slots = Len(file.slots)
  BY <1>1, LoadedConfigIsWellShaped, Zenon
<1>3. c.num_slots \in Nat /\ c.num_slots <= MAX_NUM_SLOTS
  BY <1>1, <1>2, Zenon DEF Loadable, WellShaped
<1>4. Slots(c) \subseteq 0 .. MAX_NUM_SLOTS - 1
  BY <1>3, MaxSlotsAssumption DEF Slots
<1> QED
  BY <1>2, <1>4

LEMMA PlayersAreRecords ==
  ASSUME PoolTypeOK
  PROVE  /\ Ids \subseteq Nat
         /\ Len(players) \in Nat
         /\ \A id \in Ids : /\ id + 1 \in 1 .. Len(players)
                            /\ players[id + 1] \in PlayerRecord
                            /\ points(id) \in Nat
                            /\ players[id + 1].position \in Nat
<1>1. players \in Seq(PlayerRecord)
  BY Zenon DEF PoolTypeOK
<1>2. \A id \in Ids : id + 1 \in 1 .. Len(players) /\ players[id + 1] \in PlayerRecord
  BY <1>1 DEF Ids, number_of_players
<1>3. \A r \in PlayerRecord : r.position \in Nat /\ r.points \in Nat
  BY DEF PlayerRecord
<1>4. Ids \subseteq Nat /\ Len(players) \in Nat
  BY <1>1 DEF Ids
<1> QED
  BY <1>2, <1>3, <1>4, Zenon DEF points

(* A load that finds a real slot for every player arranges them.           *)
LEMMA LoadArranges ==
  ASSUME NEW c, NEW all \in Seq(PlayerRecord), NEW leftover \in Leftovers(c, all),
         \A i \in DOMAIN all : all[i].position \in RealSlots(c),
         RealSlots(c) \subseteq DOMAIN slot_markers,
         players' = group_by_position(c, all, leftover),
         slot_markers' = MarkersOf(c, all)
  PROVE  Arranged(c)'
<1> DEFINE G == Grouped(c, all)
           len == Len(all)
           a(k) == At(c, all, k)
<1>1. G = 1 .. len /\ Cardinality(G) = len /\ len \in Nat
  <2>1. DOMAIN all = 1 .. len /\ len \in Nat
    OBVIOUS
  <2>2. G = 1 .. len
    BY <2>1, Zenon DEF Grouped
  <2>3. Cardinality(1 .. len) = len
    <3> HIDE DEF len
    <3> QED
      BY <2>1, FS_Interval
  <2> QED
    BY <2>1, <2>2, <2>3
<1>2. Len(players') = len /\ \A k \in 1 .. len : players'[k] = all[a(k)]
  BY <1>1, GroupedArrayType, Zenon
<1>3. \A k \in 1 .. len : a(k) \in G /\ Rank(c, all, a(k)) = k - 1
  BY <1>1, RankOrdersGroup, Zenon
<1>4. Ids' = 0 .. len - 1
  BY <1>2, Zenon DEF Ids, number_of_players
<1>5. \A id \in Ids' : id + 1 \in 1 .. len /\ id \in Int /\ (id + 1) - 1 = id
  BY <1>1, <1>4
<1>6. \A id \in Ids' : players'[id + 1] = all[a(id + 1)] /\ a(id + 1) \in G
                       /\ Rank(c, all, a(id + 1)) = id
  BY <1>2, <1>3, <1>5, Zenon
<1>7. (\A id \in Ids : players[id + 1].position \in RealSlots(c))'
  BY <1>6, Zenon DEF Grouped
<1>8. Sorted'
  <2>1. SUFFICES ASSUME NEW i \in Ids', NEW j \in Ids', i < j
                 PROVE  LET p == all[a(i + 1)]
                            q == all[a(j + 1)]
                        IN \/ p.position < q.position
                           \/ p.position = q.position /\ p.points >= q.points
    BY <1>6, ZenonT(60) DEF Sorted, points
  <2>2. Precedes(all, a(i + 1), a(j + 1))
    BY <1>6, <2>1, RankOrdersGroup, Zenon
  <2>3. all[a(i + 1)] \in PlayerRecord /\ all[a(j + 1)] \in PlayerRecord
    <3>1. a(i + 1) \in 1 .. len /\ a(j + 1) \in 1 .. len
      BY <1>1, <1>6, Zenon
    <3> HIDE DEF a
    <3> QED
      BY <3>1
  <2>4. \A r \in PlayerRecord : r.points \in Nat
    BY DEF PlayerRecord
  <2>5. all[a(i + 1)].points \in Nat /\ all[a(j + 1)].points \in Nat
    BY <2>3, <2>4, Zenon
  <2> HIDE DEF a
  <2> QED
    BY <2>2, <2>5 DEF Precedes
<1>9. MarkersDivide'
  <2>1. SUFFICES ASSUME NEW h \in Ids', NEW id \in Ids'
                 PROVE  all[a(id + 1)].position < all[a(h + 1)].position
                          <=> id < MarkersOf(c, all)[all[a(h + 1)].position]
    BY <1>6, Zenon DEF MarkersDivide
  <2>2. all[a(h + 1)].position \in DOMAIN slot_markers
    BY <1>6, <1>7, Zenon
  <2> QED
    BY <1>6, <2>2, MarkerDivides, Zenon
<1> QED
  BY <1>7, <1>8, <1>9, Zenon DEF Arranged

-----------------------------------------------------------------------------
(* What each step does to the pool.                                        *)

LEMMA PoolInvInit == PInit => PoolInv
<1> SUFFICES ASSUME PInit PROVE PoolInv
  OBVIOUS
<1>1. PoolTypeOK
  BY MaxPlayersAssumption DEF PInit, PoolInit, PoolTypeOK
<1> QED
  BY <1>1, Zenon DEF PInit, PoolInv

LEMMA PoolInvStep == PoolInv /\ [PNext]_loadVars => PoolInv'
<1> SUFFICES ASSUME PoolInv, [PNext]_loadVars PROVE PoolInv'
  OBVIOUS
<1>1. ASSUME NEW file \in ConfigFiles, Configure(file) PROVE PoolInv'
  <2>1. IsLoaded(config')
    BY <1>1, Zenon DEF Configure, IsLoaded
  <2>2. PoolTypeOK'
    BY <1>1, Zenon DEF PoolInv, PoolTypeOK, Configure, poolVars
  <2>3. ~grouped'
    BY <1>1, Zenon DEF Configure
  <2> QED
    BY <2>1, <2>2, <2>3, Zenon DEF PoolInv
<1>2. ASSUME NEW file \in PoolFiles, Load(file) PROVE PoolInv'
  <2>1. PICK c : c = config
    OBVIOUS
  <2>2. load_players(c, file) /\ config' = c /\ c # NoConfig
    BY <1>2, <2>1, Zenon DEF Load
  <2> DEFINE all == players \o RecordsOf(c, file)
  <2>3. IsLoaded(c) /\ PoolTypeOK
    BY <2>1, <2>2, Zenon DEF PoolInv
  <2>4. all \in Seq(PlayerRecord) /\ PoolTypeOK'
    BY <2>2, <2>3, LoadedPool, Zenon
  <2>5. grouped' => Arranged(c)'
    <3>1. SUFFICES ASSUME \A i \in DOMAIN all : all[i].position \in RealSlots(c)
                   PROVE  Arranged(c)'
      BY <1>2, <2>1, Zenon DEF Load, AllHaveRealSlot
    <3>2. RealSlots(c) \subseteq DOMAIN slot_markers
      <4>1. DOMAIN slot_markers = 0 .. MAX_NUM_SLOTS - 1
        BY <2>3, Zenon DEF PoolTypeOK
      <4> QED
        BY <2>3, <4>1, LoadedIsWellShaped, Zenon DEF RealSlots
    <3>3. PICK leftover \in Leftovers(c, all) :
            /\ players' = group_by_position(c, all, leftover)
            /\ slot_markers' = MarkersOf(c, all)
      BY <2>2, Zenon DEF load_players
    <3> QED
      BY <2>4, <3>1, <3>2, <3>3, LoadArranges, Zenon
  <2>6. grouped' => Arranged(config)'
    BY <2>2, <2>5, Zenon DEF Arranged
  <2> QED
    BY <2>2, <2>3, <2>4, <2>6, Zenon DEF PoolInv
<1>3. ASSUME NEW file \in PoolFiles, LoadFails(file) PROVE PoolInv'
  <2>1. PoolTypeOK'
    BY <1>3, FailedLoadType, Zenon DEF PoolInv, LoadFails
  <2> QED
    BY <1>3, <2>1, Zenon DEF PoolInv, LoadFails
<1>4. CASE UNCHANGED loadVars
  BY <1>4, ZenonT(60) DEF loadVars, poolVars, PoolInv, PoolTypeOK, Arranged, Sorted,
                              MarkersDivide, Ids, number_of_players, points
<1> QED
  BY <1>1, <1>2, <1>3, <1>4, Zenon DEF PNext

LEMMA PoolInvariant == PSpec => []PoolInv
  BY PoolInvInit, PoolInvStep, PTL DEF PSpec

(* Whatever is loaded, the array holds records, no load or sequence of     *)
(* loads writes more than one element past its end, and every marker is    *)
(* written.                                                                *)
THEOREM PoolTypeCorrect == PSpec => []PoolTypeOK
<1>1. PoolInv => PoolTypeOK
  BY Zenon DEF PoolInv
<1> QED
  BY <1>1, PoolInvariant, PTL

-----------------------------------------------------------------------------
(* The queries.                                                            *)

(* The first free player from the marker of a position on is the best of   *)
(* those free at it.                                                       *)
LEMMA FirstFreeIsBest ==
  ASSUME PoolTypeOK, NEW c, IsLoaded(c), Arranged(c),
         NEW s, NEW takenIds, FreeAt(s, takenIds) # {}
  PROVE  /\ s \in RealSlots(c)
         /\ Best(FirstFreeFrom(slot_markers[s], takenIds), FreeAt(s, takenIds))
<1> DEFINE mark == slot_markers[s]
           free == { id \in Ids : id >= mark /\ id \notin takenIds }
           r == Min(free)
           pos(id) == players[id + 1].position
<1>1. PICK f \in Ids \ takenIds : pos(f) = s
  BY Zenon DEF FreeAt
<1>2. s \in RealSlots(c)
  BY <1>1, Zenon DEF Arranged
<1>3. /\ Ids \subseteq Nat
      /\ \A id \in Ids : pos(id) \in Nat /\ points(id) \in Nat
  BY PlayersAreRecords, Zenon
<1>4. mark \in Nat
  <2>1. s \in 0 .. MAX_NUM_SLOTS - 1
    BY <1>2, LoadedIsWellShaped, Zenon DEF RealSlots
  <2> QED
    BY <2>1, Zenon DEF PoolTypeOK
<1>5. \A id \in Ids : pos(id) < s <=> id < mark
  BY <1>1, Zenon DEF Arranged, MarkersDivide
<1>6. \A i, j \in Ids : i < j => \/ pos(i) < pos(j)
                                 \/ pos(i) = pos(j) /\ points(i) >= points(j)
  BY Zenon DEF Arranged, Sorted
<1>7. FreeAt(s, takenIds) = { id \in Ids \ takenIds : pos(id) = s }
  BY Zenon DEF FreeAt
<1> HIDE DEF mark, pos
<1>8. ASSUME NEW id \in FreeAt(s, takenIds) PROVE id \in free
  <2>1. id \in Ids /\ id \notin takenIds /\ pos(id) = s
    BY <1>7, Zenon
  <2>2. id >= mark
    BY <1>3, <1>4, <1>5, <2>1
  <2> QED
    BY <2>1, <2>2, Zenon
<1>9. r \in free /\ \A y \in free : r <= y
  <2>1. free \in SUBSET Nat /\ free # {}
    BY <1>3, <1>8, Zenon
  <2> HIDE DEF free
  <2> QED
    BY <2>1, MinIsLeast, Zenon
<1>10. r \in Ids /\ r \notin takenIds /\ r >= mark
  BY <1>9, Zenon
<1>11. FirstFreeFrom(slot_markers[s], takenIds) = r
  BY <1>9, Zenon DEF FirstFreeFrom, mark
<1>12. r <= f /\ pos(f) = s /\ f \in Ids
  BY <1>1, <1>7, <1>8, <1>9, Zenon
<1> HIDE DEF r
<1>13. pos(r) = s
  BY <1>3, <1>4, <1>5, <1>6, <1>10, <1>12
<1>14. r \in FreeAt(s, takenIds)
  BY <1>7, <1>10, <1>13, Zenon
<1>15. ASSUME NEW other \in FreeAt(s, takenIds) PROVE points(other) <= points(r)
  <2>1. other \in Ids /\ pos(other) = s /\ r <= other
    BY <1>7, <1>8, <1>9, Zenon DEF r
  <2> QED
    BY <1>3, <1>6, <1>10, <1>13, <2>1
<1>16. Best(r, FreeAt(s, takenIds))
  BY <1>14, <1>15, Zenon DEF Best
<1> QED
  BY <1>2, <1>11, <1>16, Zenon

(* Whoever is taken and whatever was loaded before, the search of a        *)
(* position stops at its best free player.                                 *)
THEOREM HighestIsTheBest == PSpec => []HighestIsBest
<1>1. ASSUME PoolInv PROVE HighestIsBest
  <2>1. SUFFICES ASSUME grouped, NEW s \in RealSlots(config), NEW takenIds \in SUBSET Ids,
                        FreeAt(s, takenIds) # {}
                 PROVE  Best(whos_highest_projected(config, s, takenIds), FreeAt(s, takenIds))
    BY Zenon DEF HighestIsBest
  <2>2. Best(FirstFreeFrom(slot_markers[s], takenIds), FreeAt(s, takenIds))
    BY <1>1, <2>1, FirstFreeIsBest, Zenon DEF PoolInv
  <2>3. whos_highest_projected(config, s, takenIds) = FirstFreeFrom(slot_markers[s], takenIds)
    BY Zenon DEF whos_highest_projected, RealSlots
  <2> QED
    BY <2>2, <2>3, Zenon
<1>2. PoolInv => HighestIsBest
  BY <1>1, Zenon
<1> QED
  BY <1>2, PoolInvariant, PTL

(* The search of a flex slot finds the best free player of all its         *)
(* options, if each of them has one left and someone scores at all.        *)
LEMMA FlexFindsBest ==
  ASSUME PoolInv, grouped,
         NEW s \in Slots(config) \ RealSlots(config), NEW takenIds \in SUBSET Ids,
         \A option \in Range(config.flex[s]) : FreeAt(option, takenIds) # {},
         NEW star \in UNION { FreeAt(option, takenIds) : option \in Range(config.flex[s]) },
         points(star) > 0
  PROVE  /\ ~FlexFaults(config, s, takenIds)
         /\ Best(whos_highest_projected(config, s, takenIds),
                 UNION { FreeAt(option, takenIds) : option \in Range(config.flex[s]) })
<1> DEFINE option(j) == config.flex[s][j]
           D == DOMAIN config.flex[s]
           free == UNION { FreeAt(o, takenIds) : o \in Range(config.flex[s]) }
           found == OptionResults(config, s, takenIds)
           best == { j \in D : /\ points(found[j]) > 0
                              /\ \A k \in D : points(found[k]) <= points(found[j]) }
<1>1. IsLoaded(config) /\ PoolTypeOK /\ Arranged(config)
  BY Zenon DEF PoolInv
<1>2. D \subseteq Nat /\ IsFiniteSet(D) /\ is_flex_slot(config, s)
  <2>1. D \subseteq Nat /\ IsFiniteSet(D)
    BY <1>1, LoadedIsWellShaped, Zenon DEF WellShaped
  <2> QED
    BY <2>1, Zenon DEF RealSlots
<1>3. ASSUME NEW j \in D
      PROVE  /\ Best(found[j], FreeAt(option(j), takenIds))
             /\ found[j] \in Ids
             /\ found[j] \in free
             /\ points(found[j]) \in Nat
  <2>1. option(j) \in Range(config.flex[s])
    BY Zenon DEF Range
  <2>2. found[j] = FirstFreeFrom(slot_markers[option(j)], takenIds)
    BY Zenon DEF OptionResults
  <2>3. Best(found[j], FreeAt(option(j), takenIds))
    <3> HIDE DEF found, option
    <3>1. FreeAt(option(j), takenIds) # {}
      BY <2>1, Zenon
    <3>2. Best(FirstFreeFrom(slot_markers[option(j)], takenIds), FreeAt(option(j), takenIds))
      BY <1>1, <3>1, FirstFreeIsBest, Zenon
    <3> QED
      BY <2>2, <3>2, Zenon
  <2>4. found[j] \in FreeAt(option(j), takenIds)
    BY <2>3, Zenon DEF Best
  <2>5. found[j] \in Ids
    BY <2>4, Zenon DEF FreeAt
  <2> QED
    BY <1>1, <2>1, <2>3, <2>4, <2>5, PlayersAreRecords, Zenon
<1>4. DOMAIN found = D
  BY Zenon DEF OptionResults
<1>5. ~FlexFaults(config, s, takenIds)
  <2>1. NoPlayer \notin Ids
    BY <1>1, PlayersAreRecords, NoPlayerAssumption, Zenon
  <2> QED
    BY <1>3, <1>4, <2>1, Zenon DEF FlexFaults, Range
<1>6. \A id \in free : \E j \in D : points(id) <= points(found[j])
  BY <1>3, Zenon DEF Best, Range
<1>7. PICK top \in D : \A k \in D : points(found[k]) <= points(found[top])
  <2> DEFINE value == [j \in D |-> points(found[j])]
  <2>1. value \in [D -> Int]
    <3>1. \A j \in D : points(found[j]) \in Int
      <4>1. \A n \in Nat : n \in Int
        OBVIOUS
      <4> QED
        BY <1>3, <4>1, Zenon
    <3> QED
      BY <3>1, Zenon
  <2>2. D # {}
    BY <1>6, Zenon
  <2> HIDE DEF D, found
  <2>3. \E j \in D : \A k \in D : value[k] <= value[j]
    <3> HIDE DEF value
    <3> QED
      BY <1>2, <2>1, <2>2, MaxExists, Zenon
  <2> QED
    BY <2>3, Zenon
<1>8. top \in best
  <2>1. PICK j \in D : points(star) <= points(found[j])
    BY <1>6, Zenon
  <2>2. points(found[j]) <= points(found[top])
    BY <1>7, <2>1, Zenon
  <2>3. star \in Ids
    BY Zenon DEF FreeAt
  <2>4. points(star) \in Nat /\ points(found[j]) \in Nat /\ points(found[top]) \in Nat
    BY <1>1, <1>3, <2>1, <2>3, PlayersAreRecords, Zenon
  <2>5. points(found[top]) > 0
    <3> HIDE DEF found
    <3> QED
      BY <2>1, <2>2, <2>4
  <2> QED
    BY <1>7, <2>5, Zenon
<1>9. Min(best) \in best
  <2>1. best \in SUBSET Nat /\ best # {}
    BY <1>2, <1>8, Zenon
  <2> HIDE DEF best
  <2> QED
    BY <2>1, MinIsMember, Zenon
<1> DEFINE m == Min(best)
<1>10. whos_highest_projected(config, s, takenIds) = found[m]
  BY <1>2, <1>4, <1>8, Zenon DEF whos_highest_projected
<1>11. m \in D /\ \A k \in D : points(found[k]) <= points(found[m])
  BY <1>9, Zenon
<1>12. ASSUME NEW other \in free PROVE points(other) <= points(found[m])
  <2>1. PICK j \in D : points(other) <= points(found[j])
    BY <1>6, Zenon
  <2>2. points(found[j]) <= points(found[m])
    BY <1>11, <2>1, Zenon
  <2>3. other \in Ids
    BY Zenon DEF FreeAt
  <2>4. points(other) \in Nat /\ points(found[j]) \in Nat /\ points(found[m]) \in Nat
    BY <1>1, <1>3, <1>11, <2>1, <2>3, PlayersAreRecords, Zenon
  <2> HIDE DEF found, m
  <2> QED
    BY <2>1, <2>2, <2>4
<1>13. Best(found[m], free)
  BY <1>3, <1>11, <1>12, Zenon DEF Best
<1> QED
  BY <1>5, <1>10, <1>13, Zenon

THEOREM FlexIsTheBestOfItsSlots == PSpec => []FlexIsBestOfItsSlots
<1>1. ASSUME PoolInv PROVE FlexIsBestOfItsSlots
  BY <1>1, FlexFindsBest, Zenon DEF FlexIsBestOfItsSlots
<1>2. PoolInv => FlexIsBestOfItsSlots
  BY <1>1, Zenon
<1> QED
  BY <1>2, PoolInvariant, PTL

-----------------------------------------------------------------------------
(* Grouping permutes the players of real slots: the k-th of the new array  *)
(* is the At(k)th of the old one, which pairs the copies of a record in    *)
(* the group with those in the old array.                                  *)
LEMMA GroupingPermutes ==
  ASSUME NEW c, NEW all \in Seq(PlayerRecord), NEW leftover \in Leftovers(c, all),
         NEW record, record.position \in RealSlots(c)
  PROVE  Count(SubSeq(group_by_position(c, all, leftover), 1, Cardinality(Grouped(c, all))), record)
           = Count(all, record)
<1> DEFINE G == Grouped(c, all)
           n == Cardinality(G)
           whole == group_by_position(c, all, leftover)
           array == SubSeq(whole, 1, n)
           A == { k \in DOMAIN array : array[k] = record }
           B == { i \in DOMAIN all : all[i] = record }
           f == [k \in A |-> At(c, all, k)]
<1>1. /\ n \in Nat
      /\ G = { i \in DOMAIN all : all[i].position \in RealSlots(c) }
  <2>1. n \in 0 .. Len(all)
    BY GroupedIsFinite, Zenon
  <2> HIDE DEF n
  <2>2. n \in Nat
    BY <2>1
  <2> QED
    BY <2>2, Zenon DEF Grouped
<1>2. DOMAIN array = 1 .. n /\ \A k \in 1 .. n : array[k] = all[At(c, all, k)]
  <2>1. /\ whole \in Seq(PlayerRecord) /\ Len(whole) = Len(all) /\ n \in 0 .. Len(all)
        /\ \A k \in 1 .. n : whole[k] = all[At(c, all, k)]
    BY GroupedArrayType, GroupedIsFinite, Zenon
  <2> HIDE DEF whole, n
  <2>2. DOMAIN array = 1 .. n /\ \A k \in 1 .. n : array[k] = whole[k]
    BY <2>1
  <2> QED
    BY <2>1, <2>2, Zenon
<1>3. /\ \A i \in G : Rank(c, all, i) \in 0 .. n - 1
      /\ \A i, j \in G : Rank(c, all, i) = Rank(c, all, j) => i = j
      /\ \A k \in 1 .. n : At(c, all, k) \in G /\ Rank(c, all, At(c, all, k)) = k - 1
  BY RankOrdersGroup, Zenon
<1>4. \A k \in A : At(c, all, k) \in B
  BY <1>1, <1>2, <1>3, Zenon
<1>5. f \in [A -> B]
  <2> HIDE DEF A, B
  <2> QED
    BY <1>4, Zenon
<1>6. ASSUME NEW k \in A, NEW l \in A, f[k] = f[l] PROVE k = l
  <2>1. At(c, all, k) = At(c, all, l) /\ k \in 1 .. n /\ l \in 1 .. n
    BY <1>2, <1>6, Zenon
  <2>2. k - 1 = l - 1
    BY <1>3, <2>1, Zenon
  <2> QED
    BY <1>1, <2>1, <2>2
<1>7. ASSUME NEW i \in B PROVE \E k \in A : f[k] = i
  <2>1. i \in G /\ Rank(c, all, i) \in 0 .. n - 1
    BY <1>1, <1>3, Zenon
  <2> DEFINE k == Rank(c, all, i) + 1
  <2>2. k \in 1 .. n /\ k - 1 = Rank(c, all, i)
    <3> HIDE DEF n
    <3> QED
      BY <1>1, <2>1
  <2>3. At(c, all, k) = i
    <3> HIDE DEF k
    <3>1. At(c, all, k) \in G /\ Rank(c, all, At(c, all, k)) = Rank(c, all, i)
      BY <1>3, <2>2, Zenon
    <3> QED
      BY <1>3, <2>1, <3>1, Zenon
  <2>4. k \in A
    BY <1>2, <2>2, <2>3, Zenon
  <2> QED
    BY <2>3, <2>4, Zenon
<1>8. f \in Bijection(A, B)
  <2> HIDE DEF f, A, B
  <2> QED
    BY <1>5, <1>6, <1>7, Zenon DEF Bijection, Injection, Surjection, IsInjective
<1>9. IsFiniteSet(A)
  <2>1. A \in SUBSET (1 .. n)
    BY <1>2, Zenon
  <2>2. IsFiniteSet(1 .. n)
    <3> HIDE DEF n
    <3> QED
      BY <1>1, FS_Interval
  <2> QED
    BY <2>1, <2>2, FS_Subset, Zenon
<1>10. Cardinality(B) = Cardinality(A)
  <2>1. ExistsBijection(A, B)
    BY <1>8, Zenon DEF ExistsBijection
  <2> HIDE DEF A, B
  <2> QED
    BY <1>9, <2>1, FS_Bijection, Zenon
<1> QED
  BY <1>10, Zenon DEF Count

(* After a load the array has as many elements as there were players in it *)
(* and in the file, and begins with those of real slots, each as often as  *)
(* before: a player listed under a flex slot costs no other his place.     *)
THEOREM PoolKeepsPlayers == PSpec => PoolKeepsItsPlayers
<1> DEFINE Keeps ==
      \A file \in PoolFiles :
        Load(file) =>
          LET all == players \o RecordsOf(config, file) IN
          /\ Len(players') = Len(all)
          /\ \A record \in Range(all) :
               record.position \in RealSlots(config) =>
                 Count(SubSeq(players', 1, NumberWithSlot(all)), record) = Count(all, record)
<1>1. ASSUME PoolInv, NEW file \in PoolFiles, Load(file)
      PROVE  LET all == players \o RecordsOf(config, file) IN
             /\ Len(players') = Len(all)
             /\ \A record \in Range(all) :
                  record.position \in RealSlots(config) =>
                    Count(SubSeq(players', 1, NumberWithSlot(all)), record) = Count(all, record)
  <2>1. PICK c : c = config
    OBVIOUS
  <2> DEFINE all == players \o RecordsOf(c, file)
  <2>2. load_players(c, file)
    BY <1>1, <2>1, Zenon DEF Load
  <2>3. all \in Seq(PlayerRecord)
    BY <1>1, <2>1, <2>2, LoadedPool, Zenon DEF PoolInv
  <2>4. PICK leftover \in Leftovers(c, all) : players' = group_by_position(c, all, leftover)
    BY <2>2, Zenon DEF load_players
  <2>5. NumberWithSlot(all) = Cardinality(Grouped(c, all))
    BY <2>1, Zenon DEF NumberWithSlot, Grouped
  <2> HIDE DEF all
  <2>6. Len(players') = Len(all)
    BY <2>3, <2>4, GroupedArrayType, Zenon
  <2>7. ASSUME NEW record, record.position \in RealSlots(c)
        PROVE  Count(SubSeq(players', 1, NumberWithSlot(all)), record) = Count(all, record)
    <3>1. PICK array : array = group_by_position(c, all, leftover)
      OBVIOUS
    <3>2. Count(SubSeq(array, 1, Cardinality(Grouped(c, all))), record) = Count(all, record)
      BY <2>3, <2>7, <3>1, GroupingPermutes, Zenon
    <3>3. players' = array
      BY <2>4, <3>1, Zenon
    <3> QED
      BY <2>5, <3>2, <3>3, Zenon
  <2> QED
    BY <2>1, <2>6, <2>7, Zenon DEF all
<1>2. PoolInv => Keeps
  BY <1>1, Zenon
<1>3. PoolInv /\ [PNext]_loadVars => [Keeps]_loadVars
  BY <1>2, Zenon
<1> QED
  BY <1>3, PoolInvariant, PTL DEF PSpec, PoolKeepsItsPlayers
=============================================================================
