--------------------------- MODULE Drafter_proofs ---------------------------
(***************************************************************************)
(* Lemmas about the operators of DraftConfig, Players and Drafter, for     *)
(* every configuration and every csv file: what loading, ordering and      *)
(* grouping make of the array of players, what its queries return, and the *)
(* rosters that create_search_context rebuilds from the picks made.  The   *)
(* recursion of the last is a run of charges, one for each pick, and a     *)
(* pick more is one charge more.  They are the ground of PoolLoads_proofs, *)
(* DraftEngine_proofs, EngineHistory_proofs and Search_proofs.             *)
(***************************************************************************)
EXTENDS Drafter, Sums_proofs

-----------------------------------------------------------------------------
(* Minima, maxima and ranks.                                               *)

LEMMA MinIsMember ==
  ASSUME NEW S \in SUBSET Nat, S # {}
  PROVE  Min(S) \in S
  BY MinIsLeast

(* A function with integer values has a largest one on a finite set.       *)
LEMMA MaxExists ==
  ASSUME NEW D, IsFiniteSet(D), D # {}, NEW f \in [D -> Int]
  PROVE  \E j \in D : \A k \in D : f[k] <= f[j]
<1> DEFINE Above(j) == { k \in D : f[k] > f[j] }
           N == { Cardinality(Above(j)) : j \in D }
<1>1. ASSUME NEW j \in D
      PROVE  IsFiniteSet(Above(j)) /\ Cardinality(Above(j)) \in Nat
  <2>1. Above(j) \in SUBSET D
    BY Zenon
  <2> HIDE DEF Above
  <2> QED
    BY <2>1, FS_Subset, FS_CardinalityType, Zenon
<1>2. N \in SUBSET Nat /\ N # {}
  <2> HIDE DEF Above
  <2> QED
    BY <1>1, Zenon
<1>3. PICK j \in D : \A k \in D : Cardinality(Above(j)) <= Cardinality(Above(k))
  <2>1. Min(N) \in N /\ \A y \in N : Min(N) <= y
    BY <1>2, MinIsLeast, Zenon
  <2> QED
    BY <2>1, ZenonT(60)
<1>4. ASSUME NEW k \in D, f[k] > f[j] PROVE FALSE
  <2>1. Above(k) \in SUBSET Above(j) /\ k \in Above(j) /\ k \notin Above(k)
    BY <1>4
  <2>2. /\ Cardinality(Above(k)) <= Cardinality(Above(j))
        /\ Cardinality(Above(j)) = Cardinality(Above(k)) => Above(j) = Above(k)
    <3> HIDE DEF Above
    <3> QED
      BY <1>1, <2>1, FS_Subset, Zenon
  <2>3. Cardinality(Above(k)) < Cardinality(Above(j))
    <3>1. Cardinality(Above(j)) # Cardinality(Above(k))
      BY <2>1, <2>2, Zenon
    <3> HIDE DEF Above
    <3> QED
      BY <1>1, <2>2, <3>1
  <2>4. Cardinality(Above(j)) <= Cardinality(Above(k))
    BY <1>3, Zenon
  <2> HIDE DEF Above
  <2> QED
    BY <1>1, <2>3, <2>4
<1> QED
  BY <1>4

(* In a finite set that R orders strictly, counting the elements before    *)
(* each numbers them from 0 without gaps, in the order of R.               *)
StrictOrder(S, R) ==
  /\ \A i \in S : <<i, i>> \notin R
  /\ \A i, j, k \in S : <<i, j>> \in R /\ <<j, k>> \in R => <<i, k>> \in R
  /\ \A i, j \in S : i # j => <<i, j>> \in R \/ <<j, i>> \in R

Before(S, R, i) == { j \in S : <<j, i>> \in R }

RankIn(S, R) == [i \in S |-> Cardinality(Before(S, R, i))]

LEMMA BeforeIsFinite ==
  ASSUME NEW S, IsFiniteSet(S), NEW R, NEW i
  PROVE  /\ IsFiniteSet(Before(S, R, i))
         /\ Cardinality(Before(S, R, i)) \in Nat
<1>1. Before(S, R, i) \in SUBSET S
  BY Zenon DEF Before
<1> QED
  BY <1>1, FS_Subset, FS_CardinalityType, Zenon

LEMMA RankIsMonotonic ==
  ASSUME NEW S, IsFiniteSet(S), NEW R, StrictOrder(S, R),
         NEW i \in S, NEW j \in S, <<i, j>> \in R
  PROVE  RankIn(S, R)[i] < RankIn(S, R)[j]
<1> DEFINE B(k) == Before(S, R, k)
<1>1. B(i) \in SUBSET B(j)
  BY Zenon DEF Before, StrictOrder
<1>2. i \in B(j) /\ i \notin B(i)
  BY Zenon DEF Before, StrictOrder
<1>3. \A k : IsFiniteSet(B(k)) /\ Cardinality(B(k)) \in Nat
  BY BeforeIsFinite, Zenon
<1> HIDE DEF B
<1>4. Cardinality(B(i)) <= Cardinality(B(j)) /\ Cardinality(B(j)) # Cardinality(B(i))
  BY <1>1, <1>2, <1>3, FS_Subset, Zenon
<1>5. Cardinality(B(i)) < Cardinality(B(j))
  BY <1>3, <1>4
<1> QED
  BY <1>5, Zenon DEF RankIn, B

LEMMA RankIsBijection ==
  ASSUME NEW S, IsFiniteSet(S), NEW R, StrictOrder(S, R)
  PROVE  RankIn(S, R) \in Bijection(S, 0 .. Cardinality(S) - 1)
<1> DEFINE n == Cardinality(S)
           T == 0 .. n - 1
           f == RankIn(S, R)
<1>1. n \in Nat
  BY FS_CardinalityType, Zenon
<1>2. ASSUME NEW i \in S PROVE f[i] \in T
  <2>1. Before(S, R, i) \in SUBSET (S \ {i})
    BY Zenon DEF Before, StrictOrder
  <2>2. IsFiniteSet(S \ {i}) /\ Cardinality(S \ {i}) = n - 1
    BY FS_RemoveElement, Zenon
  <2>3. Cardinality(Before(S, R, i)) <= n - 1
    BY <2>1, <2>2, FS_Subset, ZenonT(60)
  <2>4. PICK k : k = Cardinality(Before(S, R, i))
    OBVIOUS
  <2>5. k \in Nat /\ k <= n - 1
    BY <2>3, <2>4, BeforeIsFinite, ZenonT(60)
  <2>6. Cardinality(Before(S, R, i)) \in T
    <3> HIDE DEF n
    <3> QED
      BY <1>1, <2>4, <2>5
  <2> QED
    BY <2>6, Zenon DEF RankIn
<1>3. f \in [S -> T]
  BY <1>2, Zenon DEF RankIn
<1>4. ASSUME NEW i \in S, NEW j \in S, f[i] = f[j] PROVE i = j
  <2>1. f[i] \in Int /\ f[j] \in Int
    BY <1>2
  <2>2. ~(f[i] < f[j]) /\ ~(f[j] < f[i])
    BY <2>1, <1>4
  <2>3. <<i, j>> \notin R /\ <<j, i>> \notin R
    BY <2>2, RankIsMonotonic, Zenon
  <2> QED
    BY <2>3, Zenon DEF StrictOrder
<1>5. f \in Injection(S, T)
  <2> HIDE DEF f, T
  <2> QED
    BY <1>3, <1>4, Zenon DEF Injection, IsInjective
<1>6. IsFiniteSet(T) /\ Cardinality(T) = n
  <2>1. 0 \in Int /\ n - 1 \in Int
    BY <1>1
  <2>2. /\ IsFiniteSet(0 .. n - 1)
        /\ Cardinality(0 .. n - 1) = IF 0 > n - 1 THEN 0 ELSE n - 1 - 0 + 1
    BY <2>1, FS_Interval, Zenon
  <2> QED
    BY <1>1, <2>2
<1>7. f \in Surjection(S, T)
  <2> HIDE DEF f, T, n
  <2>1. Cardinality(S) = Cardinality(T) <=> f \in Surjection(S, T)
    BY <1>5, <1>6, FS_Injection
  <2> QED
    BY <1>6, <2>1 DEF n
<1> QED
  BY <1>5, <1>7, Zenon DEF Bijection

-----------------------------------------------------------------------------
(* Configurations.                                                         *)

(* What the engine's array accesses need of a configuration.               *)
WellShaped(c) ==
  /\ c.num_teams \in Nat \ {0}
  /\ c.num_slots \in Nat
  /\ c.num_required \in [Slots(c) -> Nat]
  /\ \A t \in Teams(c) : t >= c.num_slots => c.unwritten[t] \in Int
  /\ \A s \in Slots(c) : /\ DOMAIN c.flex[s] \subseteq Nat /\ IsFiniteSet(DOMAIN c.flex[s])
                         /\ is_flex_slot(c, s) => DOMAIN c.flex[s] # {}
  /\ get_number_of_picks(c) \in Nat

(* The slots' requirements add up to the number of picks of a team.        *)
LEMMA PlayersPerTeamIsSum ==
  ASSUME NEW c
  PROVE  PlayersPerTeam(c) = SumOver(Slots(c), c.num_required)
BY Zenon DEF PlayersPerTeam, SumOver

LEMMA PicksType ==
  ASSUME NEW c, c.num_slots \in Nat, c.num_teams \in Nat,
         c.num_required \in [Slots(c) -> Nat]
  PROVE  get_number_of_picks(c) \in Nat
<1>1. IsFiniteSet(Slots(c))
  <2>1. 0 \in Int /\ c.num_slots - 1 \in Int
    OBVIOUS
  <2> QED
    BY <2>1, FS_Interval, Zenon DEF Slots
<1>2. \A s \in Slots(c) : c.num_required[s] \in Nat
  BY Zenon
<1>3. PlayersPerTeam(c) \in Nat
  BY <1>1, <1>2, SumType, PlayersPerTeamIsSum, Zenon
<1> QED
  BY <1>3 DEF get_number_of_picks

LEMMA LoadedConfigIsWellShaped ==
  ASSUME NEW file \in ConfigFiles, NEW g \in UnwrittenValues(file), NEW c,
         c \in { load_config(file, g) }
  PROVE  WellShaped(c) /\ c.num_slots = Len(file.slots)
<1>1. c = load_config(file, g)
  BY Zenon
<1>2. /\ file.number_of_teams \in Nat \ {0}
      /\ file.slots \in Seq([name : SlotNames, number_required : Nat,
                             flex_slots : Seq(SlotNames)])
  BY ConfigFilesAssumption DEF WellFormed
<1>3. /\ c.num_teams = file.number_of_teams
      /\ c.num_slots = Len(file.slots)
      /\ c.unwritten = g
      /\ c.num_required = [i \in 0 .. Len(file.slots) - 1 |->
                             file.slots[i + 1].number_required]
      /\ c.flex = [i \in 0 .. Len(file.slots) - 1 |->
                     [j \in DOMAIN file.slots[i + 1].flex_slots |->
                        find_slot_index(file, file.slots[i + 1].flex_slots[j])]]
  BY <1>1, Zenon DEF load_config
<1>4. /\ Len(file.slots) \in Nat
      /\ Slots(c) = 0 .. Len(file.slots) - 1
      /\ \A i \in 0 .. Len(file.slots) - 1 :
           /\ file.slots[i + 1].number_required \in Nat
           /\ file.slots[i + 1].flex_slots \in Seq(SlotNames)
  <2> DEFINE R == [name : SlotNames, number_required : Nat, flex_slots : Seq(SlotNames)]
             q == file.slots
  <2>1. q \in Seq(R)
    BY <1>2
  <2>2. \A r \in R : r.number_required \in Nat /\ r.flex_slots \in Seq(SlotNames)
    OBVIOUS
  <2>3. Len(q) \in Nat /\ \A i \in 0 .. Len(q) - 1 : q[i + 1] \in R
    <3> HIDE DEF R, q
    <3> QED
      BY <2>1
  <2>4. Slots(c) = 0 .. Len(q) - 1
    BY <1>3, Zenon DEF Slots
  <2> QED
    BY <2>2, <2>3, <2>4, Zenon
<1>5. c.num_required \in [Slots(c) -> Nat]
  BY <1>3, <1>4, Zenon
<1>6. \A t \in Teams(c) : t >= c.num_slots => c.unwritten[t] \in Int
  <2>1. g \in [Len(file.slots) .. file.number_of_teams - 1 -> Int]
    BY <1>1, GarbageAssumption DEF UnwrittenValues
  <2> QED
    BY <2>1, <1>2, <1>3, <1>4 DEF Teams
<1>7. ASSUME NEW s \in Slots(c) 
      PROVE  /\ DOMAIN c.flex[s] \subseteq Nat /\ IsFiniteSet(DOMAIN c.flex[s])
             /\ is_flex_slot(c, s) => DOMAIN c.flex[s] # {}
  <2>1. file.slots[s + 1].flex_slots \in Seq(SlotNames)
    BY <1>4, Zenon
  <2>2. DOMAIN c.flex[s] = DOMAIN file.slots[s + 1].flex_slots
    <3> DEFINE options(i) == file.slots[i + 1].flex_slots
               indexes(i) == [j \in DOMAIN options(i) |-> find_slot_index(file, options(i)[j])]
    <3>1. s \in 0 .. Len(file.slots) - 1
      BY <1>4, Zenon
    <3>2. c.flex = [i \in 0 .. Len(file.slots) - 1 |-> indexes(i)]
      BY <1>3, Zenon
    <3>3. DOMAIN indexes(s) = DOMAIN options(s)
      BY Zenon
    <3> HIDE DEF indexes
    <3>4. c.flex[s] = indexes(s)
      BY <3>1, <3>2, Zenon
    <3> QED
      BY <3>3, <3>4, Zenon
  <2>3. \E n \in Nat : DOMAIN file.slots[s + 1].flex_slots = 1 .. n
    BY <2>1
  <2>4. \A n \in Nat : 1 .. n \subseteq Nat /\ IsFiniteSet(1 .. n)
    BY FS_Interval
  <2>5. DOMAIN c.flex[s] = {} => c.flex[s] = <<>>
    <3> DEFINE options == file.slots[s + 1].flex_slots
               index(j) == find_slot_index(file, options[j])
    <3>1. c.flex[s] = [j \in DOMAIN options |-> index(j)]
      BY <1>3, <1>4, Zenon
    <3>2. DOMAIN options = {} => [j \in DOMAIN options |-> index(j)] = <<>>
      <4> HIDE DEF options, index
      <4> QED
        OBVIOUS
    <3> QED
      BY <2>2, <3>1, <3>2, Zenon
  <2> QED
    BY <2>2, <2>3, <2>4, <2>5, Zenon DEF is_flex_slot
<1>8. get_number_of_picks(c) \in Nat
  <2>1. c.num_slots \in Nat /\ c.num_teams \in Nat
    BY <1>2, <1>3, <1>4
  <2> QED
    BY <1>5, <2>1, PicksType, Zenon
<1> QED
  BY <1>2, <1>3, <1>4, <1>5, <1>6, <1>7, <1>8, Zenon DEF WellShaped

-----------------------------------------------------------------------------
(* The records made of rows.                                               *)

LEMMA SlotsAreNaturals ==
  ASSUME NEW c
  PROVE  Slots(c) \subseteq Nat
  BY DEF Slots

LEMMA PositionType ==
  ASSUME NEW c, NEW row, codify_position_str(c, row) >= 0
  PROVE  codify_position_str(c, row) \in Slots(c)
<1> DEFINE matches == { s \in Slots(c) : c.name[s] \in row.contains }
<1>1. matches \in SUBSET Nat
  BY SlotsAreNaturals, Zenon
<1>2. codify_position_str(c, row) = IF matches = {} THEN -1 ELSE Min(matches)
  BY Zenon DEF codify_position_str
<1>3. matches # {}
  <2>1. ~(-1 >= 0)
    OBVIOUS
  <2> QED
    BY <1>2, <2>1, Zenon
<1>4. Min(matches) \in matches
  BY <1>1, <1>3, MinIsMember, Zenon
<1> QED
  BY <1>2, <1>3, <1>4, Zenon

LEMMA KnownRowsAreFinite ==
  ASSUME NEW c, NEW S, NEW rows \in Seq(S)
  PROVE  /\ KnownRows(c, rows) \in SUBSET (1 .. Len(rows))
         /\ IsFiniteSet(KnownRows(c, rows))
         /\ Cardinality(KnownRows(c, rows)) \in Nat
<1>1. DOMAIN rows = 1 .. Len(rows) /\ Len(rows) \in Nat
  OBVIOUS
<1>2. KnownRows(c, rows) \in SUBSET (1 .. Len(rows))
  BY <1>1, Zenon DEF KnownRows
<1>3. IsFiniteSet(1 .. Len(rows))
  BY <1>1, FS_Interval
<1> QED
  BY <1>2, <1>3, FS_Subset, FS_CardinalityType, Zenon

LEMMA RecordsOfLength ==
  ASSUME NEW c, NEW S, NEW rows \in Seq(S)
  PROVE  Len(RecordsOf(c, rows)) = Cardinality(KnownRows(c, rows))
<1> DEFINE n == Cardinality(KnownRows(c, rows))
           record(k) == RecordsOf(c, rows)[k]
<1>1. n \in Nat
  BY KnownRowsAreFinite
<1>2. RecordsOf(c, rows) = [k \in 1 .. n |-> record(k)]
  BY Zenon DEF RecordsOf
<1> HIDE DEF n, record
<1> QED
  BY <1>1, <1>2 DEF n

(* A file makes a record of the pool of each row that names a position.    *)
LEMMA RecordsOfType ==
  ASSUME NEW c, NEW rows \in Seq(Row)
  PROVE  RecordsOf(c, rows) \in Seq(PlayerRecord)
<1> DEFINE known == KnownRows(c, rows)
           n == Cardinality(known)
           Less == OpToRel(<, known)
           Nth(k) == CHOOSE i \in known : Cardinality({ j \in known : j < i }) = k - 1
<1>1. known \in SUBSET (1 .. Len(rows)) /\ IsFiniteSet(known) /\ n \in Nat
  BY KnownRowsAreFinite
<1>2. StrictOrder(known, Less)
  <2>1. \A i, j \in known : <<i, j>> \in Less <=> i < j
    BY Zenon DEF OpToRel
  <2>2. known \subseteq Int
    BY <1>1
  <2> HIDE DEF known, Less
  <2> QED
    BY <2>1, <2>2 DEF StrictOrder
<1>3. RankIn(known, Less) \in Bijection(known, 0 .. n - 1)
  BY <1>1, <1>2, RankIsBijection, Zenon
<1>4. ASSUME NEW k \in 1 .. n PROVE Nth(k) \in known
  <2>1. k - 1 \in 0 .. n - 1
    BY <1>1
  <2>2. PICK i \in known : RankIn(known, Less)[i] = k - 1
    BY <1>3, <2>1, Zenon DEF Bijection, Surjection
  <2>3. Before(known, Less, i) = { j \in known : j < i }
    BY <2>2, Zenon DEF Before, OpToRel
  <2>4. Cardinality({ j \in known : j < i }) = k - 1
    BY <2>2, <2>3, Zenon DEF RankIn
  <2> QED
    BY <2>2, <2>4, Zenon
<1>5. ASSUME NEW k \in 1 .. n
      PROVE  [name     |-> rows[Nth(k)].name,
              position |-> codify_position_str(c, rows[Nth(k)]),
              points   |-> rows[Nth(k)].points] \in PlayerRecord
  <2> DEFINE row == rows[Nth(k)]
  <2>1. Nth(k) \in known
    BY <1>4
  <2>2. Nth(k) \in 1 .. Len(rows)
    BY <1>1, <2>1, Zenon
  <2>3. row \in Row
    <3> HIDE DEF Nth, known
    <3> QED
      BY <2>2
  <2>4. codify_position_str(c, row) >= 0
    BY <2>1, Zenon DEF KnownRows
  <2>5. codify_position_str(c, row) \in Nat
    BY <2>4, PositionType, SlotsAreNaturals, Zenon
  <2> HIDE DEF row
  <2>6. row.name \in PlayerNames /\ row.points \in Nat
    BY <2>3 DEF Row
  <2>7. [name     |-> row.name,
         position |-> codify_position_str(c, row),
         points   |-> row.points] \in PlayerRecord
    BY <2>5, <2>6, Zenon DEF PlayerRecord
  <2> QED
    BY <2>7, Zenon DEF row
<1>6. RecordsOf(c, rows) =
        [k \in 1 .. n |-> [name     |-> rows[Nth(k)].name,
                           position |-> codify_position_str(c, rows[Nth(k)]),
                           points   |-> rows[Nth(k)].points]]
  BY Zenon DEF RecordsOf
<1>7. RecordsOf(c, rows) \in [1 .. n -> PlayerRecord]
  <2> HIDE DEF n, Nth
  <2> QED
    BY <1>5, <1>6, Zenon
<1> HIDE DEF n
<1> QED
  BY <1>1, <1>7

(* One more row makes at most one more record.                             *)
LEMMA OneRecordPerRow ==
  ASSUME NEW c, NEW S, NEW rows \in Seq(S), NEW k \in 1 .. Len(rows)
  PROVE  Len(RecordsOf(c, SubSeq(rows, 1, k)))
           <= Len(RecordsOf(c, SubSeq(rows, 1, k - 1))) + 1
<1> DEFINE shorter == SubSeq(rows, 1, k - 1)
           longer  == SubSeq(rows, 1, k)
<1>1. /\ shorter \in Seq(S) /\ Len(shorter) = k - 1
      /\ longer \in Seq(S) /\ Len(longer) = k
      /\ \A i \in 1 .. k - 1 : shorter[i] = longer[i]
  OBVIOUS
<1> HIDE DEF shorter, longer
<1>2. KnownRows(c, longer) \subseteq KnownRows(c, shorter) \cup {k}
  <2>1. ASSUME NEW i \in KnownRows(c, longer), i # k
        PROVE  i \in KnownRows(c, shorter)
    <3>1. i \in 1 .. k /\ codify_position_str(c, longer[i]) >= 0
      BY <1>1 DEF KnownRows
    <3>2. i \in 1 .. k - 1
      BY <2>1, <3>1
    <3>3. shorter[i] = longer[i] /\ i \in DOMAIN shorter
      BY <1>1, <3>2
    <3> QED
      BY <3>1, <3>3, Zenon DEF KnownRows
  <2> QED
    BY <2>1
<1> DEFINE K == KnownRows(c, shorter)
<1>3. IsFiniteSet(K) /\ Cardinality(K) \in Nat
  BY <1>1, KnownRowsAreFinite
<1>4. /\ IsFiniteSet(K \cup {k})
      /\ Cardinality(K \cup {k}) = IF k \in K THEN Cardinality(K) ELSE Cardinality(K) + 1
  BY <1>3, FS_AddElement, Zenon
<1>5. Cardinality(KnownRows(c, longer)) <= Cardinality(K \cup {k})
  BY <1>2, <1>4, FS_Subset, Zenon
<1>6. Cardinality(KnownRows(c, longer)) \in Nat
  BY <1>1, KnownRowsAreFinite
<1>7. /\ Len(RecordsOf(c, longer)) = Cardinality(KnownRows(c, longer))
      /\ Len(RecordsOf(c, shorter)) = Cardinality(K)
  BY <1>1, RecordsOfLength, Zenon
<1>8. Cardinality(KnownRows(c, longer)) <= Cardinality(K) + 1
  <2> HIDE DEF K
  <2> QED
    BY <1>3, <1>4, <1>5, <1>6
<1> QED
  BY <1>7, <1>8, Zenon DEF shorter, longer, K

(* The records read before load_players gives up, or before the end of the *)
(* file, overrun the array by one at the most.                             *)
LEMMA LoadedRecordsType ==
  ASSUME NEW c, NEW file \in PoolFiles,
         players \in Seq(PlayerRecord), Len(players) <= MAX_PLAYERS + 1,
         NEW m \in 0 .. Len(file), m = 0 \/ m \notin FailingRows(c, file)
  PROVE  LET all == players \o RecordsOf(c, SubSeq(file, 1, m)) IN
         /\ all \in Seq(PlayerRecord)
         /\ Len(all) <= MAX_PLAYERS + 1
         /\ Len(players) <= Len(all)
         /\ \A i \in 1 .. Len(players) : all[i] = players[i]
<1> DEFINE rows == SubSeq(file, 1, m)
           records == RecordsOf(c, rows)
<1>1. /\ file \in Seq(Row \cup {Malformed})
      /\ Len(file) \in Nat
      /\ DOMAIN file = 1 .. Len(file)
  <2>1. file \in Seq(Row \cup {Malformed})
    BY PoolFilesAssumption, Zenon
  <2> HIDE DEF rows
  <2> QED
    BY <2>1
<1>2. CASE m = 0
  <2>1. rows = <<>>
    BY <1>1, <1>2
  <2>2. rows \in Seq(Row)
    BY <2>1
  <2>3. Len(records) = 0
    <3>1. KnownRows(c, rows) = {}
      BY <2>1 DEF KnownRows
    <3>2. Len(records) = Cardinality(KnownRows(c, rows))
      BY <2>2, RecordsOfLength, Zenon
    <3> QED
      BY <3>1, <3>2, FS_EmptySet, Zenon
  <2>4. records \in Seq(PlayerRecord)
    BY <2>2, RecordsOfType, Zenon
  <2> HIDE DEF records
  <2>5. /\ players \o records \in Seq(PlayerRecord)
        /\ Len(players \o records) = Len(players)
        /\ \A i \in 1 .. Len(players) : (players \o records)[i] = players[i]
    BY <2>3, <2>4
  <2>6. Len(players) <= Len(players)
    OBVIOUS
  <2> QED
    BY <2>5, <2>6, Zenon DEF records
<1>3. CASE m # 0
  <2>1. m \in 1 .. Len(file) /\ m \in DOMAIN file
    BY <1>1, <1>3
  <2>2. /\ \A j \in 1 .. m : file[j] # Malformed
        /\ ~(number_of_players + Len(RecordsOf(c, SubSeq(file, 1, m - 1))) > MAX_PLAYERS)
    BY <1>3, <2>1, Zenon DEF FailingRows
  <2>3. rows \in Seq(Row)
    <3>1. \A i \in 1 .. m : file[i] \in Row
      <4>1. \A i \in 1 .. Len(file) : file[i] \in Row \cup {Malformed}
        BY <1>1
      <4>2. \A i \in 1 .. m : i \in 1 .. Len(file)
        BY <2>1
      <4> QED
        BY <2>2, <4>1, <4>2, Zenon
    <3>2. Len(rows) = m /\ \A i \in 1 .. m : rows[i] = file[i]
      BY <1>1, <2>1
    <3>3. rows \in Seq(Row \cup {Malformed})
      BY <1>1, <2>1
    <3> HIDE DEF rows
    <3> QED
      BY <3>1, <3>2, <3>3
  <2> DEFINE earlier == RecordsOf(c, SubSeq(file, 1, m - 1))
  <2>4. records \in Seq(PlayerRecord)
    BY <2>3, RecordsOfType, Zenon
  <2>5. Len(records) <= Len(earlier) + 1
    BY <1>1, <2>1, OneRecordPerRow
  <2>6. Len(earlier) \in Nat
    <3>1. SubSeq(file, 1, m - 1) \in Seq(Row \cup {Malformed})
      BY <1>1, <2>1
    <3> QED
      BY <3>1, RecordsOfLength, KnownRowsAreFinite, Zenon
  <2> HIDE DEF records, earlier
  <2>7. Len(players) + Len(earlier) <= MAX_PLAYERS
    BY <2>2, <2>6, MaxPlayersAssumption DEF number_of_players, earlier
  <2>8. players \o records \in Seq(PlayerRecord)
    BY <2>4
  <2>9. Len(players \o records) = Len(players) + Len(records)
    BY <2>4
  <2>10. Len(players \o records) <= MAX_PLAYERS + 1
    <3>1. Len(players) \in Nat /\ Len(records) \in Nat
      BY <2>4
    <3> QED
      BY <2>5, <2>6, <2>7, <2>9, <3>1, MaxPlayersAssumption
  <2>11. /\ Len(players) <= Len(players \o records)
         /\ \A i \in 1 .. Len(players) : (players \o records)[i] = players[i]
    BY <2>4
  <2> QED
    BY <2>8, <2>10, <2>11, Zenon DEF records
<1> QED
  BY <1>2, <1>3, Zenon

-----------------------------------------------------------------------------
(* The order load_players puts the players in.                             *)

PrecedenceOn(c, all) ==
  { p \in Grouped(c, all) \X Grouped(c, all) : Precedes(all, p[1], p[2]) }

LEMMA GroupedIsFinite ==
  ASSUME NEW c, NEW S, NEW all \in Seq(S)
  PROVE  /\ Grouped(c, all) \in SUBSET (1 .. Len(all))
         /\ IsFiniteSet(Grouped(c, all))
         /\ Cardinality(Grouped(c, all)) \in 0 .. Len(all)
<1>1. DOMAIN all = 1 .. Len(all) /\ Len(all) \in Nat
  OBVIOUS
<1>2. Grouped(c, all) \in SUBSET (1 .. Len(all))
  BY <1>1, Zenon DEF Grouped
<1>3. IsFiniteSet(1 .. Len(all)) /\ Cardinality(1 .. Len(all)) = Len(all)
  <2>1. PICK len : len = Len(all)
    OBVIOUS
  <2>2. len \in Nat
    BY <1>1, <2>1, Zenon
  <2>3. len \in Int /\ (IF 1 > len THEN 0 ELSE len - 1 + 1) = len
    BY <2>2
  <2>4. IsFiniteSet(1 .. len) /\ Cardinality(1 .. len) = len
    <3>1. 1 \in Int
      OBVIOUS
    <3> QED
      BY <2>3, <3>1, FS_Interval, Zenon
  <2> QED
    BY <2>1, <2>4, Zenon
<1>4. /\ IsFiniteSet(Grouped(c, all))
      /\ Cardinality(Grouped(c, all)) \in Nat
      /\ Cardinality(Grouped(c, all)) <= Len(all)
  BY <1>2, <1>3, FS_Subset, FS_CardinalityType, Zenon
<1> QED
  BY <1>1, <1>2, <1>4

(* Position, then points, then age: no two players tie.                    *)
LEMMA PrecedenceIsStrictOrder ==
  ASSUME NEW c, NEW all \in Seq(PlayerRecord)
  PROVE  StrictOrder(Grouped(c, all), PrecedenceOn(c, all))
<1> DEFINE G == Grouped(c, all)
<1>1. \A i \in G : i \in Int /\ all[i].position \in Int /\ all[i].points \in Int
  <2> HIDE DEF G
  <2>1. G \in SUBSET (1 .. Len(all))
    BY GroupedIsFinite DEF G
  <2>2. \A i \in 1 .. Len(all) : all[i] \in PlayerRecord
    OBVIOUS
  <2>3. \A r \in PlayerRecord : r.position \in Int /\ r.points \in Int
    BY DEF PlayerRecord
  <2>4. \A i \in 1 .. Len(all) : i \in Int
    OBVIOUS
  <2> QED
    BY <2>1, <2>2, <2>3, <2>4, Zenon
<1>2. \A i, j \in G : <<i, j>> \in PrecedenceOn(c, all) <=> Precedes(all, i, j)
  BY Zenon DEF PrecedenceOn
<1> HIDE DEF G
<1>3. \A i \in G : ~Precedes(all, i, i)
  BY <1>1 DEF Precedes
<1>4. \A i, j, k \in G : Precedes(all, i, j) /\ Precedes(all, j, k) => Precedes(all, i, k)
  BY <1>1 DEF Precedes
<1>5. \A i, j \in G : i # j => Precedes(all, i, j) \/ Precedes(all, j, i)
  BY <1>1 DEF Precedes
<1>6. StrictOrder(G, PrecedenceOn(c, all))
  BY <1>2, <1>3, <1>4, <1>5, Zenon DEF StrictOrder
<1> QED
  BY <1>6, Zenon DEF G

(* The player at each place of the grouped array.                          *)
At(c, all, k) == CHOOSE i \in Grouped(c, all) : Rank(c, all, i) = k - 1

LEMMA RankOrdersGroup ==
  ASSUME NEW c, NEW all \in Seq(PlayerRecord)
  PROVE  LET G == Grouped(c, all)
             n == Cardinality(G)
         IN /\ \A i \in G : Rank(c, all, i) \in 0 .. n - 1
            /\ \A i, j \in G : Rank(c, all, i) = Rank(c, all, j) => i = j
            /\ \A k \in 1 .. n : At(c, all, k) \in G /\ Rank(c, all, At(c, all, k)) = k - 1
            /\ \A i, j \in G : Precedes(all, i, j) <=> Rank(c, all, i) < Rank(c, all, j)
<1> DEFINE G == Grouped(c, all)
           n == Cardinality(G)
           R == PrecedenceOn(c, all)
           f == RankIn(G, R)
<1>1. IsFiniteSet(G) /\ n \in Nat /\ StrictOrder(G, R)
  BY GroupedIsFinite, PrecedenceIsStrictOrder, FS_CardinalityType
<1>2. f \in Bijection(G, 0 .. n - 1)
  BY <1>1, RankIsBijection, Zenon
<1>3. \A i, j \in G : <<i, j>> \in R <=> Precedes(all, i, j)
  BY Zenon DEF PrecedenceOn
<1>4. \A i \in G : f[i] = Rank(c, all, i)
  <2>1. ASSUME NEW i \in G PROVE Before(G, R, i) = { j \in G : Precedes(all, j, i) }
    BY Zenon DEF Before, PrecedenceOn
  <2> QED
    BY <2>1, Zenon DEF RankIn, Rank
<1>5. /\ f \in [G -> 0 .. n - 1]
      /\ \A i, j \in G : f[i] = f[j] => i = j
      /\ \A r \in 0 .. n - 1 : \E i \in G : f[i] = r
  BY <1>2, Zenon DEF Bijection, Injection, Surjection, IsInjective
<1>6. ASSUME NEW k \in 1 .. n
      PROVE  At(c, all, k) \in G /\ Rank(c, all, At(c, all, k)) = k - 1
  <2>1. k - 1 \in 0 .. n - 1
    BY <1>1
  <2>2. PICK i \in G : Rank(c, all, i) = k - 1
    BY <1>4, <1>5, <2>1, Zenon
  <2> QED
    BY <2>2, Zenon DEF At
<1>7. \A i, j \in G : Precedes(all, i, j) => f[i] < f[j]
  BY <1>1, <1>3, RankIsMonotonic, Zenon
<1>8. \A i, j \in G : f[i] < f[j] => Precedes(all, i, j)
  <2>1. \A i, j \in G : ~(f[i] < f[j] /\ f[j] < f[i]) /\ ~(f[i] < f[i])
    <3>1. \A i \in G : f[i] \in Int
      BY <1>5
    <3> HIDE DEF f, G
    <3> QED
      BY <3>1
  <2> QED
    BY <1>1, <1>3, <1>7, <2>1, Zenon DEF StrictOrder
<1> HIDE DEF f, G, R, n
<1>9. /\ \A i \in G : Rank(c, all, i) \in 0 .. n - 1
      /\ \A i, j \in G : Rank(c, all, i) = Rank(c, all, j) => i = j
  BY <1>4, <1>5
<1>10. \A i, j \in G : Precedes(all, i, j) <=> Rank(c, all, i) < Rank(c, all, j)
  BY <1>4, <1>7, <1>8
<1> QED
  BY <1>6, <1>9, <1>10, Zenon DEF G, n

(* What group_by_position leaves in the array.                             *)
LEMMA GroupedArrayType ==
  ASSUME NEW c, NEW all \in Seq(PlayerRecord), NEW leftover \in Leftovers(c, all)
  PROVE  LET array == group_by_position(c, all, leftover) IN
         /\ array \in Seq(PlayerRecord)
         /\ Len(array) = Len(all)
         /\ \A k \in 1 .. Cardinality(Grouped(c, all)) : array[k] = all[At(c, all, k)]
<1> DEFINE array == group_by_position(c, all, leftover)
           n == Cardinality(Grouped(c, all))
           len == Len(all)
<1>1. len \in Nat /\ DOMAIN all = 1 .. len /\ n \in 0 .. len
  BY GroupedIsFinite
<1>2. leftover \in [n + 1 .. len -> {ZeroRecord} \cup Range(all)]
  BY Zenon DEF Leftovers
<1>3. {ZeroRecord} \cup Range(all) \subseteq PlayerRecord
  <2>1. ZeroRecord \in PlayerRecord
    BY DEF ZeroRecord, PlayerRecord
  <2>2. \A k \in DOMAIN all : all[k] \in PlayerRecord
    OBVIOUS
  <2> QED
    BY <2>1, <2>2, Zenon DEF Range
<1>4. array = [k \in 1 .. len |-> IF k \in n + 1 .. len THEN leftover[k]
                                                      ELSE all[At(c, all, k)]]
  <2>1. DOMAIN leftover = n + 1 .. len
    BY <1>2, Zenon
  <2>2. array = [k \in DOMAIN all |-> IF k \in DOMAIN leftover THEN leftover[k]
                                                             ELSE all[At(c, all, k)]]
    BY Zenon DEF group_by_position, At
  <2> HIDE DEF array, n, len
  <2> QED
    BY <1>1, <2>1, <2>2
<1>5. \A k \in 1 .. n : At(c, all, k) \in 1 .. len
  BY RankOrdersGroup, GroupedIsFinite, Zenon
<1>6. \A k \in 1 .. len : k \in n + 1 .. len \/ k \in 1 .. n
  BY <1>1
<1>7. \A k \in 1 .. n : k \in 1 .. len /\ k \notin n + 1 .. len
  BY <1>1
<1>8. ASSUME NEW k \in 1 .. len PROVE array[k] \in PlayerRecord
  <2>1. CASE k \in n + 1 .. len
    BY <1>2, <1>3, <1>4, <2>1, Zenon
  <2>2. CASE k \notin n + 1 .. len
    <3>1. At(c, all, k) \in 1 .. len
      BY <1>5, <1>6, <2>2, Zenon
    <3>2. all[At(c, all, k)] \in PlayerRecord
      BY <3>1
    <3> QED
      BY <1>4, <2>2, <3>2, Zenon
  <2> QED
    BY <2>1, <2>2
<1>9. \A k \in 1 .. n : array[k] = all[At(c, all, k)]
  BY <1>4, <1>7, Zenon
<1>10. array \in [1 .. len -> PlayerRecord]
  BY <1>4, <1>8, Zenon
<1>11. array \in Seq(PlayerRecord) /\ Len(array) = len
  <2> HIDE DEF array, len
  <2> QED
    BY <1>1, <1>10
<1> QED
  BY <1>9, <1>11, Zenon

(* The members of a group that lie below a position.                       *)
Below(c, all, s) == { i \in Grouped(c, all) : all[i].position < s }

LEMMA BelowIsFinite ==
  ASSUME NEW c, NEW all \in Seq(PlayerRecord), NEW s
  PROVE  IsFiniteSet(Below(c, all, s)) /\ Cardinality(Below(c, all, s)) \in Nat
<1>1. Below(c, all, s) \in SUBSET Grouped(c, all)
  BY Zenon DEF Below
<1> QED
  BY <1>1, GroupedIsFinite, FS_Subset, FS_CardinalityType, Zenon

LEMMA MarkersType ==
  ASSUME NEW c, NEW all \in Seq(PlayerRecord), NEW S, slot_markers \in [S -> Nat]
  PROVE  MarkersOf(c, all) \in [S -> Nat]
<1>1. \A s : Cardinality(Below(c, all, s)) \in Nat
  BY BelowIsFinite
<1> QED
  BY <1>1, Zenon DEF MarkersOf, Below

(* The marker of a position that has players is the place of the first.    *)
LEMMA MarkerDivides ==
  ASSUME NEW c, NEW all \in Seq(PlayerRecord),
         NEW h \in Grouped(c, all), NEW i \in Grouped(c, all),
         all[h].position \in DOMAIN slot_markers
  PROVE  all[i].position < all[h].position
           <=> Rank(c, all, i) < MarkersOf(c, all)[all[h].position]
<1> DEFINE G == Grouped(c, all)
           s == all[h].position
           B == Below(c, all, s)
           E == { j \in G : Precedes(all, j, i) }
<1>1. MarkersOf(c, all)[s] = Cardinality(B)
  BY Zenon DEF MarkersOf, Below
<1>2. \A j \in G : all[j].position \in Int /\ all[j].points \in Int /\ j \in Int
  <2>1. G \in SUBSET (1 .. Len(all))
    BY GroupedIsFinite
  <2>2. \A j \in 1 .. Len(all) : all[j] \in PlayerRecord /\ j \in Int
    OBVIOUS
  <2>3. \A r \in PlayerRecord : r.position \in Int /\ r.points \in Int
    BY DEF PlayerRecord
  <2> QED
    BY <2>1, <2>2, <2>3, Zenon
<1>3. /\ IsFiniteSet(B) /\ Cardinality(B) \in Nat
      /\ IsFiniteSet(E) /\ Cardinality(E) \in Nat
      /\ Rank(c, all, i) = Cardinality(E)
  <2>1. E \in SUBSET G
    BY Zenon
  <2>2. IsFiniteSet(E) /\ Cardinality(E) \in Nat
    BY <2>1, GroupedIsFinite, FS_Subset, FS_CardinalityType, Zenon
  <2> QED
    BY <2>2, BelowIsFinite, Zenon DEF Rank
<1>4. ASSUME all[i].position < s PROVE Cardinality(E) < Cardinality(B)
  <2>1. E \cup {i} \in SUBSET B
    BY <1>2, <1>4 DEF Precedes, Below
  <2>2. i \notin E
    BY <1>2 DEF Precedes
  <2>3. IsFiniteSet(E \cup {i}) /\ Cardinality(E \cup {i}) = Cardinality(E) + 1
    BY <1>3, <2>2, FS_AddElement, Zenon
  <2>4. Cardinality(E \cup {i}) <= Cardinality(B)
    BY <1>3, <2>1, FS_Subset, Zenon
  <2> HIDE DEF E, B
  <2> QED
    BY <1>3, <2>3, <2>4
<1>5. ASSUME ~(all[i].position < s) PROVE ~(Cardinality(E) < Cardinality(B))
  <2>1. B \in SUBSET E
    BY <1>2, <1>5 DEF Precedes, Below
  <2>2. Cardinality(B) <= Cardinality(E)
    BY <1>3, <2>1, FS_Subset, Zenon
  <2> HIDE DEF E, B
  <2> QED
    BY <1>3, <2>2
<1> QED
  BY <1>1, <1>3, <1>4, <1>5, Zenon

(* A load, whether it succeeds or fails, keeps the shape of the pool.      *)
LEMMA LoadedPool ==
  ASSUME PoolTypeOK, NEW c, NEW file \in PoolFiles, load_players(c, file)
  PROVE  LET all == players \o RecordsOf(c, file) IN
         /\ all \in Seq(PlayerRecord)
         /\ Len(all) <= MAX_PLAYERS + 1
         /\ PoolTypeOK'
<1> DEFINE all == players \o RecordsOf(c, file)
<1>1. file \in Seq(Row \cup {Malformed})
  BY PoolFilesAssumption, Zenon
<1>2. SubSeq(file, 1, Len(file)) = file /\ Len(file) \in 0 .. Len(file)
  BY <1>1
<1>3. all \in Seq(PlayerRecord) /\ Len(all) <= MAX_PLAYERS + 1
  <2>1. Len(file) = 0 \/ Len(file) \notin FailingRows(c, file)
    BY Zenon DEF load_players
  <2> QED
    BY <1>2, <2>1, LoadedRecordsType, Zenon DEF PoolTypeOK
<1>4. PICK leftover \in Leftovers(c, all) :
        players' = group_by_position(c, all, leftover)
  BY Zenon DEF load_players
<1>5. players' \in Seq(PlayerRecord) /\ Len(players') = Len(all)
  BY <1>3, <1>4, GroupedArrayType, Zenon
<1>6. slot_markers' = MarkersOf(c, all)
  BY Zenon DEF load_players
<1>7. slot_markers' \in [0 .. MAX_NUM_SLOTS - 1 -> Nat]
  BY <1>3, <1>6, MarkersType, Zenon DEF PoolTypeOK
<1>8. PoolTypeOK'
  BY <1>3, <1>5, <1>7, Zenon DEF PoolTypeOK
<1> QED
  BY <1>3, <1>8, Zenon

LEMMA FailedLoadType ==
  ASSUME PoolTypeOK, NEW c, NEW file \in PoolFiles, load_players_Fails(c, file)
  PROVE  /\ PoolTypeOK'
         /\ Len(players) <= Len(players')
         /\ \A i \in 1 .. Len(players) : players'[i] = players[i]
<1> DEFINE fails == FailingRows(c, file)
           m == Min(fails) - 1
<1>1. file \in Seq(Row \cup {Malformed})
  BY PoolFilesAssumption, Zenon
<1>2. DOMAIN file = 1 .. Len(file) /\ Len(file) \in Nat
  BY <1>1
<1>3. fails \in SUBSET (1 .. Len(file)) /\ fails # {}
  BY <1>2, Zenon DEF load_players_Fails, FailingRows
<1>4. Min(fails) \in fails /\ \A y \in fails : Min(fails) <= y
  <2>1. fails \in SUBSET Nat
    BY <1>3
  <2> QED
    BY <1>3, <2>1, MinIsLeast, Zenon
<1>5. m \in 0 .. Len(file) /\ m \notin fails
  <2>1. Min(fails) \in 1 .. Len(file)
    BY <1>3, <1>4, Zenon
  <2>2. m \in Int /\ ~(Min(fails) <= m) /\ m \in 0 .. Len(file)
    <3> HIDE DEF fails
    <3> QED
      BY <1>2, <2>1
  <2> QED
    BY <1>4, <2>2, Zenon
<1>6. players' = players \o RecordsOf(c, SubSeq(file, 1, m)) /\ slot_markers' = slot_markers
  BY Zenon DEF load_players_Fails
<1>7. /\ players' \in Seq(PlayerRecord) /\ Len(players') <= MAX_PLAYERS + 1
      /\ Len(players) <= Len(players')
      /\ \A i \in 1 .. Len(players) : players'[i] = players[i]
  <2> DEFINE all == players \o RecordsOf(c, SubSeq(file, 1, m))
  <2>1. /\ all \in Seq(PlayerRecord) /\ Len(all) <= MAX_PLAYERS + 1
        /\ Len(players) <= Len(all)
        /\ \A i \in 1 .. Len(players) : all[i] = players[i]
    BY <1>5, LoadedRecordsType, ZenonT(60) DEF PoolTypeOK
  <2>2. players' = all
    BY <1>6, Zenon
  <2> HIDE DEF all
  <2> QED
    BY <2>1, <2>2, Zenon
<1> QED
  BY <1>6, <1>7, Zenon DEF PoolTypeOK

-----------------------------------------------------------------------------
(* Rosters, and the queries of the pool.                                   *)

(* Charging any slot of a row of counts, one that exists or not, leaves a  *)
(* row of counts.                                                          *)
LEMMA ChargeType ==
  ASSUME NEW S, NEW row \in [S -> Int], NEW i
  PROVE  [row EXCEPT ![i] = @ - 1] \in [S -> Int]
<1>1. CASE i \in S
  BY <1>1
<1>2. CASE i \notin S
  <2>1. [row EXCEPT ![i] = @ - 1] = row
    BY <1>2, Zenon
  <2> QED
    BY <2>1
<1> QED
  BY <1>1, <1>2

LEMMA FillSlotType ==
  ASSUME NEW c, NEW row \in [Slots(c) -> Int], NEW position
  PROVE  fill_slot(c, row, position) \in [Slots(c) -> Int]
<1> DEFINE open == OpenFlexSlots(c, row, position)
<1>1. [row EXCEPT ![position] = @ - 1] \in [Slots(c) -> Int]
  BY ChargeType
<1>2. [row EXCEPT ![Min(open)] = @ - 1] \in [Slots(c) -> Int]
  BY ChargeType
<1> QED
  BY <1>1, <1>2, Zenon DEF fill_slot

(* The teams of the snake order are teams of the league.                   *)
LEMMA SnakeOrderType ==
  ASSUME NEW n \in Nat, NEW t \in Nat \ {0}
  PROVE  build_snake_order(n, t) \in [0 .. n - 1 -> 0 .. t - 1]
  BY DEF build_snake_order

LEMMA IdsAreNaturals == Ids \subseteq Nat
  BY DEF Ids

(* A player found by name is one of the pool.                              *)
LEMMA PlayerByNameIsInPool ==
  ASSUME NEW name, get_player_by_name(name) # NoPlayer
  PROVE  get_player_by_name(name) \in Ids
<1> DEFINE found == { id \in Ids : players[id + 1].name = name }
<1>1. Ids \subseteq Nat
  BY IdsAreNaturals
<1>2. found # {} => Min(found) \in found
  BY <1>1, MinIsMember
<1>3. get_player_by_name(name) = IF found = {} THEN NoPlayer ELSE Min(found)
  BY Zenon DEF get_player_by_name
<1> QED
  BY <1>2, <1>3, Zenon

(* The search of a group returns a player of the pool who is not taken.    *)
LEMMA FirstFreeIsFree ==
  ASSUME NEW mark, NEW takenIds, FirstFreeFrom(mark, takenIds) # NoPlayer
  PROVE  FirstFreeFrom(mark, takenIds) \in Ids \ takenIds
<1> DEFINE free == { id \in Ids : id >= mark /\ id \notin takenIds }
<1>1. Ids \subseteq Nat
  BY IdsAreNaturals
<1>2. free # {} => Min(free) \in free
  BY <1>1, MinIsMember
<1>3. FirstFreeFrom(mark, takenIds) = IF free = {} THEN NoPlayer ELSE Min(free)
  BY Zenon DEF FirstFreeFrom
<1> QED
  BY <1>2, <1>3, Zenon

(* So does the search of any slot, flex slots included, unless it faults.  *)
LEMMA HighestProjectedIsFree ==
  ASSUME NEW c, NEW s, NEW takenIds,
         DOMAIN c.flex[s] \subseteq Nat,
         ~FlexFaults(c, s, takenIds),
         whos_highest_projected(c, s, takenIds) # NoPlayer
  PROVE  whos_highest_projected(c, s, takenIds) \in Ids \ takenIds
<1> DEFINE found == OptionResults(c, s, takenIds)
           best  == { j \in DOMAIN found :
                        /\ points(found[j]) > 0
                        /\ \A k \in DOMAIN found : points(found[k]) <= points(found[j]) }
<1>1. CASE ~is_flex_slot(c, s)
  BY <1>1, FirstFreeIsFree, Zenon DEF whos_highest_projected
<1>2. CASE is_flex_slot(c, s)
  <2>1. DOMAIN found = DOMAIN c.flex[s]
    BY Zenon DEF OptionResults
  <2>2. whos_highest_projected(c, s, takenIds)
          = IF best = {} THEN NoPlayer ELSE found[Min(best)]
    BY <1>2, Zenon DEF whos_highest_projected
  <2>3. best # {}
    BY <2>2, Zenon
  <2>4. best \in SUBSET Nat
    BY <2>1, Zenon
  <2>5. Min(best) \in best
    BY <2>3, <2>4, MinIsMember, Zenon
  <2>6. found[Min(best)]
          = FirstFreeFrom(slot_markers[c.flex[s][Min(best)]], takenIds)
    BY <2>1, <2>5, Zenon DEF OptionResults
  <2> DEFINE mark == slot_markers[c.flex[s][Min(best)]]
  <2>7. whos_highest_projected(c, s, takenIds) = FirstFreeFrom(mark, takenIds)
    BY <2>2, <2>3, <2>6, Zenon
  <2> HIDE DEF mark
  <2>8. FirstFreeFrom(mark, takenIds) # NoPlayer
    BY <2>7, Zenon
  <2>9. FirstFreeFrom(mark, takenIds) \in Ids \ takenIds
    BY <2>8, FirstFreeIsFree, Zenon
  <2> QED
    BY <2>7, <2>9, Zenon
<1> QED
  BY <1>1, <1>2

-----------------------------------------------------------------------------
(* Sequences.                                                              *)

LEMMA AppendFacts ==
  ASSUME NEW S, NEW s \in Seq(S), NEW e
  PROVE  /\ Len(s) \in Nat
         /\ DOMAIN s = 1 .. Len(s)
         /\ DOMAIN Append(s, e) = 1 .. Len(s) + 1
         /\ \A i \in 1 .. Len(s) : Append(s, e)[i] = s[i]
         /\ Append(s, e)[Len(s) + 1] = e
<1> DEFINE T == S \cup {e}
<1>1. s \in Seq(T) /\ e \in T
  OBVIOUS
<1> HIDE DEF T
<1> QED
  BY <1>1

LEMMA FrontFacts ==
  ASSUME NEW S, NEW s \in Seq(S), s # <<>>
  PROVE  /\ Len(s) \in Nat \ {0}
         /\ DOMAIN s = 1 .. Len(s)
         /\ DOMAIN Front(s) = 1 .. Len(s) - 1
         /\ \A i \in 1 .. Len(s) - 1 : Front(s)[i] = s[i]
  BY DEF Front

-----------------------------------------------------------------------------
(* What create_search_context computes: its requirements after each pick.  *)

(* g[k] is what is required after the first k of the picks t, for k to n.  *)
Run(c, t, n, g) ==
  /\ g[0] = InitialRequirements(c)
  /\ \A k \in 1 .. n : g[k] = charge(c, g[k - 1], t[k])

(* The same as the recursive function of create_search_context.            *)
RunFunction(c, t, n, g) ==
  g = [k \in 0 .. n |->
        IF k = 0 THEN InitialRequirements(c) ELSE charge(c, g[k - 1], t[k])]

LEMMA RunFunctionIsRun ==
  ASSUME NEW c, NEW t, NEW n \in Nat, NEW g, RunFunction(c, t, n, g)
  PROVE  Run(c, t, n, g)
<1> DEFINE body(k) == IF k = 0 THEN InitialRequirements(c) ELSE charge(c, g[k - 1], t[k])
<1>1. g = [k \in 0 .. n |-> body(k)]
  BY Zenon DEF RunFunction
<1>2. 0 \in 0 .. n /\ \A k \in 1 .. n : k \in 0 .. n /\ k # 0
  OBVIOUS
<1> HIDE DEF body
<1>3. \A k \in 0 .. n : g[k] = body(k)
  BY <1>1, Zenon
<1> QED
  BY <1>2, <1>3, Zenon DEF body, Run

LEMMA RunFunctionExists ==
  ASSUME NEW c, NEW t, NEW n \in Nat
  PROVE  \E g : RunFunction(c, t, n, g)
<1> DEFINE Bad == { m \in Nat : ~\E g : RunFunction(c, t, m, g) }
<1>1. SUFFICES ASSUME Bad # {} PROVE FALSE
  BY Zenon
<1>2. PICK m \in Bad : \A y \in Bad : m <= y
  <2>1. Bad \in SUBSET Nat
    BY Zenon
  <2> HIDE DEF Bad
  <2> QED
    BY <1>1, <2>1, MinIsLeast, Zenon
<1>3. CASE m = 0
  <2> DEFINE g == [k \in 0 .. 0 |-> InitialRequirements(c)]
  <2>1. \A k \in 0 .. 0 : k = 0
    OBVIOUS
  <2>2. g = [k \in 0 .. 0 |->
              IF k = 0 THEN InitialRequirements(c) ELSE charge(c, g[k - 1], t[k])]
    BY <2>1, Zenon
  <2>3. RunFunction(c, t, 0, g)
    BY <2>2, Zenon DEF RunFunction
  <2> QED
    BY <1>2, <1>3, <2>3, Zenon
<1>4. CASE m # 0
  <2>1. m \in Nat /\ m - 1 \in Nat /\ ~(m <= m - 1)
    BY <1>2, <1>4
  <2>2. PICK h : RunFunction(c, t, m - 1, h)
    BY <1>2, <2>1, Zenon
  <2>3. Run(c, t, m - 1, h)
    BY <2>1, <2>2, RunFunctionIsRun, Zenon
  <2> DEFINE g == [k \in 0 .. m |->
                    IF k = 0 THEN InitialRequirements(c) ELSE charge(c, h[k - 1], t[k])]
  <2>4. \A k \in 0 .. m - 1 : g[k] = h[k]
    <3>1. ASSUME NEW k \in 0 .. m - 1 PROVE g[k] = h[k]
      <4>1. k \in 0 .. m /\ (k # 0 => k \in 1 .. m - 1)
        BY <2>1
      <4>2. g[k] = IF k = 0 THEN InitialRequirements(c) ELSE charge(c, h[k - 1], t[k])
        BY <4>1, Zenon
      <4> HIDE DEF g
      <4> QED
        BY <2>3, <4>1, <4>2, Zenon DEF Run
    <3> QED
      BY <3>1, Zenon
  <2>5. \A k \in 0 .. m : k # 0 => g[k - 1] = h[k - 1]
    <3>1. \A k \in 0 .. m : k # 0 => k - 1 \in 0 .. m - 1
      BY <2>1
    <3> HIDE DEF g
    <3> QED
      BY <2>4, <3>1, Zenon
  <2>6. g = [k \in 0 .. m |->
              IF k = 0 THEN InitialRequirements(c) ELSE charge(c, g[k - 1], t[k])]
    BY <2>5, Zenon
  <2>7. RunFunction(c, t, m, g)
    BY <2>6, Zenon DEF RunFunction
  <2> QED
    BY <1>2, <2>7, Zenon
<1> QED
  BY <1>3, <1>4

LEMMA ContextIsRun ==
  ASSUME NEW c, NEW t, Len(t) \in Nat
  PROVE  \E g : Run(c, t, Len(t), g) /\ create_search_context(c, t) = g[Len(t)]
<1> DEFINE P(g) == g = [k \in 0 .. Len(t) |->
                         IF k = 0 THEN InitialRequirements(c)
                                  ELSE charge(c, g[k - 1], t[k])]
           g0 == CHOOSE g : P(g)
<1>1. create_search_context(c, t) = g0[Len(t)]
  BY Zenon DEF create_search_context
<1>2. \E g : P(g)
  <2>1. PICK g : RunFunction(c, t, Len(t), g)
    BY RunFunctionExists, Zenon
  <2>2. P(g)
    BY <2>1, Zenon DEF RunFunction
  <2> QED
    BY <2>2, Zenon
<1>3. RunFunction(c, t, Len(t), g0)
  BY <1>2, Zenon DEF RunFunction
<1>4. Run(c, t, Len(t), g0)
  BY <1>3, RunFunctionIsRun, Zenon
<1> QED
  BY <1>1, <1>4, Zenon

(* The requirements after each pick are unique.                            *)
LEMMA RunsAgree ==
  ASSUME NEW c, NEW n \in Nat, NEW t, NEW g, NEW h, Run(c, t, n, g), Run(c, t, n, h)
  PROVE  \A k \in 0 .. n : g[k] = h[k]
<1> DEFINE Bad == { k \in 0 .. n : g[k] # h[k] }
<1>1. SUFFICES ASSUME Bad # {} PROVE FALSE
  BY Zenon
<1>2. PICK k \in Bad : \A y \in Bad : k <= y
  <2>1. Bad \in SUBSET Nat
    OBVIOUS
  <2> HIDE DEF Bad
  <2> QED
    BY <1>1, <2>1, MinIsLeast, Zenon
<1>3. k \in 1 .. n /\ k - 1 \in 0 .. n /\ ~(k <= k - 1)
  <2>1. k # 0
    BY Zenon DEF Run
  <2> QED
    BY <2>1
<1>4. g[k - 1] = h[k - 1]
  BY <1>2, <1>3, Zenon
<1> QED
  BY <1>2, <1>3, <1>4, Zenon DEF Run

(* A pick more is one charge more.                                         *)
LEMMA ContextAppend ==
  ASSUME NEW c, NEW S, NEW t \in Seq(S), NEW made
  PROVE  create_search_context(c, Append(t, made))
           = charge(c, create_search_context(c, t), made)
<1> DEFINE n == Len(t)
<1>1. PICK u : u = Append(t, made)
  OBVIOUS
<1>2. PICK m \in Nat : m = n + 1
  OBVIOUS
<1>3. /\ n \in Nat /\ n <= m /\ Len(u) = m
      /\ \A k \in 1 .. n : t[k] = u[k]
      /\ u[m] = made
  BY <1>1, <1>2, AppendFacts
<1>4. PICK g : Run(c, t, n, g) /\ create_search_context(c, t) = g[n]
  BY <1>3, ContextIsRun, Zenon
<1>5. PICK h : Run(c, u, m, h) /\ create_search_context(c, u) = h[m]
  BY <1>3, ContextIsRun, Zenon
<1>6. Run(c, t, n, h)
  <2>1. 1 .. n \subseteq 1 .. m
    BY <1>3
  <2> QED
    BY <1>3, <1>5, <2>1, Zenon DEF Run
<1>7. \A k \in 0 .. n : g[k] = h[k]
  <2>1. n \in Nat /\ Run(c, t, n, g) /\ Run(c, t, n, h)
    BY <1>3, <1>4, <1>6, Zenon
  <2> QED
    BY <2>1, RunsAgree
<1>8. m \in 1 .. m /\ m - 1 = n /\ n \in 0 .. n
  BY <1>2, <1>3
<1> QED
  BY <1>1, <1>3, <1>4, <1>5, <1>7, <1>8, Zenon DEF Run

LEMMA ContextOfNoPicks ==
  ASSUME NEW c
  PROVE  create_search_context(c, <<>>) = InitialRequirements(c)
<1>1. Len(<<>>) = 0 /\ 0 \in Nat
  OBVIOUS
<1>2. PICK g : Run(c, <<>>, 0, g) /\ create_search_context(c, <<>>) = g[0]
  BY <1>1, ContextIsRun, Zenon
<1> QED
  BY <1>2, Zenon DEF Run

-----------------------------------------------------------------------------
(* The context that create_search_context rebuilds, from one state to the  *)
(* next.                                                                   *)

LEMMA NextContextOfNoPicks ==
  ASSUME NEW c
  PROVE  (create_search_context(c, <<>>) = InitialRequirements(c))'
<1>1. create_search_context(c, <<>>) = InitialRequirements(c)
  BY ContextOfNoPicks, Zenon
<1> QED
  BY <1>1, PTL

LEMMA NextContextIsRun ==
  ASSUME NEW c, NEW t, Len(t) \in Nat
  PROVE  (\E g : Run(c, t, Len(t), g) /\ create_search_context(c, t) = g[Len(t)])'
<1>1. \E g : Run(c, t, Len(t), g) /\ create_search_context(c, t) = g[Len(t)]
  BY ContextIsRun, Zenon
<1> QED
  BY <1>1, PTL

(* Players that keep their positions leave the context as it is.           *)
PositionAt(made) == get_player_by_id(made.player_id).position

LEMMA ContextStable ==
  ASSUME NEW c, NEW t, Len(t) \in Nat,
         \A k \in 1 .. Len(t) : PositionAt(t[k])' = PositionAt(t[k])
  PROVE  create_search_context(c, t)' = create_search_context(c, t)
<1> DEFINE n == Len(t)
<1>1. PICK g : Run(c, t, n, g) /\ create_search_context(c, t) = g[n]
  BY ContextIsRun, Zenon
<1>2. PICK h : Run(c, t, n, h)' /\ create_search_context(c, t)' = h[n]
  BY NextContextIsRun, Zenon
<1>3. ASSUME NEW k \in 1 .. n PROVE charge(c, h[k - 1], t[k])' = charge(c, h[k - 1], t[k])
  BY Zenon DEF charge, PositionAt
<1>4. Run(c, t, n, h)
  BY <1>2, <1>3, Zenon DEF Run
<1>5. \A k \in 0 .. n : g[k] = h[k]
  BY <1>1, <1>4, RunsAgree
<1>6. n \in 0 .. n
  OBVIOUS
<1> QED
  BY <1>1, <1>2, <1>5, <1>6, Zenon

LEMMA SamePlayersSameContext ==
  ASSUME UNCHANGED players, NEW c, NEW t, Len(t) \in Nat
  PROVE  create_search_context(c, t)' = create_search_context(c, t)
<1>1. \A k \in 1 .. Len(t) : PositionAt(t[k])' = PositionAt(t[k])
  BY Zenon DEF PositionAt, get_player_by_id, Ids, number_of_players
<1> QED
  BY <1>1, ContextStable, Zenon

-----------------------------------------------------------------------------
(* Rosters that still have room, and a pool that still has players.        *)

(* The open places of a slot.                                              *)
OpenAt(c, row) == [s \in Slots(c) |-> Max({row[s], 0})]

(* The greater of a number and 0.                                          *)
LEMMA MaxWithZero ==
  ASSUME NEW a \in Int
  PROVE  /\ Max({a, 0}) = IF a > 0 THEN a ELSE 0
         /\ Max({0, a}) = IF a > 0 THEN a ELSE 0
<1> DEFINE m == IF a > 0 THEN a ELSE 0
<1>1. m \in {a, 0} /\ \A y \in {a, 0} : m >= y
  OBVIOUS
<1>2. \A x \in {a, 0} : (\A y \in {a, 0} : x >= y) => x = m
  OBVIOUS
<1> HIDE DEF m
<1>3. Max({a, 0}) = m
  BY <1>1, <1>2, Zenon DEF Max
<1>4. {0, a} = {a, 0}
  OBVIOUS
<1> QED
  BY <1>3, <1>4, Zenon DEF m

(* The module's sum of the open slots is SumOver's.                        *)
LEMMA OpenSlotsIsSum ==
  ASSUME NEW c, IsFiniteSet(Slots(c)), NEW row
  PROVE  OpenSlots(c, row) = SumOver(Slots(c), OpenAt(c, row))
<1> DEFINE K == Slots(c)
           f == OpenAt(c, row)
           Sums(g) == g = [T \in SUBSET K |->
                             IF T = {} THEN 0
                             ELSE Max({row[AnyOf(T)], 0}) + g[T \ {AnyOf(T)}]]
           h == CHOOSE g : Sums(g)
<1>1. OpenSlots(c, row) = h[K]
  BY Zenon DEF OpenSlots, MapThenSumSet, MapThenFoldSet, AnyOf
<1>2. ASSUME NEW g PROVE Sums(g) <=> SumsUp(K, f, g)
  <2>1. ASSUME NEW T \in SUBSET K, T # {} PROVE f[AnyOf(T)] = Max({row[AnyOf(T)], 0})
    BY <2>1, AnyOfIsMember, Zenon DEF OpenAt
  <2> DEFINE left(T) == IF T = {} THEN 0 ELSE Max({row[AnyOf(T)], 0}) + g[T \ {AnyOf(T)}]
             right(T) == IF T = {} THEN 0 ELSE f[AnyOf(T)] + g[T \ {AnyOf(T)}]
  <2>2. \A T \in SUBSET K : left(T) = right(T)
    BY <2>1, Zenon
  <2>3. Sums(g) <=> g = [T \in SUBSET K |-> left(T)]
    BY Zenon
  <2>4. SumsUp(K, f, g) <=> g = [T \in SUBSET K |-> right(T)]
    BY Zenon DEF SumsUp
  <2>5. [T \in SUBSET K |-> left(T)] = [T \in SUBSET K |-> right(T)]
    <3> HIDE DEF left, right, K
    <3> QED
      BY <2>2, Zenon
  <2> HIDE DEF left, right, K, f, Sums
  <2> QED
    BY <2>3, <2>4, <2>5, Zenon
<1>3. PICK g : SumsUp(K, f, g)
  BY SumFunctionExists, Zenon
<1>4. Sums(h)
  <2>1. Sums(g)
    <3> HIDE DEF Sums
    <3> QED
      BY <1>2, <1>3, Zenon
  <2> QED
    BY <2>1, Zenon
<1>5. SumsUp(K, f, h)
  <2> HIDE DEF Sums, h
  <2> QED
    BY <1>2, <1>4, Zenon
<1>6. SumOver(K, f) = h[K]
  <2> HIDE DEF h, f
  <2> QED
    BY <1>5, SumValueIsValue, SumIsChosen, Zenon
<1> QED
  BY <1>1, <1>6, Zenon

(* The open places of a slot are its count, or none.                       *)
LEMMA OpenAtType ==
  ASSUME NEW c, NEW row \in [Slots(c) -> Int]
  PROVE  \A s \in Slots(c) : OpenAt(c, row)[s] = IF row[s] > 0 THEN row[s] ELSE 0
<1>1. ASSUME NEW s \in Slots(c) PROVE OpenAt(c, row)[s] = IF row[s] > 0 THEN row[s] ELSE 0
  <2>1. PICK n \in Int : n = row[s]
    BY Zenon
  <2>2. Max({n, 0}) = IF n > 0 THEN n ELSE 0
    BY MaxWithZero, Zenon
  <2> QED
    BY <2>1, <2>2, Zenon DEF OpenAt
<1> QED
  BY <1>1, Zenon

(* A league has finitely many slots,                                       *)
LEMMA WellShapedSlots ==
  ASSUME NEW c, WellShaped(c)
  PROVE  IsFiniteSet(Slots(c))
<1>1. 0 \in Int /\ c.num_slots - 1 \in Int
  BY DEF WellShaped
<1> QED
  BY <1>1, FS_Interval, Zenon DEF Slots

(* and a team a number of open places.                                     *)
LEMMA OpenSlotsType ==
  ASSUME NEW c, WellShaped(c), NEW row \in [Slots(c) -> Int]
  PROVE  OpenSlots(c, row) \in Nat
<1>1. ASSUME NEW s \in Slots(c) PROVE OpenAt(c, row)[s] \in Nat
  <2>1. PICK n \in Int : n = row[s]
    BY Zenon
  <2>2. OpenAt(c, row)[s] = IF n > 0 THEN n ELSE 0
    BY <2>1, OpenAtType, Zenon
  <2> QED
    BY <2>2
<1>2. IsFiniteSet(Slots(c))
  BY WellShapedSlots, Zenon
<1> QED
  BY <1>1, <1>2, SumType, OpenSlotsIsSum, Zenon

(* A team with an open place requires some slot.                           *)
LEMMA OpenSlotRequired ==
  ASSUME NEW c, WellShaped(c), NEW row \in [Slots(c) -> Int], OpenSlots(c, row) > 0
  PROVE  \E s \in Slots(c) : row[s] > 0
<1>1. SUFFICES ASSUME \A s \in Slots(c) : ~(row[s] > 0) PROVE FALSE
  BY Zenon
<1>2. \A s \in Slots(c) : OpenAt(c, row)[s] = 0
  BY <1>1, OpenAtType, Zenon
<1>3. IsFiniteSet(Slots(c))
  BY WellShapedSlots, Zenon
<1>4. OpenSlots(c, row) = 0
  BY <1>2, <1>3, SumOfZeros, OpenSlotsIsSum, Zenon
<1> QED
  BY <1>4

(* One required slot charged is one open place less.                       *)
LEMMA OneSlotCharged ==
  ASSUME NEW c, WellShaped(c), NEW row \in [Slots(c) -> Int], NEW i \in Slots(c), row[i] > 0
  PROVE  OpenSlots(c, row) = OpenSlots(c, [row EXCEPT ![i] = @ - 1]) + 1
<1>1. PICK new : new = [row EXCEPT ![i] = @ - 1]
  OBVIOUS
<1>2. new \in [Slots(c) -> Int] /\ new[i] = row[i] - 1 /\ \A s \in Slots(c) \ {i} : new[s] = row[s]
  BY <1>1
<1>3. PICK f, g : f = OpenAt(c, new) /\ g = OpenAt(c, row)
  BY Zenon
<1>4. ASSUME NEW s \in Slots(c) PROVE f[s] \in Nat
  <2>1. PICK n \in Int : n = new[s]
    BY <1>2, Zenon
  <2>2. f[s] = IF n > 0 THEN n ELSE 0
    BY <1>2, <1>3, <2>1, OpenAtType, Zenon
  <2> QED
    BY <2>2
<1>5. g[i] = f[i] + 1
  <2>1. PICK n, m : n = row[i] /\ m = new[i]
    BY Zenon
  <2>2. f[i] = (IF m > 0 THEN m ELSE 0) /\ g[i] = IF n > 0 THEN n ELSE 0
    BY <1>2, <1>3, <2>1, OpenAtType, Zenon
  <2>3. n \in Int /\ n > 0 /\ m = n - 1
    BY <1>2, <2>1, Zenon
  <2> QED
    BY <2>2, <2>3
<1>6. \A s \in Slots(c) \ {i} : g[s] = f[s]
  BY <1>2, <1>3, Zenon DEF OpenAt
<1>7. IsFiniteSet(Slots(c))
  BY WellShapedSlots, Zenon
<1>8. SumOver(Slots(c), g) = SumOver(Slots(c), f) + 1
  BY <1>4, <1>5, <1>6, <1>7, SumGrows, Zenon
<1> QED
  BY <1>1, <1>3, <1>7, <1>8, OpenSlotsIsSum, Zenon

(* A pick takes at most one of a team's open places.                       *)
LEMMA OnePlaceAtMost ==
  ASSUME NEW c, WellShaped(c), NEW row \in [Slots(c) -> Int], NEW position
  PROVE  OpenSlots(c, row) <= OpenSlots(c, fill_slot(c, row, position)) + 1
<1> DEFINE open == OpenFlexSlots(c, row, position)
<1>1. ASSUME NEW i \in Slots(c), row[i] > 0, fill_slot(c, row, position) = [row EXCEPT ![i] = @ - 1]
      PROVE  OpenSlots(c, row) <= OpenSlots(c, fill_slot(c, row, position)) + 1
  <2>1. PICK new : new = [row EXCEPT ![i] = @ - 1]
    OBVIOUS
  <2>2. new \in [Slots(c) -> Int]
    BY <2>1
  <2>3. OpenSlots(c, row) = OpenSlots(c, new) + 1
    <3>1. OpenSlots(c, row) = OpenSlots(c, [row EXCEPT ![i] = @ - 1]) + 1
      BY <1>1, OneSlotCharged
    <3> QED
      BY <2>1, <3>1, Zenon
  <2>4. OpenSlots(c, new) \in Nat
    BY <2>2, OpenSlotsType, Zenon
  <2>5. fill_slot(c, row, position) = new
    BY <1>1, <2>1, Zenon
  <2> QED
    BY <2>3, <2>4, <2>5
<1>2. CASE position \in Slots(c) /\ row[position] > 0
  <2>1. fill_slot(c, row, position) = [row EXCEPT ![position] = @ - 1]
    BY <1>2, Zenon DEF fill_slot
  <2> QED
    BY <1>1, <1>2, <2>1, Zenon
<1>3. CASE ~(position \in Slots(c) /\ row[position] > 0) /\ open # {}
  <2>1. fill_slot(c, row, position) = [row EXCEPT ![Min(open)] = @ - 1]
    BY <1>3, Zenon DEF fill_slot
  <2>2. open \in SUBSET Nat
    BY SlotsAreNaturals, Zenon DEF OpenFlexSlots
  <2>3. Min(open) \in open
    <3> HIDE DEF open
    <3> QED
      BY <1>3, <2>2, MinIsMember, Zenon
  <2>4. Min(open) \in Slots(c) /\ row[Min(open)] > 0
    BY <2>3, Zenon DEF OpenFlexSlots
  <2> HIDE DEF open
  <2> QED
    BY <1>1, <2>1, <2>4, Zenon
<1>4. CASE ~(position \in Slots(c) /\ row[position] > 0) /\ open = {}
  <2>1. fill_slot(c, row, position) = row
    BY <1>4, Zenon DEF fill_slot
  <2>2. OpenSlots(c, row) \in Nat
    BY OpenSlotsType, Zenon
  <2>3. PICK n \in Nat : n = OpenSlots(c, row)
    BY <2>2
  <2>4. n <= n + 1
    OBVIOUS
  <2> QED
    BY <2>1, <2>3, <2>4, Zenon
<1> QED
  BY <1>2, <1>3, <1>4, Zenon

(* A pick made is one less to come for its team.                           *)
ToCome(o, made, team) == { p \in DOMAIN o : p >= made /\ o[p] = team }

(* Pick k is one less to come for the team that makes it, and for no other.*)
OneLessToCome(o, k, team) ==
  /\ PicksLeft(o, k, team) \in Nat
  /\ PicksLeft(o, k + 1, team) \in Nat
  /\ team = o[k] => PicksLeft(o, k, team) = PicksLeft(o, k + 1, team) + 1
  /\ team # o[k] => PicksLeft(o, k, team) = PicksLeft(o, k + 1, team)

(* So it is in every order of the picks of a draft.                        *)
LEMMA PicksToCome ==
  ASSUME NEW n \in Nat, NEW T, NEW o \in [0 .. n - 1 -> T], NEW k \in 0 .. n - 1, NEW team
  PROVE  OneLessToCome(o, k, team)
<1>1. \A m : IsFiniteSet(ToCome(o, m, team)) /\ Cardinality(ToCome(o, m, team)) \in Nat
  <2>1. IsFiniteSet(0 .. n - 1)
    <3>1. 0 \in Int /\ n - 1 \in Int
      OBVIOUS
    <3> QED
      BY <3>1, FS_Interval, Zenon
  <2>2. \A m : ToCome(o, m, team) \in SUBSET (0 .. n - 1)
    BY Zenon DEF ToCome
  <2> QED
    BY <2>1, <2>2, FS_Subset, FS_CardinalityType, Zenon
<1>2. \A m : PicksLeft(o, m, team) = Cardinality(ToCome(o, m, team))
  BY Zenon DEF PicksLeft, ToCome
<1>3. CASE team = o[k]
  <2>1. k \in ToCome(o, k, team) /\ ToCome(o, k + 1, team) = ToCome(o, k, team) \ {k}
    BY <1>3 DEF ToCome
  <2>2. Cardinality(ToCome(o, k, team) \ {k}) = Cardinality(ToCome(o, k, team)) - 1
    BY <1>1, <2>1, FS_RemoveElement, Zenon
  <2>3. PicksLeft(o, k + 1, team) = PicksLeft(o, k, team) - 1
    BY <1>2, <2>1, <2>2, Zenon
  <2>4. PicksLeft(o, k, team) \in Nat /\ PicksLeft(o, k + 1, team) \in Nat
    BY <1>1, <1>2, Zenon
  <2>5. PicksLeft(o, k, team) = PicksLeft(o, k + 1, team) + 1
    BY <2>3, <2>4
  <2> QED
    BY <1>3, <2>4, <2>5, Zenon DEF OneLessToCome
<1>4. CASE team # o[k]
  <2>1. ToCome(o, k + 1, team) = ToCome(o, k, team)
    BY <1>4 DEF ToCome
  <2> QED
    BY <1>1, <1>2, <1>4, <2>1, Zenon DEF OneLessToCome
<1> QED
  BY <1>3, <1>4, Zenon

(* A pick takes at most one of the players a query may find.               *)
FreeFrom(mark, ids) == { id \in Ids : id >= mark /\ id \notin ids }

(* The free players are finitely many, and a pick is at most one of them.  *)
LEMMA OnePlayerAtMost ==
  ASSUME PoolTypeOK, NEW mark, NEW ids, NEW id
  PROVE  /\ Cardinality(FreeFrom(mark, ids)) \in Nat
         /\ Cardinality(FreeFrom(mark, ids \cup {id})) \in Nat
         /\ Cardinality(FreeFrom(mark, ids))
              <= Cardinality(FreeFrom(mark, ids \cup {id})) + 1
<1>1. IsFiniteSet(Ids)
  <2>1. Len(players) \in Nat
    BY DEF PoolTypeOK
  <2>2. 0 \in Int /\ Len(players) - 1 \in Int
    BY <2>1
  <2> QED
    BY <2>2, FS_Interval, Zenon DEF Ids, number_of_players
<1>2. \A J : IsFiniteSet(FreeFrom(mark, J)) /\ Cardinality(FreeFrom(mark, J)) \in Nat
  <2>1. \A J : FreeFrom(mark, J) \in SUBSET Ids
    BY Zenon DEF FreeFrom
  <2> QED
    BY <1>1, <2>1, FS_Subset, FS_CardinalityType, Zenon
<1>3. CASE id \in FreeFrom(mark, ids)
  <2>1. FreeFrom(mark, ids \cup {id}) = FreeFrom(mark, ids) \ {id}
    BY Zenon DEF FreeFrom
  <2>2. Cardinality(FreeFrom(mark, ids) \ {id}) = Cardinality(FreeFrom(mark, ids)) - 1
    BY <1>2, <1>3, FS_RemoveElement, Zenon
  <2>3. PICK m, n \in Nat : /\ m = Cardinality(FreeFrom(mark, ids))
                            /\ n = Cardinality(FreeFrom(mark, ids \cup {id}))
    BY <1>2, Zenon
  <2>4. n = m - 1
    BY <2>1, <2>2, <2>3, Zenon
  <2>5. m <= n + 1
    BY <2>3, <2>4
  <2> QED
    BY <1>2, <2>3, <2>5, Zenon
<1>4. CASE id \notin FreeFrom(mark, ids)
  <2>1. FreeFrom(mark, ids \cup {id}) = FreeFrom(mark, ids)
    BY <1>4, Zenon DEF FreeFrom
  <2>2. PICK m \in Nat : m = Cardinality(FreeFrom(mark, ids))
    BY <1>2, Zenon
  <2>3. m <= m + 1
    BY <2>2
  <2> QED
    BY <1>2, <2>1, <2>2, <2>3, Zenon
<1> QED
  BY <1>3, <1>4

(* The rosters rebuilt from picks are rows of counts.                      *)
Rosters(c) == [Teams(c) -> [Slots(c) -> Int]]

(* They are still with one pick charged,                                   *)
LEMMA ChargedRosters ==
  ASSUME NEW c, NEW r \in Rosters(c), NEW made
  PROVE  charge(c, r, made) \in Rosters(c)
<1>1. PICK team, position : /\ team = made.by_team
                            /\ position = get_player_by_id(made.player_id).position
  BY Zenon
<1>2. charge(c, r, made) = [r EXCEPT ![team] = fill_slot(c, r[team], position)]
  BY <1>1, Zenon DEF charge
<1>3. CASE team \in Teams(c)
  <2>1. PICK row : row = fill_slot(c, r[team], position)
    OBVIOUS
  <2>2. row \in [Slots(c) -> Int]
    BY <1>3, <2>1, FillSlotType, Zenon DEF Rosters
  <2> QED
    BY <1>2, <1>3, <2>1, <2>2, Zenon DEF Rosters
<1>4. CASE team \notin Teams(c)
  <2>1. [r EXCEPT ![team] = fill_slot(c, r[team], position)] = r
    BY <1>4, Zenon DEF Rosters
  <2> QED
    BY <1>2, <2>1, Zenon
<1> QED
  BY <1>3, <1>4

(* and with all of them.                                                   *)
LEMMA ContextType ==
  ASSUME NEW c, WellShaped(c), NEW t, Len(t) \in Nat
  PROVE  create_search_context(c, t) \in Rosters(c)
<1> DEFINE n == Len(t)
<1>1. PICK g : Run(c, t, n, g) /\ create_search_context(c, t) = g[n]
  BY ContextIsRun, Zenon
<1>2. g[0] \in Rosters(c)
  <2>1. c.num_required \in [Slots(c) -> Int]
    BY DEF WellShaped
  <2> QED
    BY <1>1, <2>1, Zenon DEF Run, InitialRequirements, Rosters
<1> DEFINE Bad == { k \in 0 .. n : g[k] \notin Rosters(c) }
<1>3. ASSUME Bad # {} PROVE FALSE
  <2>1. PICK k \in Bad : \A y \in Bad : k <= y
    <3>1. Bad \in SUBSET Nat
      OBVIOUS
    <3> HIDE DEF Bad
    <3> QED
      BY <1>3, <3>1, MinIsLeast, Zenon
  <2>2. k \in 1 .. n /\ k - 1 \in 0 .. n /\ ~(k <= k - 1)
    <3>1. k # 0
      BY <1>2, Zenon
    <3> QED
      BY <3>1
  <2>3. g[k - 1] \in Rosters(c)
    BY <2>1, <2>2, Zenon
  <2>4. g[k] = charge(c, g[k - 1], t[k])
    BY <1>1, <2>2, Zenon DEF Run
  <2> QED
    BY <2>3, <2>4, ChargedRosters, Zenon
<1>4. n \in 0 .. n
  OBVIOUS
<1> QED
  BY <1>1, <1>3, <1>4, Zenon

(* What simulate_score needs of a draft to play it out.                    *)
PlayersOf(b) == { b[i].player_id : i \in DOMAIN b }

(* Places for every pick, and players for every query, of the rest of the  *)
(* draft.                                                                  *)
Suffices(c, o, b) ==
  /\ TeamsHaveRoom(c, o, b, create_search_context(c, b))
  /\ PlayersSuffice(c, b, PlayersOf(b))

(* It still has it after a pick by the team on the clock.                  *)
LEMMA RoomAfterPick ==
  ASSUME NEW c, WellShaped(c), NEW o \in [0 .. get_number_of_picks(c) - 1 -> Teams(c)],
         NEW S, NEW b \in Seq(S), Len(b) < get_number_of_picks(c),
         TeamsHaveRoom(c, o, b, create_search_context(c, b)),
         NEW made, made.by_team = o[Len(b)], NEW d, d = Append(b, made)
  PROVE  TeamsHaveRoom(c, o, d, create_search_context(c, d))
<1>1. PICK N, k, r, q : /\ N = get_number_of_picks(c) /\ k = Len(b)
                        /\ r = create_search_context(c, b) /\ q = create_search_context(c, d)
  BY Zenon
<1>2. N \in Nat /\ k \in Nat /\ k \in 0 .. N - 1 /\ Len(d) = k + 1
  <2>1. N \in Nat
    BY <1>1, Zenon DEF WellShaped
  <2>2. k \in Nat /\ Len(d) = k + 1
    BY <1>1
  <2>3. k < N
    BY <1>1, Zenon
  <2> QED
    BY <2>1, <2>2, <2>3
<1>3. r \in Rosters(c) /\ q = charge(c, r, made)
  <2>1. Len(b) \in Nat
    BY <1>1, <1>2, Zenon
  <2>2. create_search_context(c, Append(b, made)) = charge(c, create_search_context(c, b), made)
    BY ContextAppend
  <2> QED
    BY <1>1, <2>1, <2>2, ContextType, Zenon
<1>4. ASSUME NEW t \in Teams(c) PROVE PicksLeft(o, k + 1, t) <= OpenSlots(c, q[t])
  <2>1. PicksLeft(o, k, t) <= OpenSlots(c, r[t])
    BY <1>1, Zenon DEF TeamsHaveRoom
  <2>2. r[t] \in [Slots(c) -> Int]
    BY <1>3, Zenon DEF Rosters
  <2>3. PICK position : position = get_player_by_id(made.player_id).position
    OBVIOUS
  <2>4. q = [r EXCEPT ![o[k]] = fill_slot(c, r[o[k]], position)]
    BY <1>1, <1>3, <2>3, Zenon DEF charge
  <2>5. /\ PicksLeft(o, k, t) \in Nat /\ PicksLeft(o, k + 1, t) \in Nat
        /\ t = o[k] => PicksLeft(o, k, t) = PicksLeft(o, k + 1, t) + 1
        /\ t # o[k] => PicksLeft(o, k, t) = PicksLeft(o, k + 1, t)
    <3>1. o \in [0 .. N - 1 -> Teams(c)]
      BY <1>1, Zenon
    <3>2. OneLessToCome(o, k, t)
      BY <1>2, <3>1, PicksToCome, Zenon
    <3> QED
      BY <3>2, Zenon DEF OneLessToCome
  <2>6. CASE t # o[k]
    <3>1. q[t] = r[t]
      BY <1>3, <2>4, <2>6, Zenon DEF Rosters
    <3> QED
      BY <2>1, <2>5, <2>6, <3>1, Zenon
  <2>7. CASE t = o[k]
    <3>1. PICK new : new = fill_slot(c, r[t], position)
      OBVIOUS
    <3>2. q[t] = new
      BY <1>3, <2>4, <2>7, <3>1, Zenon DEF Rosters
    <3>3. OpenSlots(c, r[t]) <= OpenSlots(c, new) + 1
      BY <2>2, <3>1, OnePlaceAtMost, Zenon
    <3>4. OpenSlots(c, r[t]) \in Nat /\ OpenSlots(c, new) \in Nat
      BY <2>2, <3>1, FillSlotType, OpenSlotsType, Zenon
    <3>5. PicksLeft(o, k, t) = PicksLeft(o, k + 1, t) + 1
      BY <2>5, <2>7, Zenon
    <3>6. PicksLeft(o, k + 1, t) <= OpenSlots(c, new)
      BY <2>1, <2>5, <3>3, <3>4, <3>5
    <3> QED
      BY <3>2, <3>6, Zenon
  <2> QED
    BY <2>6, <2>7
<1> QED
  BY <1>1, <1>2, <1>4, Zenon DEF TeamsHaveRoom

(* And as many players as it needs.                                        *)
LEMMA PlayersAfterPick ==
  ASSUME PoolTypeOK, NEW c, WellShaped(c),
         NEW S, NEW b \in Seq(S), Len(b) < get_number_of_picks(c),
         PlayersSuffice(c, b, PlayersOf(b)),
         NEW made, NEW d, d = Append(b, made)
  PROVE  PlayersSuffice(c, d, PlayersOf(d))
<1>1. PICK N, k, id : N = get_number_of_picks(c) /\ k = Len(b) /\ id = made.player_id
  BY Zenon
<1>2. N \in Nat /\ k \in Nat /\ Len(d) = k + 1
  <2>1. N \in Nat
    BY <1>1, Zenon DEF WellShaped
  <2>2. k \in Nat /\ Len(d) = k + 1
    BY <1>1
  <2> QED
    BY <2>1, <2>2
<1>3. PlayersOf(d) = PlayersOf(b) \cup {id}
  <2>1. /\ DOMAIN b = 1 .. k /\ DOMAIN d = 1 .. k + 1
        /\ \A i \in 1 .. k : d[i] = b[i]
        /\ d[k + 1] = made
    <3>1. \A i \in 1 .. Len(b) : Append(b, made)[i] = b[i]
      BY AppendFacts
    <3>2. Append(b, made)[Len(b) + 1] = made
      BY AppendFacts
    <3>3. DOMAIN b = 1 .. k /\ DOMAIN d = 1 .. k + 1
      BY <1>1
    <3> QED
      BY <1>1, <3>1, <3>2, <3>3, Zenon
  <2>2. 1 .. k + 1 = (1 .. k) \cup {k + 1}
    BY <1>2
  <2>3. PlayersOf(b) = { b[i].player_id : i \in 1 .. k }
    BY <2>1, Zenon DEF PlayersOf
  <2>4. PlayersOf(d) = { d[i].player_id : i \in (1 .. k) \cup {k + 1} }
    BY <2>1, <2>2, Zenon DEF PlayersOf
  <2>5. ASSUME NEW x \in PlayersOf(d) PROVE x \in PlayersOf(b) \/ x = id
    <3>1. PICK i \in (1 .. k) \cup {k + 1} : x = d[i].player_id
      BY <2>4, Zenon
    <3>2. CASE i \in 1 .. k
      BY <2>1, <2>3, <3>1, <3>2, Zenon
    <3>3. CASE i = k + 1
      BY <1>1, <2>1, <3>1, <3>3, Zenon
    <3> QED
      BY <3>2, <3>3
  <2>6. \A x : x \in PlayersOf(b) => x \in PlayersOf(d)
    BY <2>1, <2>3, <2>4, Zenon
  <2>7. id \in PlayersOf(d)
    BY <1>1, <2>1, <2>4, Zenon
  <2> QED
    BY <2>5, <2>6, <2>7, Zenon
<1>4. ASSUME NEW s \in QueriedSlots(c)
      PROVE  Cardinality(FreeFrom(slot_markers[s], PlayersOf(d))) >= N - (k + 1)
  <2>1. Cardinality(FreeFrom(slot_markers[s], PlayersOf(b))) >= N - k
    BY <1>1, Zenon DEF PlayersSuffice, FreeFrom
  <2>2. PICK m, n \in Nat : /\ m = Cardinality(FreeFrom(slot_markers[s], PlayersOf(b)))
                            /\ n = Cardinality(FreeFrom(slot_markers[s], PlayersOf(b) \cup {id}))
                            /\ m <= n + 1
    BY OnePlayerAtMost, Zenon
  <2>3. m >= N - k
    BY <2>1, <2>2, Zenon
  <2>4. n >= N - (k + 1)
    BY <1>2, <2>2, <2>3
  <2> QED
    BY <1>3, <2>2, <2>4, Zenon
<1>5. \A j \in Ids : j \in PlayersOf(d) \/ points(j) > 0
  BY <1>3, Zenon DEF PlayersSuffice
<1> QED
  BY <1>1, <1>2, <1>4, <1>5, Zenon DEF PlayersSuffice, FreeFrom

(* And while it does, every query of the team on the clock finds a player. *)
LEMMA FreeIsFound ==
  ASSUME NEW mark, NEW ids, FreeFrom(mark, ids) # {}
  PROVE  FirstFreeFrom(mark, ids) \in Ids \ ids /\ FirstFreeFrom(mark, ids) # NoPlayer
<1>1. FirstFreeFrom(mark, ids) = Min(FreeFrom(mark, ids))
  BY Zenon DEF FirstFreeFrom, FreeFrom
<1>2. FreeFrom(mark, ids) \in SUBSET Nat
  BY IdsAreNaturals, Zenon DEF FreeFrom
<1>3. Min(FreeFrom(mark, ids)) \in FreeFrom(mark, ids)
  BY <1>2, MinIsMember, Zenon
<1> QED
  BY <1>1, <1>2, <1>3, NoPlayerAssumption, Zenon DEF FreeFrom

(* No flex query meets NULL, and every slot has a player to give.          *)
LEMMA QueriesFind ==
  ASSUME PoolTypeOK, NEW c, WellShaped(c), NEW b, Len(b) \in Nat,
         Len(b) < get_number_of_picks(c),
         PlayersSuffice(c, b, PlayersOf(b)), NEW s \in Slots(c)
  PROVE  /\ ~FlexFaults(c, s, PlayersOf(b))
         /\ whos_highest_projected(c, s, PlayersOf(b)) # NoPlayer
<1>1. PICK ids : ids = PlayersOf(b)
  OBVIOUS
<1>2. ASSUME NEW q \in QueriedSlots(c)
      PROVE  /\ FirstFreeFrom(slot_markers[q], ids) \in Ids \ ids
             /\ FirstFreeFrom(slot_markers[q], ids) # NoPlayer
  <2>1. PICK n : n = Cardinality(FreeFrom(slot_markers[q], ids))
    OBVIOUS
  <2>2. n >= get_number_of_picks(c) - Len(b)
    BY <1>1, <2>1, Zenon DEF PlayersSuffice, FreeFrom
  <2>3. get_number_of_picks(c) \in Nat
    BY Zenon DEF WellShaped
  <2>4. n # 0
    BY <2>2, <2>3
  <2>5. FreeFrom(slot_markers[q], ids) # {}
    BY <2>1, <2>4, FS_EmptySet, Zenon
  <2> QED
    BY <2>5, FreeIsFound, Zenon
<1>3. CASE ~is_flex_slot(c, s)
  <2>1. s \in QueriedSlots(c)
    BY <1>3, Zenon DEF QueriedSlots, RealSlots
  <2> QED
    BY <1>1, <1>2, <1>3, <2>1, Zenon DEF FlexFaults, whos_highest_projected
<1>4. CASE is_flex_slot(c, s)
  <2>0. /\ DOMAIN c.flex[s] \subseteq Nat /\ IsFiniteSet(DOMAIN c.flex[s])
        /\ DOMAIN c.flex[s] # {}
    BY <1>4, Zenon DEF WellShaped
  <2> DEFINE D == DOMAIN c.flex[s]
             found == OptionResults(c, s, ids)
             best == { j \in DOMAIN found :
                         /\ points(found[j]) > 0
                         /\ \A k \in DOMAIN found : points(found[k]) <= points(found[j]) }
             value == [j \in D |-> points(found[j])]
  <2>1. D \in SUBSET Nat /\ IsFiniteSet(D) /\ D # {}
    BY <2>0, Zenon
  <2>2. DOMAIN found = D
    BY Zenon DEF OptionResults
  <2>3. ASSUME NEW j \in D PROVE found[j] \in Ids \ ids /\ found[j] # NoPlayer
    <3>1. c.flex[s][j] \in Range(c.flex[s])
      BY Zenon DEF Range
    <3>2. c.flex[s][j] \in QueriedSlots(c)
      BY <3>1, Zenon DEF QueriedSlots
    <3>3. found[j] = FirstFreeFrom(slot_markers[c.flex[s][j]], ids)
      BY Zenon DEF OptionResults
    <3> QED
      BY <1>2, <3>2, <3>3, Zenon
  <2>4. ~FlexFaults(c, s, ids)
    <3> HIDE DEF found
    <3>1. NoPlayer \notin Range(found)
      BY <2>2, <2>3, Zenon DEF Range
    <3> QED
      BY <3>1, Zenon DEF FlexFaults, found
  <2>5. ASSUME NEW j \in D PROVE points(found[j]) \in Nat /\ points(found[j]) > 0
    <3>1. PICK id : id = found[j]
      OBVIOUS
    <3>2. id \in Ids \ ids
      BY <2>3, <3>1, Zenon
    <3>3. points(id) > 0
      BY <1>1, <3>2, Zenon DEF PlayersSuffice
    <3>4. points(id) \in Nat
      <4>1. id \in Nat /\ id + 1 \in 1 .. Len(players)
        <5>1. players \in Seq(PlayerRecord)
          BY Zenon DEF PoolTypeOK
        <5> QED
          BY <3>2, <5>1 DEF Ids, number_of_players
      <4>2. players[id + 1] \in PlayerRecord
        BY <4>1 DEF PoolTypeOK
      <4> QED
        BY <4>2 DEF PlayerRecord, points
    <3> QED
      BY <3>1, <3>3, <3>4, Zenon
  <2>6. best # {}
    <3>1. value \in [D -> Int]
      BY <2>5
    <3>2. \E j \in D : \A k \in D : value[k] <= value[j]
      <4> HIDE DEF value, D
      <4> QED
        BY <2>1, <3>1, MaxExists, Zenon
    <3>3. PICK j \in D : \A k \in D : points(found[k]) <= points(found[j])
      BY <3>2, Zenon
    <3>4. j \in best
      BY <2>2, <2>5, <3>3, Zenon
    <3> QED
      BY <3>4, Zenon
  <2>7. Min(best) \in best
    <3>1. best \in SUBSET Nat
      BY <2>1, <2>2, Zenon
    <3> HIDE DEF best
    <3> QED
      BY <2>6, <3>1, MinIsMember, Zenon
  <2>8. whos_highest_projected(c, s, ids) = found[Min(best)]
    BY <1>4, <2>6, Zenon DEF whos_highest_projected
  <2>9. Min(best) \in D
    BY <2>2, <2>7, Zenon
  <2> HIDE DEF best, found
  <2> QED
    BY <1>1, <2>3, <2>4, <2>8, <2>9, Zenon
<1> QED
  BY <1>3, <1>4, Zenon

(* The team on the clock still requires a slot, and a player is found.     *)
LEMMA TeamFindsPick ==
  ASSUME PoolTypeOK, NEW c, WellShaped(c),
         NEW o \in [0 .. get_number_of_picks(c) - 1 -> Teams(c)], NEW b, Len(b) \in Nat,
         Len(b) < get_number_of_picks(c), Suffices(c, o, b)
  PROVE  BestPicks(c, create_search_context(c, b)[o[Len(b)]], PlayersOf(b)) # {}
<1>1. PICK N, k, r, t : /\ N = get_number_of_picks(c) /\ k = Len(b)
                        /\ r = create_search_context(c, b) /\ t = o[k]
  BY Zenon
<1>2. N \in Nat /\ k \in Nat /\ k \in 0 .. N - 1
  <2>1. N \in Nat
    BY <1>1, Zenon DEF WellShaped
  <2>2. k < N /\ k \in Nat
    BY <1>1, Zenon
  <2> QED
    BY <2>1, <2>2
<1>3. t \in Teams(c)
  BY <1>1, <1>2, Zenon
<1>4. r[t] \in [Slots(c) -> Int]
  BY <1>1, <1>3, ContextType, Zenon DEF Rosters
<1>5. OpenSlots(c, r[t]) > 0
  <2>1. PicksLeft(o, k, t) <= OpenSlots(c, r[t])
    BY <1>1, <1>3, Zenon DEF Suffices, TeamsHaveRoom
  <2>2. PicksLeft(o, k + 1, t) \in Nat /\ PicksLeft(o, k, t) = PicksLeft(o, k + 1, t) + 1
    <3>1. o \in [0 .. N - 1 -> Teams(c)]
      BY <1>1, Zenon
    <3>2. OneLessToCome(o, k, t)
      BY <1>2, <3>1, PicksToCome, Zenon
    <3> QED
      BY <1>1, <3>2, Zenon DEF OneLessToCome
  <2>3. OpenSlots(c, r[t]) \in Nat
    BY <1>4, OpenSlotsType, Zenon
  <2> QED
    BY <2>1, <2>2, <2>3
<1>6. PICK s \in Slots(c) : r[t][s] > 0
  BY <1>4, <1>5, OpenSlotRequired, Zenon
<1>7. whos_highest_projected(c, s, PlayersOf(b)) # NoPlayer
  BY QueriesFind, Zenon DEF Suffices
<1>8. s \in RootChildren(c, r[t], PlayersOf(b))
  BY <1>6, <1>7, Zenon DEF RootChildren
<1> QED
  BY <1>1, <1>8, Zenon DEF BestPicks
=============================================================================
