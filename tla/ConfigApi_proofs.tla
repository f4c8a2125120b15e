--------------------------- MODULE ConfigApi_proofs ---------------------------
(***************************************************************************)
(* Proofs about ConfigApi, for every set of names, values and texts: the   *)
(* settings of a configuration form a tree in which paths lead to one      *)
(* setting, arrays filled by the C++ classes keep to one type, wrapper     *)
(* objects die with their settings, and what is set is found again.        *)
(*                                                                         *)
(* The argument goes by way of what one operation of Settings makes of a   *)
(* tree: a removal renames the paths behind it, an addition grows it at    *)
(* the end of a parent, everything else changes one setting in place.  The *)
(* parser of ConfigText is a sequence of these, and keeps in mind which    *)
(* setting it is in.                                                       *)
(***************************************************************************)
EXTENDS ConfigApi, Sums_proofs, SequenceTheorems

-----------------------------------------------------------------------------
(* Paths.                                                                  *)

Paths == Seq(Nat)

LEMMA PathType ==
  ASSUME NEW q \in Paths
  PROVE  Len(q) \in Nat /\ DOMAIN q = 1 .. Len(q) /\ \A i \in 1 .. Len(q) : q[i] \in Nat
BY DEF Paths

LEMMA PathsEqual ==
  ASSUME NEW p \in Paths, NEW q \in Paths, Len(p) = Len(q),
         \A i \in 1 .. Len(p) : p[i] = q[i]
  PROVE  p = q
BY SeqEqual, Zenon DEF Paths

(* What Front, Last and Append do with a path.                             *)
LEMMA PathParts ==
  ASSUME NEW q \in Paths, q # <<>>
  PROVE  /\ Len(q) \in Nat \ {0}
         /\ Front(q) \in Paths
         /\ Len(Front(q)) = Len(q) - 1
         /\ \A i \in 1 .. Len(q) - 1 : Front(q)[i] = q[i]
         /\ Last(q) \in Nat /\ Last(q) = q[Len(q)]
         /\ q = Append(Front(q), Last(q))
<1>1. Len(q) \in Nat \ {0}
  BY DEF Paths
<1>2. /\ Front(q) \in Paths
      /\ Len(Front(q)) = Len(q) - 1
      /\ \A i \in 1 .. Len(q) - 1 : Front(q)[i] = q[i]
  <2>1. q \in Seq(Nat) /\ Len(q) - 1 \in 0 .. Len(q) /\ Front(q) = SubSeq(q, 1, Len(q) - 1)
    BY <1>1 DEF Paths, Front
  <2>2. \A n \in 0 .. Len(q) : /\ SubSeq(q, 1, n) \in Seq(Nat)
                               /\ Len(SubSeq(q, 1, n)) = n
                               /\ \A i \in 1 .. n : SubSeq(q, 1, n)[i] = q[i]
    BY <2>1
  <2> QED
    BY <2>1, <2>2, Zenon DEF Paths
<1>3. Last(q) \in Nat /\ Last(q) = q[Len(q)]
  BY <1>1 DEF Paths, Last
<1> DEFINE r == Append(Front(q), Last(q))
<1>4. r \in Paths /\ Len(r) = Len(q) /\ \A i \in 1 .. Len(q) : r[i] = q[i]
  <2> DEFINE f == Front(q)
             l == Last(q)
  <2>1. f \in Seq(Nat) /\ l \in Nat /\ Len(f) = Len(q) - 1
    BY <1>2, <1>3 DEF Paths
  <2>2. \A i \in 1 .. Len(q) - 1 : f[i] = q[i]
    BY <1>2
  <2> HIDE DEF f, l
  <2>3. Append(f, l) \in Seq(Nat) /\ Len(Append(f, l)) = Len(q)
    BY <1>1, <2>1
  <2>4. \A i \in 1 .. Len(q) - 1 : Append(f, l)[i] = q[i]
    BY <1>1, <2>1, <2>2
  <2>5. Append(f, l)[Len(q)] = l
    BY <1>1, <2>1
  <2> QED
    BY <1>1, <1>3, <2>3, <2>4, <2>5, SMTT(60) DEF f, l, Paths
<1>5. r = q
  <2> HIDE DEF r
  <2> QED
    BY <1>4, PathsEqual
<1> QED
  BY <1>1, <1>2, <1>3, <1>5

LEMMA PathExtended ==
  ASSUME NEW p \in Paths, NEW i \in Nat
  PROVE  /\ Append(p, i) \in Paths /\ Append(p, i) # <<>>
         /\ Len(Append(p, i)) = Len(p) + 1
         /\ \A k \in 1 .. Len(p) : Append(p, i)[k] = p[k]
         /\ Append(p, i)[Len(p) + 1] = i
         /\ Front(Append(p, i)) = p
         /\ Last(Append(p, i)) = i
BY DEF Paths, Front, Last

LEMMA RootPath == <<>> \in Paths /\ Len(<<>>) = 0 /\ \A q \in Paths : Len(q) = 0 <=> q = <<>>
BY DEF Paths

(* A path is below another when it begins with its steps.                  *)
LEMMA PrefixMeans ==
  ASSUME NEW p \in Paths, NEW q \in Paths
  PROVE  /\ IsPrefix(p, q) <=> Len(p) <= Len(q) /\ \A i \in 1 .. Len(p) : p[i] = q[i]
         /\ IsStrictPrefix(p, q) <=> Len(p) < Len(q) /\ \A i \in 1 .. Len(p) : p[i] = q[i]
<1>1. Len(p) \in Nat /\ Len(q) \in Nat
  BY PathType
<1>2. ASSUME Len(p) <= Len(q)
      PROVE  SubSeq(p, 1, Len(p)) = SubSeq(q, 1, Len(p)) <=> \A i \in 1 .. Len(p) : p[i] = q[i]
  BY <1>1, <1>2 DEF Paths
<1>3. IsPrefix(p, q) <=> Len(p) <= Len(q) /\ \A i \in 1 .. Len(p) : p[i] = q[i]
  BY <1>2, Zenon DEF IsPrefix
<1>4. ASSUME \A i \in 1 .. Len(p) : p[i] = q[i], Len(p) <= Len(q)
      PROVE  p # q <=> Len(p) < Len(q)
  BY <1>1, <1>4, PathsEqual
<1>5. QED
  BY <1>1, <1>3, <1>4 DEF IsStrictPrefix

-----------------------------------------------------------------------------
(* Sets of paths that form a tree.                                         *)

Shaped(D) ==
  /\ D \in SUBSET Paths /\ IsFiniteSet(D) /\ <<>> \in D
  /\ \A p \in D \ {<<>>} :
       /\ Front(p) \in D
       /\ Last(p) > 0 => Append(Front(p), Last(p) - 1) \in D

(* A finite set of numbers that has, with each, the one before it.         *)
LEMMA Initial ==
  ASSUME NEW S \in SUBSET Nat, IsFiniteSet(S), \A n \in S : n > 0 => n - 1 \in S
  PROVE  /\ Cardinality(S) \in Nat
         /\ \A k \in Nat : k \in S <=> k < Cardinality(S)
<1> DEFINE n == Cardinality(S)
           Missing == { k \in Nat : k \notin S }
<1>1. n \in Nat
  BY FS_CardinalityType, Zenon
<1>2. Missing # {}
  <2>1. ASSUME 0 .. n \subseteq S PROVE FALSE
    <3>1. IsFiniteSet(0 .. n) /\ Cardinality(0 .. n) = n + 1
      BY <1>1, FS_Interval
    <3>2. Cardinality(0 .. n) <= n
      BY <2>1, FS_Subset, Zenon
    <3> QED
      BY <1>1, <3>1, <3>2
  <2> QED
    BY <1>1, <2>1
<1> DEFINE m == Min(Missing)
<1>3. m \in Missing /\ \A y \in Missing : m <= y
  BY <1>2, MinIsLeast
<1>4. m \in Nat /\ m \notin S
  BY <1>3
<1>5. \A k \in Nat : k < m => k \in S
  BY <1>3, <1>4
<1> HIDE DEF m, Missing
<1>6. \A k \in S : k < m
  <2> DEFINE Above == { k \in S : k >= m }
  <2>1. ASSUME Above # {} PROVE FALSE
    <3>1. Min(Above) \in Above /\ \A y \in Above : Min(Above) <= y
      BY <2>1, MinIsLeast
    <3> DEFINE k == Min(Above)
    <3>2. k \in S /\ k \in Nat /\ k >= m /\ \A y \in Above : k <= y
      BY <3>1
    <3> HIDE DEF k
    <3>3. k # m
      BY <1>4, <3>2, Zenon
    <3>4. k > 0 /\ k - 1 >= m
      BY <1>4, <3>2, <3>3
    <3>5. k - 1 \in S
      BY <3>2, <3>4
    <3> QED
      BY <3>2, <3>4, <3>5
  <2> QED
    BY <1>4, <2>1
<1>7. S = 0 .. m - 1
  <2>1. \A k \in Nat : k \in 0 .. m - 1 <=> k < m
    BY <1>4
  <2>2. \A k \in 0 .. m - 1 : k \in Nat
    BY <1>4
  <2> QED
    BY <1>5, <1>6, <2>1, <2>2, Zenon
<1>8. Cardinality(0 .. m - 1) = m
  BY <1>4, FS_Interval
<1> QED
  BY <1>1, <1>4, <1>5, <1>6, <1>7, <1>8

(* The elements of a setting are numbered from 0.                          *)
LEMMA ElementsAre ==
  ASSUME NEW t, Shaped(DOMAIN t), NEW p \in Paths
  PROVE  /\ config_setting_length(t, p) \in Nat
         /\ \A i \in Nat : Append(p, i) \in DOMAIN t <=> i < config_setting_length(t, p)
         /\ \A i \in Nat : Append(p, i) \in DOMAIN t <=> Append(p, i) \in Elements(t, p)
         /\ \A q \in Elements(t, p) : q \in DOMAIN t /\ Last(q) \in Nat /\ q = Append(p, Last(q))
<1> DEFINE E == Elements(t, p)
           S == { i \in Nat : Append(p, i) \in DOMAIN t }
           f == [q \in E |-> Last(q)]
<1>1. DOMAIN t \in SUBSET Paths /\ IsFiniteSet(DOMAIN t)
  BY Zenon DEF Shaped
<1>2. \A q \in E : q \in DOMAIN t /\ Last(q) \in Nat /\ q = Append(p, Last(q))
  <2> TAKE q \in E
  <2>1. q \in DOMAIN t /\ q \in Paths /\ q # <<>> /\ Front(q) = p
    BY <1>1, Zenon DEF Elements
  <2> QED
    BY <2>1, PathParts
<1>3. \A i \in S : Append(p, i) \in E /\ Last(Append(p, i)) = i
  <2> TAKE i \in S
  <2>1. i \in Nat /\ Append(p, i) \in DOMAIN t
    OBVIOUS
  <2> QED
    BY <2>1, PathExtended, Zenon DEF Elements
<1>4. IsFiniteSet(E)
  <2>1. E \in SUBSET DOMAIN t
    BY <1>2, Zenon
  <2> QED
    BY <1>1, <2>1, FS_Subset, Zenon
<1> HIDE DEF E
<1>5. ExistsBijection(E, S)
  <2>1. f \in [E -> S]
    <3> SUFFICES ASSUME NEW q \in E PROVE Last(q) \in S
      BY Zenon
    <3> QED
      BY <1>2, Zenon
  <2>2. \A a, b \in E : f[a] = f[b] => a = b
    BY <1>2, Zenon
  <2>3. \A i \in S : \E q \in E : f[q] = i
    <3> TAKE i \in S
    <3>1. Append(p, i) \in E /\ Last(Append(p, i)) = i
      BY <1>3, Zenon
    <3> QED
      BY <3>1, Zenon
  <2> HIDE DEF f, S
  <2>4. f \in Injection(E, S) /\ f \in Surjection(E, S)
    BY <2>1, <2>2, <2>3, Zenon DEF Injection, Surjection, IsInjective
  <2> QED
    BY <2>4, Zenon DEF ExistsBijection, Bijection
<1>6. IsFiniteSet(S) /\ Cardinality(S) = Cardinality(E)
  <2> HIDE DEF S
  <2> QED
    BY <1>4, <1>5, FS_Bijection, Zenon
<1>7. \A n \in S : n > 0 => n - 1 \in S
  <2> TAKE n \in S
  <2> HAVE n > 0
  <2>1. n \in Nat /\ n - 1 \in Nat /\ Append(p, n) \in DOMAIN t
    OBVIOUS
  <2>2. Append(p, n) # <<>> /\ Front(Append(p, n)) = p /\ Last(Append(p, n)) = n
    BY <2>1, PathExtended
  <2>3. Append(p, n - 1) \in DOMAIN t
    BY <2>1, <2>2 DEF Shaped
  <2> QED
    BY <2>1, <2>3
<1>8. S \in SUBSET Nat
  BY Zenon
<1>9. Cardinality(S) \in Nat /\ \A k \in Nat : k \in S <=> k < Cardinality(S)
  <2> HIDE DEF S
  <2> QED
    BY <1>6, <1>7, <1>8, Initial
<1>10. config_setting_length(t, p) = Cardinality(S)
  BY <1>6 DEF config_setting_length, E
<1>11. \A i \in Nat : Append(p, i) \in DOMAIN t <=> Append(p, i) \in E
  BY <1>2, <1>3, Zenon
<1> QED
  BY <1>2, <1>9, <1>10, <1>11 DEF E

-----------------------------------------------------------------------------
(* The paths of the settings after one is removed: those that were after   *)
(* it, below the same parent, move up by one.                              *)

Shift(p, i, q) ==
  IF IsStrictPrefix(p, q) /\ q[Len(p) + 1] > i THEN [q EXCEPT ![Len(p) + 1] = @ - 1] ELSE q

Was(p, i, q) ==
  IF IsStrictPrefix(p, q) /\ q[Len(p) + 1] >= i THEN [q EXCEPT ![Len(p) + 1] = @ + 1] ELSE q

Put(q, n, k) == [q EXCEPT ![n] = k]

LEMMA Replaced ==
  ASSUME NEW q \in Paths, NEW n \in 1 .. Len(q), NEW k \in Nat
  PROVE  LET r == Put(q, n, k) IN
         /\ r \in Paths /\ Len(r) = Len(q) /\ r[n] = k
         /\ \A j \in 1 .. Len(q) : j # n => r[j] = q[j]
<1>1. q \in Seq(Nat)
  BY DEF Paths
<1> QED
  BY <1>1, ExceptSeq DEF Paths, Put

(* The paths strictly below p, by the step they take there.                *)
LEMMA BelowMeans ==
  ASSUME NEW p \in Paths, NEW q \in Paths, IsStrictPrefix(p, q)
  PROVE  /\ Len(p) + 1 \in 1 .. Len(q)
         /\ q[Len(p) + 1] \in Nat
         /\ \A j \in 1 .. Len(p) : p[j] = q[j]
<1>1. Len(p) \in Nat /\ Len(q) \in Nat /\ Len(p) < Len(q)
  BY PathType, PrefixMeans
<1>2. Len(p) + 1 \in 1 .. Len(q)
  BY <1>1
<1>3. \A j \in 1 .. Len(p) : p[j] = q[j]
  BY PrefixMeans, Zenon
<1> QED
  BY <1>2, <1>3, PathType, Zenon

(* What is removed with element i of p: it and all below it.               *)
LEMMA RemovedMeans ==
  ASSUME NEW p \in Paths, NEW i \in Nat, NEW q \in Paths
  PROVE  IsPrefix(Append(p, i), q) <=> IsStrictPrefix(p, q) /\ q[Len(p) + 1] = i
<1> DEFINE a == Append(p, i)
<1>1. /\ a \in Paths /\ Len(a) = Len(p) + 1
      /\ \A k \in 1 .. Len(p) : a[k] = p[k]
      /\ a[Len(p) + 1] = i
  BY PathExtended, Zenon
<1> HIDE DEF a
<1>2. Len(p) \in Nat /\ Len(q) \in Nat
  BY PathType
<1>3. IsPrefix(a, q) <=> Len(a) <= Len(q) /\ \A k \in 1 .. Len(a) : a[k] = q[k]
  BY <1>1, PrefixMeans, Zenon
<1>4. IsStrictPrefix(p, q) <=> Len(p) < Len(q) /\ \A k \in 1 .. Len(p) : p[k] = q[k]
  BY PrefixMeans, Zenon
<1>5. (\A k \in 1 .. Len(a) : a[k] = q[k])
        <=> (\A k \in 1 .. Len(p) : p[k] = q[k]) /\ q[Len(p) + 1] = i
  <2>1. \A k : k \in 1 .. Len(a) <=> k \in 1 .. Len(p) \/ k = Len(p) + 1
    BY <1>1, <1>2
  <2> QED
    BY <1>1, <2>1, Zenon
<1> QED
  BY <1>1, <1>2, <1>3, <1>4, <1>5 DEF a

(* Where a setting of the new tree was in the old one.                     *)
LEMMA WasPath ==
  ASSUME NEW p \in Paths, NEW i \in Nat, NEW q \in Paths
  PROVE  /\ Was(p, i, q) \in Paths
         /\ Len(Was(p, i, q)) = Len(q)
         /\ IsStrictPrefix(p, Was(p, i, q)) <=> IsStrictPrefix(p, q)
         /\ ~ IsPrefix(Append(p, i), Was(p, i, q))
         /\ Shift(p, i, Was(p, i, q)) = q
<1> DEFINE n == Len(p) + 1
           w == Was(p, i, q)
<1>1. CASE IsStrictPrefix(p, q) /\ q[n] >= i
  <2>1. n \in 1 .. Len(q) /\ q[n] \in Nat /\ \A j \in 1 .. Len(p) : p[j] = q[j]
    BY <1>1, BelowMeans
  <2>2. w = Put(q, n, q[n] + 1)
    BY <1>1, Zenon DEF Was, Put
  <2>3. q[n] + 1 \in Nat
    BY <2>1
  <2>4. w \in Paths /\ Len(w) = Len(q) /\ w[n] = q[n] + 1
        /\ \A j \in 1 .. Len(q) : j # n => w[j] = q[j]
    <3> HIDE DEF n, w
    <3> QED
      BY <2>1, <2>2, <2>3, Replaced, ZenonT(60)
  <2> HIDE DEF w
  <2>5. Len(p) \in Nat /\ Len(q) \in Nat /\ Len(p) < Len(q)
    BY <1>1, PathType, PrefixMeans
  <2>6. IsStrictPrefix(p, w)
    <3>1. \A j \in 1 .. Len(p) : p[j] = w[j]
      BY <2>1, <2>4, <2>5
    <3> QED
      BY <2>4, <2>5, <3>1, PrefixMeans
  <2>7. w[n] > i /\ w[n] # i
    BY <1>1, <2>1, <2>4
  <2>8. Shift(p, i, w) = Put(w, n, w[n] - 1)
    BY <2>6, <2>7, Zenon DEF Shift, Put
  <2>9. w[n] - 1 = q[n]
    BY <2>1, <2>4
  <2> DEFINE r == Put(w, n, q[n])
  <2>10. r \in Paths /\ Len(r) = Len(w) /\ r[n] = q[n]
         /\ \A j \in 1 .. Len(w) : j # n => r[j] = w[j]
    <3> HIDE DEF n
    <3> QED
      BY <2>1, <2>4, Replaced
  <2> HIDE DEF r
  <2>11. r = q
    BY <2>4, <2>10, PathsEqual
  <2>12. ~ IsPrefix(Append(p, i), w)
    BY <2>4, <2>7, RemovedMeans
  <2> QED
    BY <1>1, <2>4, <2>6, <2>8, <2>9, <2>11, <2>12 DEF r, w
<1>2. CASE ~ (IsStrictPrefix(p, q) /\ q[n] >= i)
  <2>1. w = q
    BY <1>2, Zenon DEF Was, Put
  <2>2. ASSUME IsStrictPrefix(p, q) PROVE q[n] \in Nat /\ q[n] < i
    BY <1>2, <2>2, BelowMeans
  <2>3. ~ IsPrefix(Append(p, i), q)
    BY <2>2, RemovedMeans
  <2>4. Shift(p, i, q) = q
    BY <2>2 DEF Shift
  <2> QED
    BY <2>1, <2>3, <2>4
<1> QED
  BY <1>1, <1>2

(* Where a setting of the old tree is in the new one, and back again.      *)
LEMMA ShiftPath ==
  ASSUME NEW p \in Paths, NEW i \in Nat, NEW q \in Paths, ~ IsPrefix(Append(p, i), q)
  PROVE  Shift(p, i, q) \in Paths /\ Was(p, i, Shift(p, i, q)) = q
<1> DEFINE n == Len(p) + 1
           s == Shift(p, i, q)
<1>1. CASE IsStrictPrefix(p, q) /\ q[n] > i
  <2>1. n \in 1 .. Len(q) /\ q[n] \in Nat /\ \A j \in 1 .. Len(p) : p[j] = q[j]
    BY <1>1, BelowMeans
  <2>2. s = Put(q, n, q[n] - 1)
    BY <1>1, Zenon DEF Shift, Put
  <2>3. q[n] - 1 \in Nat
    BY <1>1, <2>1
  <2>4. s \in Paths /\ Len(s) = Len(q) /\ s[n] = q[n] - 1
        /\ \A j \in 1 .. Len(q) : j # n => s[j] = q[j]
    <3> HIDE DEF n, s
    <3> QED
      BY <2>1, <2>2, <2>3, Replaced, ZenonT(60)
  <2> HIDE DEF s
  <2>5. Len(p) \in Nat /\ Len(q) \in Nat /\ Len(p) < Len(q)
    BY <1>1, PathType, PrefixMeans
  <2>6. IsStrictPrefix(p, s)
    <3>1. \A j \in 1 .. Len(p) : p[j] = s[j]
      BY <2>1, <2>4, <2>5
    <3> QED
      BY <2>4, <2>5, <3>1, PrefixMeans
  <2>7. s[n] >= i
    BY <1>1, <2>1, <2>4
  <2>8. Was(p, i, s) = Put(s, n, s[n] + 1)
    BY <2>6, <2>7, Zenon DEF Was, Put
  <2>9. s[n] + 1 = q[n]
    BY <2>1, <2>4
  <2> DEFINE r == Put(s, n, q[n])
  <2>10. r \in Paths /\ Len(r) = Len(s) /\ r[n] = q[n]
         /\ \A j \in 1 .. Len(s) : j # n => r[j] = s[j]
    <3> HIDE DEF n
    <3> QED
      BY <2>1, <2>4, Replaced
  <2> HIDE DEF r
  <2>11. r = q
    BY <2>4, <2>10, PathsEqual
  <2> QED
    BY <2>4, <2>8, <2>9, <2>11 DEF r, s
<1>2. CASE ~ (IsStrictPrefix(p, q) /\ q[n] > i)
  <2>1. s = q
    BY <1>2, Zenon DEF Shift, Put
  <2>2. ASSUME IsStrictPrefix(p, q) PROVE q[n] \in Nat /\ q[n] < i
    <3>1. q[n] \in Nat /\ q[n] # i
      BY <2>2, BelowMeans, RemovedMeans
    <3> QED
      BY <1>2, <2>2, <3>1
  <2>3. Was(p, i, q) = q
    BY <2>2 DEF Was
  <2> QED
    BY <2>1, <2>3
<1> QED
  BY <1>1, <1>2

(* The parent of a setting moves with it.                                  *)
LEMMA WasParent ==
  ASSUME NEW p \in Paths, NEW i \in Nat, NEW q \in Paths, q # <<>>
  PROVE  /\ Was(p, i, q) # <<>>
         /\ Front(Was(p, i, q)) = Was(p, i, Front(q))
         /\ Front(q) # p => Last(Was(p, i, q)) = Last(q)
         /\ Front(q) = p => Last(Was(p, i, q)) = IF Last(q) >= i THEN Last(q) + 1 ELSE Last(q)
<1> DEFINE n == Len(p) + 1
           w == Was(p, i, q)
           f == Front(q)
<1>1. Len(q) \in Nat \ {0} /\ f \in Paths /\ Len(f) = Len(q) - 1
      /\ (\A k \in 1 .. Len(q) - 1 : f[k] = q[k]) /\ Last(q) \in Nat /\ Last(q) = q[Len(q)]
  BY PathParts
<1>2. w \in Paths /\ Len(w) = Len(q) /\ w # <<>>
  <2>1. w \in Paths /\ Len(w) = Len(q)
    BY WasPath, Zenon
  <2> HIDE DEF w
  <2> QED
    BY <1>1, <2>1, RootPath
<1>3. Front(w) \in Paths /\ Len(Front(w)) = Len(q) - 1
      /\ (\A k \in 1 .. Len(q) - 1 : Front(w)[k] = w[k]) /\ Last(w) = w[Len(q)]
  BY <1>2, PathParts
<1> HIDE DEF f
<1>4. Len(p) \in Nat
  BY PathType
<1>5. IsStrictPrefix(p, f) <=> IsStrictPrefix(p, q) /\ Len(p) < Len(q) - 1
  <2>1. IsStrictPrefix(p, f) <=> Len(p) < Len(f) /\ \A k \in 1 .. Len(p) : p[k] = f[k]
    BY <1>1, PrefixMeans
  <2>2. IsStrictPrefix(p, q) <=> Len(p) < Len(q) /\ \A k \in 1 .. Len(p) : p[k] = q[k]
    BY PrefixMeans
  <2> QED
    BY <1>1, <1>4, <2>1, <2>2
<1>6. f = p <=> IsStrictPrefix(p, q) /\ Len(p) = Len(q) - 1
  <2>1. f = p <=> Len(p) = Len(f) /\ \A k \in 1 .. Len(p) : p[k] = f[k]
    BY <1>1, PathsEqual
  <2>2. IsStrictPrefix(p, q) <=> Len(p) < Len(q) /\ \A k \in 1 .. Len(p) : p[k] = q[k]
    BY PrefixMeans
  <2> QED
    BY <1>1, <1>4, <2>1, <2>2
<1>7. CASE ~ (IsStrictPrefix(p, q) /\ q[n] >= i)
  <2>1. w = q
    BY <1>7, Zenon DEF Was, Put
  <2>2. Was(p, i, f) = f
    <3>1. ASSUME IsStrictPrefix(p, f) PROVE IsStrictPrefix(p, q) /\ f[n] = q[n]
      BY <1>1, <1>4, <1>5, <3>1
    <3> QED
      BY <1>7, <3>1, Zenon DEF Was, Put
  <2>3. f = p => ~(Last(q) >= i)
    BY <1>1, <1>4, <1>6, <1>7
  <2> QED
    BY <1>2, <2>1, <2>2, <2>3 DEF f
<1>8. CASE IsStrictPrefix(p, q) /\ q[n] >= i
  <2>1. n \in 1 .. Len(q) /\ q[n] \in Nat /\ q[n] + 1 \in Nat
    BY <1>8, BelowMeans
  <2>2. w = Put(q, n, q[n] + 1)
    BY <1>8, Zenon DEF Was, Put
  <2>3. w[n] = q[n] + 1 /\ \A j \in 1 .. Len(q) : j # n => w[j] = q[j]
    <3> HIDE DEF n, w
    <3> QED
      BY <2>1, <2>2, Replaced, ZenonT(60)
  <2> HIDE DEF w
  <2>4. CASE n = Len(q)
    <3>1. f = p /\ ~ IsStrictPrefix(p, f)
      BY <1>1, <1>4, <1>5, <1>6, <1>8, <2>4
    <3>2. Was(p, i, f) = f
      BY <3>1, Zenon DEF Was, Put
    <3>3. Front(w) = f
      <4>1. \A j \in 1 .. Len(f) : Front(w)[j] = f[j]
        BY <1>1, <1>3, <2>3, <2>4
      <4> QED
        BY <1>1, <1>3, <4>1, PathsEqual
    <3>4. Last(w) = Last(q) + 1 /\ Last(q) >= i
      BY <1>1, <1>3, <1>8, <2>3, <2>4
    <3> QED
      BY <1>2, <3>1, <3>2, <3>3, <3>4 DEF w, f
  <2>5. CASE n # Len(q)
    <3>1. IsStrictPrefix(p, f) /\ f # p /\ n \in 1 .. Len(f) /\ f[n] = q[n]
      BY <1>1, <1>4, <1>5, <1>6, <1>8, <2>1, <2>5
    <3>2. Was(p, i, f) = Put(f, n, f[n] + 1)
      BY <1>8, <3>1, Zenon DEF Was, Put
    <3> DEFINE r == Put(f, n, q[n] + 1)
    <3>3. r \in Paths /\ Len(r) = Len(f) /\ r[n] = q[n] + 1
          /\ \A j \in 1 .. Len(f) : j # n => r[j] = f[j]
      BY <1>1, <2>1, <3>1, Replaced
    <3> HIDE DEF r
    <3>4. Front(w) = r
      <4>1. \A j \in 1 .. Len(f) : Front(w)[j] = r[j]
        BY <1>1, <1>3, <2>3, <3>3
      <4> QED
        BY <1>1, <1>3, <3>3, <4>1, PathsEqual
    <3>5. Last(w) = Last(q)
      BY <1>1, <1>3, <2>3, <2>5
    <3> QED
      BY <1>2, <3>1, <3>2, <3>4, <3>5 DEF r, w, f
  <2> QED
    BY <2>4, <2>5
<1> QED
  BY <1>7, <1>8

-----------------------------------------------------------------------------
(* The tree without a setting.                                             *)

Kept(t, p, i) == { q \in Paths : Was(p, i, q) \in DOMAIN t }

Without(t, p, i) == [q \in Kept(t, p, i) |-> t[Was(p, i, q)]]

(* config_setting_remove_elem gives the tree without the element.          *)
LEMMA RemoveIsWithout ==
  ASSUME NEW t, Shaped(DOMAIN t), NEW p \in Paths, NEW i \in Nat
  PROVE  config_setting_remove_elem(t, p, i) =
           IF Append(p, i) \in DOMAIN t THEN {Without(t, p, i)} ELSE {}
<1> DEFINE left == DOMAIN t \ Subtree(t, Append(p, i))
           kept == { Shift(p, i, q) : q \in left }
<1>1. DOMAIN t \in SUBSET Paths
  BY Zenon DEF Shaped
<1>2. \A q : q \in left <=> q \in DOMAIN t /\ ~ IsPrefix(Append(p, i), q)
  BY Zenon DEF Subtree
<1>3. kept = Kept(t, p, i)
  <2>1. ASSUME NEW q \in left PROVE Shift(p, i, q) \in Kept(t, p, i)
    <3>1. q \in DOMAIN t /\ q \in Paths /\ ~ IsPrefix(Append(p, i), q)
      BY <1>1, <1>2, Zenon
    <3>2. Shift(p, i, q) \in Paths /\ Was(p, i, Shift(p, i, q)) = q
      BY <3>1, ShiftPath
    <3> QED
      BY <3>1, <3>2, Zenon DEF Kept
  <2>2. ASSUME NEW q \in Kept(t, p, i) PROVE \E r \in left : q = Shift(p, i, r)
    <3>1. q \in Paths /\ Was(p, i, q) \in DOMAIN t
      BY Zenon DEF Kept
    <3>2. ~ IsPrefix(Append(p, i), Was(p, i, q)) /\ Shift(p, i, Was(p, i, q)) = q
      BY <3>1, WasPath, Zenon
    <3> QED
      BY <1>2, <3>1, <3>2, Zenon
  <2> QED
    BY <2>1, <2>2, Zenon
<1>4. [q \in kept |-> t[Was(p, i, q)]] = Without(t, p, i)
  BY <1>3, Zenon DEF Without
<1>5. config_setting_get_elem(t, p, i) = {} <=> Append(p, i) \notin DOMAIN t
  BY Zenon DEF config_setting_get_elem
<1>6. config_setting_remove_elem(t, p, i) =
        IF config_setting_get_elem(t, p, i) = {} THEN {}
                                                ELSE {[q \in kept |-> t[Was(p, i, q)]]}
  BY DEF config_setting_remove_elem, Shift, Was
<1> QED
  BY <1>4, <1>5, <1>6, Zenon

(* Which paths of a tree the settings of another had.                      *)
Renames(t, u, w) ==
  /\ w \in [DOMAIN u -> DOMAIN t]
  /\ \A q, r \in DOMAIN u : w[q] = w[r] => q = r
  /\ w[<<>>] = <<>>
  /\ \A q \in DOMAIN u \ {<<>>} : w[q] # <<>> /\ Front(w[q]) = w[Front(q)]
  /\ u = [q \in DOMAIN u |-> t[w[q]]]

WasOf(t, p, i) == [q \in Kept(t, p, i) |-> Was(p, i, q)]

(* Without an element the paths still form a tree.                         *)
LEMMA WithoutShape ==
  ASSUME NEW t, Shaped(DOMAIN t), NEW p \in Paths, NEW i \in Nat
  PROVE  /\ DOMAIN Without(t, p, i) = Kept(t, p, i)
         /\ Shaped(Kept(t, p, i))
         /\ Renames(t, Without(t, p, i), WasOf(t, p, i))
<1> DEFINE K == Kept(t, p, i)
           w == WasOf(t, p, i)
           u == Without(t, p, i)
<1>1. DOMAIN u = K
  BY Zenon DEF Without
<1>2. \A q : q \in K <=> q \in Paths /\ Was(p, i, q) \in DOMAIN t
  BY Zenon DEF Kept
<1>3. DOMAIN t \in SUBSET Paths /\ IsFiniteSet(DOMAIN t) /\ <<>> \in DOMAIN t
  BY Zenon DEF Shaped
<1>4. \A q \in K : w[q] = Was(p, i, q)
  BY Zenon DEF WasOf
<1>5. w \in [K -> DOMAIN t]
  BY <1>2, Zenon DEF WasOf
<1> HIDE DEF K, w
<1>6. \A q, r \in K : w[q] = w[r] => q = r
  <2> TAKE q, r \in K
  <2>1. Shift(p, i, Was(p, i, q)) = q /\ Shift(p, i, Was(p, i, r)) = r
    BY <1>2, WasPath, Zenon
  <2> QED
    BY <1>4, <2>1, Zenon
<1>7. Was(p, i, <<>>) = <<>>
  <2>1. ~ IsStrictPrefix(p, <<>>)
    BY PathType, PrefixMeans, RootPath
  <2> QED
    BY <2>1, Zenon DEF Was
<1>8. <<>> \in K /\ w[<<>>] = <<>>
  BY <1>2, <1>3, <1>4, <1>7, RootPath, Zenon
<1>9. ASSUME NEW q \in K, q # <<>>
      PROVE  /\ w[q] # <<>> /\ Front(w[q]) = w[Front(q)]
             /\ Front(q) \in K
             /\ Last(q) > 0 => Append(Front(q), Last(q) - 1) \in K
  <2>1. q \in Paths /\ Was(p, i, q) \in DOMAIN t
    BY <1>2
  <2>2. Front(q) \in Paths /\ Last(q) \in Nat /\ q = Append(Front(q), Last(q))
    BY <1>9, <2>1, PathParts, Zenon
  <2>3. /\ Was(p, i, q) # <<>>
        /\ Front(Was(p, i, q)) = Was(p, i, Front(q))
        /\ Front(q) # p => Last(Was(p, i, q)) = Last(q)
        /\ Front(q) = p => Last(Was(p, i, q)) = IF Last(q) >= i THEN Last(q) + 1 ELSE Last(q)
    BY <1>9, <2>1, WasParent, Zenon
  <2>4. Front(Was(p, i, q)) \in DOMAIN t
    BY <2>1, <2>3, Zenon DEF Shaped
  <2>5. Front(q) \in K
    BY <1>2, <2>2, <2>3, <2>4, Zenon
  <2>6. ASSUME Last(q) > 0 PROVE Append(Front(q), Last(q) - 1) \in K
    <3> DEFINE f == Front(q)
               l == Last(q) - 1
               e == Append(f, l)
               wf == Was(p, i, f)
    <3>1. l \in Nat
      BY <2>2, <2>6
    <3>2. e \in Paths /\ e # <<>> /\ Front(e) = f /\ Last(e) = l
      <4> HIDE DEF l
      <4> QED
        BY <2>2, <3>1, PathExtended, Zenon
    <3>3. wf \in Paths
      BY <2>2, WasPath, Zenon
    <3>4. \A m \in Nat : Append(wf, m) \in DOMAIN t <=> m < config_setting_length(t, wf)
      <4> HIDE DEF wf
      <4> QED
        BY <3>3, ElementsAre, Zenon
    <3>5. config_setting_length(t, wf) \in Nat
      <4> HIDE DEF wf
      <4> QED
        BY <3>3, ElementsAre, Zenon
    <3>6. Was(p, i, e) = Append(wf, Last(Was(p, i, e))) /\ Last(Was(p, i, e)) \in Nat
      <4>1. Was(p, i, e) # <<>> /\ Front(Was(p, i, e)) = wf
        BY <3>2, WasParent, ZenonT(60)
      <4>2. Was(p, i, e) \in Paths
        BY <3>2, WasPath, Zenon
      <4> QED
        BY <4>1, <4>2, PathParts, Zenon
    <3>7. Was(p, i, q) = Append(wf, Last(Was(p, i, q))) /\ Last(Was(p, i, q)) \in Nat
      <4>1. Was(p, i, q) \in Paths
        BY <1>3, <2>1, Zenon
      <4> QED
        BY <2>3, <4>1, PathParts, Zenon
    <3>8. /\ f # p => Last(Was(p, i, e)) = l
          /\ f = p => Last(Was(p, i, e)) = IF l >= i THEN l + 1 ELSE l
      <4> HIDE DEF e, f, l
      <4> QED
        BY <3>2, WasParent, Zenon
    <3>9. Last(Was(p, i, e)) <= Last(Was(p, i, q))
      BY <2>2, <2>3, <2>6, <3>6, <3>7, <3>8
    <3>10. Last(Was(p, i, q)) < config_setting_length(t, wf)
      BY <2>1, <3>4, <3>7, Zenon
    <3>11. Last(Was(p, i, e)) < config_setting_length(t, wf)
      <4> HIDE DEF wf, e
      <4> QED
        BY <3>5, <3>6, <3>7, <3>9, <3>10
    <3>12. Was(p, i, e) \in DOMAIN t
      BY <3>4, <3>6, <3>11, Zenon
    <3> QED
      BY <1>2, <3>2, <3>12, Zenon
  <2>7. w[q] # <<>> /\ Front(w[q]) = w[Front(q)]
    BY <1>4, <2>3, <2>5, Zenon
  <2> QED
    BY <2>5, <2>6, <2>7, Zenon
<1>10. IsFiniteSet(K)
  <2>1. w \in Injection(K, DOMAIN t)
    BY <1>5, <1>6, Zenon DEF Injection, IsInjective
  <2> QED
    BY <1>3, <2>1, FS_Injection, Zenon
<1>11. Shaped(K)
  <2>1. K \in SUBSET Paths
    BY <1>2, Zenon
  <2> QED
    BY <1>8, <1>9, <1>10, <2>1, Zenon DEF Shaped
<1>12. u = [q \in K |-> t[w[q]]]
  BY <1>4, Zenon DEF Without, K
<1>13. Renames(t, u, w)
  <2>1. u = [q \in DOMAIN u |-> t[w[q]]]
    BY <1>1, <1>12, Zenon
  <2> HIDE DEF u
  <2> QED
    BY <1>1, <1>5, <1>6, <1>8, <1>9, <2>1, Zenon DEF Renames
<1> QED
  BY <1>1, <1>11, <1>13, Zenon DEF K, w

-----------------------------------------------------------------------------
(* Trees of settings.                                                      *)

IsSetting(s) ==
  s = [name |-> s.name, type |-> s.type, value |-> s.value, hook |-> s.hook, source |-> s.source]

Nested(t) ==
  \A p \in DOMAIN t : /\ IsSetting(t[p])
                      /\ t[p].type \in Types
                      /\ p # <<>> => t[Front(p)].type \in Aggregates

Siblings(t, p, q) == p # <<>> /\ q # <<>> /\ Front(p) = Front(q)

(* No two members of a group have the same name.                           *)
Named(t) ==
  \A p, q \in DOMAIN t :
    Siblings(t, p, q) /\ t[Front(p)].type = "group" /\ t[p].name = t[q].name => p = q

IsTree(t) ==
  /\ t = [p \in DOMAIN t |-> t[p]]
  /\ Shaped(DOMAIN t)
  /\ Nested(t)
  /\ Named(t)
  /\ t[<<>>].type = "group"

(* The elements of an array are scalars of one type.                       *)
Uniform(t) ==
  \A p, q \in DOMAIN t :
    Siblings(t, p, q) /\ t[Front(p)].type = "array" =>
      t[p].type \in Scalars /\ t[p].type = t[q].type

LEMMA TreePaths ==
  ASSUME NEW t, IsTree(t)
  PROVE  /\ DOMAIN t \in SUBSET Paths /\ <<>> \in DOMAIN t
         /\ \A p \in DOMAIN t : p # <<>> => Front(p) \in DOMAIN t
  BY Zenon DEF IsTree, Shaped

(* Uniform is Homogeneous, said of pairs of elements.                      *)
LEMMA UniformIsHomogeneous ==
  ASSUME NEW t, IsTree(t), Uniform(t)
  PROVE  Homogeneous(t)
<1> SUFFICES ASSUME NEW p \in DOMAIN t, t[p].type = "array"
             PROVE  \E type \in Scalars : \A q \in Elements(t, p) : t[q].type = type
  BY Zenon DEF Homogeneous
<1>1. CASE Elements(t, p) = {}
  BY <1>1, Zenon DEF Scalars
<1>2. CASE Elements(t, p) # {}
  <2>1. PICK r \in Elements(t, p) : TRUE
    BY <1>2, Zenon
  <2>2. \A q \in Elements(t, p) : q \in DOMAIN t /\ q # <<>> /\ Front(q) = p
    BY Zenon DEF Elements
  <2>3. t[r].type \in Scalars /\ \A q \in Elements(t, p) : t[r].type = t[q].type
    BY <2>1, <2>2, Zenon DEF Uniform, Siblings
  <2> QED
    BY <2>3, Zenon
<1> QED
  BY <1>1, <1>2, Zenon

(* A tree whose settings were those of a tree, elsewhere, is one.          *)
LEMMA RenamedTree ==
  ASSUME NEW t, NEW u, NEW w, IsTree(t), Shaped(DOMAIN u), Renames(t, u, w)
  PROVE  IsTree(u) /\ (Uniform(t) => Uniform(u))
<1>1. /\ \A q \in DOMAIN u : w[q] \in DOMAIN t /\ u[q] = t[w[q]]
      /\ \A q, r \in DOMAIN u : w[q] = w[r] => q = r
      /\ w[<<>>] = <<>>
      /\ \A q \in DOMAIN u \ {<<>>} : w[q] # <<>> /\ Front(w[q]) = w[Front(q)]
  BY Zenon DEF Renames
<1>2. u = [q \in DOMAIN u |-> u[q]]
  <2>1. u = [q \in DOMAIN u |-> t[w[q]]]
    BY Zenon DEF Renames
  <2> QED
    BY <2>1, Zenon
<1>3. <<>> \in DOMAIN u /\ \A q \in DOMAIN u : q # <<>> => Front(q) \in DOMAIN u
  BY Zenon DEF Shaped
<1>4. Nested(u)
  <2> SUFFICES ASSUME NEW q \in DOMAIN u
               PROVE  /\ IsSetting(u[q]) /\ u[q].type \in Types
                      /\ q # <<>> => u[Front(q)].type \in Aggregates
    BY Zenon DEF Nested
  <2>1. u[q] = t[w[q]] /\ w[q] \in DOMAIN t
    BY <1>1, Zenon
  <2>2. IsSetting(t[w[q]]) /\ t[w[q]].type \in Types
    BY <2>1, Zenon DEF IsTree, Nested
  <2>3. ASSUME q # <<>> PROVE u[Front(q)].type \in Aggregates
    <3>1. w[q] # <<>> /\ Front(w[q]) = w[Front(q)] /\ u[Front(q)] = t[w[Front(q)]]
      BY <1>1, <1>3, <2>3, Zenon
    <3>2. t[Front(w[q])].type \in Aggregates
      BY <2>1, <3>1, Zenon DEF IsTree, Nested
    <3> QED
      BY <3>1, <3>2, Zenon
  <2> QED
    BY <2>1, <2>2, <2>3, Zenon
<1>5. ASSUME NEW p \in DOMAIN u, NEW q \in DOMAIN u, Siblings(u, p, q)
      PROVE  /\ w[p] \in DOMAIN t /\ w[q] \in DOMAIN t /\ Siblings(t, w[p], w[q])
             /\ t[Front(w[p])] = u[Front(p)] /\ t[w[p]] = u[p] /\ t[w[q]] = u[q]
  <2>1. p # <<>> /\ q # <<>> /\ Front(p) = Front(q)
    BY <1>5, Zenon DEF Siblings
  <2>2. w[p] # <<>> /\ w[q] # <<>> /\ Front(w[p]) = w[Front(p)] /\ Front(w[q]) = w[Front(q)]
    BY <1>1, <2>1, Zenon
  <2>3. u[Front(p)] = t[w[Front(p)]]
    BY <1>1, <1>3, <2>1, Zenon
  <2> QED
    BY <1>1, <2>1, <2>2, <2>3, Zenon DEF Siblings
<1>6. Named(u)
  <2> SUFFICES ASSUME NEW p \in DOMAIN u, NEW q \in DOMAIN u, Siblings(u, p, q),
                      u[Front(p)].type = "group", u[p].name = u[q].name
               PROVE  p = q
    BY Zenon DEF Named
  <2>1. w[p] = w[q]
    BY <1>5, ZenonT(60) DEF IsTree, Named
  <2> QED
    BY <1>1, <2>1, Zenon
<1>7. u[<<>>].type = "group"
  BY <1>1, <1>3, Zenon DEF IsTree
<1>8. ASSUME Uniform(t) PROVE Uniform(u)
  <2> SUFFICES ASSUME NEW p \in DOMAIN u, NEW q \in DOMAIN u, Siblings(u, p, q),
                      u[Front(p)].type = "array"
               PROVE  u[p].type \in Scalars /\ u[p].type = u[q].type
    BY Zenon DEF Uniform
  <2>1. /\ w[p] \in DOMAIN t /\ w[q] \in DOMAIN t /\ Siblings(t, w[p], w[q])
        /\ t[Front(w[p])] = u[Front(p)] /\ t[w[p]] = u[p] /\ t[w[q]] = u[q]
    BY <1>5, Zenon
  <2>2. t[Front(w[p])].type = "array"
    BY <2>1, Zenon
  <2>3. t[w[p]].type \in Scalars /\ t[w[p]].type = t[w[q]].type
    BY <1>8, <2>1, <2>2, Zenon DEF Uniform
  <2> QED
    BY <2>1, <2>3, Zenon
<1> QED
  BY <1>2, <1>4, <1>6, <1>7, <1>8, Zenon DEF IsTree

(* A tree in which settings of no type have been given one is a tree.      *)
Retyped(t, u) ==
  /\ u = [q \in DOMAIN t |-> u[q]]
  /\ \A q \in DOMAIN t :
       /\ IsSetting(u[q]) /\ u[q].name = t[q].name
       /\ u[q].type = t[q].type \/ (t[q].type = "none" /\ u[q].type \in Types)

(* Nothing was below a setting of no type: it can be given any.            *)
LEMMA RetypedTree ==
  ASSUME NEW t, NEW u, IsTree(t), Retyped(t, u)
  PROVE  /\ DOMAIN u = DOMAIN t
         /\ IsTree(u) /\ (Uniform(t) => Uniform(u))
         /\ \A q \in DOMAIN t : q # <<>> => u[Front(q)].type = t[Front(q)].type
<1>1. DOMAIN u = DOMAIN t
  BY Zenon DEF Retyped
<1>2. /\ \A q \in DOMAIN t : IsSetting(u[q]) /\ u[q].name = t[q].name
      /\ \A q \in DOMAIN t : u[q].type = t[q].type \/ t[q].type = "none"
      /\ \A q \in DOMAIN t : u[q].type = t[q].type \/ u[q].type \in Types
  BY Zenon DEF Retyped
<1>3. "none" \notin Aggregates /\ "none" \notin Scalars /\ "none" # "group"
  BY DEF Aggregates, Scalars
<1>4. \A q \in DOMAIN t : q # <<>> =>
        Front(q) \in DOMAIN t /\ t[Front(q)].type \in Aggregates
  BY Zenon DEF IsTree, Nested, Shaped
<1>5. \A q \in DOMAIN t : q # <<>> => u[Front(q)].type = t[Front(q)].type
  BY <1>2, <1>3, <1>4, Zenon
<1>6. Nested(u)
  <2>1. \A q \in DOMAIN t : t[q].type \in Types
    BY Zenon DEF IsTree, Nested
  <2> QED
    BY <1>1, <1>2, <1>4, <1>5, <2>1, Zenon DEF Nested
<1>7. Named(u)
  BY <1>1, <1>2, <1>5, Zenon DEF IsTree, Named, Siblings
<1>8. u[<<>>].type = "group"
  <2>1. <<>> \in DOMAIN t /\ t[<<>>].type = "group"
    BY Zenon DEF IsTree, Shaped
  <2> QED
    BY <1>2, <1>3, <2>1, Zenon
<1>9. ASSUME Uniform(t) PROVE Uniform(u)
  <2> SUFFICES ASSUME NEW p \in DOMAIN t, NEW q \in DOMAIN t, Siblings(t, p, q),
                      u[Front(p)].type = "array"
               PROVE  u[p].type \in Scalars /\ u[p].type = u[q].type
    BY <1>1, Zenon DEF Uniform, Siblings
  <2>1. p # <<>> /\ q # <<>> /\ Siblings(t, q, p) /\ Front(q) = Front(p)
    BY Zenon DEF Siblings
  <2>2. t[p].type \in Scalars /\ t[p].type = t[q].type
    BY <1>5, <1>9, <2>1, Zenon DEF Uniform
  <2> QED
    BY <1>2, <1>3, <2>2, Zenon
<1>10. u = [q \in DOMAIN u |-> u[q]]
  BY <1>1, Zenon DEF Retyped
<1> QED
  BY <1>1, <1>5, <1>6, <1>7, <1>8, <1>9, <1>10, Zenon DEF IsTree

(* What is left after a removal, and where.                                *)
LEMMA RemovedTree ==
  ASSUME NEW t, IsTree(t), NEW p \in Paths, NEW i \in Nat, Append(p, i) \in DOMAIN t
  PROVE  LET u == Without(t, p, i)
             w == WasOf(t, p, i)
         IN  /\ config_setting_remove_elem(t, p, i) = {u}
             /\ IsTree(u) /\ (Uniform(t) => Uniform(u))
             /\ Renames(t, u, w)
             /\ \A q \in DOMAIN t \ Subtree(t, Append(p, i)) : \E r \in DOMAIN u : w[r] = q
             /\ \A r \in DOMAIN u : w[r] \notin Subtree(t, Append(p, i))
             /\ \A q \in DOMAIN t : ~ IsStrictPrefix(p, q) => q \in DOMAIN u /\ w[q] = q /\ u[q] = t[q]
<1> DEFINE u == Without(t, p, i)
           w == WasOf(t, p, i)
<1>1. Shaped(DOMAIN t) /\ DOMAIN t \in SUBSET Paths
  BY Zenon DEF IsTree, Shaped
<1>2. config_setting_remove_elem(t, p, i) = {u}
  BY <1>1, RemoveIsWithout, Zenon
<1>3. DOMAIN u = Kept(t, p, i) /\ Shaped(DOMAIN u) /\ Renames(t, u, w)
  <2>1. /\ DOMAIN Without(t, p, i) = Kept(t, p, i)
        /\ Shaped(Kept(t, p, i))
        /\ Renames(t, Without(t, p, i), WasOf(t, p, i))
    BY <1>1, WithoutShape, Zenon
  <2> QED
    BY <2>1
<1>4. \A q : q \in DOMAIN u <=> q \in Paths /\ Was(p, i, q) \in DOMAIN t
  BY <1>3, Zenon DEF Kept
<1>5. \A q \in DOMAIN u : w[q] = Was(p, i, q) /\ u[q] = t[Was(p, i, q)]
  BY <1>3, Zenon DEF WasOf, Without
<1> HIDE DEF u, w
<1>6. IsTree(u) /\ (Uniform(t) => Uniform(u))
  BY <1>3, RenamedTree, Zenon
<1>7. ASSUME NEW q \in DOMAIN t \ Subtree(t, Append(p, i)) PROVE \E r \in DOMAIN u : w[r] = q
  <2>1. q \in DOMAIN t /\ q \in Paths /\ ~ IsPrefix(Append(p, i), q)
    BY <1>1, Zenon DEF Subtree
  <2>2. Shift(p, i, q) \in Paths /\ Was(p, i, Shift(p, i, q)) = q
    BY <2>1, ShiftPath, Zenon
  <2> QED
    BY <1>4, <1>5, <2>1, <2>2, Zenon
<1>8. ASSUME NEW r \in DOMAIN u PROVE w[r] \notin Subtree(t, Append(p, i))
  <2>1. ~ IsPrefix(Append(p, i), Was(p, i, r))
    BY <1>4, WasPath, Zenon
  <2> QED
    BY <1>5, <2>1, Zenon DEF Subtree
<1>9. ASSUME NEW q \in DOMAIN t, ~ IsStrictPrefix(p, q)
      PROVE  q \in DOMAIN u /\ w[q] = q /\ u[q] = t[q]
  <2>1. Was(p, i, q) = q /\ q \in Paths
    BY <1>1, <1>9, Zenon DEF Was
  <2> QED
    BY <1>4, <1>5, <2>1, Zenon
<1> QED
  BY <1>2, <1>3, <1>6, <1>7, <1>8, <1>9, Zenon DEF u, w

-----------------------------------------------------------------------------
(* A tree with one more setting, the last below its parent.                *)

NextOf(t, p) == Append(p, config_setting_length(t, p))

Grown(t, p, setting) == With(t, NextOf(t, p), setting)

GrowsBy(t, p, setting, u, e) ==
  /\ e \in Paths /\ e # <<>> /\ e \notin DOMAIN t /\ Front(e) = p
  /\ DOMAIN u = DOMAIN t \cup {e}
  /\ \A q \in DOMAIN t : u[q] = t[q]
  /\ u[e] = setting
  /\ u = [q \in DOMAIN u |-> u[q]]
  /\ Shaped(DOMAIN u)
  /\ \A q \in DOMAIN t : q # <<>> => Front(q) # e

(* One more setting, at the end of its siblings, leaves no gap.            *)
LEMMA GrownShape ==
  ASSUME NEW t, Shaped(DOMAIN t), NEW p \in DOMAIN t, NEW setting
  PROVE  GrowsBy(t, p, setting, Grown(t, p, setting), NextOf(t, p))
<1> DEFINE n == config_setting_length(t, p)
           e == NextOf(t, p)
           u == Grown(t, p, setting)
<1>1. DOMAIN t \in SUBSET Paths /\ IsFiniteSet(DOMAIN t) /\ <<>> \in DOMAIN t /\ p \in Paths
  BY Zenon DEF Shaped
<1>2. n \in Nat /\ \A i \in Nat : Append(p, i) \in DOMAIN t <=> i < n
  BY <1>1, ElementsAre, Zenon
<1>3. e = Append(p, n)
  BY DEF NextOf
<1>4. u = [q \in DOMAIN t \cup {e} |-> IF q \in DOMAIN t THEN t[q] ELSE setting]
  BY DEF Grown, With
<1> HIDE DEF n, e, u
<1>5. e \in Paths /\ e # <<>> /\ Front(e) = p /\ Last(e) = n
  BY <1>1, <1>2, <1>3, PathExtended
<1>6. e \notin DOMAIN t
  BY <1>2, <1>3
<1>7. DOMAIN u = DOMAIN t \cup {e} /\ (\A q \in DOMAIN t : u[q] = t[q]) /\ u[e] = setting
  BY <1>4, <1>6, Zenon
<1>8. u = [q \in DOMAIN u |-> u[q]]
  BY <1>4, <1>7, Zenon
<1>9. IsFiniteSet(DOMAIN u)
  <2>1. IsFiniteSet(DOMAIN t \cup {e})
    BY <1>1, FS_AddElement, Zenon
  <2> QED
    BY <1>7, <2>1, Zenon
<1>10. ASSUME NEW q \in DOMAIN u \ {<<>>}
       PROVE  Front(q) \in DOMAIN u /\ (Last(q) > 0 => Append(Front(q), Last(q) - 1) \in DOMAIN u)
  <2>1. CASE q \in DOMAIN t
    <3>1. Front(q) \in DOMAIN t /\ (Last(q) > 0 => Append(Front(q), Last(q) - 1) \in DOMAIN t)
      BY <2>1, Zenon DEF Shaped
    <3> QED
      BY <1>7, <3>1, Zenon
  <2>2. CASE q = e
    <3>1. n > 0 => n - 1 \in Nat /\ n - 1 < n
      BY <1>2
    <3>2. n > 0 => Append(p, n - 1) \in DOMAIN t
      BY <1>2, <3>1, Zenon
    <3> QED
      BY <1>5, <1>7, <2>2, <3>2, Zenon
  <2> QED
    BY <1>7, <2>1, <2>2, Zenon
<1>11. Shaped(DOMAIN u)
  BY <1>1, <1>5, <1>7, <1>9, <1>10, Zenon DEF Shaped
<1>12. \A q \in DOMAIN t : q # <<>> => Front(q) # e
  BY <1>6, Zenon DEF Shaped
<1> QED
  BY <1>5, <1>6, <1>7, <1>8, <1>11, <1>12, Zenon DEF u, e, GrowsBy

LEMMA SettingIs ==
  ASSUME NEW name, NEW type
  PROVE  /\ IsSetting(Setting(name, type))
         /\ Setting(name, type).name = name /\ Setting(name, type).type = type
         /\ Setting(name, type).hook = NULL /\ Setting(name, type).value = 0
BY DEF IsSetting, Setting

(* The new setting does not make a tree something else, if it has a new    *)
(* name in a group and the type of the others in an array.                 *)
LEMMA GrownTree ==
  ASSUME NEW t, IsTree(t), NEW p \in DOMAIN t, t[p].type \in Aggregates,
         NEW name, NEW type \in Types,
         t[p].type = "group" => \A q \in Elements(t, p) : t[q].name # name
  PROVE  LET u == Grown(t, p, Setting(name, type)) IN
         /\ IsTree(u)
         /\ Uniform(t) /\ (t[p].type = "array" =>
              type \in Scalars /\ \A q \in Elements(t, p) : t[q].type = type) => Uniform(u)
<1> DEFINE s == Setting(name, type)
           u == Grown(t, p, s)
           e == NextOf(t, p)
<1>s. IsSetting(s) /\ s.name = name /\ s.type = type
  BY SettingIs, Zenon
<1> HIDE DEF s
<1>1. Shaped(DOMAIN t)
  BY Zenon DEF IsTree
<1>2. /\ e \in Paths /\ e # <<>> /\ e \notin DOMAIN t /\ Front(e) = p
      /\ DOMAIN u = DOMAIN t \cup {e}
      /\ \A q \in DOMAIN t : u[q] = t[q]
      /\ u[e] = s
      /\ u = [q \in DOMAIN u |-> u[q]]
      /\ Shaped(DOMAIN u)
      /\ \A q \in DOMAIN t : q # <<>> => Front(q) # e
  <2>1. GrowsBy(t, p, s, u, e)
    BY <1>1, GrownShape, Zenon
  <2> QED
    BY <2>1, Zenon DEF GrowsBy
<1> HIDE DEF u, e
<1>3. /\ IsSetting(u[e]) /\ u[e].name = name /\ u[e].type = type
  BY <1>2, <1>s, Zenon
<1>4. \A q \in DOMAIN t : q # <<>> => Front(q) \in DOMAIN t
  BY <1>1, Zenon DEF Shaped
<1>5. u[p] = t[p] /\ \A q \in DOMAIN t : q # <<>> => u[Front(q)] = t[Front(q)]
  BY <1>2, <1>4, Zenon
<1>6. Nested(u)
  <2> SUFFICES ASSUME NEW q \in DOMAIN u
               PROVE  /\ IsSetting(u[q]) /\ u[q].type \in Types
                      /\ q # <<>> => u[Front(q)].type \in Aggregates
    BY Zenon DEF Nested
  <2>1. CASE q \in DOMAIN t
    BY <1>2, <1>5, <2>1, Zenon DEF IsTree, Nested
  <2>2. CASE q = e
    BY <1>2, <1>3, <1>5, <2>2, Zenon
  <2> QED
    BY <1>2, <2>1, <2>2, Zenon
<1>7. \A q \in DOMAIN t : Siblings(u, e, q) \/ Siblings(u, q, e) => q \in Elements(t, p)
  BY <1>2, Zenon DEF Siblings, Elements
<1>8. Named(u)
  <2> SUFFICES ASSUME NEW q \in DOMAIN u, NEW r \in DOMAIN u, Siblings(u, q, r),
                      u[Front(q)].type = "group", u[q].name = u[r].name
               PROVE  q = r
    BY Zenon DEF Named
  <2>1. CASE q \in DOMAIN t /\ r \in DOMAIN t
    <3>1. Siblings(t, q, r) /\ t[Front(q)].type = "group" /\ t[q].name = t[r].name
      BY <1>2, <1>5, <2>1, Zenon DEF Siblings
    <3> QED
      BY <2>1, <3>1, Zenon DEF IsTree, Named
  <2>2. CASE q = e /\ r \in DOMAIN t
    BY <1>2, <1>3, <1>5, <1>7, <2>2, Zenon
  <2>3. CASE q \in DOMAIN t /\ r = e
    <3>1. Front(q) = p
      BY <1>2, <2>3, Zenon DEF Siblings
    <3> QED
      BY <1>2, <1>3, <1>5, <1>7, <2>3, <3>1, Zenon
  <2> QED
    BY <1>2, <2>1, <2>2, <2>3, Zenon
<1>9. ASSUME Uniform(t), t[p].type = "array" =>
               type \in Scalars /\ \A q \in Elements(t, p) : t[q].type = type
      PROVE  Uniform(u)
  <2> SUFFICES ASSUME NEW q \in DOMAIN u, NEW r \in DOMAIN u, Siblings(u, q, r),
                      u[Front(q)].type = "array"
               PROVE  u[q].type \in Scalars /\ u[q].type = u[r].type
    BY Zenon DEF Uniform
  <2>1. CASE q \in DOMAIN t /\ r \in DOMAIN t
    <3>1. Siblings(t, q, r) /\ t[Front(q)].type = "array"
      BY <1>2, <1>5, <2>1, Zenon DEF Siblings
    <3>2. t[q].type \in Scalars /\ t[q].type = t[r].type
      BY <1>9, <2>1, <3>1, Zenon DEF Uniform
    <3> QED
      BY <1>2, <2>1, <3>2, Zenon
  <2>2. CASE q = e /\ r \in DOMAIN t
    BY <1>2, <1>3, <1>5, <1>7, <1>9, <2>2, Zenon
  <2>3. CASE q \in DOMAIN t /\ r = e
    <3>1. Front(q) = p
      BY <1>2, <2>3, Zenon DEF Siblings
    <3> QED
      BY <1>2, <1>3, <1>5, <1>7, <1>9, <2>3, <3>1, Zenon
  <2>4. CASE q = e /\ r = e
    BY <1>2, <1>3, <1>5, <1>9, <2>4, Zenon
  <2> QED
    BY <1>2, <2>1, <2>2, <2>3, <2>4, Zenon
<1>10. u[<<>>].type = "group"
  BY <1>1, <1>2, Zenon DEF IsTree, Shaped
<1>11. IsTree(u)
  BY <1>2, <1>6, <1>8, <1>10, Zenon DEF IsTree
<1> QED
  BY <1>9, <1>11, Zenon DEF u, s

(* The new setting is the last of its siblings.                            *)
LEMMA GrownLast ==
  ASSUME NEW t, IsTree(t), NEW p \in DOMAIN t, NEW setting
  PROVE  LastOf(Grown(t, p, setting), p) = NextOf(t, p)
<1> DEFINE u == Grown(t, p, setting)
           e == NextOf(t, p)
           n == config_setting_length(t, p)
           m == config_setting_length(u, p)
<1>1. Shaped(DOMAIN t) /\ DOMAIN t \in SUBSET Paths /\ p \in Paths
  BY Zenon DEF IsTree, Shaped
<1>2. DOMAIN u = DOMAIN t \cup {e} /\ Shaped(DOMAIN u)
  <2>1. GrowsBy(t, p, setting, u, e)
    BY <1>1, GrownShape, Zenon
  <2> QED
    BY <2>1, Zenon DEF GrowsBy
<1>3. n \in Nat /\ \A i \in Nat : Append(p, i) \in DOMAIN t <=> i < n
  BY <1>1, ElementsAre, Zenon
<1>4. e = Append(p, n)
  BY DEF NextOf
<1> HIDE DEF u, e
<1>5. m \in Nat /\ \A i \in Nat : Append(p, i) \in DOMAIN u <=> i < m
  BY <1>1, <1>2, ElementsAre, Zenon
<1> HIDE DEF n, m
<1>6. n < m
  <2>1. Append(p, n) \in DOMAIN u
    BY <1>2, <1>4, Zenon
  <2> QED
    BY <1>3, <1>5, <2>1, Zenon
<1>7. ~ (n + 1 < m)
  <2>1. n + 1 \in Nat /\ n + 1 # n /\ ~ (n + 1 < n)
    BY <1>3
  <2>2. Append(p, n + 1) \notin DOMAIN t
    BY <1>3, <2>1, Zenon
  <2>3. Append(p, n + 1) # e
    <3>1. Last(Append(p, n + 1)) = n + 1 /\ Last(e) = n
      BY <1>1, <1>3, <1>4, <2>1, PathExtended, Zenon
    <3> QED
      BY <2>1, <3>1, Zenon
  <2> QED
    BY <1>2, <1>5, <2>1, <2>2, <2>3, Zenon
<1>8. m - 1 = n
  BY <1>3, <1>5, <1>6, <1>7
<1>9. LastOf(u, p) = Append(p, m - 1)
  BY DEF LastOf, m
<1> QED
  BY <1>4, <1>8, <1>9, Zenon DEF u, e

(* config_setting_create grows the tree by one setting.                    *)
LEMMA CreateGrows ==
  ASSUME NEW t, IsTree(t), NEW p \in DOMAIN t, NEW name, NEW type
  PROVE  config_setting_create(t, p, name, type) =
           IF t[p].type \in Aggregates THEN {Grown(t, p, Setting(name, type))} ELSE {}
BY Zenon DEF config_setting_create, config_setting_is_aggregate, Grown, NextOf

-----------------------------------------------------------------------------
(* Folds over a sequence: a path looked up step by step, a text read token *)
(* by token.  What is known of the function a fold computes needs no look  *)
(* at the step.                                                            *)

ReadOn(e, k, at) == IF e.error # NULL THEN e ELSE ReadToken(e, k, at)

Onward(job, x, k) ==
  IF job[1] = "lookup" THEN UNION { Taken(job[2], q, job[3][k]) : q \in x }
                       ELSE ReadOn(x, job[3][k], job[2])

FoldsUp(job, D, base, g) ==
  g = [s \in SUBSET D |-> IF s = {} THEN base
                          ELSE Onward(job, g[s \ {Max(s)}], Max(s))]

LEMMA MaxIs ==
  ASSUME NEW S \in SUBSET Nat, NEW m \in S, \A y \in S : m >= y
  PROVE  Max(S) = m
<1>1. Max(S) \in S /\ \A y \in S : Max(S) >= y
  <2>1. \E x \in S : \A y \in S : x >= y
    BY Zenon
  <2> QED
    BY <2>1, Zenon DEF Max
<1>2. Max(S) >= m /\ m >= Max(S) /\ Max(S) \in Nat /\ m \in Nat
  BY <1>1, Zenon
<1> QED
  BY <1>2

LEMMA MaxIsMost ==
  ASSUME NEW S \in SUBSET Nat, IsFiniteSet(S), S # {}
  PROVE  Max(S) \in S /\ \A y \in S : Max(S) >= y
<1> DEFINE Above == { n \in Nat : \A y \in S : n >= y }
<1>1. Above # {}
  <2> DEFINE Bad == { T \in SUBSET S : ~ \E n \in Nat : \A y \in T : n >= y }
  <2>1. ASSUME Bad # {} PROVE FALSE
    <3>1. PICK T \in Bad : \A U \in SUBSET T : U # T => U \notin Bad
      <4>1. Bad \in SUBSET (SUBSET S)
        BY Zenon
      <4> HIDE DEF Bad
      <4> QED
        BY <2>1, <4>1, SmallestSet, Zenon
    <3>2. T \in SUBSET S /\ ~ \E n \in Nat : \A y \in T : n >= y
      BY <3>1, Zenon
    <3>3. T # {}
      <4>1. 0 \in Nat
        OBVIOUS
      <4> QED
        BY <3>2, <4>1, Zenon
    <3>4. PICK z \in T : TRUE
      BY <3>3, Zenon
    <3>5. (T \ {z}) \in SUBSET T /\ T \ {z} # T /\ (T \ {z}) \in SUBSET S
      BY <3>2, <3>4, Zenon
    <3>6. PICK n \in Nat : \A y \in T \ {z} : n >= y
      BY <3>1, <3>5, Zenon
    <3>7. z \in Nat /\ T \in SUBSET Nat
      BY <3>2, <3>4, Zenon
    <3>8. PICK k \in Nat : k >= n /\ k >= z
      <4>1. n + z \in Nat /\ n + z >= n /\ n + z >= z
        BY <3>6, <3>7
      <4> QED
        BY <4>1, Zenon
    <3>9. \A y \in T : k >= y
      BY <3>6, <3>7, <3>8
    <3> QED
      BY <3>2, <3>8, <3>9, Zenon
  <2>2. S \in SUBSET S /\ S \notin Bad
    BY <2>1, Zenon
  <2> QED
    BY <2>2, Zenon
<1> DEFINE m == Min(Above)
<1>2. m \in Above /\ \A y \in Above : m <= y
  <2>1. Above \in SUBSET Nat
    BY Zenon
  <2> HIDE DEF Above
  <2> QED
    BY <1>1, <2>1, MinIsLeast, Zenon
<1>3. m \in Nat /\ (\A y \in S : m >= y)
  BY <1>2, Zenon
<1>4. \A y \in Above : m <= y
  BY <1>2, Zenon
<1> HIDE DEF m
<1>5. m \in S
  <2>1. ASSUME m \notin S PROVE FALSE
    <3>1. PICK z \in S : TRUE
      BY Zenon
    <3>2. m # 0 /\ \A y \in S : m - 1 >= y
      BY <1>3, <2>1, <3>1
    <3>3. m - 1 \in Nat
      BY <1>3, <3>2
    <3>4. m - 1 \in Above
      BY <3>2, <3>3, Zenon
    <3>5. m <= m - 1
      BY <1>4, <3>4, Zenon
    <3> QED
      BY <1>3, <3>5
  <2> QED
    BY <2>1
<1>6. Max(S) = m
  BY <1>3, <1>5, MaxIs, Zenon
<1> QED
  BY <1>3, <1>5, <1>6, Zenon

(* The function that computes a fold over the numbers up to n exists.      *)
LEMMA FoldExists ==
  ASSUME NEW job, NEW base, NEW D \in SUBSET Nat, IsFiniteSet(D)
  PROVE  \E g : FoldsUp(job, D, base, g)
<1> DEFINE Bad == { T \in SUBSET D : ~ \E g : FoldsUp(job, T, base, g) }
<1>1. ASSUME Bad # {} PROVE FALSE
  <2>1. Bad \in SUBSET (SUBSET D)
    BY Zenon
  <2>2. PICK T \in Bad : \A U \in SUBSET T : U # T => U \notin Bad
    <3> HIDE DEF Bad
    <3> QED
      BY <1>1, <2>1, SmallestSet, Zenon
  <2>3. T \in SUBSET D /\ ~ \E g : FoldsUp(job, T, base, g)
    BY <2>2, Zenon
  <2>4. IsFiniteSet(T) /\ T \in SUBSET Nat
    BY <2>3, FS_Subset, Zenon
  <2>5. CASE T = {}
    <3> DEFINE g == [s \in SUBSET T |-> base]
    <3>1. \A s \in SUBSET T : s = {} /\ g[s] = base
      BY <2>5, Zenon
    <3>2. g = [s \in SUBSET T |-> IF s = {} THEN base
                                  ELSE Onward(job, g[s \ {Max(s)}], Max(s))]
      BY <3>1, Zenon
    <3>3. FoldsUp(job, T, base, g)
      BY <3>2, Zenon DEF FoldsUp
    <3> QED
      BY <2>3, <3>3, Zenon
  <2>6. CASE T # {}
    <3> DEFINE m == Max(T)
               R == T \ {m}
    <3>1. m \in T /\ \A y \in T : m >= y
      BY <2>4, <2>6, MaxIsMost, Zenon
    <3>2. R \in SUBSET T /\ R # T /\ R \in SUBSET D
      BY <2>3, <3>1, Zenon
    <3>3. PICK f : FoldsUp(job, R, base, f)
      BY <2>2, <3>2, Zenon
    <3>f. f = [s \in SUBSET R |-> IF s = {} THEN base
                                  ELSE Onward(job, f[s \ {Max(s)}], Max(s))]
      BY <3>3, Zenon DEF FoldsUp
    <3> HIDE DEF m
    <3> DEFINE g == [s \in SUBSET T |-> IF m \in s THEN Onward(job, f[s \ {m}], m) ELSE f[s]]
    <3>4. ASSUME NEW s \in SUBSET T
          PROVE  g[s] = IF s = {} THEN base ELSE Onward(job, g[s \ {Max(s)}], Max(s))
      <4>1. s \in SUBSET Nat /\ IsFiniteSet(s)
        BY <2>4, FS_Subset, Zenon
      <4>2. CASE s = {}
        <5>1. g[s] = f[s] /\ s \in SUBSET R
          BY <4>2, Zenon
        <5> QED
          BY <3>f, <4>2, <5>1, Zenon
      <4>3. CASE m \in s
        <5>1. Max(s) = m
          BY <3>1, <4>1, <4>3, MaxIs, Zenon
        <5>2. (s \ {m}) \in SUBSET T /\ m \notin s \ {m}
          BY Zenon
        <5>3. g[s \ {m}] = f[s \ {m}] /\ g[s] = Onward(job, f[s \ {m}], m)
          BY <4>3, <5>2, Zenon
        <5> HIDE DEF g
        <5> QED
          BY <4>3, <5>1, <5>3, Zenon
      <4>4. CASE m \notin s /\ s # {}
        <5>1. s \in SUBSET R
          BY <4>4, Zenon
        <5>2. g[s] = f[s]
          BY <4>4, Zenon
        <5>3. (s \ {Max(s)}) \in SUBSET T /\ m \notin s \ {Max(s)}
          BY <4>4, Zenon
        <5>4. g[s \ {Max(s)}] = f[s \ {Max(s)}]
          BY <5>3, Zenon
        <5>5. f[s] = Onward(job, f[s \ {Max(s)}], Max(s))
          BY <3>f, <4>4, <5>1, Zenon
        <5> HIDE DEF g
        <5> QED
          BY <4>4, <5>2, <5>4, <5>5, Zenon
      <4> QED
        BY <4>2, <4>3, <4>4, Zenon
    <3>5. g = [s \in SUBSET T |-> g[s]]
      BY Zenon
    <3>6. FoldsUp(job, T, base, g)
      <4> HIDE DEF g
      <4> QED
        BY <3>4, <3>5, Zenon DEF FoldsUp
    <3> QED
      BY <2>3, <3>6, Zenon
  <2> QED
    BY <2>5, <2>6, Zenon
<1>2. D \in SUBSET D /\ D \notin Bad
  BY <1>1, Zenon
<1> QED
  BY <1>2, Zenon

StepsTaken(job, base, n, g) ==
  /\ g[1 .. 0] = base
  /\ \A k \in 1 .. n : g[1 .. k] = Onward(job, g[1 .. (k - 1)], k)

(* It starts with the base and takes one step for each number.             *)
LEMMA FoldSteps ==
  ASSUME NEW job, NEW base, NEW n \in Nat, NEW g, FoldsUp(job, 1 .. n, base, g)
  PROVE  StepsTaken(job, base, n, g)
<1> DEFINE D == 1 .. n
<1>3. g = [s \in SUBSET D |-> IF s = {} THEN base
                              ELSE Onward(job, g[s \ {Max(s)}], Max(s))]
  BY Zenon DEF FoldsUp
<1>4. g[1 .. 0] = base
  <2>1. 1 .. 0 = {}
    OBVIOUS
  <2> HIDE DEF D
  <2> QED
    BY <1>3, <2>1, Zenon
<1>5. ASSUME NEW k \in 1 .. n
      PROVE  g[1 .. k] = Onward(job, g[1 .. (k - 1)], k)
  <2>1. 1 .. k \in SUBSET D /\ 1 .. k # {} /\ 1 .. k \in SUBSET Nat /\ k \in 1 .. k
        /\ (\A y \in 1 .. k : k >= y) /\ (1 .. k) \ {k} = 1 .. (k - 1)
    <3>1. k \in Nat /\ k >= 1 /\ k <= n
      OBVIOUS
    <3> HIDE DEF D
    <3>2. 1 .. k \in SUBSET D
      BY <3>1 DEF D
    <3>3. (1 .. k) \ {k} = 1 .. (k - 1)
      BY <3>1
    <3>4. 1 .. k # {} /\ 1 .. k \in SUBSET Nat /\ k \in 1 .. k /\ (\A y \in 1 .. k : k >= y)
      <4>1. k \in 1 .. k /\ \A y \in 1 .. k : y \in Nat /\ k >= y
        BY <3>1
      <4> QED
        BY <4>1, Zenon
    <3> QED
      BY <3>2, <3>3, <3>4, Zenon
  <2>2. Max(1 .. k) = k
    BY <2>1, MaxIs, Zenon
  <2> HIDE DEF D
  <2>3. g[1 .. k] = Onward(job, g[(1 .. k) \ {Max(1 .. k)}], Max(1 .. k))
    BY <1>3, <2>1, Zenon
  <2> QED
    BY <2>1, <2>2, <2>3, Zenon
<1> QED
  BY <1>4, <1>5, Zenon DEF StepsTaken

(* Looking up a path takes its steps in turn.                              *)
LookupFolds(t, p, steps, D, g) ==
  g = [s \in SUBSET D |->
         IF s = {} THEN {p}
         ELSE UNION { Taken(t, q, steps[Max(s)]) : q \in g[s \ {Max(s)}] }]

LooksUp(t, p, steps, n, g) ==
  /\ g[1 .. 0] = {p}
  /\ \A k \in 1 .. n :
       g[1 .. k] = UNION { Taken(t, q, steps[k]) : q \in g[1 .. (k - 1)] }
  /\ config_setting_lookup(t, p, steps) = g[1 .. n]

(* config_setting_lookup, step by step.                                    *)
LEMMA LookupSteps ==
  ASSUME NEW t, NEW p, NEW steps, NEW n \in Nat, DOMAIN steps = 1 .. n, steps # <<>>
  PROVE  \E g : LooksUp(t, p, steps, n, g)
<1> DEFINE D == 1 .. n
           job == <<"lookup", t, steps>>
           g == CHOOSE h : LookupFolds(t, p, steps, D, h)
<1>1. D \in SUBSET Nat /\ IsFiniteSet(D)
  BY FS_Interval
<1>2. \A x, k : Onward(job, x, k) = UNION { Taken(t, q, steps[k]) : q \in x }
  BY DEF Onward
<1>3. DOMAIN steps = D
  OBVIOUS
<1> HIDE DEF D, job
<1>4. \A h : LookupFolds(t, p, steps, D, h) <=> FoldsUp(job, D, {p}, h)
  <2> TAKE h
  <2> DEFINE a == [s \in SUBSET D |->
                     IF s = {} THEN {p}
                     ELSE UNION { Taken(t, q, steps[Max(s)]) : q \in h[s \ {Max(s)}] }]
             b == [s \in SUBSET D |-> IF s = {} THEN {p}
                                      ELSE Onward(job, h[s \ {Max(s)}], Max(s))]
  <2>1. ASSUME NEW s \in SUBSET D PROVE a[s] = b[s]
    <3>1. CASE s = {}
      BY <3>1, Zenon
    <3>2. CASE s # {}
      <4> DEFINE m == Max(s)
                 r == h[s \ {m}]
      <4>1. Onward(job, r, m) = UNION { Taken(t, q, steps[m]) : q \in r }
        BY <1>2, Zenon
      <4> QED
        BY <3>2, <4>1, Zenon
    <3> QED
      BY <3>1, <3>2, Zenon
  <2>2. a = b
    <3>1. a = [s \in SUBSET D |-> a[s]] /\ b = [s \in SUBSET D |-> b[s]]
      BY Zenon
    <3> HIDE DEF a, b
    <3> QED
      BY <2>1, <3>1, Zenon
  <2>3. LookupFolds(t, p, steps, D, h) <=> h = a
    BY Zenon DEF LookupFolds
  <2>4. FoldsUp(job, D, {p}, h) <=> h = b
    BY Zenon DEF FoldsUp
  <2> HIDE DEF a, b
  <2> QED
    BY <2>2, <2>3, <2>4, Zenon
<1>5. LookupFolds(t, p, steps, D, g)
  <2>1. \E h : FoldsUp(job, D, {p}, h)
    BY <1>1, FoldExists, Zenon
  <2> QED
    BY <1>4, <2>1, Zenon
<1>6. FoldsUp(job, D, {p}, g)
  BY <1>4, <1>5, Zenon
<1>7. config_setting_lookup(t, p, steps) = g[D]
  BY <1>3, Zenon DEF config_setting_lookup, FoldLeft, MapThenFoldSet, LookupFolds
<1> HIDE DEF g
<1>8. /\ g[1 .. 0] = {p}
      /\ \A k \in 1 .. n : g[1 .. k] = Onward(job, g[1 .. (k - 1)], k)
  <2>1. FoldsUp(job, 1 .. n, {p}, g)
    BY <1>6, Zenon DEF D
  <2> HIDE DEF D
  <2>2. StepsTaken(job, {p}, n, g)
    BY <2>1, FoldSteps, Zenon
  <2> QED
    BY <2>2, Zenon DEF StepsTaken
<1> QED
  BY <1>2, <1>7, <1>8, ZenonT(60) DEF D, LooksUp

(* Reading a text reads its tokens in turn, up to the first refused.       *)
ReadFolds(c, tokens, at, D, g) ==
  g = [s \in SUBSET D |->
         IF s = {} THEN c
         ELSE The({ IF e.error # NULL THEN e ELSE ReadToken(e, tokens[Max(s)], at) :
                      e \in {g[s \ {Max(s)}]} })]

ReadsOn(c, tokens, at, n, g) ==
  /\ g[1 .. 0] = c
  /\ \A k \in 1 .. n : g[1 .. k] = ReadOn(g[1 .. (k - 1)], tokens[k], at)
  /\ ReadTokens(c, tokens, at) = g[1 .. n]

(* ReadTokens, token by token.                                             *)
LEMMA ReadSteps ==
  ASSUME NEW c, NEW tokens, NEW at, NEW n \in Nat, DOMAIN tokens = 1 .. n
  PROVE  \E g : ReadsOn(c, tokens, at, n, g)
<1> DEFINE D == 1 .. n
           job == <<"read", at, tokens>>
           g == CHOOSE h : ReadFolds(c, tokens, at, D, h)
<1>1. D \in SUBSET Nat /\ IsFiniteSet(D)
  BY FS_Interval
<1>2. \A x, k : Onward(job, x, k) = ReadOn(x, tokens[k], at)
  BY DEF Onward
<1>3. DOMAIN tokens = D
  OBVIOUS
<1>t. \A x : The({x}) = x
  BY Zenon DEF The
<1> HIDE DEF D, job
<1>4. \A h : ReadFolds(c, tokens, at, D, h) <=> FoldsUp(job, D, c, h)
  <2> TAKE h
  <2> DEFINE a == [s \in SUBSET D |->
                     IF s = {} THEN c
                     ELSE The({ IF e.error # NULL THEN e ELSE ReadToken(e, tokens[Max(s)], at) :
                                  e \in {h[s \ {Max(s)}]} })]
             b == [s \in SUBSET D |-> IF s = {} THEN c
                                      ELSE Onward(job, h[s \ {Max(s)}], Max(s))]
  <2>1. ASSUME NEW s \in SUBSET D PROVE a[s] = b[s]
    <3>1. CASE s = {}
      BY <3>1, Zenon
    <3>2. CASE s # {}
      <4> DEFINE m == Max(s)
                 r == h[s \ {m}]
      <4>1. Onward(job, r, m) = ReadOn(r, tokens[m], at)
        BY <1>2, Zenon
      <4>2. { IF e.error # NULL THEN e ELSE ReadToken(e, tokens[m], at) : e \in {r} }
              = { ReadOn(r, tokens[m], at) }
        BY Zenon DEF ReadOn
      <4>3. a[s] = The({ IF e.error # NULL THEN e ELSE ReadToken(e, tokens[m], at) : e \in {r} })
        BY <3>2, Zenon
      <4>4. a[s] = ReadOn(r, tokens[m], at)
        BY <1>t, <4>2, <4>3, Zenon
      <4> HIDE DEF a
      <4>5. b[s] = Onward(job, r, m)
        BY <3>2, Zenon
      <4> QED
        BY <4>1, <4>4, <4>5, Zenon
    <3> QED
      BY <3>1, <3>2, Zenon
  <2>2. a = b
    <3>1. a = [s \in SUBSET D |-> a[s]] /\ b = [s \in SUBSET D |-> b[s]]
      BY Zenon
    <3> HIDE DEF a, b
    <3> QED
      BY <2>1, <3>1, Zenon
  <2>3. ReadFolds(c, tokens, at, D, h) <=> h = a
    BY Zenon DEF ReadFolds
  <2>4. FoldsUp(job, D, c, h) <=> h = b
    BY Zenon DEF FoldsUp
  <2> HIDE DEF a, b
  <2> QED
    BY <2>2, <2>3, <2>4, Zenon
<1>5. ReadFolds(c, tokens, at, D, g)
  <2>1. \E h : FoldsUp(job, D, c, h)
    BY <1>1, FoldExists, Zenon
  <2> QED
    BY <1>4, <2>1, Zenon
<1>6. FoldsUp(job, D, c, g)
  BY <1>4, <1>5, Zenon
<1>7. ReadTokens(c, tokens, at) = g[D]
  BY <1>3, Zenon DEF ReadTokens, FoldLeft, MapThenFoldSet, ReadFolds
<1> HIDE DEF g
<1>8. /\ g[1 .. 0] = c
      /\ \A k \in 1 .. n : g[1 .. k] = Onward(job, g[1 .. (k - 1)], k)
  <2>1. FoldsUp(job, 1 .. n, c, g)
    BY <1>6, Zenon DEF D
  <2> HIDE DEF D
  <2>2. StepsTaken(job, c, n, g)
    BY <2>1, FoldSteps, Zenon
  <2> QED
    BY <2>2, Zenon DEF StepsTaken
<1> QED
  BY <1>2, <1>7, <1>8, Zenon DEF D, ReadsOn

(* What holds at the start and is kept by every step holds at the end: the *)
(* steps after which it does not hold have no first.                       *)
LEMMA KeptThroughout ==
  ASSUME NEW n \in Nat, NEW Held \in SUBSET (0 .. n), 0 \in Held,
         \A k \in 1 .. n : k - 1 \in Held => k \in Held
  PROVE  Held = 0 .. n
<1> DEFINE Bad == (0 .. n) \ Held
<1>1. ASSUME Bad # {} PROVE FALSE
  <2>1. Bad \in SUBSET Nat
    OBVIOUS
  <2>2. Min(Bad) \in Bad /\ \A y \in Bad : Min(Bad) <= y
    <3> HIDE DEF Bad
    <3> QED
      BY <1>1, <2>1, MinIsLeast, Zenon
  <2> DEFINE k == Min(Bad)
  <2>3. k \in 0 .. n /\ k \notin Held /\ \A y \in Bad : k <= y
    BY <2>2
  <2> HIDE DEF k
  <2>4. k \in 1 .. n /\ k - 1 \in 0 .. n /\ ~ (k <= k - 1)
    BY <2>3
  <2>5. k - 1 \in Held
    BY <2>3, <2>4, Zenon
  <2> QED
    BY <2>3, <2>4, <2>5, Zenon
<1> QED
  BY <1>1, Zenon

-----------------------------------------------------------------------------
(* The members of a group have names of their own: a lookup finds one.     *)

(* A member found is an element of the group and has the name.             *)
LEMMA MemberIs ==
  ASSUME NEW t, IsTree(t), NEW p \in DOMAIN t, NEW name
  PROVE  config_setting_get_member(t, p, name) =
           IF t[p].type = "group" THEN { q \in Elements(t, p) : t[q].name = name } ELSE {}
<1> DEFINE S == { q \in Elements(t, p) : t[q].name = name }
<1>1. ASSUME t[p].type = "group" PROVE First(S) = S
  <2>1. ASSUME NEW q \in S, NEW r \in S PROVE q = r
    <3>1. /\ q \in DOMAIN t /\ r \in DOMAIN t /\ q # <<>> /\ r # <<>>
          /\ Front(q) = p /\ Front(r) = p /\ t[q].name = t[r].name
      BY Zenon DEF Elements
    <3> QED
      BY <1>1, <3>1, Zenon DEF IsTree, Named, Siblings
  <2>2. ASSUME NEW q \in S PROVE Last(q) <= Last(q)
    <3>1. Last(q) \in Nat
      BY ElementsAre, Zenon DEF IsTree, Shaped
    <3> QED
      BY <3>1
  <2> HIDE DEF S
  <2>3. First(S) = { x \in S : \A q \in S : Last(x) <= Last(q) }
    BY Zenon DEF First
  <2> QED
    BY <2>1, <2>2, <2>3, Zenon
<1> QED
  BY <1>1, Zenon DEF config_setting_get_member

(* An element of a group is found by its name, and it alone.               *)
LEMMA MemberFound ==
  ASSUME NEW t, IsTree(t), NEW p \in DOMAIN t
  PROVE  /\ \A q \in DOMAIN t : q # <<>> /\ Front(q) = p /\ t[p].type = "group" =>
              config_setting_get_member(t, p, t[q].name) = {q}
         /\ \A name : \A q, r \in config_setting_get_member(t, p, name) : q = r
         /\ \A name : \A q \in config_setting_get_member(t, p, name) :
              /\ q \in DOMAIN t /\ q # <<>> /\ Front(q) = p
              /\ t[p].type = "group" /\ t[q].name = name
<1>1. ASSUME NEW name, NEW q \in config_setting_get_member(t, p, name)
      PROVE  /\ q \in DOMAIN t /\ q # <<>> /\ Front(q) = p
             /\ t[p].type = "group" /\ t[q].name = name
  BY <1>1, MemberIs, Zenon DEF Elements
<1>2. ASSUME NEW name, NEW q \in config_setting_get_member(t, p, name),
             NEW r \in config_setting_get_member(t, p, name)
      PROVE  q = r
  <2>1. q \in DOMAIN t /\ q # <<>> /\ Front(q) = p /\ t[p].type = "group" /\ t[q].name = name
    BY <1>1, Zenon
  <2>2. r \in DOMAIN t /\ r # <<>> /\ Front(r) = p /\ t[r].name = name
    BY <1>1, Zenon
  <2> QED
    BY <2>1, <2>2, Zenon DEF IsTree, Named, Siblings
<1>3. ASSUME NEW q \in DOMAIN t, q # <<>>, Front(q) = p, t[p].type = "group"
      PROVE  config_setting_get_member(t, p, t[q].name) = {q}
  <2>1. q \in config_setting_get_member(t, p, t[q].name)
    BY <1>3, MemberIs, Zenon DEF Elements
  <2>2. \A r \in config_setting_get_member(t, p, t[q].name) : r = q
    BY <1>2, <2>1, Zenon
  <2> QED
    BY <2>1, <2>2, Zenon
<1> QED
  BY <1>1, <1>2, <1>3, Zenon

-----------------------------------------------------------------------------
(* What a path leads to.                                                   *)

(* The beginnings of a path.                                               *)
LEMMA PrefixParts ==
  ASSUME NEW p \in Paths
  PROVE  /\ \A k \in 1 .. Len(p) : /\ SubSeq(p, 1, k) \in Paths /\ SubSeq(p, 1, k) # <<>>
                                   /\ Front(SubSeq(p, 1, k)) = SubSeq(p, 1, k - 1)
                                   /\ Last(SubSeq(p, 1, k)) = p[k]
         /\ SubSeq(p, 1, Len(p)) = p
         /\ SubSeq(p, 1, 0) = <<>>
<1>1. p \in Seq(Nat) /\ Len(p) \in Nat
  BY DEF Paths
<1>2. \A n \in 0 .. Len(p) : /\ SubSeq(p, 1, n) \in Seq(Nat)
                             /\ Len(SubSeq(p, 1, n)) = n
                             /\ \A i \in 1 .. n : SubSeq(p, 1, n)[i] = p[i]
  BY <1>1
<1>3. ASSUME NEW k \in 1 .. Len(p)
      PROVE  /\ SubSeq(p, 1, k) \in Paths /\ SubSeq(p, 1, k) # <<>>
             /\ Front(SubSeq(p, 1, k)) = SubSeq(p, 1, k - 1)
             /\ Last(SubSeq(p, 1, k)) = p[k]
  <2> DEFINE r == SubSeq(p, 1, k)
             f == SubSeq(p, 1, k - 1)
  <2>1. k \in 0 .. Len(p) /\ k - 1 \in 0 .. Len(p) /\ k # 0
    BY <1>1
  <2>2. r \in Paths /\ Len(r) = k /\ \A i \in 1 .. k : r[i] = p[i]
    BY <1>2, <2>1, Zenon DEF Paths
  <2>3. f \in Paths /\ Len(f) = k - 1 /\ \A i \in 1 .. k - 1 : f[i] = p[i]
    BY <1>2, <2>1, Zenon DEF Paths
  <2> HIDE DEF r, f
  <2>4. r # <<>>
    BY <2>1, <2>2, RootPath, Zenon
  <2>5. /\ Front(r) \in Paths /\ Len(Front(r)) = k - 1
        /\ \A i \in 1 .. k - 1 : Front(r)[i] = r[i]
        /\ Last(r) = r[k]
    BY <2>2, <2>4, PathParts, Zenon
  <2>6. \A i \in 1 .. k - 1 : Front(r)[i] = f[i]
    BY <2>2, <2>3, <2>5
  <2>7. Front(r) = f
    BY <2>3, <2>5, <2>6, PathsEqual, Zenon
  <2>8. k \in 1 .. k
    BY <1>1
  <2> QED
    BY <2>2, <2>4, <2>5, <2>7, <2>8, Zenon DEF r, f
<1>4. SubSeq(p, 1, Len(p)) = p
  BY <1>1
<1>5. SubSeq(p, 1, 0) = <<>>
  BY <1>1
<1> QED
  BY <1>3, <1>4, <1>5, Zenon

(* The settings above a setting are in the tree.                           *)
LEMMA Ancestors ==
  ASSUME NEW t, IsTree(t), NEW p \in DOMAIN t
  PROVE  \A k \in 0 .. Len(p) : SubSeq(p, 1, k) \in DOMAIN t
<1> DEFINE n == Len(p)
           Held == { j \in 0 .. n : SubSeq(p, 1, n - j) \in DOMAIN t }
<1>1. p \in Paths
  BY Zenon DEF IsTree, Shaped
<1>2. n \in Nat
  BY <1>1, PathType, Zenon
<1>3. 0 \in Held
  <2>1. 0 \in 0 .. n /\ n - 0 = n
    BY <1>2
  <2>2. SubSeq(p, 1, n) \in DOMAIN t
    BY <1>1, PrefixParts, Zenon
  <2>3. SubSeq(p, 1, n - 0) \in DOMAIN t
    BY <2>1, <2>2
  <2> QED
    BY <2>1, <2>3, Zenon
<1>4. ASSUME NEW k \in 1 .. n, k - 1 \in Held PROVE k \in Held
  <2>1. n - (k - 1) \in 1 .. n /\ (n - (k - 1)) - 1 = n - k /\ k \in 0 .. n
    BY <1>2
  <2> DEFINE r == SubSeq(p, 1, n - (k - 1))
  <2>2. r \in DOMAIN t
    BY <1>4, Zenon
  <2>3. r # <<>> /\ Front(r) = SubSeq(p, 1, n - k)
    <3>1. r # <<>> /\ Front(r) = SubSeq(p, 1, (n - (k - 1)) - 1)
      BY <1>1, <2>1, PrefixParts, Zenon
    <3> QED
      BY <2>1, <3>1
  <2>4. Front(r) \in DOMAIN t
    BY <2>2, <2>3, Zenon DEF IsTree, Shaped
  <2> QED
    BY <2>1, <2>3, <2>4, Zenon
<1>5. Held = 0 .. n
  <2>1. Held \in SUBSET (0 .. n)
    BY Zenon
  <2> HIDE DEF Held, n
  <2> QED
    BY <1>2, <1>3, <1>4, <2>1, KeptThroughout, Zenon
<1>6. ASSUME NEW k \in 0 .. n PROVE SubSeq(p, 1, k) \in DOMAIN t
  <2>1. n - k \in 0 .. n /\ n - (n - k) = k
    BY <1>2
  <2>2. n - k \in Held
    BY <1>5, <2>1, Zenon
  <2>3. SubSeq(p, 1, n - (n - k)) \in DOMAIN t
    BY <2>2, Zenon
  <2> QED
    BY <2>1, <2>3, Zenon
<1> QED
  BY <1>6, Zenon

StepIn(t, p) == IF t[Front(p)].type = "group" THEN [name |-> t[p].name]
                                              ELSE [elem |-> Last(p)]

LEMMA StepTakes ==
  ASSUME NEW t, IsTree(t), NEW p \in DOMAIN t, p # <<>>
  PROVE  Taken(t, Front(p), StepIn(t, p)) = {p}
<1>1. p \in Paths /\ Front(p) \in DOMAIN t
  BY Zenon DEF IsTree, Shaped
<1>2. p = Append(Front(p), Last(p))
  BY <1>1, PathParts, Zenon
<1>3. CASE t[Front(p)].type = "group"
  <2>1. StepIn(t, p) = [name |-> t[p].name]
    BY <1>3, Zenon DEF StepIn
  <2>2. "elem" \notin DOMAIN StepIn(t, p) /\ StepIn(t, p).name = t[p].name
    BY <2>1
  <2>3. config_setting_get_member(t, Front(p), t[p].name) = {p}
    BY <1>1, <1>3, MemberFound, Zenon
  <2> QED
    BY <2>2, <2>3, Zenon DEF Taken
<1>4. CASE t[Front(p)].type # "group"
  <2>1. StepIn(t, p) = [elem |-> Last(p)]
    BY <1>4, Zenon DEF StepIn
  <2>2. "elem" \in DOMAIN StepIn(t, p) /\ StepIn(t, p).elem = Last(p)
    BY <2>1
  <2>3. config_setting_get_elem(t, Front(p), Last(p)) = {p}
    BY <1>2, Zenon DEF config_setting_get_elem
  <2> QED
    BY <2>2, <2>3, Zenon DEF Taken
<1> QED
  BY <1>3, <1>4, Zenon

(* The steps to a setting lead to it.                                      *)
LEMMA LookupLeadsTo ==
  ASSUME NEW t, IsTree(t), NEW p \in DOMAIN t, p # <<>>, NEW steps,
         DOMAIN steps = 1 .. Len(p),
         \A k \in 1 .. Len(p) : steps[k] = StepIn(t, SubSeq(p, 1, k))
  PROVE  config_setting_lookup(t, <<>>, steps) = {p}
<1> DEFINE n == Len(p)
<1>1. p \in Paths
  BY Zenon DEF IsTree, Shaped
<1>2. n \in Nat /\ n # 0
  BY <1>1, PathParts
<1>3. steps # <<>>
  BY <1>2
<1>g. PICK g : LooksUp(t, <<>>, steps, n, g)
  BY <1>2, <1>3, LookupSteps, Zenon
<1>4. /\ g[1 .. 0] = {<<>>}
      /\ \A k \in 1 .. n :
           g[1 .. k] = UNION { Taken(t, q, steps[k]) : q \in g[1 .. (k - 1)] }
      /\ config_setting_lookup(t, <<>>, steps) = g[1 .. n]
  BY <1>g, Zenon DEF LooksUp
<1> DEFINE Held == { k \in 0 .. n : g[1 .. k] = {SubSeq(p, 1, k)} }
<1>5. 0 \in Held
  <2>1. 0 \in 0 .. n
    BY <1>2
  <2> QED
    BY <1>1, <1>4, <2>1, PrefixParts, Zenon
<1>6. ASSUME NEW k \in 1 .. n, k - 1 \in Held PROVE k \in Held
  <2>1. k \in 0 .. n
    BY <1>2
  <2> DEFINE r == SubSeq(p, 1, k)
             f == SubSeq(p, 1, k - 1)
  <2>2. r # <<>> /\ Front(r) = f
    BY <1>1, PrefixParts, Zenon
  <2>3. r \in DOMAIN t
    BY <2>1, Ancestors, Zenon
  <2>4. Taken(t, f, steps[k]) = {r}
    <3>1. steps[k] = StepIn(t, r)
      BY Zenon
    <3> HIDE DEF r, f
    <3>2. Taken(t, Front(r), StepIn(t, r)) = {r}
      BY <2>2, <2>3, StepTakes, Zenon
    <3> QED
      BY <2>2, <3>1, <3>2, Zenon
  <2>5. g[1 .. (k - 1)] = {f}
    BY <1>6, Zenon
  <2>6. g[1 .. k] = UNION { Taken(t, q, steps[k]) : q \in g[1 .. (k - 1)] }
    BY <1>4, Zenon
  <2>7. g[1 .. k] = {r}
    <3> HIDE DEF r, f
    <3>1. { Taken(t, q, steps[k]) : q \in {f} } = {{r}}
      BY <2>4, Zenon
    <3> QED
      BY <2>5, <2>6, <3>1, Zenon
  <2> QED
    BY <2>1, <2>7, Zenon
<1>7. Held = 0 .. n
  <2>1. Held \in SUBSET (0 .. n)
    BY Zenon
  <2> HIDE DEF Held, n
  <2> QED
    BY <1>2, <1>5, <1>6, <2>1, KeptThroughout, Zenon
<1>8. n \in Held
  <2>1. n \in 0 .. n
    BY <1>2
  <2> QED
    BY <1>7, <2>1, Zenon
<1>9. g[1 .. n] = {p}
  BY <1>1, <1>8, PrefixParts, Zenon
<1> QED
  BY <1>4, <1>9, Zenon

(* Steps from the outside lead to one setting below, or to none.           *)
LEMMA TakenIs ==
  ASSUME NEW t, IsTree(t), NEW p \in DOMAIN t, NEW step \in Steps
  PROVE  /\ \A q \in Taken(t, p, step) : q \in DOMAIN t /\ q # <<>>
         /\ \A q, r \in Taken(t, p, step) : q = r
<1>1. CASE "elem" \in DOMAIN step
  <2>1. step.elem \in Nat
    <3>1. CASE step \in [name : ValidNames]
      BY <1>1, <3>1
    <3>2. CASE step \in [elem : 0 .. 1]
      BY <3>2
    <3> QED
      BY <3>1, <3>2, Zenon DEF Steps
  <2>2. p \in Paths
    BY Zenon DEF IsTree, Shaped
  <2>3. Append(p, step.elem) # <<>>
    BY <2>1, <2>2, PathExtended, Zenon
  <2>4. Taken(t, p, step) = {Append(p, step.elem)} \cap DOMAIN t
    BY <1>1, Zenon DEF Taken, config_setting_get_elem
  <2> QED
    BY <2>3, <2>4, Zenon
<1>2. CASE "elem" \notin DOMAIN step
  <2>1. Taken(t, p, step) = config_setting_get_member(t, p, step.name)
    BY <1>2, Zenon DEF Taken
  <2> DEFINE name == step.name
             M == config_setting_get_member(t, p, name)
  <2> HIDE DEF name
  <2>2. \A q \in M : q \in DOMAIN t /\ q # <<>>
    BY MemberFound, Zenon
  <2>3. \A q, r \in M : q = r
    BY MemberFound, Zenon
  <2> HIDE DEF M
  <2> QED
    BY <2>1, <2>2, <2>3, Zenon DEF M, name
<1> QED
  BY <1>1, <1>2, Zenon

(* A lookup finds one setting of the tree, or none.                        *)
LEMMA LookupFinds ==
  ASSUME NEW t, IsTree(t), NEW p \in DOMAIN t, NEW steps, NEW n \in Nat \ {0},
         DOMAIN steps = 1 .. n, \A k \in 1 .. n : steps[k] \in Steps
  PROVE  /\ \A q \in config_setting_lookup(t, p, steps) : q \in DOMAIN t /\ q # <<>>
         /\ \A q, r \in config_setting_lookup(t, p, steps) : q = r
<1>1. steps # <<>>
  OBVIOUS
<1>g. PICK g : LooksUp(t, p, steps, n, g)
  BY <1>1, LookupSteps, Zenon
<1>2. /\ g[1 .. 0] = {p}
      /\ \A k \in 1 .. n :
           g[1 .. k] = UNION { Taken(t, q, steps[k]) : q \in g[1 .. (k - 1)] }
      /\ config_setting_lookup(t, p, steps) = g[1 .. n]
  BY <1>g, Zenon DEF LooksUp
<1> DEFINE AtMostOne(S) == (\A q \in S : q \in DOMAIN t) /\ (\A q, r \in S : q = r)
           Held == { k \in 0 .. n : AtMostOne(g[1 .. k]) }
<1>3. 0 \in Held
  <2>1. 0 \in 0 .. n
    OBVIOUS
  <2> QED
    BY <1>2, <2>1, Zenon
<1>4. ASSUME NEW k \in 1 .. n, k - 1 \in Held
      PROVE  k \in Held /\ \A q \in g[1 .. k] : q # <<>>
  <2>1. k \in 0 .. n
    OBVIOUS
  <2> DEFINE S == g[1 .. (k - 1)]
  <2>2. AtMostOne(S)
    BY <1>4, Zenon
  <2>3. g[1 .. k] = UNION { Taken(t, q, steps[k]) : q \in S }
    BY <1>2, Zenon
  <2> HIDE DEF S
  <2>4. steps[k] \in Steps
    OBVIOUS
  <2>5. ASSUME NEW x \in g[1 .. k] PROVE x \in DOMAIN t /\ x # <<>>
    <3>1. PICK q \in S : x \in Taken(t, q, steps[k])
      BY <2>3, <2>5, Zenon
    <3> QED
      BY <2>2, <2>4, <3>1, TakenIs, Zenon
  <2>6. ASSUME NEW x \in g[1 .. k], NEW y \in g[1 .. k] PROVE x = y
    <3>1. PICK q \in S : x \in Taken(t, q, steps[k])
      BY <2>3, <2>6, Zenon
    <3>2. PICK r \in S : y \in Taken(t, r, steps[k])
      BY <2>3, <2>6, Zenon
    <3>3. q = r
      BY <2>2, Zenon
    <3> QED
      BY <2>2, <2>4, <3>1, <3>2, <3>3, TakenIs, Zenon
  <2> QED
    BY <2>1, <2>5, <2>6, Zenon
<1>5. Held = 0 .. n
  <2>1. Held \in SUBSET (0 .. n) /\ n \in Nat
    BY Zenon
  <2> HIDE DEF Held
  <2> QED
    BY <1>3, <1>4, <2>1, KeptThroughout, Zenon
<1>6. n \in 0 .. n /\ n \in 1 .. n /\ n - 1 \in 0 .. n
  OBVIOUS
<1>7. AtMostOne(g[1 .. n]) /\ \A q \in g[1 .. n] : q # <<>>
  <2>1. n \in Held /\ n - 1 \in Held
    BY <1>5, <1>6, Zenon
  <2> QED
    BY <1>4, <1>6, <2>1, Zenon
<1> QED
  BY <1>2, <1>7, Zenon

(* A single name is looked up among the members.                           *)
LEMMA LookupName ==
  ASSUME NEW t, NEW p, NEW name
  PROVE  config_setting_lookup(t, p, <<[name |-> name]>>) = config_setting_get_member(t, p, name)
<1> DEFINE steps == <<[name |-> name]>>
<1>1. DOMAIN steps = 1 .. 1 /\ steps # <<>> /\ steps[1] = [name |-> name] /\ 1 \in Nat
  OBVIOUS
<1> HIDE DEF steps
<1>g. PICK g : LooksUp(t, p, steps, 1, g)
  BY <1>1, LookupSteps, Zenon
<1>2. /\ g[1 .. 0] = {p}
      /\ \A k \in 1 .. 1 :
           g[1 .. k] = UNION { Taken(t, q, steps[k]) : q \in g[1 .. (k - 1)] }
      /\ config_setting_lookup(t, p, steps) = g[1 .. 1]
  BY <1>g, Zenon DEF LooksUp
<1>3. 1 \in 1 .. 1 /\ 1 - 1 = 0
  OBVIOUS
<1>4. g[1 .. 1] = UNION { Taken(t, q, steps[1]) : q \in {p} }
  BY <1>2, <1>3
<1>5. Taken(t, p, steps[1]) = config_setting_get_member(t, p, name)
  <2>1. "elem" \notin DOMAIN [name |-> name] /\ [name |-> name].name = name
    OBVIOUS
  <2> QED
    BY <1>1, <2>1, Zenon DEF Taken
<1>6. UNION { Taken(t, q, steps[1]) : q \in {p} } = Taken(t, p, steps[1])
  BY Zenon
<1> QED
  BY <1>2, <1>4, <1>5, <1>6, Zenon DEF steps

-----------------------------------------------------------------------------
(* A tree in which one setting has been changed.                           *)

Changed(t, p, s) == [q \in DOMAIN t |-> IF q = p THEN s ELSE t[q]]

LEMMA ChangedIs ==
  ASSUME NEW t, IsTree(t), NEW p \in DOMAIN t, NEW s, IsSetting(s), s.name = t[p].name,
         s.type = t[p].type \/ (t[p].type = "none" /\ s.type \in Types)
  PROVE  /\ Retyped(t, Changed(t, p, s))
         /\ DOMAIN Changed(t, p, s) = DOMAIN t
         /\ Changed(t, p, s)[p] = s
         /\ \A q \in DOMAIN t : q # p => Changed(t, p, s)[q] = t[q]
<1> DEFINE u == Changed(t, p, s)
<1>1. /\ DOMAIN u = DOMAIN t /\ u[p] = s
      /\ \A q \in DOMAIN t : q # p => u[q] = t[q]
      /\ u = [q \in DOMAIN t |-> u[q]]
  BY Zenon DEF Changed
<1> HIDE DEF u
<1>2. \A q \in DOMAIN t : IsSetting(t[q])
  BY Zenon DEF IsTree, Nested
<1>3. Retyped(t, u)
  <2>1. ASSUME NEW q \in DOMAIN t
        PROVE  /\ IsSetting(u[q]) /\ u[q].name = t[q].name
               /\ u[q].type = t[q].type \/ (t[q].type = "none" /\ u[q].type \in Types)
    <3>1. CASE q = p
      BY <1>1, <3>1, Zenon
    <3>2. CASE q # p
      BY <1>1, <1>2, <3>2, Zenon
    <3> QED
      BY <3>1, <3>2, Zenon
  <2> QED
    BY <1>1, <2>1, Zenon DEF Retyped
<1> QED
  BY <1>1, <1>3, Zenon DEF u

GivenType(old, type) == IF old = "none" THEN type ELSE old

ValueSet(s, type, v) ==
  [name |-> s.name, type |-> GivenType(s.type, type), value |-> v,
   hook |-> s.hook, source |-> s.source]

Hooked(s, w) ==
  [name |-> s.name, type |-> s.type, value |-> s.value, hook |-> w, source |-> s.source]

Placed(s, at) ==
  [name |-> s.name, type |-> s.type, value |-> s.value, hook |-> s.hook, source |-> at]

Typed(s, type) ==
  [name |-> s.name, type |-> type, value |-> s.value, hook |-> s.hook, source |-> s.source]

SetValue(t, p, type, v) ==
  [t EXCEPT ![p].type = IF @ = "none" THEN type ELSE @, ![p].value = v]

SetHook(t, p, w) == [t EXCEPT ![p].hook = w]

SetSource(t, p, at) == [t EXCEPT ![p].source = at]

SetType(t, p, type) == [t EXCEPT ![p].type = type]

(* Each EXCEPT of the operations changes one setting.                      *)
LEMMA ChangesAre ==
  ASSUME NEW t, IsTree(t), NEW p \in DOMAIN t
  PROVE  /\ \A type, v : SetValue(t, p, type, v) = Changed(t, p, ValueSet(t[p], type, v))
         /\ \A w : SetHook(t, p, w) = Changed(t, p, Hooked(t[p], w))
         /\ \A at : SetSource(t, p, at) = Changed(t, p, Placed(t[p], at))
         /\ \A type : SetType(t, p, type) = Changed(t, p, Typed(t[p], type))
<1> DEFINE s == t[p]
<1>1. s = [name |-> s.name, type |-> s.type, value |-> s.value, hook |-> s.hook,
           source |-> s.source]
  BY Zenon DEF IsTree, Nested, IsSetting
<1>2. ASSUME NEW x
      PROVE  [t EXCEPT ![p] = x] = Changed(t, p, x)
  <2>1. t = [q \in DOMAIN t |-> t[q]]
    BY Zenon DEF IsTree
  <2> QED
    BY <2>1, Zenon DEF Changed
<1>3. ASSUME NEW type, NEW v
      PROVE  [t EXCEPT ![p].type = IF @ = "none" THEN type ELSE @, ![p].value = v]
               = Changed(t, p, ValueSet(t[p], type, v))
  <2> DEFINE x == [s EXCEPT !.type = IF @ = "none" THEN type ELSE @]
             y == [x EXCEPT !.value = v]
  <2> DEFINE new == IF s.type = "none" THEN type ELSE s.type
  <2>3. x = [name |-> s.name, type |-> new, value |-> s.value, hook |-> s.hook,
             source |-> s.source]
    <3> HIDE DEF new
    <3> QED
      BY <1>1 DEF new
  <2>1. y = ValueSet(s, type, v)
    <3> HIDE DEF x, new
    <3>1. y = [name |-> s.name, type |-> new, value |-> v, hook |-> s.hook, source |-> s.source]
      BY <2>3
    <3> QED
      BY <3>1, Zenon DEF new, ValueSet, GivenType
  <2>2. [t EXCEPT ![p].type = IF @ = "none" THEN type ELSE @, ![p].value = v]
          = [[t EXCEPT ![p] = x] EXCEPT ![p] = [@ EXCEPT !.value = v]]
    OBVIOUS
  <2> QED
    BY <2>1, <2>2 DEF Changed
<1>4. ASSUME NEW w
      PROVE  [t EXCEPT ![p].hook = w] = Changed(t, p, Hooked(t[p], w))
  <2>1. [s EXCEPT !.hook = w] = Hooked(s, w)
    BY <1>1 DEF Hooked
  <2>2. [t EXCEPT ![p].hook = w] = [t EXCEPT ![p] = [s EXCEPT !.hook = w]]
    OBVIOUS
  <2> QED
    BY <1>2, <2>1, <2>2
<1>5. ASSUME NEW at
      PROVE  [t EXCEPT ![p].source = at] = Changed(t, p, Placed(t[p], at))
  <2>1. [s EXCEPT !.source = at] = Placed(s, at)
    BY <1>1 DEF Placed
  <2>2. [t EXCEPT ![p].source = at] = [t EXCEPT ![p] = [s EXCEPT !.source = at]]
    OBVIOUS
  <2> QED
    BY <1>2, <2>1, <2>2
<1>6. ASSUME NEW type
      PROVE  [t EXCEPT ![p].type = type] = Changed(t, p, Typed(t[p], type))
  <2>1. [s EXCEPT !.type = type] = Typed(s, type)
    BY <1>1 DEF Typed
  <2>2. [t EXCEPT ![p].type = type] = [t EXCEPT ![p] = [s EXCEPT !.type = type]]
    OBVIOUS
  <2> QED
    BY <1>2, <2>1, <2>2
<1> QED
  BY <1>3, <1>4, <1>5, <1>6, Zenon DEF SetValue, SetHook, SetSource, SetType

(* A setting changed, but for its name.                                    *)
BecomesIn(s, x, type, hook) ==
  IsSetting(x) /\ x.name = s.name /\ x.type = type /\ x.hook = hook

LEMMA ValueSetIs ==
  ASSUME NEW s, IsSetting(s), NEW type, NEW v
  PROVE  /\ BecomesIn(s, ValueSet(s, type, v), GivenType(s.type, type), s.hook)
         /\ ValueSet(s, type, v).value = v
BY DEF IsSetting, ValueSet, BecomesIn

LEMMA HookedIs ==
  ASSUME NEW s, IsSetting(s), NEW w
  PROVE  BecomesIn(s, Hooked(s, w), s.type, w)
BY DEF IsSetting, Hooked, BecomesIn

LEMMA PlacedIs ==
  ASSUME NEW s, IsSetting(s), NEW at
  PROVE  BecomesIn(s, Placed(s, at), s.type, s.hook)
BY DEF IsSetting, Placed, BecomesIn

LEMMA TypedIs ==
  ASSUME NEW s, IsSetting(s), NEW type
  PROVE  BecomesIn(s, Typed(s, type), type, s.hook)
BY DEF IsSetting, Typed, BecomesIn

(* The tree of the setting changed.                                        *)
ChangesTo(t, u, p, s) ==
  /\ DOMAIN u = DOMAIN t /\ Retyped(t, u) /\ IsTree(u) /\ (Uniform(t) => Uniform(u))
  /\ u[p] = s
  /\ \A q \in DOMAIN t : q # p => u[q] = t[q]

(* A change of one setting that keeps its name, and its type unless it had *)
(* none, keeps the tree.                                                   *)
LEMMA ChangedTree ==
  ASSUME NEW t, IsTree(t), NEW p \in DOMAIN t, NEW s, NEW type, NEW hook,
         BecomesIn(t[p], s, type, hook),
         type = t[p].type \/ (t[p].type = "none" /\ type \in Types)
  PROVE  ChangesTo(t, Changed(t, p, s), p, s)
<1> DEFINE u == Changed(t, p, s)
<1>1. IsSetting(s) /\ s.name = t[p].name /\ s.type = type
  BY Zenon DEF BecomesIn
<1>2. s.type = t[p].type \/ (t[p].type = "none" /\ s.type \in Types)
  BY <1>1, Zenon
<1>3. /\ Retyped(t, Changed(t, p, s))
      /\ DOMAIN Changed(t, p, s) = DOMAIN t
      /\ Changed(t, p, s)[p] = s
      /\ \A q \in DOMAIN t : q # p => Changed(t, p, s)[q] = t[q]
  BY <1>1, <1>2, ChangedIs
<1>4. /\ Retyped(t, u) /\ DOMAIN u = DOMAIN t /\ u[p] = s
      /\ \A q \in DOMAIN t : q # p => u[q] = t[q]
  BY <1>3, Zenon
<1> HIDE DEF u
<1>5. IsTree(u) /\ (Uniform(t) => Uniform(u))
  BY <1>4, RetypedTree, Zenon
<1> QED
  BY <1>4, <1>5, Zenon DEF ChangesTo, u

-----------------------------------------------------------------------------
(* Setting a value.                                                        *)

Stores(t, p, type, v, convert) ==
  config_setting_set(t, p, type, v, convert) =
    { SetValue(t, p, type, x) : x \in StoredAs(type, t[p].type, v, convert) }

(* config_setting_set stores a value in one setting, whose type it keeps   *)
(* unless it had none.                                                     *)
LEMMA SetIs ==
  ASSUME NEW t, IsTree(t), NEW p \in DOMAIN t, NEW type \in Scalars, NEW v, NEW convert
  PROVE  /\ Stores(t, p, type, v, convert)
         /\ \A x : /\ ChangesTo(t, SetValue(t, p, type, x), p, ValueSet(t[p], type, x))
                   /\ BecomesIn(t[p], ValueSet(t[p], type, x), GivenType(t[p].type, type),
                                t[p].hook)
<1>1. Stores(t, p, type, v, convert)
  BY Zenon DEF config_setting_set, SetValue, Stores
<1>2. ASSUME NEW x
      PROVE  /\ ChangesTo(t, SetValue(t, p, type, x), p, ValueSet(t[p], type, x))
             /\ BecomesIn(t[p], ValueSet(t[p], type, x), GivenType(t[p].type, type), t[p].hook)
  <2> DEFINE s == ValueSet(t[p], type, x)
             given == GivenType(t[p].type, type)
             hook == t[p].hook
  <2>1. IsSetting(t[p])
    BY Zenon DEF IsTree, Nested
  <2>2. BecomesIn(t[p], s, given, hook)
    BY <2>1, ValueSetIs, Zenon
  <2>3. given = t[p].type \/ (t[p].type = "none" /\ given \in Types)
    BY DEF Types, GivenType
  <2>4. SetValue(t, p, type, x) = Changed(t, p, s)
    BY ChangesAre, Zenon
  <2> HIDE DEF s, given, hook
  <2>5. ChangesTo(t, Changed(t, p, s), p, s)
    BY <2>2, <2>3, ChangedTree, Zenon
  <2> QED
    BY <2>2, <2>4, <2>5, Zenon DEF s, given, hook
<1> QED
  BY <1>1, <1>2, Zenon

(* At most one value is stored.                                            *)
LEMMA StoredIs ==
  ASSUME NEW type, NEW old, NEW v, NEW convert
  PROVE  \A x, y \in StoredAs(type, old, v, convert) : x = y
BY Zenon DEF StoredAs

-----------------------------------------------------------------------------
(* Removing a setting.                                                     *)

Dropped(t, q) == Without(t, Front(q), Last(q))

Drops(t, q, u, w) ==
  /\ IsTree(u) /\ (Uniform(t) => Uniform(u))
  /\ Renames(t, u, w)
  /\ \A x \in DOMAIN t \ Subtree(t, q) : \E r \in DOMAIN u : w[r] = x
  /\ \A r \in DOMAIN u : w[r] \notin Subtree(t, q)
  /\ \A x \in DOMAIN t : ~ IsStrictPrefix(Front(q), x) => x \in DOMAIN u /\ w[x] = x /\ u[x] = t[x]

(* What config_setting_remove_elem leaves, with the names and hooks it had. *)
LEMMA DroppedIs ==
  ASSUME NEW t, IsTree(t), NEW q \in DOMAIN t, q # <<>>
  PROVE  /\ config_setting_remove_elem(t, Front(q), Last(q)) = {Dropped(t, q)}
         /\ \E w : Drops(t, q, Dropped(t, q), w)
<1> DEFINE p == Front(q)
           i == Last(q)
           w == WasOf(t, p, i)
           u == Without(t, p, i)
<1>1. q \in Paths
  BY Zenon DEF IsTree, Shaped
<1>2. p \in Paths /\ i \in Nat /\ Append(p, i) = q
  BY <1>1, PathParts, Zenon
<1>3. u = Dropped(t, q)
  BY Zenon DEF Dropped
<1> HIDE DEF p, i
<1>4. /\ config_setting_remove_elem(t, p, i) = {u}
      /\ IsTree(u) /\ (Uniform(t) => Uniform(u))
      /\ Renames(t, u, w)
      /\ \A x \in DOMAIN t \ Subtree(t, Append(p, i)) : \E r \in DOMAIN u : w[r] = x
      /\ \A r \in DOMAIN u : w[r] \notin Subtree(t, Append(p, i))
      /\ \A x \in DOMAIN t : ~ IsStrictPrefix(p, x) => x \in DOMAIN u /\ w[x] = x /\ u[x] = t[x]
  <2>1. Append(p, i) \in DOMAIN t
    BY <1>2, Zenon
  <2> QED
    BY <1>2, <2>1, RemovedTree, ZenonT(60)
<1> HIDE DEF u, w
<1>5. Drops(t, q, u, w)
  <2>1. p = Front(q)
    BY DEF p
  <2> QED
    BY <1>2, <1>4, <2>1, Zenon DEF Drops
<1> QED
  BY <1>3, <1>4, <1>5, Zenon DEF p, i

-----------------------------------------------------------------------------
(* Adding a setting.                                                       *)

Adds(t, p, own, type, room, u) ==
  /\ own \in ValidNames \cup {NULL}
  /\ t[p].type \in Aggregates
  /\ t[p].type = "array" => type \in Scalars
  /\ IsTree(room) /\ p \in DOMAIN room /\ room[p] = t[p] /\ (Uniform(t) => Uniform(room))
  /\ t[p].type = "group" => \A q \in Elements(room, p) : room[q].name # own
  /\ u = Grown(room, p, Setting(own, type))

(* The room for it: the tree, or the tree without the one of that name.    *)
RoomIs(t, p, own, room) ==
  LET same == config_setting_get_member(t, p, own) IN
  IF same = {} THEN room = t ELSE \E q \in same : same = {q} /\ room = Dropped(t, q)

(* config_setting_add: one setting more, of a name not in the group, in the *)
(* tree or in the tree without the one of that name.                       *)
LEMMA AddIs ==
  ASSUME NEW t, IsTree(t), NEW p \in DOMAIN t, NEW name, NEW type, NEW allowed
  PROVE  /\ \A u \in config_setting_add(t, p, name, type, allowed) :
              \E room : /\ Adds(t, p, NameOf(t, p, name), type, room, u)
                        /\ RoomIs(t, p, NameOf(t, p, name), room)
         /\ \A u, x \in config_setting_add(t, p, name, type, allowed) : u = x
<1> DEFINE own  == NameOf(t, p, name)
           same == config_setting_get_member(t, p, own)
           all  == config_setting_add(t, p, name, type, allowed)
           room == IF same = {} THEN {t} ELSE config_setting_remove(t, p, <<[name |-> own]>>)
<1>1. /\ \A q \in same : /\ q \in DOMAIN t /\ q # <<>> /\ Front(q) = p
                         /\ t[p].type = "group" /\ t[q].name = own
      /\ \A q, r \in same : q = r
  <2> HIDE DEF own
  <2> QED
    BY MemberFound, Zenon
<1>2. all = IF \/ t[p].type = "array" /\ type \notin Scalars
               \/ own \notin ValidNames \cup {NULL}
               \/ same # {} /\ ~allowed
              THEN {}
              ELSE UNION { config_setting_create(r, p, own, type) : r \in room }
  BY Zenon DEF config_setting_add
<1>3. ASSUME NEW q \in same
      PROVE  config_setting_remove(t, p, <<[name |-> own]>>) = {Dropped(t, q)}
  <2> HIDE DEF own
  <2> DEFINE steps == <<[name |-> own]>>
  <2>1. steps # <<>> /\ "elem" \notin DOMAIN Last(steps)
    <3>1. Last(steps) = [name |-> own] /\ steps # <<>>
      BY DEF Last
    <3>2. "elem" \notin DOMAIN [name |-> own]
      OBVIOUS
    <3> QED
      BY <3>1, <3>2, Zenon
  <2>2. config_setting_lookup(t, p, steps) = {q}
    <3>1. config_setting_lookup(t, p, steps) = config_setting_get_member(t, p, own)
      BY LookupName, Zenon
    <3>2. same = {q}
      BY <1>1, Zenon
    <3> QED
      BY <3>1, <3>2, Zenon
  <2>3. t[p].type = "group" /\ q \in DOMAIN t /\ q # <<>>
    BY <1>1, Zenon
  <2> HIDE DEF steps
  <2>4. config_setting_remove(t, p, steps) =
          UNION { config_setting_remove_elem(t, Front(r), Last(r)) : r \in {q} }
    BY <2>1, <2>2, <2>3, Zenon DEF config_setting_remove
  <2>5. config_setting_remove_elem(t, Front(q), Last(q)) = {Dropped(t, q)}
    BY <2>3, DroppedIs, Zenon
  <2> HIDE DEF same
  <2>6. UNION { config_setting_remove_elem(t, Front(r), Last(r)) : r \in {q} } = {Dropped(t, q)}
    <3>1. { config_setting_remove_elem(t, Front(r), Last(r)) : r \in {q} } = {{Dropped(t, q)}}
      BY <2>5, Zenon
    <3> QED
      BY <3>1, Zenon
  <2> QED
    BY <2>4, <2>6, Zenon DEF steps
<1>4. PICK r : room = {r} /\ RoomIs(t, p, own, r)
  <2>1. CASE same = {}
    BY <2>1, Zenon DEF RoomIs
  <2>2. CASE same # {}
    <3>1. PICK q \in same : same = {q}
      BY <1>1, <2>2, Zenon
    <3>2. room = {Dropped(t, q)}
      BY <1>3, <2>2, <3>1, Zenon
    <3> HIDE DEF room
    <3>3. RoomIs(t, p, own, Dropped(t, q))
      BY <3>1, Zenon DEF RoomIs
    <3> QED
      BY <3>2, <3>3, Zenon
  <2> QED
    BY <2>1, <2>2, Zenon
<1> DEFINE u == Grown(r, p, Setting(own, type))
<1>5. /\ IsTree(r) /\ p \in DOMAIN r /\ r[p] = t[p] /\ (Uniform(t) => Uniform(r))
      /\ t[p].type = "group" => \A q \in Elements(r, p) : r[q].name # own
  <2>1. CASE same = {}
    <3>1. r = t
      BY <1>4, <2>1, Zenon DEF RoomIs
    <3>2. ASSUME t[p].type = "group", NEW q \in Elements(t, p) PROVE t[q].name # own
      <4>1. q \in DOMAIN t /\ q # <<>> /\ Front(q) = p
        BY <3>2, Zenon DEF Elements
      <4>2. config_setting_get_member(t, p, t[q].name) = {q}
        BY <3>2, <4>1, MemberFound, Zenon
      <4> QED
        BY <2>1, <4>2, Zenon
    <3> QED
      BY <3>1, <3>2, Zenon
  <2>2. CASE same # {}
    <3>1. PICK q \in same : same = {q} /\ r = Dropped(t, q)
      BY <1>4, <2>2, Zenon DEF RoomIs
    <3>2. q \in DOMAIN t /\ q # <<>> /\ Front(q) = p /\ t[p].type = "group" /\ t[q].name = own
      BY <1>1, <3>1, Zenon
    <3>3. PICK w : Drops(t, q, r, w)
      BY <3>1, <3>2, DroppedIs, Zenon
    <3>4. p \in DOMAIN r /\ r[p] = t[p]  /\ w[p] = p
      <4>1. ~ IsStrictPrefix(p, p)
        BY Zenon DEF IsStrictPrefix
      <4> QED
        BY <3>2, <3>3, <4>1, Zenon DEF Drops
    <3>5. ASSUME NEW x \in Elements(r, p) PROVE r[x].name # own
      <4>1. x \in DOMAIN r /\ x # <<>> /\ Front(x) = p
        BY <3>5, Zenon DEF Elements
      <4>2. /\ w[x] \in DOMAIN t /\ w[x] # <<>> /\ Front(w[x]) = p /\ r[x] = t[w[x]]
        BY <3>3, <3>4, <4>1, ZenonT(60) DEF Drops, Renames
      <4>3. w[x] # q
        <5>1. q \in Subtree(t, q)
          <6>1. q \in Paths
            BY <3>2, Zenon DEF IsTree, Shaped
          <6>2. IsPrefix(q, q)
            <7>1. Len(q) \in Nat /\ Len(q) <= Len(q)
              BY <6>1, PathType
            <7> QED
              BY <6>1, <7>1, PrefixMeans, Zenon
          <6> QED
            BY <3>2, <6>2, Zenon DEF Subtree
        <5> QED
          BY <3>3, <4>1, <5>1, Zenon DEF Drops
      <4>4. t[w[x]].name # own
        BY <3>2, <4>2, <4>3, Zenon DEF IsTree, Named, Siblings
      <4> QED
        BY <4>2, <4>4, Zenon
    <3> QED
      BY <3>3, <3>4, <3>5, Zenon DEF Drops
  <2> QED
    BY <2>1, <2>2, Zenon
<1>6. \A x \in all : /\ own \in ValidNames \cup {NULL} /\ t[p].type \in Aggregates
                     /\ t[p].type = "array" => type \in Scalars
                     /\ x = u
  <2> TAKE x \in all
  <2> HIDE DEF all, room, same
  <2>1. own \in ValidNames \cup {NULL} /\ (t[p].type = "array" => type \in Scalars)
        /\ x \in UNION { config_setting_create(y, p, own, type) : y \in {r} }
    BY <1>2, <1>4, Zenon
  <2> HIDE DEF own
  <2>2. x \in config_setting_create(r, p, own, type)
    BY <2>1, Zenon
  <2>3. config_setting_create(r, p, own, type) =
          IF r[p].type \in Aggregates THEN {u} ELSE {}
    BY <1>5, CreateGrows, Zenon
  <2> QED
    BY <1>5, <2>1, <2>2, <2>3, Zenon
<1>7. ASSUME NEW x \in all PROVE Adds(t, p, own, type, r, x)
  <2> HIDE DEF own, u
  <2>1. x = u
    BY <1>6, Zenon
  <2> QED
    BY <1>5, <1>6, <2>1, Zenon DEF Adds, u
<1> HIDE DEF all, own
<1>8. \A x, y \in all : x = y
  BY <1>6, Zenon
<1> QED
  BY <1>4, <1>7, <1>8, Zenon DEF all, own

-----------------------------------------------------------------------------
(* The wrapper objects of a tree.                                          *)

Wrapping(t, objects) ==
  /\ objects = [x \in DOMAIN objects |-> objects[x]]
  /\ DOMAIN objects = Hooks(t, DOMAIN t)
  /\ \A p, q \in DOMAIN t : t[p].hook = t[q].hook => p = q \/ t[p].hook = NULL
  /\ \A p \in DOMAIN t : /\ t[p].hook \in Wrappers \cup {NULL}
                         /\ t[p].hook # NULL => objects[t[p].hook] = t[p].type

Remaining(objects, gone) == Restrict(objects, DOMAIN objects \ gone)

NoHooks(t) == \A p \in DOMAIN t : t[p].hook = NULL

LEMMA RestrictIs ==
  ASSUME NEW objects, NEW gone
  PROVE  /\ DOMAIN Remaining(objects, gone) = DOMAIN objects \ gone
         /\ \A x \in DOMAIN objects \ gone : Remaining(objects, gone)[x] = objects[x]
         /\ Remaining(objects, gone) = [x \in DOMAIN Remaining(objects, gone) |->
                                         Remaining(objects, gone)[x]]
BY Zenon DEF Remaining, Restrict

LEMMA RestrictNone ==
  ASSUME NEW objects, objects = [x \in DOMAIN objects |-> objects[x]]
  PROVE  Remaining(objects, {}) = objects
<1>1. DOMAIN objects \ {} = DOMAIN objects
  BY Zenon
<1> QED
  BY <1>1, Zenon DEF Remaining, Restrict

(* A tree whose settings have the hooks and types of another.              *)
LEMMA WrappingKept ==
  ASSUME NEW t, NEW u, NEW objects, Wrapping(t, objects), DOMAIN u = DOMAIN t,
         \A q \in DOMAIN t : /\ u[q].hook = t[q].hook
                             /\ t[q].hook # NULL => u[q].type = t[q].type
  PROVE  Wrapping(u, objects)
<1>1. DOMAIN objects = Hooks(u, DOMAIN u)
  <2>1. \A x : x \in Hooks(u, DOMAIN u) <=> x \in Hooks(t, DOMAIN t)
    BY Zenon DEF Hooks
  <2> QED
    BY <2>1, Zenon DEF Wrapping
<1> QED
  BY <1>1, Zenon DEF Wrapping

(* A new setting has no wrapper object, or is given one of its own.        *)
LEMMA WrappingGrown ==
  ASSUME NEW t, IsTree(t), NEW objects, Wrapping(t, objects), NEW p \in DOMAIN t,
         NEW name, NEW type
  PROVE  Wrapping(Grown(t, p, Setting(name, type)), objects)
<1> DEFINE s == Setting(name, type)
           u == Grown(t, p, s)
           e == NextOf(t, p)
<1>1. s.hook = NULL
  BY SettingIs, Zenon
<1> HIDE DEF s
<1>2. GrowsBy(t, p, s, u, e)
  BY GrownShape, Zenon DEF IsTree
<1> HIDE DEF u, e
<1>3. DOMAIN u = DOMAIN t \cup {e} /\ (\A q \in DOMAIN t : u[q] = t[q]) /\ u[e] = s
  BY <1>2, Zenon DEF GrowsBy
<1>4. DOMAIN objects = Hooks(u, DOMAIN u)
  <2>1. ASSUME NEW x
        PROVE  x \in Hooks(u, DOMAIN u) <=> x \in Hooks(t, DOMAIN t)
    <3>1. ASSUME x \in Hooks(u, DOMAIN u) PROVE x \in Hooks(t, DOMAIN t)
      <4>1. PICK q \in DOMAIN u : x # NULL /\ u[q].hook = x
        BY <3>1, Zenon DEF Hooks
      <4>2. q \in DOMAIN t /\ t[q].hook = x
        BY <1>1, <1>3, <4>1, Zenon
      <4> QED
        BY <4>1, <4>2, Zenon DEF Hooks
    <3>2. ASSUME x \in Hooks(t, DOMAIN t) PROVE x \in Hooks(u, DOMAIN u)
      <4>1. PICK q \in DOMAIN t : x # NULL /\ t[q].hook = x
        BY <3>2, Zenon DEF Hooks
      <4>2. q \in DOMAIN u /\ u[q].hook = x
        BY <1>3, <4>1, Zenon
      <4> QED
        BY <4>1, <4>2, Zenon DEF Hooks
    <3> QED
      BY <3>1, <3>2, Zenon
  <2> QED
    BY <2>1, Zenon DEF Wrapping
<1>5. ASSUME NEW a \in DOMAIN u, NEW b \in DOMAIN u, u[a].hook = u[b].hook, u[a].hook # NULL
      PROVE  a = b
  <2>1. a \in DOMAIN t /\ b \in DOMAIN t /\ u[a] = t[a] /\ u[b] = t[b]
    BY <1>1, <1>3, <1>5, Zenon
  <2> QED
    BY <1>5, <2>1, Zenon DEF Wrapping
<1>6. ASSUME NEW a \in DOMAIN u
      PROVE  /\ u[a].hook \in Wrappers \cup {NULL}
             /\ u[a].hook # NULL => objects[u[a].hook] = u[a].type
  <2>1. CASE a = e
    BY <1>1, <1>3, <2>1, Zenon
  <2>2. CASE a \in DOMAIN t
    BY <1>3, <2>2, Zenon DEF Wrapping
  <2> QED
    BY <1>3, <2>1, <2>2, Zenon
<1>7. objects = [x \in DOMAIN objects |-> objects[x]]
  BY Zenon DEF Wrapping
<1> QED
  BY <1>4, <1>5, <1>6, <1>7, Zenon DEF Wrapping, u, s

(* The objects destroyed with a setting are those of it and of all below.  *)
LEMMA WrappingDropped ==
  ASSUME NEW t, IsTree(t), NEW objects, Wrapping(t, objects), NEW q \in DOMAIN t, q # <<>>
  PROVE  Wrapping(Dropped(t, q), Remaining(objects, config_setting_destroy(t, q)))
<1> DEFINE u == Dropped(t, q)
           gone == config_setting_destroy(t, q)
           left == Remaining(objects, gone)
<1>1. PICK w : Drops(t, q, u, w)
  BY DroppedIs, Zenon
<1> HIDE DEF u
<1>2. /\ \A r \in DOMAIN u : w[r] \in DOMAIN t /\ u[r] = t[w[r]] /\ w[r] \notin Subtree(t, q)
      /\ \A r, x \in DOMAIN u : w[r] = w[x] => r = x
      /\ \A x \in DOMAIN t \ Subtree(t, q) : \E r \in DOMAIN u : w[r] = x
  <2>1. /\ w \in [DOMAIN u -> DOMAIN t]
        /\ \A r, x \in DOMAIN u : w[r] = w[x] => r = x
        /\ u = [r \in DOMAIN u |-> t[w[r]]]
    BY <1>1, Zenon DEF Drops, Renames
  <2>2. /\ \A r \in DOMAIN u : w[r] \notin Subtree(t, q)
        /\ \A x \in DOMAIN t \ Subtree(t, q) : \E r \in DOMAIN u : w[r] = x
    BY <1>1, Zenon DEF Drops
  <2>3. \A r \in DOMAIN u : w[r] \in DOMAIN t /\ u[r] = t[w[r]]
    BY <2>1, Zenon
  <2> QED
    BY <2>1, <2>2, <2>3, Zenon
<1>3. /\ DOMAIN left = DOMAIN objects \ gone
      /\ \A x \in DOMAIN objects \ gone : left[x] = objects[x]
      /\ left = [x \in DOMAIN left |-> left[x]]
  BY RestrictIs, Zenon
<1>4. gone = Hooks(t, Subtree(t, q))
  BY Zenon DEF config_setting_destroy
<1> HIDE DEF gone, left
<1>5. Subtree(t, q) \in SUBSET DOMAIN t
  BY Zenon DEF Subtree
<1>6. ASSUME NEW x, x # NULL
      PROVE  x \in DOMAIN left <=> \E r \in DOMAIN u : u[r].hook = x
  <2>1. x \in DOMAIN left <=> (\E a \in DOMAIN t : t[a].hook = x) /\ x \notin gone
    BY <1>3, <1>6, ZenonT(60) DEF Wrapping, Hooks
  <2>2. x \in gone <=> \E a \in Subtree(t, q) : t[a].hook = x
    BY <1>4, <1>6, Zenon DEF Hooks
  <2>3. ASSUME NEW a \in DOMAIN t, t[a].hook = x, x \notin gone
        PROVE  \E r \in DOMAIN u : u[r].hook = x
    <3>1. a \in DOMAIN t \ Subtree(t, q)
      BY <2>2, <2>3, Zenon
    <3>2. PICK r \in DOMAIN u : w[r] = a
      BY <1>2, <3>1, Zenon
    <3> QED
      BY <1>2, <2>3, <3>2, Zenon
  <2>4. ASSUME NEW r \in DOMAIN u, u[r].hook = x
        PROVE  (\E a \in DOMAIN t : t[a].hook = x) /\ x \notin gone
    <3>1. w[r] \in DOMAIN t /\ t[w[r]].hook = x /\ w[r] \notin Subtree(t, q)
      BY <1>2, <2>4, Zenon
    <3>2. ASSUME NEW a \in Subtree(t, q), t[a].hook = x PROVE FALSE
      <4>1. a \in DOMAIN t
        BY <1>5, Zenon
      <4>2. a = w[r]
        BY <1>6, <3>1, <3>2, <4>1, Zenon DEF Wrapping
      <4> QED
        BY <3>1, <4>2, Zenon
    <3> QED
      BY <2>2, <3>1, <3>2, Zenon
  <2> QED
    BY <2>1, <2>3, <2>4, Zenon
<1>7. DOMAIN left = Hooks(u, DOMAIN u)
  <2>1. NULL \notin DOMAIN left /\ NULL \notin Hooks(u, DOMAIN u)
    BY <1>3, Zenon DEF Wrapping, Hooks
  <2>2. \A x : x \in DOMAIN left <=> x \in Hooks(u, DOMAIN u)
    BY <1>6, <2>1, Zenon DEF Hooks
  <2> QED
    BY <2>2, Zenon
<1>8. ASSUME NEW a \in DOMAIN u, NEW b \in DOMAIN u, u[a].hook = u[b].hook, u[a].hook # NULL
      PROVE  a = b
  <2>1. w[a] \in DOMAIN t /\ w[b] \in DOMAIN t /\ u[a] = t[w[a]] /\ u[b] = t[w[b]]
    BY <1>2, Zenon
  <2>2. w[a] = w[b]
    BY <1>8, <2>1, Zenon DEF Wrapping
  <2> QED
    BY <1>2, <2>2, Zenon
<1>9. ASSUME NEW a \in DOMAIN u
      PROVE  /\ u[a].hook \in Wrappers \cup {NULL}
             /\ u[a].hook # NULL => left[u[a].hook] = u[a].type
  <2>1. w[a] \in DOMAIN t /\ u[a] = t[w[a]]
    BY <1>2, Zenon
  <2>2. /\ t[w[a]].hook \in Wrappers \cup {NULL}
        /\ t[w[a]].hook # NULL => objects[t[w[a]].hook] = t[w[a]].type
    BY <2>1, Zenon DEF Wrapping
  <2>3. ASSUME u[a].hook # NULL PROVE left[u[a].hook] = objects[u[a].hook]
    <3>1. u[a].hook \in DOMAIN left
      BY <1>6, <2>3, Zenon
    <3> QED
      BY <1>3, <3>1, Zenon
  <2> QED
    BY <2>1, <2>2, <2>3, Zenon
<1> QED
  BY <1>3, <1>7, <1>8, <1>9, Zenon DEF Wrapping, u, left, gone

NoObjects(objects) == DOMAIN objects = {} /\ objects = [x \in DOMAIN objects |-> objects[x]]

(* A tree without hooks needs no objects.                                  *)
LEMMA WrappingNone ==
  ASSUME NEW t, NoHooks(t), NEW objects, NoObjects(objects)
  PROVE  Wrapping(t, objects)
<1>1. Hooks(t, DOMAIN t) = {}
  BY Zenon DEF NoHooks, Hooks
<1> QED
  BY <1>1, Zenon DEF Wrapping, NoHooks, NoObjects

(* When the whole tree is destroyed, so are all the objects.               *)
LEMMA AllDestroyed ==
  ASSUME NEW t, IsTree(t), NEW objects, Wrapping(t, objects)
  PROVE  NoObjects(Remaining(objects, config_setting_destroy(t, <<>>)))
<1>1. Subtree(t, <<>>) = DOMAIN t
  <2>1. ASSUME NEW q \in DOMAIN t PROVE IsPrefix(<<>>, q)
    <3>1. q \in Paths
      BY Zenon DEF IsTree, Shaped
    <3>2. Len(q) \in Nat
      BY <3>1, PathType, Zenon
    <3>3. Len(<<>>) = 0 /\ 0 <= Len(q) /\ 1 .. 0 = {} /\ <<>> \in Paths
      BY <3>2, RootPath
    <3>4. \A i \in 1 .. Len(<<>>) : <<>>[i] = q[i]
      BY <3>3
    <3> QED
      BY <3>1, <3>3, <3>4, PrefixMeans
  <2> QED
    BY <2>1, Zenon DEF Subtree
<1>2. config_setting_destroy(t, <<>>) = DOMAIN objects
  BY <1>1, Zenon DEF config_setting_destroy, Wrapping
<1>3. DOMAIN objects \ DOMAIN objects = {}
  BY Zenon
<1> QED
  <2> DEFINE gone == config_setting_destroy(t, <<>>)
  <2>1. DOMAIN objects \ gone = {}
    BY <1>2, <1>3, Zenon
  <2> HIDE DEF gone
  <2>2. DOMAIN Remaining(objects, gone) = {}
    BY <2>1, RestrictIs, Zenon
  <2>3. Remaining(objects, gone) = [x \in DOMAIN Remaining(objects, gone) |->
                                     Remaining(objects, gone)[x]]
    BY RestrictIs, Zenon
  <2> QED
    BY <2>2, <2>3, Zenon DEF NoObjects, gone

(* A setting is given a wrapper object.                                    *)
Wraps(t, p, found) ==
  /\ IsTree(found.tree) /\ (Uniform(t) => Uniform(found.tree))
  /\ Wrapping(found.tree, found.alive)
  /\ DOMAIN found.tree = DOMAIN t
  /\ \A q \in DOMAIN t : q # p => found.tree[q] = t[q]
  /\ \A q \in DOMAIN t : found.tree[q].type = t[q].type

(* wrapSetting finds the object of a setting or makes one for it.          *)
LEMMA WrappedIs ==
  ASSUME NEW t, IsTree(t), NEW objects, Wrapping(t, objects), NEW p \in DOMAIN t,
         NULL \notin Wrappers, NEW found \in Wrapped(t, objects, p)
  PROVE  Wraps(t, p, found)
<1>1. CASE t[p].hook # NULL
  <2>1. found = [tree |-> t, alive |-> objects]
    BY <1>1, Zenon DEF Wrapped
  <2>2. found.tree = t /\ found.alive = objects
    BY <2>1
  <2> QED
    BY <2>2, Zenon DEF Wraps
<1>2. CASE t[p].hook = NULL
  <2> DEFINE new(w) == [x \in DOMAIN objects \cup {w} |->
                          IF x \in DOMAIN objects THEN objects[x] ELSE t[p].type]
  <2>1. PICK w \in Wrappers \ DOMAIN objects :
               found = [tree |-> SetHook(t, p, w), alive |-> new(w)]
    BY <1>2, Zenon DEF Wrapped, SetHook
  <2> DEFINE u == SetHook(t, p, w)
             s == Hooked(t[p], w)
             type == t[p].type
             obj == new(w)
  <2>2. found.tree = u /\ found.alive = obj
    BY <2>1
  <2>3. /\ DOMAIN obj = DOMAIN objects \cup {w}
        /\ \A x \in DOMAIN objects : obj[x] = objects[x]
        /\ obj[w] = type
        /\ obj = [x \in DOMAIN obj |-> obj[x]]
    BY <2>1, Zenon
  <2> HIDE DEF obj, new
  <2>4. u = Changed(t, p, s)
    BY ChangesAre, Zenon
  <2>5. BecomesIn(t[p], s, type, w)
    BY HookedIs, Zenon DEF IsTree, Nested
  <2> HIDE DEF s
  <2>6. ChangesTo(t, Changed(t, p, s), p, s)
    BY <2>5, ChangedTree, Zenon
  <2> HIDE DEF u
  <2>7. /\ DOMAIN u = DOMAIN t /\ IsTree(u) /\ (Uniform(t) => Uniform(u)) /\ u[p] = s
        /\ \A q \in DOMAIN t : q # p => u[q] = t[q]
    BY <2>4, <2>6, Zenon DEF ChangesTo
  <2>8. s.type = type /\ s.hook = w
    BY <2>5, Zenon DEF BecomesIn
  <2>9. \A q \in DOMAIN t : u[q].type = t[q].type
    BY <2>7, <2>8, Zenon
  <2>10. w # NULL /\ w \in Wrappers /\ w \notin DOMAIN objects
    BY Zenon
  <2>11. \A q \in DOMAIN t : t[q].hook # w
    BY <2>10, Zenon DEF Wrapping, Hooks
  <2>12. Wrapping(u, obj)
    <3>1. ASSUME NEW x
          PROVE  x \in Hooks(u, DOMAIN u) <=> x \in Hooks(t, DOMAIN t) \/ x = w
      <4>1. x \in Hooks(u, DOMAIN u) <=> x # NULL /\ \E q \in DOMAIN t : u[q].hook = x
        BY <2>7, Zenon DEF Hooks
      <4>2. x \in Hooks(t, DOMAIN t) <=> x # NULL /\ \E q \in DOMAIN t : t[q].hook = x
        BY Zenon DEF Hooks
      <4>3. ASSUME NEW q \in DOMAIN t, u[q].hook = x
            PROVE  x = w \/ t[q].hook = x
        BY <2>7, <2>8, <4>3, Zenon
      <4>4. ASSUME NEW q \in DOMAIN t, t[q].hook = x, x # NULL
            PROVE  u[q].hook = x
        BY <1>2, <2>7, <4>4, Zenon
      <4>5. u[p].hook = w
        BY <2>7, <2>8, Zenon
      <4> QED
        BY <2>10, <4>1, <4>2, <4>3, <4>4, <4>5, Zenon
    <3>2. DOMAIN obj = Hooks(u, DOMAIN u)
      BY <2>3, <3>1, Zenon DEF Wrapping
    <3>3. ASSUME NEW a \in DOMAIN u, NEW b \in DOMAIN u, u[a].hook = u[b].hook, u[a].hook # NULL
          PROVE  a = b
      <4>1. CASE a = p /\ b # p
        BY <2>7, <2>8, <2>11, <3>3, <4>1, Zenon
      <4>2. CASE a # p /\ b = p
        BY <2>7, <2>8, <2>11, <3>3, <4>2, Zenon
      <4>3. CASE a # p /\ b # p
        BY <2>7, <3>3, <4>3, Zenon DEF Wrapping
      <4> QED
        BY <4>1, <4>2, <4>3, Zenon
    <3>4. ASSUME NEW a \in DOMAIN u
          PROVE  /\ u[a].hook \in Wrappers \cup {NULL}
                 /\ u[a].hook # NULL => obj[u[a].hook] = u[a].type
      <4>1. CASE a = p
        BY <2>3, <2>7, <2>8, <2>10, <4>1, Zenon
      <4>2. CASE a # p
        <5>1. a \in DOMAIN t /\ u[a] = t[a]
          BY <2>7, <4>2, Zenon
        <5>2. t[a].hook \in Wrappers \cup {NULL} /\ (t[a].hook # NULL =>
                objects[t[a].hook] = t[a].type /\ t[a].hook \in DOMAIN objects)
          BY <5>1, Zenon DEF Wrapping, Hooks
        <5> QED
          BY <2>3, <5>1, <5>2, Zenon
      <4> QED
        BY <4>1, <4>2, Zenon
    <3> QED
      BY <2>3, <3>2, <3>3, <3>4, Zenon DEF Wrapping
  <2> QED
    BY <2>2, <2>7, <2>9, <2>12, Zenon DEF Wraps
<1> QED
  BY <1>1, <1>2, Zenon

-----------------------------------------------------------------------------
(* What the parser builds.                                                 *)

Good(t) == IsTree(t) /\ Uniform(t) /\ NoHooks(t)

LEMMA ChangedGood ==
  ASSUME NEW t, Good(t), NEW p \in DOMAIN t, NEW s, NEW type,
         BecomesIn(t[p], s, type, NULL),
         type = t[p].type \/ (t[p].type = "none" /\ type \in Types)
  PROVE  ChangesTo(t, Changed(t, p, s), p, s) /\ Good(Changed(t, p, s))
<1> DEFINE u == Changed(t, p, s)
<1>1. ChangesTo(t, u, p, s)
  BY ChangedTree, Zenon DEF Good
<1> HIDE DEF u
<1>2. s.hook = NULL
  BY Zenon DEF BecomesIn
<1>3. Good(u)
  BY <1>1, <1>2, Zenon DEF ChangesTo, Good, NoHooks
<1> QED
  BY <1>1, <1>3, Zenon DEF u

LEMMA PlacedGood ==
  ASSUME NEW t, Good(t), NEW p \in DOMAIN t, NEW at
  PROVE  LET u == SetSource(t, p, at) IN
         Good(u) /\ DOMAIN u = DOMAIN t /\ \A q \in DOMAIN t : u[q].type = t[q].type
<1> DEFINE s == Placed(t[p], at)
           type == t[p].type
           u == SetSource(t, p, at)
<1>1. t[p].hook = NULL /\ IsSetting(t[p])
  BY Zenon DEF Good, NoHooks, IsTree, Nested
<1>2. BecomesIn(t[p], s, type, NULL)
  BY <1>1, PlacedIs, Zenon
<1>3. u = Changed(t, p, s)
  BY ChangesAre, Zenon DEF Good
<1>4. type = t[p].type
  BY Zenon
<1> HIDE DEF s, type, u
<1>5. ChangesTo(t, u, p, s) /\ Good(u)
  BY <1>2, <1>3, <1>4, ChangedGood, Zenon
<1>6. s.type = t[p].type
  BY <1>2, <1>4, Zenon DEF BecomesIn
<1>7. DOMAIN u = DOMAIN t /\ \A q \in DOMAIN t : u[q].type = t[q].type
  BY <1>5, <1>6, Zenon DEF ChangesTo
<1> QED
  BY <1>5, <1>7, Zenon DEF u

(* What is added to what the parser built leaves it good.                  *)
LEMMA GrownGood ==
  ASSUME NEW t, Good(t), NEW p \in DOMAIN t, t[p].type \in Aggregates,
         NEW name, NEW type \in Types,
         t[p].type = "group" => \A q \in Elements(t, p) : t[q].name # name,
         t[p].type = "array" => type \in Scalars /\ \A q \in Elements(t, p) : t[q].type = type
  PROVE  /\ GrowsBy(t, p, Setting(name, type), Grown(t, p, Setting(name, type)), NextOf(t, p))
         /\ Good(Grown(t, p, Setting(name, type)))
<1> DEFINE s == Setting(name, type)
           u == Grown(t, p, s)
           e == NextOf(t, p)
<1>1. IsTree(u) /\ Uniform(u)
  BY GrownTree, Zenon DEF Good
<1>2. s.hook = NULL
  BY SettingIs, Zenon
<1> HIDE DEF s
<1>3. GrowsBy(t, p, s, u, e)
  BY GrownShape, Zenon DEF Good, IsTree
<1> HIDE DEF u, e
<1>4. NoHooks(u)
  BY <1>2, <1>3, Zenon DEF GrowsBy, NoHooks, Good
<1> QED
  BY <1>1, <1>3, <1>4, Zenon DEF Good, u, e, s

LEMMA DroppedGood ==
  ASSUME NEW t, Good(t), NEW q \in DOMAIN t, q # <<>>
  PROVE  Good(Dropped(t, q))
<1> DEFINE u == Dropped(t, q)
<1>1. PICK w : Drops(t, q, u, w)
  BY DroppedIs, Zenon DEF Good
<1> HIDE DEF u
<1>2. w \in [DOMAIN u -> DOMAIN t] /\ u = [r \in DOMAIN u |-> t[w[r]]]
  BY <1>1, Zenon DEF Drops, Renames
<1>3. NoHooks(u)
  BY <1>2, ZenonT(60) DEF Good, NoHooks
<1> QED
  BY <1>1, <1>3, Zenon DEF Drops, Good, u

(* A setting added, with its position captured, in a group or a list.      *)
Enlarges(t, u, p, e, type) ==
  /\ Good(u)
  /\ e \in DOMAIN u /\ e # <<>> /\ Front(e) = p /\ u[e].type = type
  /\ \A x \in DOMAIN t : ~ IsStrictPrefix(p, x) => x \in DOMAIN u /\ u[x].type = t[x].type

LEMMA RoomGood ==
  ASSUME NEW t, Good(t), NEW p \in DOMAIN t, NEW own, NEW room, RoomIs(t, p, own, room)
  PROVE  /\ Good(room)
         /\ \A x \in DOMAIN t : ~ IsStrictPrefix(p, x) => x \in DOMAIN room /\ room[x] = t[x]
<1> DEFINE same == config_setting_get_member(t, p, own)
<1>1. CASE same = {}
  BY <1>1, Zenon DEF RoomIs
<1>2. CASE same # {}
  <2>1. PICK q \in same : room = Dropped(t, q)
    BY <1>2, Zenon DEF RoomIs
  <2>2. q \in DOMAIN t /\ q # <<>> /\ Front(q) = p
    BY <2>1, MemberFound, Zenon DEF Good
  <2>3. Good(room)
    BY <2>1, <2>2, DroppedGood, Zenon
  <2>4. PICK w : Drops(t, q, room, w)
    BY <2>1, <2>2, DroppedIs, Zenon DEF Good
  <2>5. \A x \in DOMAIN t : ~ IsStrictPrefix(p, x) => x \in DOMAIN room /\ room[x] = t[x]
    BY <2>2, <2>4, Zenon DEF Drops
  <2> QED
    BY <2>3, <2>5, Zenon
<1> QED
  BY <1>1, <1>2, Zenon

(* config_setting_add as the parser uses it, with the position captured.   *)
LEMMA AddedGood ==
  ASSUME NEW t, Good(t), NEW p \in DOMAIN t, t[p].type # "array", NEW name, NEW type \in Types,
         NEW allowed, NEW u \in config_setting_add(t, p, name, type, allowed), NEW at
  PROVE  Enlarges(t, CapturedLast(u, p, at), p, LastOf(u, p), type)
<1> DEFINE own == NameOf(t, p, name)
           e == LastOf(u, p)
           v == CapturedLast(u, p, at)
<1> HIDE DEF own
<1>1. PICK room : Adds(t, p, own, type, room, u) /\ RoomIs(t, p, own, room)
  BY AddIs, Zenon DEF Good, own
<1>2. Good(room) /\ \A x \in DOMAIN t : ~ IsStrictPrefix(p, x) => x \in DOMAIN room /\ room[x] = t[x]
  BY <1>1, RoomGood, ZenonT(60)
<1>3. /\ p \in DOMAIN room /\ room[p] = t[p] /\ t[p].type \in Aggregates
      /\ t[p].type = "group" => \A q \in Elements(room, p) : room[q].name # own
      /\ u = Grown(room, p, Setting(own, type))
  BY <1>1, Zenon DEF Adds
<1> DEFINE s == Setting(own, type)
           f == NextOf(room, p)
<1>4. GrowsBy(room, p, s, u, f) /\ Good(u)
  BY <1>2, <1>3, GrownGood, Zenon
<1>5. e = f
  <2> HIDE DEF f
  <2> QED
    BY <1>2, <1>3, GrownLast, Zenon DEF f, Good
<1>6. s.type = type
  BY SettingIs, Zenon
<1> HIDE DEF e, f, s
<1>7. /\ f # <<>> /\ Front(f) = p /\ f \in DOMAIN u /\ u[f] = s
      /\ \A q \in DOMAIN room : q \in DOMAIN u /\ u[q] = room[q]
  BY <1>4, Zenon DEF GrowsBy
<1>8. v = SetSource(u, e, at)
  BY Zenon DEF CapturedLast, SetSource, e
<1>9. Good(v) /\ DOMAIN v = DOMAIN u /\ \A q \in DOMAIN u : v[q].type = u[q].type
  <2>1. e \in DOMAIN u
    BY <1>5, <1>7, Zenon
  <2> HIDE DEF v
  <2> QED
    BY <1>4, <1>8, <2>1, PlacedGood, Zenon
<1> HIDE DEF v
<1>10. \A x \in DOMAIN t : ~ IsStrictPrefix(p, x) => x \in DOMAIN v /\ v[x].type = t[x].type
  BY <1>2, <1>7, <1>9, Zenon
<1> QED
  BY <1>5, <1>6, <1>7, <1>9, <1>10, Zenon DEF Enlarges, v, e

(* To a list something can always be added.                                *)
LEMMA ListTakes ==
  ASSUME NEW t, IsTree(t), NEW p \in DOMAIN t, t[p].type = "list", NEW type, NEW allowed
  PROVE  config_setting_add(t, p, NULL, type, allowed) # {}
<1>1. NameOf(t, p, NULL) = NULL
  BY Zenon DEF NameOf
<1>2. config_setting_get_member(t, p, NULL) = {}
  BY DEF config_setting_get_member
<1>3. config_setting_add(t, p, NULL, type, allowed) =
        UNION { config_setting_create(u, p, NULL, type) : u \in {t} }
  <2>1. "list" # "array"
    OBVIOUS
  <2> QED
    BY <1>1, <1>2, <2>1, Zenon DEF config_setting_add
<1>4. config_setting_create(t, p, NULL, type) = {Grown(t, p, Setting(NULL, type))}
  <2>1. "list" \in Aggregates
    BY DEF Aggregates
  <2> QED
    BY <2>1, CreateGrows, Zenon
<1> QED
  BY <1>3, <1>4, Zenon

(* An element set at the end of an array or a list.                        *)
ElemAdded(t, p, type, v) ==
  SetValue(Grown(t, p, Setting(NULL, type)), NextOf(t, p), type, v)

LEMMA ElemIs ==
  ASSUME NEW t, IsTree(t), NEW p \in DOMAIN t, t[p].type \in {"array", "list"},
         NEW type \in Scalars, NEW v, NEW convert
  PROVE  /\ config_setting_set_elem(t, p, -1, type, v, convert) =
              IF config_list_checktype(t, p, type) THEN {ElemAdded(t, p, type, v)} ELSE {}
         /\ IsTree(Grown(t, p, Setting(NULL, type)))
         /\ NextOf(t, p) \in DOMAIN Grown(t, p, Setting(NULL, type))
         /\ ChangesTo(Grown(t, p, Setting(NULL, type)), ElemAdded(t, p, type, v), NextOf(t, p),
                      ValueSet(Setting(NULL, type), type, v))
<1> DEFINE s == Setting(NULL, type)
           u == Grown(t, p, s)
           e == NextOf(t, p)
<1>1. type \in Types /\ t[p].type \in Aggregates /\ t[p].type # "group"
  BY DEF Types, Aggregates
<1>2. IsTree(u)
  BY <1>1, GrownTree, Zenon
<1>3. s.type = type
  BY SettingIs, Zenon
<1>4. config_setting_create(t, p, NULL, type) = {u}
  BY <1>1, CreateGrows, Zenon
<1> HIDE DEF s
<1>5. GrowsBy(t, p, s, u, e)
  BY GrownShape, Zenon DEF IsTree
<1>6. e = Append(p, config_setting_length(t, p))
  BY DEF NextOf
<1> HIDE DEF u, e
<1>7. e \in DOMAIN u /\ u[e] = s
  BY <1>5, Zenon DEF GrowsBy
<1>8. StoredAs(type, type, v, convert) = {v}
  BY DEF StoredAs
<1>9. config_setting_set(u, e, type, v, convert) = {SetValue(u, e, type, v)}
  <2>1. Stores(u, e, type, v, convert)
    BY <1>2, <1>7, SetIs, Zenon
  <2>2. StoredAs(type, u[e].type, v, convert) = {v}
    BY <1>3, <1>7, <1>8, Zenon
  <2> QED
    BY <2>1, <2>2, Zenon DEF Stores
<1>10. config_setting_set_elem(t, p, -1, type, v, convert) =
         IF ~config_list_checktype(t, p, type) THEN {}
         ELSE UNION { config_setting_set(x, e, type, v, convert) : x \in {u} }
  <2>1. ~(-1 >= 0) /\ ~(t[p].type \notin {"array", "list"})
    OBVIOUS
  <2> QED
    BY <1>4, <1>6, <2>1, Zenon DEF config_setting_set_elem
<1>11. UNION { config_setting_set(x, e, type, v, convert) : x \in {u} } = {SetValue(u, e, type, v)}
  <2>1. { config_setting_set(x, e, type, v, convert) : x \in {u} } = {{SetValue(u, e, type, v)}}
    BY <1>9, Zenon
  <2> QED
    BY <2>1, Zenon
<1>12. SetValue(u, e, type, v) = ElemAdded(t, p, type, v)
  BY Zenon DEF ElemAdded, u, e, s
<1>13. ChangesTo(u, SetValue(u, e, type, v), e, ValueSet(s, type, v))
  BY <1>2, <1>7, SetIs, Zenon
<1> QED
  BY <1>2, <1>7, <1>10, <1>11, <1>12, <1>13, Zenon DEF u, e, s

ElemKeeps(t, u) ==
  Good(u) /\ \A x \in DOMAIN t : x \in DOMAIN u /\ u[x].type = t[x].type

(* config_setting_set_elem appends to an array only what is of its type.   *)
LEMMA ElemGood ==
  ASSUME NEW t, Good(t), NEW p \in DOMAIN t, t[p].type \in {"array", "list"},
         NEW type \in Scalars, NEW v, NEW convert, NEW at,
         config_list_checktype(t, p, type)
  PROVE  ElemKeeps(t, CapturedLast(ElemAdded(t, p, type, v), p, at))
<1> DEFINE s == Setting(NULL, type)
           y == ValueSet(s, type, v)
           g == Grown(t, p, s)
           e == NextOf(t, p)
           a == ElemAdded(t, p, type, v)
           u == CapturedLast(a, p, at)
<1>1. type \in Types /\ t[p].type \in Aggregates /\ t[p].type # "group"
  BY DEF Types, Aggregates
<1>2. ASSUME t[p].type = "array" PROVE \A q \in Elements(t, p) : t[q].type = type
  <2> DEFINE z == Append(p, 0)
  <2>1. p \in Paths /\ Shaped(DOMAIN t)
    BY Zenon DEF Good, IsTree, Shaped
  <2>2. \A q \in config_setting_get_elem(t, p, 0) : t[q].type = type
    BY <1>2, Zenon DEF config_list_checktype
  <2> SUFFICES ASSUME NEW q \in Elements(t, p) PROVE t[q].type = type
    BY Zenon
  <2>3. q \in DOMAIN t /\ q # <<>> /\ Front(q) = p
    BY Zenon DEF Elements
  <2>4. 0 \in Nat /\ config_setting_length(t, p) \in Nat
        /\ (\A i \in Nat : Append(p, i) \in DOMAIN t <=> i < config_setting_length(t, p))
        /\ Last(q) \in Nat /\ q = Append(p, Last(q))
    BY <2>1, ElementsAre
  <2>5. z \in DOMAIN t
    <3> DEFINE n == config_setting_length(t, p)
    <3>1. Last(q) < n
      BY <2>3, <2>4, Zenon
    <3>2. 0 < n
      <4> HIDE DEF n
      <4> QED
        BY <2>4, <3>1 DEF n
    <3> QED
      BY <2>4, <3>2, Zenon
  <2>6. z # <<>> /\ Front(z) = p
    BY <2>1, <2>4, PathExtended, Zenon
  <2>7. t[z].type = type
    BY <2>2, <2>5, Zenon DEF config_setting_get_elem
  <2> HIDE DEF z
  <2>8. t[q].type = t[z].type
    BY <1>2, <2>3, <2>5, <2>6, Zenon DEF Good, Uniform, Siblings
  <2> QED
    BY <2>7, <2>8, Zenon
<1>3. GrowsBy(t, p, s, g, e) /\ Good(g)
  BY <1>1, <1>2, GrownGood, Zenon
<1>4. e \in DOMAIN g /\ ChangesTo(g, a, e, y)
  BY ElemIs, Zenon DEF Good
<1>5. IsSetting(s) /\ s.type = type /\ s.hook = NULL
  BY SettingIs, Zenon
<1>6. BecomesIn(s, y, GivenType(s.type, type), s.hook)
  BY <1>5, ValueSetIs, Zenon
<1>7. y.type = type /\ y.hook = NULL
  BY <1>5, <1>6, Zenon DEF BecomesIn, GivenType
<1>8. u = SetSource(a, LastOf(a, p), at)
  BY Zenon DEF CapturedLast, SetSource
<1> HIDE DEF s, y, g, e, a
<1>9. /\ g[e] = s /\ \A q \in DOMAIN t : q \in DOMAIN g /\ g[q] = t[q]
  BY <1>3, Zenon DEF GrowsBy
<1>10. /\ DOMAIN a = DOMAIN g /\ IsTree(a) /\ (Uniform(g) => Uniform(a)) /\ a[e] = y
       /\ \A q \in DOMAIN g : q # e => a[q] = g[q]
  BY <1>4, Zenon DEF ChangesTo
<1>11. \A q \in DOMAIN g : a[q].type = g[q].type /\ a[q].hook = NULL
  BY <1>3, <1>5, <1>7, <1>9, <1>10, Zenon DEF Good, NoHooks
<1>12. Good(a)
  BY <1>3, <1>10, <1>11, Zenon DEF Good, NoHooks
<1>13. LastOf(a, p) = e
  <2>1. Elements(a, p) = Elements(g, p)
    BY <1>10, Zenon DEF Elements
  <2>2. LastOf(a, p) = LastOf(g, p)
    BY <2>1, Zenon DEF LastOf, config_setting_length
  <2>3. LastOf(g, p) = e
    BY GrownLast, Zenon DEF g, e, Good
  <2> QED
    BY <2>2, <2>3, Zenon
<1> HIDE DEF u
<1>14. Good(u) /\ DOMAIN u = DOMAIN a /\ \A q \in DOMAIN a : u[q].type = a[q].type
  <2>1. u = SetSource(a, e, at) /\ e \in DOMAIN a
    BY <1>4, <1>8, <1>10, <1>13, Zenon
  <2> QED
    BY <1>12, <2>1, PlacedGood, Zenon
<1>15. \A x \in DOMAIN t : x \in DOMAIN u /\ u[x].type = t[x].type
  BY <1>9, <1>10, <1>11, <1>14, Zenon
<1> QED
  BY <1>14, <1>15, Zenon DEF u, a, ElemKeeps

(* A setting of no type given a value, or made an aggregate.               *)
ValueKeeps(t, p, set, u) ==
  /\ set = {u} /\ Good(u) /\ DOMAIN u = DOMAIN t
  /\ \A q \in DOMAIN t : q # p => u[q] = t[q]

(* A setting of no type takes a value of any.                              *)
LEMMA ValueGood ==
  ASSUME NEW t, Good(t), NEW p \in DOMAIN t, t[p].type = "none", NEW type \in Scalars, NEW v,
         NEW convert
  PROVE  ValueKeeps(t, p, config_setting_set(t, p, type, v, convert), SetValue(t, p, type, v))
<1> DEFINE u == SetValue(t, p, type, v)
           s == ValueSet(t[p], type, v)
           given == GivenType(t[p].type, type)
           hook == t[p].hook
<1>1. ChangesTo(t, u, p, s) /\ BecomesIn(t[p], s, given, hook)
  BY SetIs, Zenon DEF Good
<1>2. config_setting_set(t, p, type, v, convert) = {u}
  <2>1. Stores(t, p, type, v, convert)
    BY SetIs, Zenon DEF Good
  <2>2. StoredAs(type, t[p].type, v, convert) = {v}
    BY DEF StoredAs
  <2> QED
    BY <2>1, <2>2, Zenon DEF Stores
<1>3. s.hook = hook /\ hook = NULL
  BY <1>1, Zenon DEF BecomesIn, Good, NoHooks
<1> HIDE DEF u, s, given, hook
<1>4. Good(u)
  BY <1>1, <1>3, Zenon DEF ChangesTo, Good, NoHooks
<1> QED
  BY <1>1, <1>2, <1>4, Zenon DEF ChangesTo, u, ValueKeeps

TypeKeeps(t, p, type, u) ==
  /\ Good(u) /\ DOMAIN u = DOMAIN t /\ u[p].type = type
  /\ \A q \in DOMAIN t : q # p => u[q] = t[q]

(* A setting of no type becomes an aggregate.                              *)
LEMMA TypeGood ==
  ASSUME NEW t, Good(t), NEW p \in DOMAIN t, t[p].type = "none", NEW type \in Types
  PROVE  TypeKeeps(t, p, type, SetType(t, p, type))
<1> DEFINE u == SetType(t, p, type)
           s == Typed(t[p], type)
<1>1. t[p].hook = NULL /\ IsSetting(t[p])
  BY Zenon DEF Good, NoHooks, IsTree, Nested
<1>2. BecomesIn(t[p], s, type, NULL)
  BY <1>1, TypedIs, Zenon
<1>3. u = Changed(t, p, s)
  BY ChangesAre, Zenon DEF Good
<1> HIDE DEF s, u
<1>4. ChangesTo(t, u, p, s) /\ Good(u)
  BY <1>2, <1>3, ChangedGood, Zenon
<1>5. s.type = type
  BY <1>2, Zenon DEF BecomesIn
<1> QED
  BY <1>4, <1>5, Zenon DEF ChangesTo, u, TypeKeeps

-----------------------------------------------------------------------------
(* Where the parser is: the brackets open are the settings around the      *)
(* parent.                                                                 *)

Inner(nesting) == IF nesting = <<>> THEN "group" ELSE Last(nesting)

Places(t, parent, nesting) ==
  /\ parent \in DOMAIN t /\ nesting \in Seq(Aggregates) /\ Len(nesting) = Len(parent)
  /\ \A i \in 1 .. Len(parent) : t[SubSeq(parent, 1, i)].type = nesting[i]

Pending(t, parent, setting) ==
  setting \in DOMAIN t /\ setting # <<>> /\ Front(setting) = parent /\ t[setting].type = "none"

LEMMA PlaceType ==
  ASSUME NEW t, IsTree(t), NEW parent, NEW nesting, Places(t, parent, nesting)
  PROVE  t[parent].type = Inner(nesting) /\ Inner(nesting) \in Aggregates
<1>1. parent \in Paths /\ parent \in DOMAIN t
  BY Zenon DEF IsTree, Shaped, Places
<1>2. nesting \in Seq(Aggregates) /\ Len(nesting) = Len(parent) /\ Len(parent) \in Nat
  BY <1>1, PathType, Zenon DEF Places
<1>3. CASE parent = <<>>
  <2>1. nesting = <<>>
    BY <1>2, <1>3
  <2>2. "group" \in Aggregates
    BY DEF Aggregates
  <2> QED
    BY <1>3, <2>1, <2>2, Zenon DEF Inner, IsTree
<1>4. CASE parent # <<>>
  <2>1. nesting # <<>> /\ Len(parent) \in 1 .. Len(parent)
    BY <1>1, <1>2, <1>4, RootPath
  <2>2. Last(nesting) = nesting[Len(parent)] /\ Last(nesting) \in Aggregates
    BY <1>2, <2>1 DEF Last
  <2>3. SubSeq(parent, 1, Len(parent)) = parent
    BY <1>1, PrefixParts, Zenon
  <2>4. t[SubSeq(parent, 1, Len(parent))].type = nesting[Len(parent)]
    BY <2>1, Zenon DEF Places
  <2> QED
    BY <2>1, <2>2, <2>3, <2>4, Zenon DEF Inner
<1> QED
  BY <1>3, <1>4, Zenon

LEMMA NotAbove ==
  ASSUME NEW p \in Paths
  PROVE  \A i \in 0 .. Len(p) : ~ IsStrictPrefix(p, SubSeq(p, 1, i))
<1> SUFFICES ASSUME NEW i \in 0 .. Len(p), IsStrictPrefix(p, SubSeq(p, 1, i)) PROVE FALSE
  BY Zenon
<1>1. Len(p) \in Nat /\ SubSeq(p, 1, i) \in Paths /\ Len(SubSeq(p, 1, i)) = i
  BY DEF Paths
<1>2. Len(p) < i
  BY <1>1, PrefixMeans, Zenon
<1> QED
  BY <1>1, <1>2

(* The place is kept in a tree that has the settings around it.            *)
LEMMA PlacesKept ==
  ASSUME NEW t, IsTree(t), NEW parent, NEW nesting, Places(t, parent, nesting), NEW u,
         \A x \in DOMAIN t : ~ IsStrictPrefix(parent, x) => x \in DOMAIN u /\ u[x].type = t[x].type
  PROVE  Places(u, parent, nesting)
<1>1. parent \in Paths /\ parent \in DOMAIN t
  BY Zenon DEF IsTree, Shaped, Places
<1>2. Len(parent) \in Nat
  BY <1>1, PathType, Zenon
<1>3. \A i \in 0 .. Len(parent) : /\ SubSeq(parent, 1, i) \in DOMAIN u
                                  /\ u[SubSeq(parent, 1, i)].type = t[SubSeq(parent, 1, i)].type
  BY <1>1, Ancestors, NotAbove, Zenon
<1>4. parent \in DOMAIN u
  <2>1. SubSeq(parent, 1, Len(parent)) = parent /\ Len(parent) \in 0 .. Len(parent)
    BY <1>1, <1>2, PrefixParts
  <2> QED
    BY <1>3, <2>1, Zenon
<1>5. \A i \in 1 .. Len(parent) : u[SubSeq(parent, 1, i)].type = nesting[i]
  <2> TAKE i \in 1 .. Len(parent)
  <2>1. i \in 0 .. Len(parent)
    BY <1>2
  <2> QED
    BY <1>3, <2>1, Zenon DEF Places
<1> QED
  BY <1>4, <1>5, Zenon DEF Places

(* A bracket opened: the setting is the parent now.                        *)
LEMMA PlacesInto ==
  ASSUME NEW t, IsTree(t), NEW parent, NEW nesting, Places(t, parent, nesting),
         NEW e \in DOMAIN t, e # <<>>, Front(e) = parent, NEW type \in Aggregates, t[e].type = type
  PROVE  Places(t, e, Append(nesting, type))
<1> DEFINE n == Len(parent)
           deep == Append(nesting, type)
<1>1. parent \in Paths /\ e \in Paths
  BY Zenon DEF IsTree, Shaped, Places
<1>2. n \in Nat /\ Len(e) = n + 1
  BY <1>1, PathParts, PathType
<1>3. nesting \in Seq(Aggregates) /\ Len(nesting) = n
  BY Zenon DEF Places
<1>4. deep \in Seq(Aggregates) /\ Len(deep) = n + 1 /\ deep[n + 1] = type
      /\ \A i \in 1 .. n : deep[i] = nesting[i]
  BY <1>2, <1>3
<1>5. ASSUME NEW i \in 1 .. n PROVE SubSeq(e, 1, i) = SubSeq(parent, 1, i)
  <2>1. \A j \in 1 .. n : e[j] = parent[j]
    <3>1. \A j \in 1 .. Len(e) - 1 : Front(e)[j] = e[j]
      BY <1>1, PathParts, Zenon
    <3>2. Len(e) - 1 = n
      BY <1>2
    <3> QED
      BY <3>1, <3>2
  <2>2. e \in Seq(Nat) /\ parent \in Seq(Nat) /\ i \in 0 .. Len(e) /\ i \in 0 .. Len(parent)
    BY <1>1, <1>2 DEF Paths
  <2> DEFINE a == SubSeq(e, 1, i)
             b == SubSeq(parent, 1, i)
  <2>3. a \in Paths /\ b \in Paths /\ Len(a) = i /\ Len(b) = i
        /\ (\A j \in 1 .. i : a[j] = e[j]) /\ (\A j \in 1 .. i : b[j] = parent[j])
    BY <2>2 DEF Paths
  <2>4. \A j \in 1 .. i : j \in 1 .. n
    BY <1>2
  <2> HIDE DEF a, b
  <2>5. \A j \in 1 .. i : a[j] = b[j]
    BY <2>1, <2>3, <2>4, Zenon
  <2>6. a = b
    BY <2>3, <2>5, PathsEqual, Zenon
  <2> QED
    BY <2>6 DEF a, b
<1> HIDE DEF deep
<1>6. ASSUME NEW i \in 1 .. Len(e) PROVE t[SubSeq(e, 1, i)].type = deep[i]
  <2>1. CASE i \in 1 .. n
    BY <1>4, <1>5, <2>1, Zenon DEF Places
  <2>2. CASE i = n + 1
    <3>1. SubSeq(e, 1, i) = e
      <4>1. i = Len(e)
        BY <1>2, <2>2
      <4> QED
        BY <1>1, <4>1, PrefixParts, Zenon
    <3> QED
      BY <1>4, <2>2, <3>1, Zenon
  <2>3. i \in 1 .. n \/ i = n + 1
    BY <1>2
  <2> QED
    BY <2>1, <2>2, <2>3, Zenon
<1> QED
  BY <1>2, <1>4, <1>6, Zenon DEF Places, deep

(* A bracket closed: the parent is the setting around it.                  *)
LEMMA PlacesOut ==
  ASSUME NEW t, IsTree(t), NEW parent, NEW nesting, Places(t, parent, nesting), nesting # <<>>
  PROVE  Places(t, Front(parent), Front(nesting))
<1> DEFINE n == Len(parent)
           p == Front(parent)
           m == Front(nesting)
<1>1. parent \in Paths /\ nesting \in Seq(Aggregates) /\ Len(nesting) = n /\ n \in Nat
  BY PathType, Zenon DEF IsTree, Shaped, Places
<1>2. n # 0 /\ parent # <<>> /\ parent \in DOMAIN t
  BY <1>1, RootPath DEF Places
<1>3. p \in Paths /\ Len(p) = n - 1 /\ \A i \in 1 .. n - 1 : p[i] = parent[i]
  BY <1>1, <1>2, PathParts, Zenon
<1>4. m \in Seq(Aggregates) /\ Len(m) = n - 1 /\ \A i \in 1 .. n - 1 : m[i] = nesting[i]
  <2>1. n - 1 \in 0 .. Len(nesting) /\ Front(nesting) = SubSeq(nesting, 1, n - 1)
    BY <1>1, <1>2 DEF Front
  <2>2. \A k \in 0 .. Len(nesting) : /\ SubSeq(nesting, 1, k) \in Seq(Aggregates)
                                     /\ Len(SubSeq(nesting, 1, k)) = k
                                     /\ \A i \in 1 .. k : SubSeq(nesting, 1, k)[i] = nesting[i]
    BY <1>1
  <2> QED
    BY <2>1, <2>2, Zenon
<1>5. p \in DOMAIN t
  BY <1>2, Zenon DEF IsTree, Shaped
<1> HIDE DEF p, m
<1>6. ASSUME NEW i \in 1 .. n - 1 PROVE SubSeq(p, 1, i) = SubSeq(parent, 1, i)
  <2>2. p \in Seq(Nat) /\ parent \in Seq(Nat) /\ i \in 0 .. Len(p) /\ i \in 0 .. Len(parent)
    BY <1>1, <1>3 DEF Paths
  <2> DEFINE a == SubSeq(p, 1, i)
             b == SubSeq(parent, 1, i)
  <2>3. a \in Paths /\ b \in Paths /\ Len(a) = i /\ Len(b) = i
        /\ (\A j \in 1 .. i : a[j] = p[j]) /\ (\A j \in 1 .. i : b[j] = parent[j])
    BY <2>2, SMTT(60) DEF Paths
  <2>4. \A j \in 1 .. i : j \in 1 .. n - 1
    BY <1>1
  <2> HIDE DEF a, b
  <2>5. \A j \in 1 .. i : a[j] = b[j]
    BY <1>3, <2>3, <2>4, Zenon
  <2>6. a = b
    BY <2>3, <2>5, PathsEqual, Zenon
  <2> QED
    BY <2>6 DEF a, b
<1>7. ASSUME NEW i \in 1 .. Len(p) PROVE t[SubSeq(p, 1, i)].type = m[i]
  <2>1. i \in 1 .. n - 1 /\ i \in 1 .. n
    BY <1>1, <1>3
  <2> QED
    BY <1>4, <1>6, <2>1, Zenon DEF Places
<1> QED
  BY <1>3, <1>4, <1>5, <1>7, Zenon DEF Places, p, m

-----------------------------------------------------------------------------
(* The parse context.                                                      *)

Ctx(tree, parent, setting, string, error, allowed, nesting, want) ==
  [ tree |-> tree, parent |-> parent, setting |-> setting, string |-> string,
    error |-> error, overrides |-> allowed, nesting |-> nesting, want |-> want ]

IsCtx(c) == c = Ctx(c.tree, c.parent, c.setting, c.string, c.error, c.overrides, c.nesting, c.want)

Has(c, tree, parent, setting, error, nesting, want) ==
  /\ IsCtx(c)
  /\ c.tree = tree /\ c.parent = parent /\ c.setting = setting /\ c.error = error
  /\ c.nesting = nesting /\ c.want = want

PutTree(c, t)        == [c EXCEPT !.tree = t]
PutSetting(c, t, s) == [c EXCEPT !.tree = t, !.setting = s]
PutParent(c, t, p)  == [c EXCEPT !.tree = t, !.parent = p]
PutInto(c, t)       == [c EXCEPT !.tree = t, !.parent = c.setting, !.setting = NULL]
Nests(c, n)         == [c EXCEPT !.nesting = n]
Taking(c)           == [c EXCEPT !.string = 0]

LEMMA CtxHas ==
  ASSUME NEW tree, NEW parent, NEW setting, NEW string, NEW error, NEW allowed, NEW nesting,
         NEW want, NEW c, c = Ctx(tree, parent, setting, string, error, allowed, nesting, want)
  PROVE  Has(c, tree, parent, setting, error, nesting, want)
<1>1. /\ c.tree = tree /\ c.parent = parent /\ c.setting = setting /\ c.error = error
      /\ c.nesting = nesting /\ c.want = want /\ c.string = string /\ c.overrides = allowed
  BY DEF Ctx
<1> QED
  BY <1>1, Zenon DEF Has, IsCtx

(* What an EXCEPT on two fields of the context makes of it.                *)
LEMMA CtxPut ==
  ASSUME NEW c, IsCtx(c)
  PROVE  /\ \A t : Has(PutTree(c, t), t, c.parent, c.setting, c.error, c.nesting, c.want)
         /\ \A t, s : Has(PutSetting(c, t, s), t, c.parent, s, c.error, c.nesting, c.want)
         /\ \A t, p : Has(PutParent(c, t, p), t, p, c.setting, c.error, c.nesting, c.want)
         /\ \A t : Has(PutInto(c, t), t, c.setting, NULL, c.error, c.nesting, c.want)
         /\ \A n : Has(Nests(c, n), c.tree, c.parent, c.setting, c.error, n, c.want)
<1>1. ASSUME NEW t PROVE Has(PutTree(c, t), t, c.parent, c.setting, c.error, c.nesting, c.want)
  <2>1. PutTree(c, t) = Ctx(t, c.parent, c.setting, c.string, c.error, c.overrides, c.nesting, c.want)
    BY DEF PutTree, IsCtx, Ctx
  <2> QED
    BY <2>1, CtxHas, Zenon
<1>2. ASSUME NEW t, NEW s
      PROVE  Has(PutSetting(c, t, s), t, c.parent, s, c.error, c.nesting, c.want)
  <2> DEFINE d == [c EXCEPT !.tree = t]
  <2>2. d = Ctx(t, c.parent, c.setting, c.string, c.error, c.overrides, c.nesting, c.want)
    BY DEF IsCtx, Ctx
  <2>3. PutSetting(c, t, s) = [d EXCEPT !.setting = s]
    BY DEF PutSetting
  <2> HIDE DEF d
  <2>1. PutSetting(c, t, s)
          = Ctx(t, c.parent, s, c.string, c.error, c.overrides, c.nesting, c.want)
    BY <2>2, <2>3 DEF Ctx
  <2> QED
    BY <2>1, CtxHas, Zenon
<1>3. ASSUME NEW t, NEW p
      PROVE  Has(PutParent(c, t, p), t, p, c.setting, c.error, c.nesting, c.want)
  <2> DEFINE d == [c EXCEPT !.tree = t]
  <2>2. d = Ctx(t, c.parent, c.setting, c.string, c.error, c.overrides, c.nesting, c.want)
    BY DEF IsCtx, Ctx
  <2>3. PutParent(c, t, p) = [d EXCEPT !.parent = p]
    BY DEF PutParent
  <2> HIDE DEF d
  <2>1. PutParent(c, t, p)
          = Ctx(t, p, c.setting, c.string, c.error, c.overrides, c.nesting, c.want)
    BY <2>2, <2>3 DEF Ctx
  <2> QED
    BY <2>1, CtxHas, Zenon
<1>4. ASSUME NEW t PROVE Has(PutInto(c, t), t, c.setting, NULL, c.error, c.nesting, c.want)
  <2> DEFINE x == c.setting
             d == [c EXCEPT !.tree = t]
             e == [d EXCEPT !.parent = x]
  <2>2. d = Ctx(t, c.parent, x, c.string, c.error, c.overrides, c.nesting, c.want)
    BY DEF IsCtx, Ctx
  <2>3. PutInto(c, t) = [e EXCEPT !.setting = NULL]
    BY DEF PutInto
  <2> HIDE DEF d, x
  <2>4. e = Ctx(t, x, x, c.string, c.error, c.overrides, c.nesting, c.want)
    BY <2>2 DEF Ctx
  <2> HIDE DEF e
  <2>5. PutInto(c, t) = Ctx(t, x, NULL, c.string, c.error, c.overrides, c.nesting, c.want)
    BY <2>3, <2>4 DEF Ctx
  <2>1. PutInto(c, t)
          = Ctx(t, c.setting, NULL, c.string, c.error, c.overrides, c.nesting, c.want)
    BY <2>5, Zenon DEF x
  <2> QED
    BY <2>1, CtxHas, Zenon
<1>5. ASSUME NEW n PROVE Has(Nests(c, n), c.tree, c.parent, c.setting, c.error, n, c.want)
  <2>1. Nests(c, n)
          = Ctx(c.tree, c.parent, c.setting, c.string, c.error, c.overrides, n, c.want)
    BY DEF Nests, IsCtx, Ctx
  <2> QED
    BY <2>1, CtxHas, Zenon
<1> QED
  BY <1>1, <1>2, <1>3, <1>4, <1>5, Zenon

LEMMA CtxMoves ==
  ASSUME NEW c, IsCtx(c)
  PROVE  /\ \A w : Has(Wants(c, w), c.tree, c.parent, c.setting, c.error, c.nesting, w)
         /\ \A e : Has(Failed(c, e), c.tree, c.parent, c.setting, e, c.nesting, c.want)
         /\ \A s : Has(append_string(c, s), c.tree, c.parent, c.setting, c.error, c.nesting, c.want)
         /\ Has(Taking(c), c.tree, c.parent, c.setting, c.error, c.nesting, c.want)
         /\ Has(Close(c), c.tree, Front(c.parent), c.setting, c.error, c.nesting, c.want)
<1>1. ASSUME NEW w PROVE Has(Wants(c, w), c.tree, c.parent, c.setting, c.error, c.nesting, w)
  <2>1. Wants(c, w)
          = Ctx(c.tree, c.parent, c.setting, c.string, c.error, c.overrides, c.nesting, w)
    BY DEF Wants, IsCtx, Ctx
  <2> QED
    BY <2>1, CtxHas, Zenon
<1>2. ASSUME NEW e PROVE Has(Failed(c, e), c.tree, c.parent, c.setting, e, c.nesting, c.want)
  <2>1. Failed(c, e)
          = Ctx(c.tree, c.parent, c.setting, c.string, e, c.overrides, c.nesting, c.want)
    BY DEF Failed, IsCtx, Ctx
  <2> QED
    BY <2>1, CtxHas, Zenon
<1>3. ASSUME NEW s
      PROVE  Has(append_string(c, s), c.tree, c.parent, c.setting, c.error, c.nesting, c.want)
  <2> DEFINE x == IF c.string = 0 THEN s ELSE c.string + s - 1
  <2>1. append_string(c, s) = [c EXCEPT !.string = x]
    BY DEF append_string
  <2> HIDE DEF x
  <2>2. append_string(c, s)
          = Ctx(c.tree, c.parent, c.setting, x, c.error, c.overrides, c.nesting, c.want)
    BY <2>1 DEF IsCtx, Ctx
  <2> QED
    BY <2>2, CtxHas, Zenon
<1>4. Has(Taking(c), c.tree, c.parent, c.setting, c.error, c.nesting, c.want)
  <2>1. Taking(c)
          = Ctx(c.tree, c.parent, c.setting, 0, c.error, c.overrides, c.nesting, c.want)
    BY DEF Taking, IsCtx, Ctx
  <2> QED
    BY <2>1, CtxHas, Zenon
<1>5. Has(Close(c), c.tree, Front(c.parent), c.setting, c.error, c.nesting, c.want)
  <2> DEFINE x == Front(c.parent)
  <2>1. Close(c) = [c EXCEPT !.parent = x]
    BY Zenon DEF Close
  <2> HIDE DEF x
  <2>2. Close(c) = Ctx(c.tree, x, c.setting, c.string, c.error, c.overrides, c.nesting, c.want)
    BY <2>1 DEF IsCtx, Ctx
  <2> QED
    BY <2>2, CtxHas, Zenon DEF x
<1> QED
  BY <1>1, <1>2, <1>3, <1>4, <1>5, Zenon

-----------------------------------------------------------------------------
(* What the parser waits for, and where it is.                             *)

Waits(t, parent, setting, nesting, want) ==
  /\ want \in {"setting", "terminator", "equals", "value"} => Inner(nesting) = "group"
  /\ want \in {"first", "next", "comma"} => Inner(nesting) # "group"
  /\ want \in {"equals", "value"} \/ (want = "string" /\ Inner(nesting) = "group") =>
       Pending(t, parent, setting)

Parses(t, parent, setting, error, nesting, want) ==
  /\ Good(t)
  /\ error = NULL => Places(t, parent, nesting) /\ Waits(t, parent, setting, nesting, want)

Parsing(c) == IsCtx(c) /\ Parses(c.tree, c.parent, c.setting, c.error, c.nesting, c.want)

LEMMA HasParses ==
  ASSUME NEW c, NEW t, NEW parent, NEW setting, NEW error, NEW nesting, NEW want,
         Has(c, t, parent, setting, error, nesting, want)
  PROVE  Parsing(c) <=> Parses(t, parent, setting, error, nesting, want)
BY Zenon DEF Has, Parsing

(* An error ends the parse and leaves the tree as it is.                   *)
LEMMA FailedParses ==
  ASSUME NEW c, IsCtx(c), Good(c.tree), NEW e, e # NULL
  PROVE  Parsing(Failed(c, e)) /\ \A w : Parsing(Wants(Failed(c, e), w))
<1> DEFINE d == Failed(c, e)
<1>1. Has(d, c.tree, c.parent, c.setting, e, c.nesting, c.want)
  BY CtxMoves, Zenon
<1>2. \A w : Parses(c.tree, c.parent, c.setting, e, c.nesting, w)
  BY Zenon DEF Parses
<1>3. IsCtx(d) /\ d.tree = c.tree /\ d.error = e
  BY <1>1, Zenon DEF Has
<1> HIDE DEF d
<1>4. ASSUME NEW w PROVE Parsing(Wants(d, w))
  <2>1. Has(Wants(d, w), d.tree, d.parent, d.setting, d.error, d.nesting, w)
    BY <1>3, CtxMoves, Zenon
  <2>2. Parses(d.tree, d.parent, d.setting, d.error, d.nesting, w)
    BY <1>3, Zenon DEF Parses
  <2> QED
    BY <2>1, <2>2, HasParses, Zenon
<1>5. Parsing(d)
  BY <1>1, <1>2, HasParses, Zenon
<1> QED
  BY <1>4, <1>5, Zenon DEF d

(* A value has been read: the context after it.                            *)
LEMMA AfterValue ==
  ASSUME NEW c, IsCtx(c), Good(c.tree), c.error = NULL => Places(c.tree, c.parent, c.nesting)
  PROVE  Parsing(ValueRead(c))
<1> DEFINE w == IF Innermost(c) = "group" THEN "terminator" ELSE "comma"
<1>1. ValueRead(c) = Wants(c, w)
  BY Zenon DEF ValueRead
<1>2. Innermost(c) = Inner(c.nesting)
  BY Zenon DEF Innermost, Inner
<1>3. Waits(c.tree, c.parent, c.setting, c.nesting, w)
  <2>1. CASE Inner(c.nesting) = "group"
    <3>1. w = "terminator"
      BY <1>2, <2>1, Zenon
    <3> HIDE DEF w
    <3>2. w \notin {"first", "next", "comma"} /\ w \notin {"equals", "value"} /\ w # "string"
      BY <3>1
    <3> QED
      BY <2>1, <3>2, Zenon DEF Waits
  <2>2. CASE Inner(c.nesting) # "group"
    <3>1. w = "comma"
      BY <1>2, <2>2, Zenon
    <3> HIDE DEF w
    <3>2. w \notin {"setting", "terminator", "equals", "value"} /\ w # "string"
      BY <3>1
    <3>3. w \notin {"equals", "value"}
      BY <3>1
    <3> QED
      BY <2>2, <3>2, <3>3, Zenon DEF Waits
  <2> QED
    BY <2>1, <2>2, Zenon
<1> HIDE DEF w
<1>4. Has(Wants(c, w), c.tree, c.parent, c.setting, c.error, c.nesting, w)
  BY CtxMoves, Zenon
<1>5. Parses(c.tree, c.parent, c.setting, c.error, c.nesting, w)
  BY <1>3, Zenon DEF Parses
<1> QED
  BY <1>1, <1>4, <1>5, HasParses, Zenon

-----------------------------------------------------------------------------
(* What each rule of the grammar does.                                     *)

(* TakeName adds a setting of no type, which waits for its value.          *)
LEMMA NameRead ==
  ASSUME NEW c, Parsing(c), c.error = NULL, Inner(c.nesting) = "group", NEW name, NEW at
  PROVE  Parsing(Wants(TakeName(c, name, at), "equals"))
<1> DEFINE t == c.tree
           p == c.parent
           added == config_setting_add(t, p, name, "none", c.overrides)
           u == The(added)
           v == CapturedLast(u, p, at)
           e == LastOf(u, p)
           refused == "duplicate setting name"
<1>1. IsCtx(c) /\ Good(t) /\ Places(t, p, c.nesting)
  BY Zenon DEF Parsing, Parses
<1>2. CASE added = {}
  <2>1. TakeName(c, name, at) = Failed(c, refused)
    BY <1>2, Zenon DEF TakeName
  <2>2. refused # NULL
    BY NoErrorAssumption
  <2> HIDE DEF refused
  <2> QED
    BY <1>1, <2>1, <2>2, FailedParses, Zenon
<1>3. CASE added # {}
  <2>1. TakeName(c, name, at) = PutSetting(c, v, e)
    BY <1>3, Zenon DEF TakeName, PutSetting
  <2>2. u \in added
    <3> HIDE DEF added
    <3> QED
      BY <1>3, Zenon DEF The
  <2>3. "none" \in Types
    BY DEF Types
  <2>4. p \in DOMAIN t /\ t[p].type # "array"
    <3>1. t[p].type = Inner(c.nesting) /\ p \in DOMAIN t
      BY <1>1, PlaceType, Zenon DEF Good, Places
    <3> HIDE DEF t, p
    <3> QED
      BY <3>1
  <2> HIDE DEF u
  <2>5. Enlarges(t, v, p, e, "none")
    BY <1>1, <2>2, <2>3, <2>4, AddedGood, Zenon
  <2> HIDE DEF v, e, added
  <2>6. Good(v) /\ Pending(v, p, e)
    BY <2>5, Zenon DEF Enlarges, Pending
  <2>7. \A x \in DOMAIN t : ~ IsStrictPrefix(p, x) => x \in DOMAIN v /\ v[x].type = t[x].type
    BY <2>5, Zenon DEF Enlarges
  <2>8. Places(v, p, c.nesting)
    BY <1>1, <2>7, PlacesKept, Zenon DEF Good
  <2> DEFINE d == PutSetting(c, v, e)
             w == "equals"
  <2>9. Has(d, v, p, e, NULL, c.nesting, c.want)
    BY <1>1, CtxPut, Zenon
  <2> HIDE DEF d
  <2>10. Has(Wants(d, w), v, p, e, NULL, c.nesting, w)
    <3>0. IsCtx(d)
      BY <2>9, Zenon DEF Has
    <3> HIDE DEF w
    <3>1. Has(Wants(d, w), d.tree, d.parent, d.setting, d.error, d.nesting, w)
      BY <3>0, CtxMoves, Zenon
    <3> QED
      BY <2>9, <3>1, Zenon DEF Has
  <2>11. Waits(v, p, e, c.nesting, w)
    <3>1. w \notin {"first", "next", "comma"}
      OBVIOUS
    <3> QED
      BY <2>6, <3>1, Zenon DEF Waits
  <2> HIDE DEF w
  <2>12. Parses(v, p, e, NULL, c.nesting, w)
    BY <2>6, <2>8, <2>11, Zenon DEF Parses
  <2>13. Parsing(Wants(d, w))
    BY <2>10, <2>12, HasParses, Zenon
  <2> QED
    BY <2>1, <2>13, Zenon DEF d, w
<1> QED
  BY <1>2, <1>3, Zenon

LEMMA BelowParent ==
  ASSUME NEW q \in Paths, q # <<>>
  PROVE  IsStrictPrefix(Front(q), q)
<1> DEFINE f == Front(q)
<1>1. f \in Paths /\ Len(f) = Len(q) - 1 /\ Len(q) \in Nat /\ \A i \in 1 .. Len(q) - 1 : f[i] = q[i]
  BY PathParts
<1> HIDE DEF f
<1>2. Len(f) < Len(q) /\ \A i \in 1 .. Len(f) : f[i] = q[i]
  BY <1>1
<1>3. IsStrictPrefix(f, q)
  BY <1>1, <1>2, PrefixMeans, Zenon
<1> QED
  BY <1>3, Zenon DEF f

(* Where the value of a scalar is put.                                     *)
Stays(c, d) ==
  /\ IsCtx(d) /\ Good(d.tree) /\ d.nesting = c.nesting
  /\ d.error = NULL => Places(d.tree, d.parent, d.nesting)

(* simple_value adds an element, or gives the waiting setting its value.   *)
LEMMA ValuePut ==
  ASSUME NEW c, Parsing(c), c.error = NULL, NEW type \in Scalars, NEW v, NEW at,
         Inner(c.nesting) = "group" => Pending(c.tree, c.parent, c.setting)
  PROVE  Stays(c, simple_value(c, type, v, at))
<1> DEFINE t == c.tree
           p == c.parent
           q == c.setting
           d == simple_value(c, type, v, at)
<1>1. IsCtx(c) /\ Good(t) /\ Places(t, p, c.nesting)
  BY Zenon DEF Parsing, Parses
<1>2. p \in DOMAIN t /\ t[p].type = Inner(c.nesting) /\ t[p].type \in Aggregates
  <2>1. p \in DOMAIN t
    BY <1>1, Zenon DEF Places
  <2>2. t[p].type = Inner(c.nesting) /\ Inner(c.nesting) \in Aggregates
    BY <1>1, PlaceType, Zenon DEF Good
  <2> QED
    BY <2>1, <2>2, Zenon
<1>3. ASSUME NEW u, d = PutTree(c, u), Good(u),
             \A x \in DOMAIN t : ~ IsStrictPrefix(p, x) => x \in DOMAIN u /\ u[x].type = t[x].type
      PROVE  Stays(c, d)
  <2> HIDE DEF d
  <2>1. Places(u, p, c.nesting)
    BY <1>1, <1>3, PlacesKept, Zenon DEF Good
  <2>2. Has(d, u, p, q, NULL, c.nesting, c.want)
    BY <1>1, <1>3, CtxPut, Zenon
  <2> QED
    BY <1>3, <2>1, <2>2, Zenon DEF Has, Stays
<1>4. ASSUME t[p].type \in {"array", "list"} PROVE Stays(c, d)
  <2> DEFINE s == config_setting_set_elem(t, p, -1, type, v, FALSE)
             a == ElemAdded(t, p, type, v)
             ok == config_list_checktype(t, p, type)
             refused == "mismatched element type in array"
  <2>1. IN_SEQUENCE(c)
    BY <1>4, Zenon DEF IN_SEQUENCE
  <2>2. s = IF ok THEN {a} ELSE {}
    BY <1>1, <1>2, <1>4, ElemIs, Zenon DEF Good
  <2>3. d = IF s = {} THEN Failed(c, refused) ELSE PutTree(c, CapturedLast(The(s), p, at))
    BY <2>1, Zenon DEF simple_value, PutTree
  <2> HIDE DEF s, a, d
  <2>4. CASE ~ok
    <3>1. s = {}
      BY <2>2, <2>4, Zenon
    <3>2. d = Failed(c, refused)
      BY <2>3, <3>1, Zenon
    <3>3. refused # NULL
      BY NoErrorAssumption
    <3> HIDE DEF refused
    <3>4. Has(d, t, p, q, refused, c.nesting, c.want)
      BY <1>1, <3>2, CtxMoves, Zenon
    <3> QED
      BY <1>1, <3>3, <3>4, Zenon DEF Has, Stays
  <2>5. CASE ok
    <3>1. s = {a} /\ s # {}
      BY <2>2, <2>5, Zenon
    <3>2. The(s) = a
      BY <3>1, Zenon DEF The
    <3> DEFINE u == CapturedLast(a, p, at)
    <3>3. d = PutTree(c, u)
      BY <2>3, <3>1, <3>2, Zenon
    <3>4. Good(u) /\ \A x \in DOMAIN t : x \in DOMAIN u /\ u[x].type = t[x].type
      <4> DEFINE z == CapturedLast(ElemAdded(t, p, type, v), p, at)
      <4> HIDE DEF u
      <4>1. ElemKeeps(t, z)
        BY <1>1, <1>2, <1>4, <2>5, ElemGood, Zenon
      <4>2. z = u
        BY Zenon DEF u, a
      <4> HIDE DEF z
      <4> QED
        BY <4>1, <4>2, Zenon DEF ElemKeeps
    <3> HIDE DEF u
    <3> QED
      BY <1>3, <3>3, <3>4, Zenon
  <2> QED
    BY <2>4, <2>5, Zenon
<1>5. ASSUME t[p].type \notin {"array", "list"} PROVE Stays(c, d)
  <2> DEFINE no == FALSE
             s == config_setting_set(t, q, type, v, no)
             u == SetValue(t, q, type, v)
  <2>1. ~IN_SEQUENCE(c)
    BY <1>5, Zenon DEF IN_SEQUENCE
  <2>2. t[p].type = "group"
    BY <1>2, <1>5 DEF Aggregates
  <2>3. q \in DOMAIN t /\ q # <<>> /\ Front(q) = p /\ t[q].type = "none"
    BY <1>2, <2>2, Zenon DEF Pending
  <2>4. s = {u} /\ Good(u) /\ DOMAIN u = DOMAIN t /\ \A x \in DOMAIN t : x # q => u[x] = t[x]
    <3> HIDE DEF no
    <3>1. ValueKeeps(t, q, config_setting_set(t, q, type, v, no), SetValue(t, q, type, v))
      BY <1>1, <2>3, ValueGood, Zenon
    <3> HIDE DEF s, u
    <3> QED
      BY <3>1, Zenon DEF ValueKeeps, s, u
  <2>5. d = [c EXCEPT !.tree = IF s = {} THEN t ELSE The(s)]
    BY <2>1, Zenon DEF simple_value
  <2> HIDE DEF s, u, d
  <2>6. (IF s = {} THEN t ELSE The(s)) = u
    BY <2>4, Zenon DEF The
  <2>7. d = PutTree(c, u)
    BY <2>5, <2>6, Zenon DEF PutTree
  <2>8. IsStrictPrefix(p, q)
    <3>1. q \in Paths
      BY <1>1, <2>3, Zenon DEF Good, IsTree, Shaped
    <3> QED
      BY <2>3, <3>1, BelowParent, Zenon
  <2> QED
    BY <1>3, <2>4, <2>7, <2>8, Zenon
<1> QED
  BY <1>4, <1>5, Zenon

LEMMA ValueGiven ==
  ASSUME NEW c, Parsing(c), c.error = NULL, NEW type \in Scalars, NEW v, NEW at,
         Inner(c.nesting) = "group" => Pending(c.tree, c.parent, c.setting)
  PROVE  Parsing(ValueRead(simple_value(c, type, v, at)))
<1>1. Stays(c, simple_value(c, type, v, at))
  BY ValuePut, Zenon
<1> QED
  BY <1>1, AfterValue, Zenon DEF Stays

LEMMA StringGiven ==
  ASSUME NEW c, Parsing(c), c.error = NULL, NEW at,
         Inner(c.nesting) = "group" => Pending(c.tree, c.parent, c.setting)
  PROVE  Parsing(ValueRead(take_string(c, at)))
<1> DEFINE type == "string"
           v == c.string
           d == simple_value(c, type, v, at)
           e == take_string(c, at)
<1>1. e = Taking(d)
  BY Zenon DEF take_string, Taking
<1>2. type \in Scalars
  BY DEF Scalars
<1> HIDE DEF type, v
<1>3. Stays(c, d)
  BY <1>2, ValuePut, Zenon
<1> HIDE DEF d, e
<1>4. Has(e, d.tree, d.parent, d.setting, d.error, d.nesting, d.want)
  BY <1>1, <1>3, CtxMoves, Zenon DEF Stays
<1>5. IsCtx(e) /\ Good(e.tree) /\ (e.error = NULL => Places(e.tree, e.parent, e.nesting))
  BY <1>3, <1>4, Zenon DEF Has, Stays
<1>6. Parsing(ValueRead(e))
  BY <1>5, AfterValue, Zenon
<1> QED
  BY <1>6, Zenon DEF e

LEMMA OpenedParses ==
  ASSUME NEW d, NEW v, NEW e, NEW s, NEW nesting \in Seq(Aggregates), NEW want,
         Has(d, v, e, s, NULL, nesting, want),
         NEW type \in Aggregates, Good(v), Places(v, e, Append(nesting, type))
  PROVE  Parsing(Opened(d, type))
<1> DEFINE deep == Append(nesting, type)
           w == IF type = "group" THEN "setting" ELSE "first"
           f == Nests(d, deep)
<1>1. Opened(d, type) = Wants(f, w)
  BY Zenon DEF Opened, Nests, Has
<1>2. Inner(deep) = type
  <2>1. deep # <<>> /\ Last(deep) = type
    BY DEF Last
  <2> HIDE DEF deep
  <2> QED
    BY <2>1, Zenon DEF Inner
<1>3. Waits(v, e, s, deep, w)
  <2>1. CASE type = "group"
    <3>1. w \notin {"first", "next", "comma"} /\ w \notin {"equals", "value"} /\ w # "string"
      BY <2>1
    <3> HIDE DEF w, deep
    <3> QED
      BY <1>2, <2>1, <3>1, Zenon DEF Waits
  <2>2. CASE type # "group"
    <3>1. w \notin {"setting", "terminator", "equals", "value"} /\ w # "string"
          /\ w \notin {"equals", "value"}
      BY <2>2
    <3> HIDE DEF w, deep
    <3> QED
      BY <1>2, <2>2, <3>1, Zenon DEF Waits
  <2> QED
    BY <2>1, <2>2, Zenon
<1> HIDE DEF w, deep
<1>4. IsCtx(d) /\ d.tree = v /\ d.parent = e /\ d.setting = s /\ d.error = NULL
  BY Zenon DEF Has
<1>5. Has(f, v, e, s, NULL, deep, d.want)
  <2>1. Has(f, d.tree, d.parent, d.setting, d.error, deep, d.want)
    BY <1>4, CtxPut, Zenon
  <2> HIDE DEF f
  <2> QED
    BY <1>4, <2>1, Zenon
<1> HIDE DEF f
<1>6. Has(Wants(f, w), v, e, s, NULL, deep, w)
  <2>1. IsCtx(f)
    BY <1>5, Zenon DEF Has
  <2>2. Has(Wants(f, w), f.tree, f.parent, f.setting, f.error, f.nesting, w)
    BY <2>1, CtxMoves, Zenon
  <2> QED
    BY <1>5, <2>2, Zenon DEF Has
<1>7. Parses(v, e, s, NULL, deep, w)
  BY <1>3, Zenon DEF Parses, deep
<1> QED
  BY <1>1, <1>6, <1>7, HasParses, Zenon

(* Open adds an aggregate to a list, or makes the waiting setting one.     *)
LEMMA AggregateOpened ==
  ASSUME NEW c, Parsing(c), c.error = NULL, NEW type \in Aggregates, NEW at,
         Inner(c.nesting) # "array",
         Inner(c.nesting) = "group" => Pending(c.tree, c.parent, c.setting)
  PROVE  Parsing(Opened(Open(c, type, at), type))
<1> DEFINE t == c.tree
           p == c.parent
           q == c.setting
           d == Open(c, type, at)
<1>1. IsCtx(c) /\ Good(t) /\ Places(t, p, c.nesting)
  BY Zenon DEF Parsing, Parses
<1>2. p \in DOMAIN t /\ t[p].type = Inner(c.nesting) /\ t[p].type \in Aggregates
  <2>1. p \in DOMAIN t
    BY <1>1, Zenon DEF Places
  <2>2. t[p].type = Inner(c.nesting) /\ Inner(c.nesting) \in Aggregates
    BY <1>1, PlaceType, Zenon DEF Good
  <2> QED
    BY <2>1, <2>2, Zenon
<1>3. c.nesting \in Seq(Aggregates) /\ type \in Types
  <2>1. type \in Types
    BY DEF Types
  <2> QED
    BY <1>1, <2>1, Zenon DEF Places
<1>4. ASSUME t[p].type = "list" PROVE Parsing(Opened(d, type))
  <2> DEFINE added == config_setting_add(t, p, NULL, type, c.overrides)
             u == The(added)
             v == CapturedLast(u, p, at)
             e == LastOf(u, p)
  <2>1. d = PutParent(c, v, e)
    BY <1>4, Zenon DEF Open, IN_LIST, PutParent
  <2>2. added # {}
    BY <1>1, <1>2, <1>4, ListTakes, Zenon DEF Good
  <2>3. u \in added
    <3> HIDE DEF added
    <3> QED
      BY <2>2, Zenon DEF The
  <2>4. t[p].type # "array"
    <3> HIDE DEF t, p
    <3> QED
      BY <1>4
  <2> HIDE DEF u, d
  <2>5. Enlarges(t, v, p, e, type)
    BY <1>1, <1>2, <1>3, <2>3, <2>4, AddedGood, Zenon
  <2> HIDE DEF v, e, added
  <2>6. Good(v) /\ e \in DOMAIN v /\ e # <<>> /\ Front(e) = p /\ v[e].type = type
    BY <2>5, Zenon DEF Enlarges
  <2>7. \A x \in DOMAIN t : ~ IsStrictPrefix(p, x) => x \in DOMAIN v /\ v[x].type = t[x].type
    BY <2>5, Zenon DEF Enlarges
  <2>8. Places(v, p, c.nesting)
    BY <1>1, <2>7, PlacesKept, Zenon DEF Good
  <2>9. Places(v, e, Append(c.nesting, type))
    BY <2>6, <2>8, PlacesInto, Zenon DEF Good
  <2>10. Has(d, v, e, q, NULL, c.nesting, c.want)
    BY <1>1, <2>1, CtxPut, Zenon
  <2> QED
    BY <1>3, <2>6, <2>9, <2>10, OpenedParses, Zenon
<1>5. ASSUME t[p].type # "list" PROVE Parsing(Opened(d, type))
  <2> DEFINE u == SetType(t, q, type)
  <2>1. t[p].type = "group"
    BY <1>2, <1>5 DEF Aggregates
  <2>2. q \in DOMAIN t /\ q # <<>> /\ Front(q) = p /\ t[q].type = "none"
    BY <1>2, <2>1, Zenon DEF Pending
  <2>3. TypeKeeps(t, q, type, u)
    BY <1>1, <1>3, <2>2, TypeGood, Zenon
  <2>4. d = PutInto(c, u)
    <3>1. d = [c EXCEPT !.tree[c.setting].type = type, !.parent = c.setting, !.setting = NULL]
      BY <1>5, Zenon DEF Open, IN_LIST
    <3> QED
      BY <3>1 DEF PutInto, SetType
  <2> HIDE DEF u, d
  <2>5. Good(u) /\ DOMAIN u = DOMAIN t /\ u[q].type = type /\ \A x \in DOMAIN t : x # q => u[x] = t[x]
    BY <2>3, Zenon DEF TypeKeeps
  <2>6. IsStrictPrefix(p, q)
    <3>1. q \in Paths
      BY <1>1, <2>2, Zenon DEF Good, IsTree, Shaped
    <3> QED
      BY <2>2, <3>1, BelowParent, Zenon
  <2>7. \A x \in DOMAIN t : ~ IsStrictPrefix(p, x) => x \in DOMAIN u /\ u[x].type = t[x].type
    BY <2>5, <2>6, Zenon
  <2>8. Places(u, p, c.nesting)
    BY <1>1, <2>7, PlacesKept, Zenon DEF Good
  <2>9. Places(u, q, Append(c.nesting, type))
    BY <2>2, <2>5, <2>8, PlacesInto, Zenon DEF Good
  <2>10. Has(d, u, q, NULL, NULL, c.nesting, c.want)
    BY <1>1, <2>4, CtxPut, Zenon
  <2> QED
    BY <1>3, <2>5, <2>9, <2>10, OpenedParses, Zenon
<1> QED
  BY <1>4, <1>5, Zenon

(* Close leaves the parent.                                                *)
LEMMA AggregateClosed ==
  ASSUME NEW c, Parsing(c), c.error = NULL, c.nesting # <<>>
  PROVE  Parsing(Closed(Close(c)))
<1> DEFINE t == c.tree
           d == Close(c)
           m == Front(c.nesting)
           f == Nests(d, m)
<1>1. IsCtx(c) /\ Good(t) /\ Places(t, c.parent, c.nesting)
  BY Zenon DEF Parsing, Parses
<1>2. Has(d, t, Front(c.parent), c.setting, NULL, c.nesting, c.want)
  BY <1>1, CtxMoves, Zenon
<1>3. Places(t, Front(c.parent), m)
  BY <1>1, PlacesOut, Zenon DEF Good
<1>4. Closed(d) = ValueRead(f)
  <2> HIDE DEF d
  <2>1. d.nesting = c.nesting
    BY <1>2, Zenon DEF Has
  <2> QED
    BY <2>1, Zenon DEF Closed, Nests
<1> HIDE DEF d, m
<1>5. IsCtx(d) /\ d.tree = t /\ d.parent = Front(c.parent)
  BY <1>2, Zenon DEF Has
<1>6. Has(f, d.tree, d.parent, d.setting, d.error, m, d.want)
  BY <1>5, CtxPut, Zenon
<1> HIDE DEF f
<1>7. IsCtx(f) /\ Good(f.tree) /\ Places(f.tree, f.parent, f.nesting)
  BY <1>1, <1>3, <1>5, <1>6, Zenon DEF Has
<1>8. Parsing(ValueRead(f))
  BY <1>7, AfterValue, Zenon
<1> QED
  BY <1>4, <1>8, Zenon DEF d

LEMMA WaitsParses ==
  ASSUME NEW c, Parsing(c), c.error = NULL, NEW w,
         Waits(c.tree, c.parent, c.setting, c.nesting, w)
  PROVE  Parsing(Wants(c, w))
<1>1. IsCtx(c) /\ Good(c.tree) /\ Places(c.tree, c.parent, c.nesting)
  BY Zenon DEF Parsing, Parses
<1>2. Has(Wants(c, w), c.tree, c.parent, c.setting, c.error, c.nesting, w)
  BY <1>1, CtxMoves, Zenon
<1>3. Parses(c.tree, c.parent, c.setting, c.error, c.nesting, w)
  BY <1>1, Zenon DEF Parses
<1> QED
  BY <1>2, <1>3, HasParses, Zenon

LEMMA StringWaits ==
  ASSUME NEW c, Parsing(c), c.error = NULL, NEW s,
         Inner(c.nesting) = "group" => Pending(c.tree, c.parent, c.setting)
  PROVE  Parsing(Wants(append_string(c, s), "string"))
<1> DEFINE d == append_string(c, s)
           w == "string"
<1>1. IsCtx(c) /\ Good(c.tree) /\ Places(c.tree, c.parent, c.nesting)
  BY Zenon DEF Parsing, Parses
<1>2. Has(d, c.tree, c.parent, c.setting, c.error, c.nesting, c.want)
  BY <1>1, CtxMoves, Zenon
<1> HIDE DEF d
<1>3. Waits(c.tree, c.parent, c.setting, c.nesting, w)
  <2>1. w \notin {"setting", "terminator", "equals", "value"} /\ w \notin {"equals", "value"}
        /\ w \notin {"first", "next", "comma"}
    OBVIOUS
  <2> HIDE DEF w
  <2> QED
    BY <2>1, Zenon DEF Waits
<1> HIDE DEF w
<1>4. Has(Wants(d, w), c.tree, c.parent, c.setting, c.error, c.nesting, w)
  <2>1. IsCtx(d)
    BY <1>2, Zenon DEF Has
  <2>2. Has(Wants(d, w), d.tree, d.parent, d.setting, d.error, d.nesting, w)
    BY <2>1, CtxMoves, Zenon
  <2> QED
    BY <1>2, <2>2, Zenon DEF Has
<1>5. Parses(c.tree, c.parent, c.setting, c.error, c.nesting, w)
  BY <1>1, <1>3, Zenon DEF Parses
<1>6. Parsing(Wants(d, w))
  BY <1>4, <1>5, HasParses, Zenon
<1> QED
  BY <1>6, Zenon DEF d, w

LEMMA TokensMean ==
  /\ \A m \in DOMAIN Opening : Opening[m] \in Aggregates
  /\ \A k \in DOMAIN TypeOfToken : TypeOfToken[k] \in Scalars
<1>1. ASSUME NEW m \in DOMAIN Opening PROVE Opening[m] \in Aggregates
  <2>1. m \in {"[", "(", "{"}
    BY DEF Opening
  <2>2. Opening[m] = CASE m = "[" -> "array" [] m = "(" -> "list" [] m = "{" -> "group"
    BY <2>1, Zenon DEF Opening
  <2> QED
    BY <2>1, <2>2 DEF Aggregates
<1>2. ASSUME NEW k \in DOMAIN TypeOfToken PROVE TypeOfToken[k] \in Scalars
  BY DEF TypeOfToken, Scalars
<1> QED
  BY <1>1, <1>2, Zenon

(* Every token taken keeps the place of the parser and the tree.           *)
LEMMA TakeParses ==
  ASSUME NEW c, Parsing(c), c.error = NULL, NEW k, NEW at
  PROVE  Parsing(Take(c, k, at))
<1> DEFINE w == c.want
           inner == Inner(c.nesting)
           inGroup == w \in {"setting", "terminator"}
           atValue == w \in {"value", "first", "next"}
           t == c.tree
           p == c.parent
           q == c.setting
<1>1. IsCtx(c) /\ Good(t) /\ Places(t, p, c.nesting) /\ Waits(t, p, q, c.nesting, w)
  BY Zenon DEF Parsing, Parses
<1>2. inner \in Aggregates /\ Innermost(c) = inner
  <2>1. inner \in Aggregates
    BY <1>1, PlaceType, Zenon DEF Good
  <2> QED
    BY <2>1, Zenon DEF Innermost, Inner
<1>3. /\ w \in {"setting", "terminator", "equals", "value"} => inner = "group"
      /\ w \in {"first", "next", "comma"} => inner # "group"
      /\ w \in {"equals", "value"} => Pending(t, p, q)
  BY <1>1, Zenon DEF Waits
<1>4. inGroup => inner = "group"
  <2> HIDE DEF inner, w
  <2> QED
    BY <1>3
<1>5. atValue => (inner = "group" => Pending(t, p, q))
  <2> DEFINE here == Pending(t, p, q)
  <2> HIDE DEF inner, w, here
  <2>1. /\ w \in {"first", "next", "comma"} => inner # "group"
        /\ w \in {"equals", "value"} => here
    BY <1>3, Zenon DEF here
  <2>2. atValue => (inner = "group" => here)
    BY <2>1
  <2> QED
    BY <2>2, Zenon DEF here
<1>6. w \in {"first", "next", "comma"} => c.nesting # <<>>
  BY <1>3, Zenon DEF Inner
<1>a. ASSUME inGroup PROVE Parsing(Wants(TakeName(c, k.name, at), "equals"))
  BY <1>4, <1>a, NameRead, Zenon
<1>w. ASSUME NEW v, inner = "group" => v \notin {"first", "next", "comma"},
             inner # "group" => v \notin {"setting", "terminator", "equals", "value"},
             v \in {"equals", "value"} \/ (v = "string" /\ inner = "group") => Pending(t, p, q)
      PROVE  Parsing(Wants(c, v))
  <2>1. v \in {"setting", "terminator", "equals", "value"} => inner = "group"
    BY <1>w, Zenon
  <2>2. v \in {"first", "next", "comma"} => inner # "group"
    BY <1>w, Zenon
  <2>3. Waits(t, p, q, c.nesting, v)
    BY <1>w, <2>1, <2>2, Zenon DEF Waits
  <2> QED
    BY <2>3, WaitsParses, Zenon
<1>b. ASSUME w = "terminator" PROVE Parsing(Wants(c, "setting"))
  <2> DEFINE v == "setting"
  <2>1. v \notin {"first", "next", "comma"} /\ v \notin {"equals", "value"} /\ v # "string"
    OBVIOUS
  <2>2. inner = "group"
    <3> HIDE DEF inner
    <3> QED
      BY <1>3, <1>b
  <2> HIDE DEF v
  <2>3. Parsing(Wants(c, v))
    BY <1>w, <2>1, <2>2, Zenon
  <2> QED
    BY <2>3, Zenon DEF v
<1>c. ASSUME c.nesting # <<>> PROVE Parsing(Closed(Close(c)))
  BY <1>c, AggregateClosed, Zenon
<1>d. Parsing(Wants(c, "nothing"))
  <2> DEFINE v == "nothing"
  <2>1. v \notin {"first", "next", "comma"} /\ v \notin {"equals", "value"} /\ v # "string"
        /\ v \notin {"setting", "terminator", "equals", "value"}
    OBVIOUS
  <2> HIDE DEF v
  <2>3. Parsing(Wants(c, v))
    BY <1>w, <2>1, Zenon
  <2> QED
    BY <2>3, Zenon DEF v
<1>e. ASSUME w = "equals" PROVE Parsing(Wants(c, "value"))
  <2> DEFINE v == "value"
  <2>1. v \notin {"first", "next", "comma"}
    OBVIOUS
  <2>2. inner = "group" /\ Pending(t, p, q)
    <3>1. w \in {"setting", "terminator", "equals", "value"} /\ w \in {"equals", "value"}
      BY <1>e
    <3> QED
      BY <1>3, <3>1, Zenon
  <2> HIDE DEF v
  <2>3. Parsing(Wants(c, v))
    BY <1>w, <2>1, <2>2, Zenon
  <2> QED
    BY <2>3, Zenon DEF v
<1>f. ASSUME atValue PROVE Parsing(Wants(append_string(c, k.val), "string"))
  BY <1>5, <1>f, StringWaits, Zenon
<1>g. ASSUME atValue, k.tok \in DOMAIN TypeOfToken
      PROVE  Parsing(ValueRead(simple_value(c, TypeOfToken[k.tok], k.val, at)))
  <2>1. TypeOfToken[k.tok] \in Scalars
    BY <1>g, TokensMean, Zenon
  <2> QED
    BY <1>5, <1>g, <2>1, ValueGiven, Zenon
<1>h. ASSUME atValue, k.tok \in DOMAIN Opening, Innermost(c) # "array"
      PROVE  Parsing(Opened(Open(c, Opening[k.tok], at), Opening[k.tok]))
  <2>1. Opening[k.tok] \in Aggregates
    BY <1>h, TokensMean, Zenon
  <2> QED
    BY <1>2, <1>5, <1>h, <2>1, AggregateOpened, Zenon
<1>i. ASSUME w \in {"next", "comma"} PROVE Parsing(Wants(c, "next"))
  <2> DEFINE v == "next"
  <2>1. v \notin {"setting", "terminator", "equals", "value"} /\ v \notin {"equals", "value"}
        /\ v # "string"
    OBVIOUS
  <2>2. inner # "group"
    <3>1. w \in {"first", "next", "comma"}
      BY <1>i
    <3> QED
      BY <1>3, <3>1, Zenon
  <2> HIDE DEF v
  <2>3. Parsing(Wants(c, v))
    BY <1>w, <2>1, <2>2, Zenon
  <2> QED
    BY <2>3, Zenon DEF v
<1>j. Parsing(Failed(c, "syntax error"))
  <2> DEFINE e == "syntax error"
  <2>1. e # NULL
    BY NoErrorAssumption
  <2> HIDE DEF e
  <2>2. Parsing(Failed(c, e))
    BY <1>1, <2>1, FailedParses, Zenon
  <2> QED
    BY <2>2, Zenon DEF e
<1> DEFINE r1 == Wants(TakeName(c, k.name, at), "equals")
           r2 == Wants(c, "setting")
           r3 == Closed(Close(c))
           r4 == Wants(c, "nothing")
           r5 == Wants(c, "value")
           r6 == Wants(append_string(c, k.val), "string")
           r7 == ValueRead(simple_value(c, TypeOfToken[k.tok], k.val, at))
           r8 == Opened(Open(c, Opening[k.tok], at), Opening[k.tok])
           r9 == Wants(c, "next")
           r0 == Failed(c, "syntax error")
           g1 == inGroup /\ k.tok = "NAME"
           g2 == w = "terminator" /\ k.tok \in {";", ","}
           g3 == inGroup /\ k.tok = "}" /\ c.nesting # <<>>
           g4 == inGroup /\ k.tok = "EOF" /\ c.nesting = <<>>
           g5 == w = "equals" /\ k.tok = "="
           g6 == atValue /\ k.tok = "STRING"
           g7 == atValue /\ k.tok \in DOMAIN TypeOfToken \ {"STRING"}
           g8 == atValue /\ k.tok \in DOMAIN Opening /\ Innermost(c) # "array"
           g9 == w \in {"first", "next", "comma"} /\ k.tok = Closing[Innermost(c)]
           g0 == w \in {"next", "comma"} /\ k.tok = ","
<1>t. Take(c, k, at) =
        CASE g1 -> r1 [] g2 -> r2 [] g3 -> r3 [] g4 -> r4 [] g5 -> r5 [] g6 -> r6 [] g7 -> r7
          [] g8 -> r8 [] g9 -> r3 [] g0 -> r9 [] OTHER -> r0
  BY DEF Take
<1>n. /\ g1 => Parsing(r1)
      /\ g2 => Parsing(r2)
      /\ g3 => Parsing(r3)
      /\ Parsing(r4)
      /\ g5 => Parsing(r5)
      /\ g6 => Parsing(r6)
      /\ g7 => Parsing(r7)
      /\ g8 => Parsing(r8)
      /\ g9 => Parsing(r3)
      /\ g0 => Parsing(r9)
      /\ Parsing(r0)
  <2>1. g1 => Parsing(r1)
    BY <1>a, Zenon
  <2>2. g2 => Parsing(r2)
    BY <1>b, Zenon
  <2>3. g3 => Parsing(r3)
    BY <1>c, Zenon
  <2>5. g5 => Parsing(r5)
    BY <1>e, Zenon
  <2>6. g6 => Parsing(r6)
    BY <1>f, Zenon
  <2>7. g7 => Parsing(r7)
    BY <1>g, Zenon
  <2>8. g8 => Parsing(r8)
    BY <1>h, Zenon
  <2>9. g9 => Parsing(r3)
    BY <1>6, <1>c, Zenon
  <2>10. g0 => Parsing(r9)
    BY <1>i, Zenon
  <2> QED
    BY <1>d, <1>j, <2>1, <2>2, <2>3, <2>5, <2>6, <2>7, <2>8, <2>9, <2>10, Zenon
<1> HIDE DEF r1, r2, r3, r4, r5, r6, r7, r8, r9, r0, g1, g2, g3, g4, g5, g6, g7, g8, g9, g0
<1> QED
  BY <1>t, <1>n

(* So does every token read, strings joined.                               *)
LEMMA TokenParses ==
  ASSUME NEW c, Parsing(c), c.error = NULL, NEW k, NEW at
  PROVE  Parsing(ReadToken(c, k, at))
<1> DEFINE d == ValueRead(take_string(c, at))
<1>1. CASE c.want # "string"
  <2>1. ReadToken(c, k, at) = Take(c, k, at)
    BY <1>1, Zenon DEF ReadToken
  <2> QED
    BY <2>1, TakeParses, Zenon
<1>2. CASE c.want = "string"
  <2>1. Inner(c.nesting) = "group" => Pending(c.tree, c.parent, c.setting)
    BY <1>2, Zenon DEF Parsing, Parses, Waits
  <2>2. CASE k.tok = "STRING"
    <3> DEFINE e == append_string(c, k.val)
    <3>1. ReadToken(c, k, at) = e
      BY <1>2, <2>2, Zenon DEF ReadToken
    <3>2. IsCtx(c)
      BY Zenon DEF Parsing
    <3>3. Has(e, c.tree, c.parent, c.setting, c.error, c.nesting, c.want)
      BY <3>2, CtxMoves, Zenon
    <3> HIDE DEF e
    <3>4. Parsing(e)
      BY <3>3, HasParses, Zenon DEF Parsing
    <3> QED
      BY <3>1, <3>4, Zenon
  <2>3. CASE k.tok # "STRING"
    <3>1. ReadToken(c, k, at) = IF d.error # NULL THEN d ELSE Take(d, k, at)
      BY <1>2, <2>3, Zenon DEF ReadToken
    <3>2. Parsing(d)
      BY <2>1, StringGiven, Zenon
    <3> HIDE DEF d
    <3>3. CASE d.error # NULL
      BY <3>1, <3>2, <3>3, Zenon
    <3>4. CASE d.error = NULL
      <4>1. ReadToken(c, k, at) = Take(d, k, at)
        BY <3>1, <3>4, Zenon
      <4>2. Parsing(Take(d, k, at))
        BY <3>2, <3>4, TakeParses, Zenon
      <4> QED
        BY <4>1, <4>2, Zenon
    <3> QED
      BY <3>3, <3>4, Zenon
  <2> QED
    BY <2>2, <2>3, Zenon
<1> QED
  BY <1>1, <1>2, Zenon

-----------------------------------------------------------------------------
(* A text read.                                                            *)

LEMMA EmptyTree == Good(config_clear) /\ DOMAIN config_clear = {<<>>}
<1> DEFINE t == config_clear
           s == Setting(NULL, "group")
           root == <<>>
<1>1. IsSetting(s) /\ s.type = "group" /\ s.hook = NULL
  BY SettingIs, Zenon
<1>2. root \in Paths
  BY RootPath, Zenon
<1>3. IsFiniteSet({root})
  BY FS_Singleton, Zenon
<1>4. DOMAIN t = {root} /\ t[root] = s /\ t = [p \in DOMAIN t |-> t[p]]
  BY Zenon DEF config_clear
<1>5. "group" \in Types
  BY DEF Types, Aggregates
<1> HIDE DEF t, s
<1>6. Shaped(DOMAIN t)
  BY <1>2, <1>3, <1>4, Zenon DEF Shaped
<1>7. Nested(t)
  BY <1>1, <1>4, <1>5, Zenon DEF Nested
<1>8. Named(t) /\ Uniform(t)
  BY <1>4, Zenon DEF Named, Uniform, Siblings
<1>9. NoHooks(t)
  BY <1>1, <1>4, Zenon DEF NoHooks
<1>10. IsTree(t)
  BY <1>1, <1>4, <1>6, <1>7, <1>8, Zenon DEF IsTree
<1> QED
  BY <1>4, <1>8, <1>9, <1>10, Zenon DEF Good, t

(* An empty configuration is where the parser begins.                      *)
LEMMA StartParses ==
  ASSUME NEW allowed
  PROVE  Parsing(Reading(parsectx_init(config_clear, allowed)))
<1> DEFINE t == config_clear
           c == Reading(parsectx_init(config_clear, allowed))
           root == <<>>
           w == "setting"
<1>1. c = Ctx(t, root, root, 0, NULL, allowed, root, w)
  BY DEF Reading, parsectx_init, Ctx
<1>2. Good(t) /\ DOMAIN t = {root}
  BY EmptyTree, Zenon
<1>3. Inner(root) = "group"
  BY Zenon DEF Inner
<1>4. w \notin {"first", "next", "comma"} /\ w \notin {"equals", "value"} /\ w # "string"
  OBVIOUS
<1>5. Waits(t, root, root, root, w)
  <2> HIDE DEF w, t
  <2> QED
    BY <1>3, <1>4, Zenon DEF Waits
<1>6. Places(t, root, root)
  <2> HIDE DEF t
  <2>1. root \in Seq(Aggregates) /\ Len(root) = 0 /\ 1 .. 0 = {}
    OBVIOUS
  <2> QED
    BY <1>2, <2>1 DEF Places
<1> HIDE DEF c, t, w
<1>7. Has(c, t, root, root, NULL, root, w)
  BY <1>1, CtxHas, Zenon
<1>8. Parses(t, root, root, NULL, root, w)
  BY <1>2, <1>5, <1>6, Zenon DEF Parses
<1> QED
  BY <1>7, <1>8, HasParses, Zenon DEF c

(* Whatever the text, and wherever its reading stops, what is read is a    *)
(* tree of settings with arrays of one type.                               *)
LEMMA ReadGood ==
  ASSUME NEW text, text \in Seq(Range(text)), NEW allowed
  PROVE  Good(config_read_string(text, allowed).tree)
<1> DEFINE c == Reading(parsectx_init(config_clear, allowed))
           end == Mark("EOF")
           S == Range(text) \cup {end}
           tokens == Append(text, end)
           n == Len(text) + 1
<1>1. DOMAIN tokens = 1 .. n /\ n \in Nat
  <2>1. text \in Seq(Range(text))
    OBVIOUS
  <2> DEFINE R == Range(text)
  <2> HIDE DEF end, R
  <2>2. text \in Seq(R)
    BY <2>1, Zenon DEF R
  <2> QED
    BY <2>2
<1>2. config_read_string(text, allowed) = ReadTokens(c, tokens, NULL)
  BY Zenon DEF config_read_string
<1>3. Parsing(c)
  BY StartParses, Zenon
<1> HIDE DEF c, tokens, n
<1>4. PICK g : ReadsOn(c, tokens, NULL, n, g)
  BY <1>1, ReadSteps, Zenon
<1>5. /\ g[1 .. 0] = c
      /\ \A k \in 1 .. n : g[1 .. k] = ReadOn(g[1 .. (k - 1)], tokens[k], NULL)
      /\ ReadTokens(c, tokens, NULL) = g[1 .. n]
  BY <1>4, Zenon DEF ReadsOn
<1> DEFINE Held == { k \in 0 .. n : Parsing(g[1 .. k]) }
<1>6. 0 \in Held
  <2>1. 0 \in 0 .. n
    BY <1>1
  <2> QED
    BY <1>3, <1>5, <2>1, Zenon
<1>7. ASSUME NEW k \in 1 .. n, k - 1 \in Held PROVE k \in Held
  <2> DEFINE d == g[1 .. (k - 1)]
  <2>1. Parsing(d) /\ g[1 .. k] = ReadOn(d, tokens[k], NULL)
    BY <1>5, <1>7, Zenon
  <2> HIDE DEF d
  <2>2. Parsing(ReadOn(d, tokens[k], NULL))
    BY <2>1, TokenParses, Zenon DEF ReadOn
  <2>3. k \in 0 .. n
    BY <1>1
  <2> QED
    BY <2>1, <2>2, <2>3, Zenon
<1>8. Held = 0 .. n
  <2>1. Held \in SUBSET (0 .. n)
    BY Zenon
  <2> HIDE DEF Held
  <2> QED
    BY <1>1, <1>6, <1>7, <2>1, KeptThroughout, Zenon
<1>9. n \in Held
  <2>1. n \in 0 .. n
    BY <1>1
  <2> QED
    BY <1>8, <2>1, Zenon
<1>10. Parsing(g[1 .. n])
  BY <1>9, Zenon
<1> QED
  BY <1>2, <1>5, <1>10, Zenon DEF Parsing, Parses

-----------------------------------------------------------------------------
(* What holds of the configuration and of the wrapper objects.             *)

Fine(a, t, objects) ==
  /\ IsTree(t) /\ Wrapping(t, objects)
  /\ a = "C" => NoHooks(t)
  /\ a = "C++" => Uniform(t)

(* Removing a setting with the objects destroyed with it.                  *)
LEMMA FineDropped ==
  ASSUME NEW a, NEW t, NEW objects, Fine(a, t, objects), NEW q \in DOMAIN t, q # <<>>
  PROVE  Fine(a, Dropped(t, q), Remaining(objects, config_setting_destroy(t, q)))
<1> DEFINE u == Dropped(t, q)
           left == Remaining(objects, config_setting_destroy(t, q))
<1>1. IsTree(t) /\ Wrapping(t, objects)
  BY Zenon DEF Fine
<1>2. PICK w : Drops(t, q, u, w)
  BY <1>1, DroppedIs, Zenon
<1>3. Wrapping(u, left)
  BY <1>1, WrappingDropped, Zenon
<1> HIDE DEF u, left
<1>4. IsTree(u) /\ (Uniform(t) => Uniform(u))
  BY <1>2, Zenon DEF Drops
<1>5. ASSUME NoHooks(t) PROVE NoHooks(u)
  <2>1. w \in [DOMAIN u -> DOMAIN t] /\ u = [r \in DOMAIN u |-> t[w[r]]]
    BY <1>2, Zenon DEF Drops, Renames
  <2> QED
    BY <1>5, <2>1, ZenonT(60) DEF NoHooks
<1>6. Fine(a, u, left)
  BY <1>3, <1>4, <1>5, Zenon DEF Fine
<1> QED
  BY <1>6, Zenon DEF u, left

FitsInto(a, t, p, type) ==
  a = "C++" /\ t[p].type = "array" => type \in Scalars /\ \A q \in Elements(t, p) : t[q].type = type

FineWith(a, objects, u, p, e, setting) ==
  Fine(a, u, objects) /\ e \in DOMAIN u /\ LastOf(u, p) = e /\ u[e] = setting

(* Adding a setting.                                                       *)
LEMMA FineGrown ==
  ASSUME NEW a, NEW t, NEW objects, Fine(a, t, objects), NEW p \in DOMAIN t,
         t[p].type \in Aggregates, NEW name, NEW type \in Types,
         t[p].type = "group" => \A q \in Elements(t, p) : t[q].name # name,
         FitsInto(a, t, p, type)
  PROVE  FineWith(a, objects, Grown(t, p, Setting(name, type)), p, NextOf(t, p),
                  Setting(name, type))
<1> DEFINE s == Setting(name, type)
           u == Grown(t, p, s)
           e == NextOf(t, p)
<1>1. IsTree(t) /\ Wrapping(t, objects)
  BY Zenon DEF Fine
<1>2. /\ IsTree(u)
      /\ Uniform(t) /\ (t[p].type = "array" =>
           type \in Scalars /\ \A q \in Elements(t, p) : t[q].type = type) => Uniform(u)
  BY <1>1, GrownTree, Zenon
<1>3. Wrapping(u, objects)
  BY <1>1, WrappingGrown, Zenon
<1>4. s.hook = NULL
  BY SettingIs, Zenon
<1>5. LastOf(u, p) = e
  BY <1>1, GrownLast, Zenon
<1> HIDE DEF s
<1>6. GrowsBy(t, p, s, u, e)
  BY <1>1, GrownShape, Zenon DEF IsTree
<1> HIDE DEF u, e
<1>7. a = "C" => NoHooks(u)
  BY <1>4, <1>6, Zenon DEF GrowsBy, NoHooks, Fine
<1>8. a = "C++" => Uniform(u)
  BY <1>2, Zenon DEF Fine, FitsInto
<1>9. Fine(a, u, objects)
  BY <1>2, <1>3, <1>7, <1>8, Zenon DEF Fine
<1>10. e \in DOMAIN u /\ u[e] = s
  BY <1>6, Zenon DEF GrowsBy
<1> QED
  BY <1>5, <1>9, <1>10, Zenon DEF FineWith, u, e, s

OverriddenIn(t, p, name) ==
  UNION { config_setting_destroy(t, q) : q \in config_setting_get_member(t, p, NameOf(t, p, name)) }

(* Adding a setting by name, in the place of one of that name if need be.  *)
LEMMA FineAdded ==
  ASSUME NEW a, NEW t, NEW objects, Fine(a, t, objects), NEW p \in DOMAIN t,
         NEW name, NEW type \in Types, NEW allowed, FitsInto(a, t, p, type),
         NEW u \in config_setting_add(t, p, name, type, allowed)
  PROVE  Fine(a, u, Remaining(objects, OverriddenIn(t, p, name))) /\ LastOf(u, p) \in DOMAIN u
<1> DEFINE own == NameOf(t, p, name)
           same == config_setting_get_member(t, p, own)
           gone == OverriddenIn(t, p, name)
           left == Remaining(objects, gone)
<1>1. IsTree(t) /\ Wrapping(t, objects) /\ objects = [x \in DOMAIN objects |-> objects[x]]
  BY Zenon DEF Fine, Wrapping
<1>2. gone = UNION { config_setting_destroy(t, q) : q \in same }
  BY Zenon DEF OverriddenIn
<1> HIDE DEF own
<1>3. PICK room : Adds(t, p, own, type, room, u) /\ RoomIs(t, p, own, room)
  BY <1>1, AddIs, Zenon DEF own
<1>4. /\ p \in DOMAIN room /\ room[p] = t[p] /\ t[p].type \in Aggregates
      /\ t[p].type = "group" => \A q \in Elements(room, p) : room[q].name # own
      /\ u = Grown(room, p, Setting(own, type))
  BY <1>3, Zenon DEF Adds
<1>5. Fine(a, room, left) /\ FitsInto(a, room, p, type)
  <2>1. ASSUME same = {} PROVE Fine(a, room, left) /\ FitsInto(a, room, p, type)
    <3>1. room = t
      BY <1>3, <2>1, Zenon DEF RoomIs
    <3> HIDE DEF same, gone
    <3>2. gone = {}
      BY <1>2, <2>1, Zenon
    <3>3. left = objects
      BY <1>1, <3>2, RestrictNone, Zenon
    <3> QED
      BY <3>1, <3>3, Zenon
  <2>2. ASSUME same # {} PROVE Fine(a, room, left) /\ FitsInto(a, room, p, type)
    <3>1. PICK q \in same : same = {q} /\ room = Dropped(t, q)
      BY <1>3, <2>2, Zenon DEF RoomIs
    <3>2. q \in DOMAIN t /\ q # <<>> /\ t[p].type = "group"
      BY <1>1, <3>1, MemberFound, Zenon
    <3> DEFINE lost == config_setting_destroy(t, q)
    <3>3. gone = lost
      <4> HIDE DEF same, gone, lost
      <4>1. { config_setting_destroy(t, r) : r \in same } = {lost}
        BY <3>1, Zenon DEF lost
      <4> QED
        BY <1>2, <4>1, Zenon
    <3>4. Fine(a, room, left)
      <4>1. Fine(a, Dropped(t, q), Remaining(objects, lost))
        BY <3>2, FineDropped, Zenon
      <4> HIDE DEF gone, lost
      <4> QED
        BY <3>1, <3>3, <4>1, Zenon
    <3>5. t[p].type # "array"
      <4> DEFINE type1 == t[p].type
      <4> HIDE DEF type1
      <4>1. type1 = "group" => type1 # "array"
        OBVIOUS
      <4> QED
        BY <3>2, <4>1, Zenon DEF type1
    <3> QED
      BY <1>4, <3>4, <3>5, Zenon DEF FitsInto
  <2> QED
    BY <2>1, <2>2, Zenon
<1> HIDE DEF left, gone
<1> DEFINE s == Setting(own, type)
           g == Grown(room, p, s)
           e == NextOf(room, p)
<1>7. room[p].type \in Aggregates
      /\ (room[p].type = "group" => \A q \in Elements(room, p) : room[q].name # own)
  BY <1>4, Zenon
<1>8. FineWith(a, left, g, p, e, s)
  BY <1>4, <1>5, <1>7, FineGrown, Zenon
<1> HIDE DEF s
<1>9. u = g
  BY <1>4, Zenon DEF s
<1> HIDE DEF g, e
<1>6. Fine(a, u, left) /\ LastOf(u, p) \in DOMAIN u
  BY <1>8, <1>9, Zenon DEF FineWith
<1> QED
  BY <1>6, Zenon DEF left, gone

(* At most one setting below the root, with the trees without it, and the  *)
(* objects destroyed with it.                                              *)
Chosen(t, found) == (\A q \in found : q \in DOMAIN t /\ q # <<>>) /\ \A q, r \in found : q = r

Removals(t, found) ==
  UNION { config_setting_remove_elem(t, Front(q), Last(q)) : q \in found }

Destroyed(t, found) == UNION { config_setting_destroy(t, q) : q \in found }

(* Removing at most one setting.                                           *)
LEMMA FineRemoved ==
  ASSUME NEW a, NEW t, NEW objects, Fine(a, t, objects), NEW found, Chosen(t, found),
         NEW u \in Removals(t, found)
  PROVE  Fine(a, u, Remaining(objects, Destroyed(t, found)))
<1> DEFINE gone == Destroyed(t, found)
<1>1. PICK q \in found : u \in config_setting_remove_elem(t, Front(q), Last(q))
  BY Zenon DEF Removals
<1>2. q \in DOMAIN t /\ q # <<>> /\ found = {q}
  BY Zenon DEF Chosen
<1>3. u = Dropped(t, q)
  <2>1. config_setting_remove_elem(t, Front(q), Last(q)) = {Dropped(t, q)}
    BY <1>2, DroppedIs, Zenon DEF Fine
  <2> QED
    BY <1>1, <2>1, Zenon
<1> DEFINE lost == config_setting_destroy(t, q)
<1>4. gone = lost
  <2>1. { config_setting_destroy(t, r) : r \in found } = {lost}
    BY <1>2, Zenon
  <2> QED
    BY <2>1, Zenon DEF Destroyed
<1>5. Fine(a, Dropped(t, q), Remaining(objects, lost))
  BY <1>2, FineDropped, Zenon
<1> HIDE DEF gone, lost
<1>6. Fine(a, u, Remaining(objects, gone))
  BY <1>3, <1>4, <1>5, Zenon
<1> QED
  BY <1>6, Zenon DEF gone

(* Setting a value.                                                        *)
LEMMA FineSet ==
  ASSUME NEW a, NEW t, NEW objects, Fine(a, t, objects), NEW p \in DOMAIN t,
         NEW type \in Scalars, NEW v, NEW convert, a = "C" \/ t[p].type # "none",
         NEW u \in config_setting_set(t, p, type, v, convert)
  PROVE  Fine(a, u, objects)
<1>1. IsTree(t) /\ Wrapping(t, objects)
  BY Zenon DEF Fine
<1>2. Stores(t, p, type, v, convert)
  BY <1>1, SetIs, Zenon
<1>3. PICK x \in StoredAs(type, t[p].type, v, convert) : u = SetValue(t, p, type, x)
  BY <1>2, Zenon DEF Stores
<1> DEFINE s == ValueSet(t[p], type, x)
           given == GivenType(t[p].type, type)
           hook == t[p].hook
<1>4. ChangesTo(t, u, p, s) /\ BecomesIn(t[p], s, given, hook)
  BY <1>1, <1>3, SetIs, Zenon
<1>5. s.type = given /\ s.hook = hook
  BY <1>4, Zenon DEF BecomesIn
<1>6. t[p].type # "none" => given = t[p].type
  BY Zenon DEF GivenType
<1>7. a = "C" => hook = NULL
  BY Zenon DEF Fine, NoHooks
<1>d. ASSUME a = "C" PROVE a # "C++"
  BY <1>d
<1> HIDE DEF s, given
<1>8. /\ DOMAIN u = DOMAIN t /\ IsTree(u) /\ (Uniform(t) => Uniform(u)) /\ u[p] = s
      /\ \A q \in DOMAIN t : q # p => u[q] = t[q]
  BY <1>4, Zenon DEF ChangesTo
<1>9. \A q \in DOMAIN t : /\ u[q].hook = t[q].hook
                          /\ t[q].hook # NULL => u[q].type = t[q].type
  BY <1>5, <1>6, <1>7, <1>8, Zenon
<1>10. Wrapping(u, objects)
  BY <1>1, <1>8, <1>9, WrappingKept, Zenon
<1>11. NoHooks(t) => NoHooks(u)
  BY <1>8, <1>9, Zenon DEF NoHooks
<1> QED
  BY <1>8, <1>10, <1>11, Zenon DEF Fine

Seen(t, found) ==
  /\ Fine("C++", found.tree, found.alive)
  /\ DOMAIN found.tree = DOMAIN t
  /\ \A q \in DOMAIN t : found.tree[q].type = t[q].type

(* Giving out a reference.                                                 *)
LEMMA FineWrapped ==
  ASSUME NEW t, NEW objects, Fine("C++", t, objects), NEW p \in DOMAIN t,
         NEW found \in Wrapped(t, objects, p)
  PROVE  Seen(t, found)
<1> DEFINE a == "C++"
<1>1. a # "C"
  OBVIOUS
<1> HIDE DEF a
<1>2. IsTree(t) /\ Wrapping(t, objects) /\ Uniform(t)
  BY Zenon DEF Fine, a
<1>3. /\ IsTree(found.tree) /\ (Uniform(t) => Uniform(found.tree))
      /\ Wrapping(found.tree, found.alive)
      /\ DOMAIN found.tree = DOMAIN t
      /\ \A q \in DOMAIN t : found.tree[q].type = t[q].type
  <2>1. Wraps(t, p, found)
    BY <1>2, WrappersAssumption, WrappedIs, Zenon
  <2> QED
    BY <2>1, Zenon DEF Wraps
<1>4. Fine(a, found.tree, found.alive)
  BY <1>1, <1>2, <1>3, Zenon DEF Fine
<1> QED
  BY <1>3, <1>4, Zenon DEF Seen, a

(* The inductive invariant.  The C functions see no wrapper objects, and   *)
(* only the C++ classes keep arrays to one type.                           *)
ApiInv == api \in {"C", "C++"} /\ Fine(api, config, alive)

(* A call refused changes nothing.                                         *)
LEMMA Refusing ==
  ASSUME ApiInv, Refused
  PROVE  ApiInv'
<1>1. config' = config /\ alive' = alive /\ api' = api
  BY Zenon DEF Refused, apiVars
<1> QED
  BY <1>1, Zenon DEF ApiInv

LEMMA Becoming ==
  ASSUME ApiInv, NEW t, NEW gone, Becomes(t, gone), Fine(api, t, Remaining(alive, gone))
  PROVE  ApiInv'
<1>1. config' = t /\ alive' = Remaining(alive, gone) /\ api' = api
  BY Zenon DEF Becomes, Remaining
<1> HIDE DEF Remaining
<1> QED
  BY <1>1, Zenon DEF ApiInv

LEMMA Resulting ==
  ASSUME ApiInv, NEW found, NEW gone, Outcome(found, gone),
         \A t \in found : Fine(api, t, Remaining(alive, gone))
  PROVE  ApiInv'
<1>1. CASE found = {}
  BY <1>1, Refusing, Zenon DEF Outcome
<1>2. CASE found # {}
  <2> DEFINE t == The(found)
  <2>1. t \in found
    BY <1>2, Zenon DEF The
  <2>2. Becomes(t, gone)
    BY <1>2, Zenon DEF Outcome
  <2>3. Fine(api, t, Remaining(alive, gone))
    BY <2>1, Zenon
  <2> HIDE DEF t
  <2> QED
    BY <2>2, <2>3, Becoming, Zenon
<1> QED
  BY <1>1, <1>2, Zenon

LEMMA Leaving ==
  ASSUME ApiInv, NEW found, Left(found), Fine(api, found.tree, found.alive)
  PROVE  ApiInv'
<1>1. config' = found.tree /\ alive' = found.alive /\ api' = api
  BY Zenon DEF Left
<1> QED
  BY <1>1, Zenon DEF ApiInv

LEMMA FineNothing ==
  ASSUME NEW a, NEW t, NEW objects, Fine(a, t, objects)
  PROVE  Remaining(objects, {}) = objects
<1>1. objects = [x \in DOMAIN objects |-> objects[x]]
  BY Zenon DEF Fine, Wrapping
<1> QED
  BY <1>1, RestrictNone, Zenon

-----------------------------------------------------------------------------
(* The whole tree replaced.                                                *)

LEMMA FineReplaced ==
  ASSUME ApiInv, NEW t, Good(t)
  PROVE  Fine(api, t, Remaining(alive, config_setting_destroy(config, <<>>)))
<1> DEFINE left == Remaining(alive, config_setting_destroy(config, <<>>))
<1>1. NoObjects(left)
  BY AllDestroyed, Zenon DEF ApiInv, Fine
<1> HIDE DEF left
<1>2. Wrapping(t, left)
  BY <1>1, WrappingNone, Zenon DEF Good
<1>3. Fine(api, t, left)
  BY <1>2, Zenon DEF Fine, Good
<1> QED
  BY <1>3, Zenon DEF left

(* config_clear.                                                           *)
LEMMA ClearKeeps ==
  ASSUME ApiInv, Clear
  PROVE  ApiInv'
<1> DEFINE gone == config_setting_destroy(config, <<>>)
           t == config_clear
<1>1. Becomes(t, gone)
  BY Zenon DEF Clear
<1>2. Good(t)
  BY EmptyTree, Zenon
<1> HIDE DEF t
<1>3. Fine(api, t, Remaining(alive, gone))
  BY <1>2, FineReplaced, Zenon
<1> HIDE DEF gone
<1> QED
  BY <1>1, <1>3, Becoming, Zenon

(* config_read_string, from a tree with wrappers: all of them are destroyed. *)
LEMMA ReadKeeps ==
  ASSUME ApiInv, NEW text \in Texts, Read(text)
  PROVE  ApiInv'
<1> DEFINE t == config_read_string(text, overrides).tree
           gone == config_setting_destroy(config, <<>>)
<1>1. config' = t /\ alive' = Remaining(alive, gone) /\ api' = api
  BY Zenon DEF Read, Remaining
<1>2. Good(t)
  BY TextsAssumption, ReadGood, Zenon
<1> HIDE DEF t
<1>3. Fine(api, t, Remaining(alive, gone))
  BY <1>2, FineReplaced, Zenon
<1> QED
  BY <1>1, <1>3, Zenon DEF ApiInv

-----------------------------------------------------------------------------
(* Removing.                                                               *)

LEMMA RemovesFound ==
  ASSUME ApiInv, NEW all, NEW found, Chosen(config, found), all \subseteq Removals(config, found),
         Outcome(all, Destroyed(config, found))
  PROVE  ApiInv'
<1> DEFINE gone == Destroyed(config, found)
<1>1. Fine(api, config, alive)
  BY Zenon DEF ApiInv
<1>2. ASSUME NEW t \in all PROVE Fine(api, t, Remaining(alive, gone))
  <2>1. t \in Removals(config, found)
    BY Zenon
  <2> QED
    BY <1>1, <2>1, FineRemoved, Zenon
<1> HIDE DEF gone
<1> QED
  BY <1>2, Resulting, Zenon DEF gone

(* config_setting_remove_elem.                                             *)
LEMMA RemovesElem ==
  ASSUME ApiInv, NEW p \in DOMAIN config, NEW i \in Nat, RemoveElem(p, i)
  PROVE  ApiInv'
<1> DEFINE found == config_setting_get_elem(config, p, i)
           q == Append(p, i)
           all == config_setting_remove_elem(config, p, i)
<1>1. Outcome(all, Destroyed(config, found))
  BY Zenon DEF RemoveElem, Destroyed
<1>2. p \in Paths
  BY Zenon DEF ApiInv, Fine, IsTree, Shaped
<1>3. q # <<>> /\ Front(q) = p /\ Last(q) = i
  BY <1>2, PathExtended, Zenon
<1>4. found = {q} \cap DOMAIN config
  BY Zenon DEF config_setting_get_elem
<1> HIDE DEF q
<1>5. Chosen(config, found)
  BY <1>3, <1>4, Zenon DEF Chosen
<1>6. all \subseteq Removals(config, found)
  <2>1. CASE found = {}
    <3>1. all = {}
      BY <2>1, Zenon DEF config_setting_remove_elem
    <3> QED
      BY <3>1, Zenon
  <2>2. CASE found # {}
    <3>1. q \in found
      BY <1>4, <2>2, Zenon
    <3> HIDE DEF found
    <3> QED
      BY <1>3, <3>1, Zenon DEF Removals
  <2> QED
    BY <2>1, <2>2, Zenon
<1> HIDE DEF found, all
<1> QED
  BY <1>1, <1>5, <1>6, RemovesFound, Zenon

LEMMA RemovesPath ==
  ASSUME ApiInv, NEW p \in DOMAIN config, NEW steps, NEW n \in Nat \ {0},
         DOMAIN steps = 1 .. n, \A k \in 1 .. n : steps[k] \in Steps, RemovePath(p, steps)
  PROVE  ApiInv'
<1> DEFINE found == config_setting_lookup(config, p, steps)
           all == config_setting_remove(config, p, steps)
<1>1. Outcome(all, Destroyed(config, found))
  BY Zenon DEF RemovePath, Destroyed
<1>2. all \subseteq Removals(config, found)
  BY Zenon DEF config_setting_remove, Removals
<1>3. Chosen(config, found)
  BY LookupFinds, Zenon DEF ApiInv, Fine, Chosen
<1> HIDE DEF found, all
<1> QED
  BY <1>1, <1>2, <1>3, RemovesFound, Zenon

(* config_setting_remove.                                                  *)
LEMMA RemovesSteps ==
  ASSUME ApiInv, NEW p \in DOMAIN config
  PROVE  /\ \A a \in Steps : RemovePath(p, <<a>>) => ApiInv'
         /\ \A a, b \in Steps : RemovePath(p, <<a, b>>) => ApiInv'
<1>1. ASSUME NEW a \in Steps, RemovePath(p, <<a>>) PROVE ApiInv'
  <2> DEFINE steps == <<a>>
  <2>1. 1 \in Nat \ {0} /\ DOMAIN steps = 1 .. 1 /\ \A k \in 1 .. 1 : steps[k] = a
    OBVIOUS
  <2>2. RemovePath(p, steps)
    BY <1>1, Zenon
  <2>3. \A k \in 1 .. 1 : steps[k] \in Steps
    BY <2>1, Zenon
  <2> HIDE DEF steps
  <2> QED
    BY <2>1, <2>2, <2>3, RemovesPath, Zenon
<1>2. ASSUME NEW a \in Steps, NEW b \in Steps, RemovePath(p, <<a, b>>) PROVE ApiInv'
  <2> DEFINE steps == <<a, b>>
  <2>1. 2 \in Nat \ {0} /\ DOMAIN steps = 1 .. 2 /\ \A k \in 1 .. 2 : steps[k] = a \/ steps[k] = b
    OBVIOUS
  <2>2. RemovePath(p, steps)
    BY <1>2, Zenon
  <2>3. \A k \in 1 .. 2 : steps[k] \in Steps
    BY <2>1, Zenon
  <2> HIDE DEF steps
  <2> QED
    BY <2>1, <2>2, <2>3, RemovesPath, Zenon
<1> QED
  BY <1>1, <1>2, Zenon

-----------------------------------------------------------------------------
(* Adding and setting, by the C functions.                                 *)

(* config_setting_add.                                                     *)
LEMMA AddsTo ==
  ASSUME ApiInv, NEW p \in DOMAIN config, NEW name, NEW type \in Types,
         FitsInto(api, config, p, type), AddTo(p, name, type)
  PROVE  ApiInv'
<1> DEFINE added == config_setting_add(config, p, name, type, overrides)
           gone == OverriddenIn(config, p, name)
<1>1. Outcome(added, gone)
  BY Zenon DEF AddTo, Overridden, OverriddenIn
<1>2. Fine(api, config, alive)
  BY Zenon DEF ApiInv
<1>3. ASSUME NEW u \in added PROVE Fine(api, u, Remaining(alive, gone))
  BY <1>2, FineAdded, Zenon
<1> HIDE DEF added, gone
<1> QED
  BY <1>1, <1>3, Resulting, Zenon

(* config_setting_set_int and its like.                                    *)
LEMMA Sets ==
  ASSUME ApiInv, api = "C", NEW p \in DOMAIN config, NEW type \in Scalars, NEW v,
         CallSet(p, type, v)
  PROVE  ApiInv'
<1> DEFINE set == config_setting_set(config, p, type, v, auto)
           none == {}
<1>1. Outcome(set, none)
  BY Zenon DEF CallSet
<1>2. Fine(api, config, alive)
  BY Zenon DEF ApiInv
<1>3. Remaining(alive, none) = alive
  BY <1>2, FineNothing, Zenon
<1>4. ASSUME NEW u \in set PROVE Fine(api, u, alive)
  BY <1>2, FineSet, Zenon
<1> HIDE DEF set, none
<1>5. \A u \in set : Fine(api, u, Remaining(alive, none))
  BY <1>3, <1>4, Zenon
<1> QED
  BY <1>1, <1>5, Resulting, Zenon

LEMMA FineSetElem ==
  ASSUME NEW t, NEW objects, NEW a, a = "C", Fine(a, t, objects), NEW p \in DOMAIN t,
         NEW type \in Scalars, NEW v, NEW convert, NEW i \in -1 .. 1,
         NEW u \in config_setting_set_elem(t, p, i, type, v, convert)
  PROVE  Fine(a, u, objects)
<1>1. t[p].type \in {"array", "list"}
  BY Zenon DEF config_setting_set_elem
<1>2. CASE i >= 0
  <2>1. config_setting_set_elem(t, p, i, type, v, convert) =
          UNION { config_setting_set(t, q, type, v, convert) : q \in config_setting_get_elem(t, p, i) }
    BY <1>1, <1>2, Zenon DEF config_setting_set_elem
  <2>2. PICK q \in config_setting_get_elem(t, p, i) : u \in config_setting_set(t, q, type, v, convert)
    BY <2>1, Zenon
  <2>3. q \in DOMAIN t
    BY Zenon DEF config_setting_get_elem
  <2> QED
    BY <2>2, <2>3, FineSet, Zenon
<1>3. CASE ~(i >= 0)
  <2>1. i = -1
    BY <1>3
  <2> DEFINE s == Setting(NULL, type)
             g == Grown(t, p, s)
             e == NextOf(t, p)
             el == ElemAdded(t, p, type, v)
  <2>2. config_setting_set_elem(t, p, -1, type, v, convert) =
          IF config_list_checktype(t, p, type) THEN {el} ELSE {}
    BY <1>1, ElemIs, Zenon DEF Fine
  <2>3. u = el
    BY <2>1, <2>2, Zenon
  <2>4. t[p].type \in Aggregates /\ t[p].type # "group" /\ type \in Types /\ a # "C++"
    BY <1>1 DEF Aggregates, Types
  <2>5. FineWith(a, objects, g, p, e, s)
    BY <2>4, FineGrown, Zenon DEF FitsInto
  <2>6. s.type = type
    BY SettingIs, Zenon
  <2>7. StoredAs(type, type, v, convert) = {v}
    BY DEF StoredAs
  <2> HIDE DEF s
  <2>8. el = SetValue(g, e, type, v)
    BY Zenon DEF ElemAdded, s
  <2> HIDE DEF g, e, el
  <2>9. Fine(a, g, objects) /\ e \in DOMAIN g /\ g[e] = s
    BY <2>5, Zenon DEF FineWith
  <2>10. Stores(g, e, type, v, convert)
    BY <2>9, SetIs, Zenon DEF Fine
  <2>11. el \in config_setting_set(g, e, type, v, convert)
    <3>1. v \in StoredAs(type, g[e].type, v, convert)
      BY <2>6, <2>7, <2>9, Zenon
    <3> QED
      BY <2>8, <2>10, <3>1, Zenon DEF Stores
  <2> QED
    BY <2>3, <2>9, <2>11, FineSet, Zenon
<1> QED
  BY <1>2, <1>3, Zenon

(* config_setting_set_int_elem and its like.                               *)
LEMMA SetsElem ==
  ASSUME ApiInv, api = "C", NEW p \in DOMAIN config, NEW type \in Scalars, NEW v,
         NEW i \in -1 .. 1, CallSetElem(p, i, type, v)
  PROVE  ApiInv'
<1> DEFINE set == config_setting_set_elem(config, p, i, type, v, auto)
           none == {}
<1>1. Outcome(set, none)
  BY Zenon DEF CallSetElem
<1>2. Fine(api, config, alive)
  BY Zenon DEF ApiInv
<1>3. Remaining(alive, none) = alive
  BY <1>2, FineNothing, Zenon
<1>4. ASSUME NEW u \in set PROVE Fine(api, u, alive)
  BY <1>2, FineSetElem, Zenon
<1> HIDE DEF set, none
<1>5. \A u \in set : Fine(api, u, Remaining(alive, none))
  BY <1>3, <1>4, Zenon
<1> QED
  BY <1>1, <1>5, Resulting, Zenon

(* Every call from C keeps the invariant.                                  *)
LEMMA CallFromCKeeps ==
  ASSUME ApiInv, NEW p \in DOMAIN config, CallFromC(p)
  PROVE  ApiInv'
<1>1. api = "C"
  BY Zenon DEF CallFromC
<1>2. ASSUME NEW name \in Names, NEW type \in AddedTypes, AddTo(p, name, type) PROVE ApiInv'
  <2>1. type \in Types
    BY AddedTypesAssumption, Zenon
  <2>2. api # "C++"
    BY <1>1
  <2>3. FitsInto(api, config, p, type)
    BY <2>2, Zenon DEF FitsInto
  <2> QED
    BY <1>2, <2>1, <2>3, AddsTo, Zenon
<1>3. ASSUME NEW type \in Scalars, NEW v \in Values[type], CallSet(p, type, v) PROVE ApiInv'
  BY <1>1, <1>3, Sets, Zenon
<1>4. ASSUME NEW type \in Scalars, NEW v \in Values[type], NEW i \in -1 .. 1,
             CallSetElem(p, i, type, v)
      PROVE  ApiInv'
  BY <1>1, <1>4, SetsElem, Zenon
<1>5. ASSUME NEW a \in Steps, RemovePath(p, <<a>>) PROVE ApiInv'
  BY <1>5, RemovesSteps, Zenon
<1>6. ASSUME NEW a \in Steps, NEW b \in Steps, RemovePath(p, <<a, b>>) PROVE ApiInv'
  BY <1>6, RemovesSteps, Zenon
<1>7. ASSUME NEW i \in 0 .. 1, RemoveElem(p, i) PROVE ApiInv'
  <2>1. i \in Nat
    OBVIOUS
  <2> QED
    BY <1>7, <2>1, RemovesElem, Zenon
<1> QED
  BY <1>2, <1>3, <1>4, <1>5, <1>6, <1>7, Zenon DEF CallFromC

-----------------------------------------------------------------------------
(* The C++ classes.                                                        *)

(* A wrapper object knows the type of its setting.                         *)
LEMMA KnowsType ==
  ASSUME ApiInv, NEW p \in DOMAIN config, config[p].hook # NULL
  PROVE  _type(p) = config[p].type
BY Zenon DEF ApiInv, Fine, Wrapping, _type

(* getRoot, lookup and operator[].                                         *)
LEMMA WrapsSetting ==
  ASSUME ApiInv, api = "C++", NEW p \in DOMAIN config, wrapSetting(p)
  PROVE  ApiInv'
<1>1. PICK found \in Wrapped(config, alive, p) : Left(found)
  BY Zenon DEF wrapSetting
<1>2. Fine("C++", config, alive)
  BY Zenon DEF ApiInv
<1>3. Fine("C++", found.tree, found.alive)
  BY <1>2, FineWrapped, Zenon DEF Seen
<1> QED
  BY <1>1, <1>3, Leaving, Zenon

LEMMA AddsWrapped ==
  ASSUME ApiInv, api = "C++", NEW t, NEW objects, Fine("C++", t, objects), NEW p \in DOMAIN t,
         NEW name, NEW type \in Types, FitsInto("C++", t, p, type),
         Overridden(p, name) = OverriddenIn(t, p, name),
         AddWrapped(t, objects, p, name, type)
  PROVE  ApiInv'
<1> DEFINE a == "C++"
           added == config_setting_add(t, p, name, type, overrides)
           gone == OverriddenIn(t, p, name)
           kept == Remaining(objects, gone)
           none == [tree |-> t, alive |-> objects]
<1>1. CASE added = {}
  <2>1. Left(none)
    BY <1>1, Zenon DEF AddWrapped
  <2>2. none.tree = t /\ none.alive = objects
    OBVIOUS
  <2> HIDE DEF none
  <2>3. Fine(api, none.tree, none.alive)
    BY <2>2, Zenon
  <2> QED
    BY <2>1, <2>3, Leaving, Zenon
<1>2. CASE added # {}
  <2>1. PICK u \in added : \E found \in Wrapped(u, kept, LastOf(u, p)) : Left(found)
    BY <1>2, Zenon DEF AddWrapped, Remaining
  <2>2. PICK found \in Wrapped(u, kept, LastOf(u, p)) : Left(found)
    BY <2>1, Zenon
  <2>3. Fine(a, u, kept) /\ LastOf(u, p) \in DOMAIN u
    BY FineAdded, Zenon
  <2> HIDE DEF kept
  <2>4. Fine(a, found.tree, found.alive)
    BY <2>3, FineWrapped, Zenon DEF Seen
  <2>5. Fine(api, found.tree, found.alive)
    BY <2>4, Zenon
  <2> QED
    BY <2>2, <2>5, Leaving, Zenon
<1> QED
  BY <1>1, <1>2, Zenon

(* Setting::add of a name and a type.                                      *)
LEMMA AddsNamed ==
  ASSUME ApiInv, api = "C++", NEW p \in DOMAIN config, config[p].hook # NULL,
         NEW name, NEW type \in Types, addNamed(p, name, type)
  PROVE  ApiInv'
<1>1. CASE _type(p) = "group" /\ type # "none"
  <2>1. AddWrapped(config, alive, p, name, type)
    BY <1>1, Zenon DEF addNamed
  <2>2. config[p].type = "group"
    BY <1>1, KnowsType, Zenon
  <2>3. config[p].type # "array"
    BY <2>2
  <2>4. FitsInto("C++", config, p, type)
    BY <2>3, Zenon DEF FitsInto
  <2>5. Overridden(p, name) = OverriddenIn(config, p, name)
    BY Zenon DEF Overridden, OverriddenIn
  <2>6. Fine("C++", config, alive)
    BY Zenon DEF ApiInv
  <2> QED
    BY <2>1, <2>4, <2>5, <2>6, AddsWrapped, Zenon
<1>2. CASE ~(_type(p) = "group" /\ type # "none")
  <2>1. Refused
    BY <1>2, Zenon DEF addNamed
  <2> QED
    BY <2>1, Refusing, Zenon
<1> QED
  BY <1>1, <1>2, Zenon

(* The tree after a look at the first element.                             *)
LEMMA FirstKeeps ==
  ASSUME ApiInv, api = "C++", NEW p \in DOMAIN config, NEW seen \in FirstWrapped(p)
  PROVE  Seen(config, seen)
<1> DEFINE first == IF _type(p) = "array" THEN config_setting_get_elem(config, p, 0) ELSE {}
           none == [tree |-> config, alive |-> alive]
           q == The(first)
<1>1. Fine("C++", config, alive)
  BY Zenon DEF ApiInv
<1>2. first \subseteq DOMAIN config
  BY Zenon DEF config_setting_get_elem
<1>3. FirstWrapped(p) = IF first = {} THEN {none} ELSE Wrapped(config, alive, q)
  BY Zenon DEF FirstWrapped
<1> HIDE DEF first
<1>4. CASE first = {}
  <2>1. seen = none
    BY <1>3, <1>4, Zenon
  <2>2. seen.tree = config /\ seen.alive = alive
    BY <2>1
  <2> QED
    BY <1>1, <2>2, Zenon DEF Seen
<1>5. CASE first # {}
  <2>1. q \in DOMAIN config
    BY <1>2, <1>5, Zenon DEF The
  <2> HIDE DEF q
  <2>2. seen \in Wrapped(config, alive, q)
    BY <1>3, <1>5, Zenon
  <2> QED
    BY <1>1, <2>1, <2>2, FineWrapped, Zenon
<1> QED
  BY <1>4, <1>5, Zenon

(* What Setting::add lets into an array is of the type of its elements.    *)
LEMMA ElementFits ==
  ASSUME ApiInv, api = "C++", NEW p \in DOMAIN config, _type(p) = config[p].type,
         NEW type, ElementAllowed(p, type), config[p].type = "array"
  PROVE  \A q \in Elements(config, p) : config[q].type = type
<1>1. IsTree(config) /\ Uniform(config)
  BY Zenon DEF ApiInv, Fine
<1>2. CASE Elements(config, p) = {}
  BY <1>2, Zenon
<1>3. CASE Elements(config, p) # {}
  <2>1. PICK z \in config_setting_get_elem(config, p, 0) : type = config[z].type
    BY <1>3, Zenon DEF ElementAllowed
  <2>2. z \in DOMAIN config /\ z = Append(p, 0)
    BY Zenon DEF config_setting_get_elem
  <2>3. z # <<>> /\ Front(z) = p
    <3>1. p \in Paths /\ 0 \in Nat
      BY <1>1, Zenon DEF IsTree, Shaped
    <3> QED
      BY <2>2, <3>1, PathExtended, Zenon
  <2> QED
    BY <1>1, <2>1, <2>2, <2>3, Zenon DEF Elements, Uniform, Siblings
<1> QED
  BY <1>2, <1>3, Zenon

LEMMA ScalarOrNot ==
  ASSUME ApiInv, NEW p \in DOMAIN config, NEW t, config[p].type = "array",
         DOMAIN t = DOMAIN config, \A q \in DOMAIN config : t[q].type = config[q].type
  PROVE  /\ Elements(t, p) = Elements(config, p)
         /\ \A q \in Elements(t, p) : t[q].type = config[q].type
BY Zenon DEF Elements

(* Setting::add of a type: element 0 is wrapped before anything is added.  *)
LEMMA AddsElement ==
  ASSUME ApiInv, api = "C++", NEW p \in DOMAIN config, config[p].hook # NULL,
         NEW type \in Types, addElement(p, type)
  PROVE  ApiInv'
<1>0. _type(p) = config[p].type
  BY KnowsType, Zenon
<1>1. CASE Refused
  BY <1>1, Refusing, Zenon
<1>2. ASSUME _type(p) \in {"array", "list"}, NEW seen \in FirstWrapped(p),
             IF ElementAllowed(p, type) THEN AddWrapped(seen.tree, seen.alive, p, NULL, type)
                                        ELSE Left(seen)
      PROVE  ApiInv'
  <2> DEFINE t == seen.tree
             objects == seen.alive
  <2>1. /\ Fine("C++", t, objects) /\ DOMAIN t = DOMAIN config
        /\ \A q \in DOMAIN config : t[q].type = config[q].type
    BY FirstKeeps, Zenon DEF Seen
  <2>2. ASSUME ElementAllowed(p, type) PROVE ApiInv'
    <3>1. AddWrapped(t, objects, p, NULL, type)
      BY <1>2, <2>2, Zenon
    <3>2. p \in DOMAIN t /\ t[p].type = config[p].type /\ t[p].type \in {"array", "list"}
      BY <1>0, <1>2, <2>1, Zenon
    <3>3. Overridden(p, NULL) = OverriddenIn(t, p, NULL)
      <4>1. NameOf(t, p, NULL) = NULL /\ NameOf(config, p, NULL) = NULL
        BY Zenon DEF NameOf
      <4>2. t[p].type # "group" /\ config[p].type # "group"
        <5> HIDE DEF t
        <5> QED
          BY <3>2
      <4>3. config_setting_get_member(t, p, NULL) = {} /\ config_setting_get_member(config, p, NULL) = {}
        BY <4>2, Zenon DEF config_setting_get_member
      <4> HIDE DEF t
      <4>4. OverriddenIn(t, p, NULL) = {}
        BY <4>1, <4>3, Zenon DEF OverriddenIn
      <4>5. Overridden(p, NULL) = {}
        BY <4>1, <4>3, Zenon DEF Overridden
      <4> QED
        BY <4>4, <4>5, Zenon
    <3>4. FitsInto("C++", t, p, type)
      <4>1. ASSUME t[p].type = "array"
            PROVE  type \in Scalars /\ \A q \in Elements(t, p) : t[q].type = type
        <5>1. config[p].type = "array"
          BY <3>2, <4>1, Zenon
        <5>2. \A q \in Elements(config, p) : config[q].type = type
          BY <1>0, <2>2, <5>1, ElementFits, Zenon
        <5>3. Elements(t, p) = Elements(config, p) /\ \A q \in Elements(t, p) : t[q].type = config[q].type
          BY <2>1, <5>1, ScalarOrNot, Zenon
        <5>4. type \in Scalars
          <6>1. CASE Elements(config, p) = {}
            <7>1. config_setting_get_elem(config, p, 0) = {}
              <8>1. ASSUME NEW z \in config_setting_get_elem(config, p, 0) PROVE FALSE
                <9>1. z \in DOMAIN config /\ z = Append(p, 0)
                  BY Zenon DEF config_setting_get_elem
                <9>2. p \in Paths /\ 0 \in Nat
                  BY Zenon DEF ApiInv, Fine, IsTree, Shaped
                <9>3. z # <<>> /\ Front(z) = p
                  BY <9>1, <9>2, PathExtended, Zenon
                <9> QED
                  BY <6>1, <9>1, <9>3, Zenon DEF Elements
              <8> QED
                BY <8>1, Zenon
            <7> QED
              BY <1>0, <2>2, <5>1, <6>1, <7>1, Zenon DEF ElementAllowed
          <6>2. CASE Elements(config, p) # {}
            <7>1. PICK z \in Elements(config, p) : TRUE
              BY <6>2, Zenon
            <7>2. config[z].type = type
              BY <5>2, Zenon
            <7>3. z \in DOMAIN config /\ z # <<>> /\ Front(z) = p
              BY Zenon DEF Elements
            <7>4. Uniform(config)
              BY Zenon DEF ApiInv, Fine
            <7> QED
              BY <5>1, <7>2, <7>3, <7>4, Zenon DEF Uniform, Siblings
          <6> QED
            BY <6>1, <6>2, Zenon
        <5> HIDE DEF t
        <5> QED
          BY <5>2, <5>3, <5>4, Zenon
      <4> HIDE DEF t
      <4> QED
        BY <4>1, Zenon DEF FitsInto
    <3> HIDE DEF t, objects
    <3> QED
      BY <2>1, <3>1, <3>2, <3>3, <3>4, AddsWrapped, Zenon
  <2>3. ASSUME ~ElementAllowed(p, type) PROVE ApiInv'
    <3>1. Left(seen)
      BY <1>2, <2>3, Zenon
    <3>2. Fine(api, seen.tree, seen.alive)
      BY <2>1, Zenon
    <3> QED
      BY <3>1, <3>2, Leaving, Zenon
  <2> QED
    BY <2>2, <2>3, Zenon
<1> QED
  BY <1>1, <1>2, Zenon DEF addElement

(* A setting of no type is of no type for its wrapper: it takes no value.  *)
LEMMA Assigns ==
  ASSUME ApiInv, api = "C++", NEW p \in DOMAIN config, config[p].hook # NULL,
         NEW type \in Scalars, NEW v, assign(p, type, v)
  PROVE  ApiInv'
<1>1. _type(p) = config[p].type
  BY KnowsType, Zenon
<1>2. CASE ~assertType(p, type)
  <2>1. Refused
    BY <1>2, Zenon DEF assign
  <2> QED
    BY <2>1, Refusing, Zenon
<1>3. CASE assertType(p, type)
  <2> DEFINE set == config_setting_set(config, p, type, v, auto)
             t == IF set = {} THEN config ELSE The(set)
             none == {}
  <2>1. Becomes(t, none)
    BY <1>3, Zenon DEF assign
  <2>2. config[p].type # "none"
    <3>1. _type(p) = type \/ _type(p) \in {"int", "int64", "float"}
      BY <1>3, Zenon DEF assertType
    <3>2. _type(p) # "none"
      <4> DEFINE z == _type(p)
      <4>1. z = type \/ z \in {"int", "int64", "float"}
        BY <3>1, Zenon
      <4> HIDE DEF z
      <4>2. z # "none"
        BY <4>1 DEF Scalars
      <4> QED
        BY <4>2, Zenon DEF z
    <3> QED
      BY <1>1, <3>2, Zenon
  <2>3. Fine(api, config, alive)
    BY Zenon DEF ApiInv
  <2>4. Remaining(alive, none) = alive
    BY <2>3, FineNothing, Zenon
  <2>5. ASSUME NEW u \in set PROVE Fine(api, u, alive)
    BY <2>2, <2>3, FineSet, Zenon
  <2>6. t = config \/ t \in set
    <3> HIDE DEF set
    <3> QED
      BY Zenon DEF The
  <2> HIDE DEF t, set
  <2>7. Fine(api, t, alive)
    BY <2>3, <2>5, <2>6, Zenon
  <2> HIDE DEF none
  <2>8. Fine(api, t, Remaining(alive, none))
    BY <2>4, <2>7, Zenon
  <2> QED
    BY <2>1, <2>8, Becoming, Zenon
<1> QED
  BY <1>2, <1>3, Zenon

(* Every call of the C++ classes keeps the invariant.                      *)
LEMMA CallFromCppKeeps ==
  ASSUME ApiInv, NEW p \in DOMAIN config, CallFromCpp(p)
  PROVE  ApiInv'
<1>1. api = "C++"
  BY Zenon DEF CallFromCpp
<1>2. ASSUME wrapSetting(p) PROVE ApiInv'
  BY <1>1, <1>2, WrapsSetting, Zenon
<1>3. ASSUME config[p].hook # NULL, NEW name \in Names, NEW type \in AddedTypes, addNamed(p, name, type)
      PROVE  ApiInv'
  <2>1. type \in Types
    BY AddedTypesAssumption, Zenon
  <2> QED
    BY <1>1, <1>3, <2>1, AddsNamed, Zenon
<1>4. ASSUME config[p].hook # NULL, NEW type \in AddedTypes, addElement(p, type)
      PROVE  ApiInv'
  <2>1. type \in Types
    BY AddedTypesAssumption, Zenon
  <2> QED
    BY <1>1, <1>4, <2>1, AddsElement, Zenon
<1>5. ASSUME config[p].hook # NULL, NEW type \in Scalars, NEW v \in Values[type], assign(p, type, v)
      PROVE  ApiInv'
  BY <1>1, <1>5, Assigns, Zenon
<1>6. ASSUME NEW step \in Steps, removeNamed(p, step) PROVE ApiInv'
  <2>1. CASE RemovePath(p, <<step>>)
    BY <2>1, RemovesSteps, Zenon
  <2>2. CASE Refused
    BY <2>2, Refusing, Zenon
  <2> QED
    BY <1>6, <2>1, <2>2, Zenon DEF removeNamed
<1>7. ASSUME NEW i \in 0 .. 1, removeElem(p, i) PROVE ApiInv'
  <2>1. CASE RemoveElem(p, i)
    <3>1. i \in Nat
      OBVIOUS
    <3> QED
      BY <2>1, <3>1, RemovesElem, Zenon
  <2>2. CASE Refused
    BY <2>2, Refusing, Zenon
  <2> QED
    BY <1>7, <2>1, <2>2, Zenon DEF removeElem
<1> QED
  BY <1>2, <1>3, <1>4, <1>5, <1>6, <1>7, Zenon DEF CallFromCpp

-----------------------------------------------------------------------------
(* It holds of a configuration just initialised.                           *)
LEMMA ApiStarts == config_init => ApiInv
<1> SUFFICES ASSUME config_init PROVE ApiInv
  OBVIOUS
<1>1. api \in {"C", "C++"} /\ config = config_clear /\ alive = << >>
  BY Zenon DEF config_init
<1>2. Good(config)
  BY <1>1, EmptyTree, Zenon
<1>3. NoObjects(alive)
  <2>1. DOMAIN << >> = {} /\ << >> = [x \in DOMAIN << >> |-> << >>[x]]
    OBVIOUS
  <2> QED
    BY <1>1, <2>1, Zenon DEF NoObjects
<1>4. Wrapping(config, alive)
  BY <1>2, <1>3, WrappingNone, Zenon DEF Good
<1> QED
  BY <1>1, <1>2, <1>4, Zenon DEF ApiInv, Fine, Good

(* Every step keeps it.                                                    *)
LEMMA ApiKeeps == ApiInv /\ [ApiNext]_apiVars => ApiInv'
<1> SUFFICES ASSUME ApiInv, [ApiNext]_apiVars PROVE ApiInv'
  OBVIOUS
<1>1. CASE config_set_option
  <2>1. api' = api /\ config' = config /\ alive' = alive
    BY <1>1, Zenon DEF config_set_option
  <2> QED
    BY <2>1, Zenon DEF ApiInv
<1>2. CASE Clear
  BY <1>2, ClearKeeps, Zenon
<1>3. ASSUME NEW text \in Texts, Read(text) PROVE ApiInv'
  BY <1>3, ReadKeeps, Zenon
<1>4. ASSUME NEW p \in DOMAIN config, CallFromC(p) PROVE ApiInv'
  BY <1>4, CallFromCKeeps, Zenon
<1>5. ASSUME NEW p \in DOMAIN config, CallFromCpp(p) PROVE ApiInv'
  BY <1>5, CallFromCppKeeps, Zenon
<1>6. CASE UNCHANGED apiVars
  BY <1>6, Refusing, Zenon DEF Refused
<1> QED
  BY <1>1, <1>2, <1>3, <1>4, <1>5, <1>6, Zenon DEF ApiNext

(* What the operations of libconfig.c, the parser and the C++ classes keep: *)
(* the settings form a tree with elements numbered from 0, the members of a *)
(* group have different names, the arrays a C++ program has are of one type, *)
(* and the wrapper objects are the hooks of the settings, each with the type *)
(* its setting has.                                                        *)
THEOREM ApiInvariant == ApiSpec => []ApiInv
<1> QED
  BY ApiStarts, ApiKeeps, PTL DEF ApiSpec

LEMMA ApiIsTyped == ApiInv => ApiTypeOK
<1> SUFFICES ASSUME ApiInv PROVE ApiTypeOK
  OBVIOUS
<1>1. IsTree(config) /\ Wrapping(config, alive)
  BY Zenon DEF ApiInv, Fine
<1>2. ASSUME NEW p \in DOMAIN config
      PROVE  /\ config[p].type \in Types
             /\ config[p].hook \in Wrappers \cup {NULL}
             /\ p # <<>> => config[Front(p)].type \in Aggregates
             /\ p # <<>> /\ Last(p) > 0 => Append(Front(p), Last(p) - 1) \in DOMAIN config
  <2>1. config[p].type \in Types /\ (p # <<>> => config[Front(p)].type \in Aggregates)
    BY <1>1, Zenon DEF IsTree, Nested
  <2>2. config[p].hook \in Wrappers \cup {NULL}
    BY <1>1, Zenon DEF Wrapping
  <2>3. p # <<>> /\ Last(p) > 0 => Append(Front(p), Last(p) - 1) \in DOMAIN config
    BY <1>1, Zenon DEF IsTree, Shaped
  <2> QED
    BY <2>1, <2>2, <2>3, Zenon
<1>3. config[<<>>].type = "group"
  BY <1>1, Zenon DEF IsTree
<1> QED
  BY <1>2, <1>3, Zenon DEF ApiTypeOK

(* Whatever is added, removed, overridden or read, the settings form a tree *)
(* numbered without gaps, in which only groups, arrays and lists have      *)
(* children.                                                               *)
THEOREM ApiTypeCorrect == ApiSpec => []ApiTypeOK
<1> QED
  BY ApiInvariant, ApiIsTyped, PTL

(* The path of a setting is that of the settings above it, step by step.   *)
LEMMA PathIs ==
  ASSUME IsTree(config), NEW p \in DOMAIN config
  PROVE  /\ DOMAIN PathTo(p) = 1 .. Len(p)
         /\ \A k \in 1 .. Len(p) : PathTo(p)[k] = StepIn(config, SubSeq(p, 1, k))
<1>1. DOMAIN p = 1 .. Len(p)
  <2>1. p \in Paths
    BY Zenon DEF IsTree, Shaped
  <2> QED
    BY <2>1, PathType, Zenon
<1> QED
  BY <1>1, Zenon DEF PathTo, StepTo, StepIn

LEMMA ApiLeadsBack == ApiInv => PathsFindSettings
<1> SUFFICES ASSUME ApiInv, NEW p \in DOMAIN config \ {<<>>}
             PROVE  config_setting_lookup(config, <<>>, PathTo(p)) = {p}
  BY Zenon DEF PathsFindSettings
<1>1. IsTree(config)
  BY Zenon DEF ApiInv, Fine
<1> QED
  BY <1>1, PathIs, LookupLeadsTo, Zenon

(* config_lookup finds under the path of a setting that setting: no removal, *)
(* no override and no text leaves two members of a group with one name.    *)
THEOREM PathsLeadBack == ApiSpec => []PathsFindSettings
<1> QED
  BY ApiInvariant, ApiLeadsBack, PTL

LEMMA ApiHomogeneous == ApiInv => ArraysHaveOneType
<1> QED
  BY UniformIsHomogeneous, Zenon DEF ApiInv, Fine, ArraysHaveOneType

(* Setting::add checks the type of an array's first element, which         *)
(* config_setting_add does not, and so does the parser: an array a C++     *)
(* program has is of one scalar type.                                      *)
THEOREM ArraysKeepOneType == ApiSpec => []ArraysHaveOneType
<1> QED
  BY ApiInvariant, ApiHomogeneous, PTL

LEMMA ApiWraps == ApiInv => WrappersFollowSettings
<1> SUFFICES ASSUME ApiInv PROVE WrappersFollowSettings
  OBVIOUS
<1>1. Wrapping(config, alive)
  BY Zenon DEF ApiInv, Fine
<1> QED
  BY <1>1, KnowsType, Zenon DEF Wrapping, WrappersFollowSettings

(* The C++ classes leak no wrapper object and keep none that is gone: each *)
(* is the hook of one setting, knows its type, and is deleted with it, by  *)
(* whatever way the setting goes.                                          *)
THEOREM WrappersDieWithSettings == ApiSpec => []WrappersFollowSettings
<1> QED
  BY ApiInvariant, ApiWraps, PTL

-----------------------------------------------------------------------------
(* What is stored is read back.                                            *)

ReadsBack(type, old, x, convert, v) == ReadAs(type, GivenType(old, type), x, convert) = {v}

(* What StoredAs makes of a value a getter of the type makes the value of  *)
(* again, unless precision is lost.                                        *)
LEMMA ReadBack ==
  ASSUME NEW type \in Scalars, NEW old, NEW v \in Nat, NEW convert, ~Loses(type, old, v),
         type = "int" => v \in Ints, NEW x \in StoredAs(type, old, v, convert)
  PROVE  ReadsBack(type, old, x, convert, v)
<1>1. CASE old \in {"none", type}
  <2>1. GivenType(old, type) = type
    BY <1>1, Zenon DEF GivenType
  <2>2. x = v
    BY <1>1, Zenon DEF StoredAs
  <2>3. ReadAs(type, type, v, convert) = {v}
    BY DEF ReadAs, get_int, get_int64, get_float
  <2> QED
    BY <2>1, <2>2, <2>3, Zenon DEF ReadsBack
<1>2. CASE old \notin {"none", type}
  <2>1. GivenType(old, type) = old
    BY <1>2, Zenon DEF GivenType
  <2>2. CASE type = "int64" /\ old = "int"
    <3>1. x = v
      BY <1>2, <2>2, Zenon DEF StoredAs
    <3>2. ReadAs("int64", "int", v, convert) = {v}
      BY DEF ReadAs, get_int64
    <3> QED
      BY <2>1, <2>2, <3>1, <3>2, Zenon DEF ReadsBack
  <2>3. CASE ~(type = "int64" /\ old = "int") /\ convert /\ type \in {"int", "int64"} /\ old = "float"
    <3>1. x = 2 * Single(v)
      BY <1>2, <2>3, Zenon DEF StoredAs
    <3>2. Single(v) = v
      BY <2>3, ExactAssumption DEF Loses, Single
    <3>3. x \div 2 = v
      BY <3>1, <3>2
    <3>4. ReadAs(type, "float", x, convert) = {x \div 2}
      <4>1. /\ get_int("float", x, convert) = {AsInt(x)}
            /\ get_int64("float", x, convert) = {x \div 2}
        BY <2>3 DEF get_int, get_int64
      <4>2. type = "int" => AsInt(x) = x \div 2
        BY <3>3, Zenon DEF AsInt
      <4>3. type = "int" \/ type = "int64"
        BY <2>3
      <4>4. ReadAs("int", "float", x, convert) = get_int("float", x, convert)
            /\ ReadAs("int64", "float", x, convert) = get_int64("float", x, convert)
        BY DEF ReadAs
      <4> QED
        BY <4>1, <4>2, <4>3, <4>4, Zenon
    <3> QED
      BY <2>1, <2>3, <3>3, <3>4, Zenon DEF ReadsBack
  <2>4. CASE convert /\ type = "float" /\ old \in {"int", "int64"}
    <3>0. ~(type = "int64" /\ old = "int") /\ ~(convert /\ type \in {"int", "int64"} /\ old = "float")
      BY <2>4
    <3>1. x = v \div 2
      <4>1. CASE old = "int"
        <5>1. x = AsInt(v)
          BY <1>2, <2>4, <3>0, <4>1, Zenon DEF StoredAs
        <5>2. v \div 2 \in Ints
          BY <2>4, <4>1, Zenon DEF Loses
        <5> QED
          BY <5>1, <5>2, Zenon DEF AsInt
      <4>2. CASE old = "int64"
        <5>1. old # "int"
          BY <4>2
        <5> QED
          BY <1>2, <2>4, <3>0, <4>2, <5>1, Zenon DEF StoredAs
      <4> QED
        BY <2>4, <4>1, <4>2
    <3>2. 2 * x = v
      BY <2>4, <3>1 DEF Loses
    <3>3. get_float(old, x, convert) = {2 * x}
      BY <2>4 DEF get_float
    <3>4. ReadAs("float", old, x, convert) = get_float(old, x, convert)
      BY DEF ReadAs
    <3> QED
      BY <2>1, <2>4, <3>2, <3>3, <3>4, Zenon DEF ReadsBack
  <2>5. CASE /\ ~(type = "int64" /\ old = "int")
             /\ ~(convert /\ type \in {"int", "int64"} /\ old = "float")
             /\ ~(convert /\ type = "float" /\ old \in {"int", "int64"})
    <3>1. StoredAs(type, old, v, convert) = {}
      BY <1>2, <2>5, Zenon DEF StoredAs
    <3> QED
      BY <3>1, Zenon
  <2> QED
    BY <2>2, <2>3, <2>4, <2>5, Zenon
<1> QED
  BY <1>1, <1>2, Zenon

(* With automatic conversion two kinds of value are stored nowhere.        *)
LEMMA LostMeans ==
  ASSUME NEW type \in Scalars, NEW old, NEW v, NEW convert,
         old = type \/ (convert /\ {old, type} \subseteq {"int", "int64", "float"}),
         StoredAs(type, old, v, convert) = {}
  PROVE  convert /\ (\/ type = "int64" /\ old = "int" /\ v \notin Ints
                     \/ type = "int" /\ old = "int64")
<1>1. old \notin {"none", type}
  BY Zenon DEF StoredAs
<1>2. convert /\ old \in {"int", "int64", "float"} /\ type \in {"int", "int64", "float"}
  BY <1>1, Zenon
<1>3. ~(type = "int64" /\ old = "int") => ~(type \in {"int", "int64"} /\ old = "float")
  BY <1>1, <1>2, Zenon DEF StoredAs
<1>4. ~(type = "int64" /\ old = "int") /\ ~(type \in {"int", "int64"} /\ old = "float")
        => ~(type = "float" /\ old \in {"int", "int64"})
  BY <1>1, <1>2, Zenon DEF StoredAs
<1>5. type = "int64" /\ old = "int" => v \notin Ints
  BY <1>1, Zenon DEF StoredAs
<1>6. (type = "int64" /\ old = "int") \/ (type = "int" /\ old = "int64")
  <2>1. old \in {"int", "int64", "float"} /\ type \in {"int", "int64", "float"} /\ old # type
    BY <1>1, <1>2, Zenon
  <2>2. ~(type \in {"int", "int64"} /\ old = "float")
    BY <1>3
  <2> QED
    BY <1>4, <2>1, <2>2
<1> QED
  BY <1>2, <1>5, <1>6, Zenon

-----------------------------------------------------------------------------
(* It is found under the path and the name it was set at.                  *)

IsFound(t, p, type, v) ==
  /\ config_setting_lookup(t, <<>>, PathTo(p)) = {p}
  /\ t[Front(p)].type = "group" => config_setting_get_member(t, Front(p), t[p].name) = {p}
  /\ ReadAs(type, t[p].type, t[p].value, auto) = {v}

(* The tree with the value set has the setting where it was.               *)
LEMMA SetIsFound ==
  ASSUME ApiInv, NEW p \in DOMAIN config, p # <<>>, NEW type \in Scalars, NEW v \in Nat,
         type = "int" => v \in Ints,
         ~Loses(type, config[p].type, v), NEW t \in config_setting_set(config, p, type, v, auto)
  PROVE  IsFound(t, p, type, v)
<1>1. IsTree(config)
  BY Zenon DEF ApiInv, Fine
<1>2. Stores(config, p, type, v, auto)
  BY <1>1, SetIs, Zenon
<1> DEFINE old == config[p].type
           given == GivenType(old, type)
           hook == config[p].hook
<1>3. PICK x \in StoredAs(type, old, v, auto) : t = SetValue(config, p, type, x)
  BY <1>2, Zenon DEF Stores
<1> DEFINE s == ValueSet(config[p], type, x)
<1>4. ChangesTo(config, t, p, s) /\ BecomesIn(config[p], s, given, hook)
  BY <1>1, <1>3, SetIs, Zenon
<1>5. s.value = x
  <2>1. IsSetting(config[p])
    BY <1>1, Zenon DEF IsTree, Nested
  <2> QED
    BY <2>1, ValueSetIs, Zenon
<1>6. s.type = given
  BY <1>4, Zenon DEF BecomesIn
<1> HIDE DEF s
<1>7. DOMAIN t = DOMAIN config /\ Retyped(config, t) /\ IsTree(t) /\ t[p] = s
  BY <1>4, Zenon DEF ChangesTo
<1>8. ReadAs(type, given, x, auto) = {v}
  <2>1. /\ ~Loses(type, old, v) /\ x \in StoredAs(type, old, v, auto)
        /\ type = "int" => v \in Ints
    OBVIOUS
  <2> HIDE DEF old
  <2>2. ReadsBack(type, old, x, auto, v)
    BY <2>1, ReadBack, Zenon
  <2> QED
    BY <2>2, Zenon DEF ReadsBack
<1> HIDE DEF given, old
<1>9. ReadAs(type, t[p].type, t[p].value, auto) = {v}
  BY <1>5, <1>6, <1>7, <1>8, Zenon
<1>10. \A q \in DOMAIN config : q # <<>> => StepIn(t, q) = StepIn(config, q)
  <2>1. \A q \in DOMAIN config : t[q].name = config[q].name
    BY <1>7, Zenon DEF Retyped
  <2>2. \A q \in DOMAIN config : q # <<>> => t[Front(q)].type = config[Front(q)].type
    BY <1>1, <1>7, RetypedTree, Zenon
  <2> QED
    BY <2>1, <2>2, Zenon DEF StepIn
<1>11. \A k \in 1 .. Len(p) : PathTo(p)[k] = StepIn(t, SubSeq(p, 1, k))
  <2> TAKE k \in 1 .. Len(p)
  <2>1. p \in Paths
    BY <1>1, Zenon DEF IsTree, Shaped
  <2>2. SubSeq(p, 1, k) # <<>>
    BY <2>1, PrefixParts, Zenon
  <2>3. SubSeq(p, 1, k) \in DOMAIN config
    <3>1. k \in 0 .. Len(p)
      BY <2>1, PathType
    <3> QED
      BY <1>1, <3>1, Ancestors, Zenon
  <2>4. PathTo(p)[k] = StepIn(config, SubSeq(p, 1, k))
    BY <1>1, PathIs, Zenon
  <2> QED
    BY <1>10, <2>2, <2>3, <2>4, Zenon
<1>12. config_setting_lookup(t, <<>>, PathTo(p)) = {p}
  <2>1. DOMAIN PathTo(p) = 1 .. Len(p)
    BY <1>1, PathIs, Zenon
  <2>2. p \in DOMAIN t
    BY <1>7, Zenon
  <2> QED
    BY <1>7, <1>11, <2>1, <2>2, LookupLeadsTo, Zenon
<1>13. t[Front(p)].type = "group" => config_setting_get_member(t, Front(p), t[p].name) = {p}
  <2>1. p \in DOMAIN t /\ Front(p) \in DOMAIN t
    BY <1>7, Zenon DEF IsTree, Shaped
  <2> QED
    BY <1>7, <2>1, MemberFound, Zenon
<1> QED
  BY <1>9, <1>12, <1>13, Zenon DEF IsFound

(* The root is a group: it takes no value.                                 *)
LEMMA RootTakesNothing ==
  ASSUME ApiInv, NEW type \in Scalars, NEW v,
         NEW t \in config_setting_set(config, <<>>, type, v, auto)
  PROVE  FALSE
<1>1. IsTree(config) /\ <<>> \in DOMAIN config /\ config[<<>>].type = "group"
  BY Zenon DEF ApiInv, Fine, IsTree, Shaped
<1>2. "group" \notin {"none", type} /\ "group" # "int" /\ "group" # "float"
      /\ "group" \notin {"int", "int64"}
  BY DEF Scalars
<1>3. StoredAs(type, "group", v, auto) = {}
  BY <1>2, Zenon DEF StoredAs
<1>4. Stores(config, <<>>, type, v, auto)
  BY <1>1, SetIs, Zenon
<1>5. StoredAs(type, config[<<>>].type, v, auto) = {}
  BY <1>1, <1>3, Zenon
<1> QED
  BY <1>4, <1>5, Zenon DEF Stores

(* The lookup functions find what is at the place they look at.            *)
LEMMA FoundIs ==
  ASSUME NEW t, NEW p, NEW type, NEW v, IsFound(t, p, type, v)
  PROVE  /\ FoundAgain(t, p, type, v)
         /\ assertType(p, type) => FoundByWrapper(t, p, type, v)
<1> DEFINE path == config_setting_lookup(t, <<>>, PathTo(p))
           members == config_setting_get_member(t, Front(p), t[p].name)
<1>0. ReadAs(type, t[p].type, t[p].value, auto) = {v}
  BY Zenon DEF IsFound
<1>1. path = {p}
  BY Zenon DEF IsFound
<1>2. t[Front(p)].type = "group" => members = {p}
  BY Zenon DEF IsFound
<1>3. config_lookup_value(t, PathTo(p), type, auto) =
        UNION { ReadAs(type, t[q].type, t[q].value, auto) : q \in path }
  BY Zenon DEF config_lookup_value
<1>4. config_setting_lookup_value(t, Front(p), t[p].name, type, auto) =
        UNION { ReadAs(type, t[q].type, t[q].value, auto) : q \in members }
  BY Zenon DEF config_setting_lookup_value
<1>5. lookupValue(t, PathTo(p), type) = UNION { converted(t, q, type) : q \in path }
  BY Zenon DEF lookupValue
<1>6. memberValue(t, Front(p), t[p].name, type) = UNION { converted(t, q, type) : q \in members }
  BY Zenon DEF memberValue
<1>7. { ReadAs(type, t[q].type, t[q].value, auto) : q \in {p} } = {{v}}
  BY <1>0, Zenon
<1>8. ASSUME assertType(p, type)
      PROVE  { converted(t, q, type) : q \in {p} } = {{v}}
  <2>1. converted(t, p, type) = {v}
    <3> DEFINE found == ReadAs(type, t[p].type, t[p].value, auto)
    <3>1. found = {v} /\ found # {}
      BY <1>0, Zenon
    <3>2. converted(t, p, type) = IF ~assertType(p, type) THEN {} ELSE IF found = {} THEN {0} ELSE found
      BY Zenon DEF converted
    <3> HIDE DEF found
    <3> QED
      BY <1>8, <3>1, <3>2, Zenon
  <2> QED
    BY <2>1, Zenon
<1>u. UNION {{v}} = {v}
  BY Zenon
<1> HIDE DEF path, members
<1>9. FoundAgain(t, p, type, v)
  <2>1. config_lookup_value(t, PathTo(p), type, auto) = {v}
    BY <1>1, <1>3, <1>7, <1>u, Zenon
  <2>2. t[Front(p)].type = "group" =>
          config_setting_lookup_value(t, Front(p), t[p].name, type, auto) = {v}
    BY <1>2, <1>4, <1>7, <1>u, Zenon
  <2> QED
    BY <2>1, <2>2, Zenon DEF FoundAgain
<1>10. ASSUME assertType(p, type) PROVE FoundByWrapper(t, p, type, v)
  <2>1. lookupValue(t, PathTo(p), type) = {v}
    BY <1>1, <1>5, <1>8, <1>10, <1>u, Zenon
  <2>2. t[Front(p)].type = "group" => memberValue(t, Front(p), t[p].name, type) = {v}
    BY <1>2, <1>6, <1>8, <1>10, <1>u, Zenon
  <2> QED
    BY <2>1, <2>2, Zenon DEF FoundByWrapper
<1> QED
  BY <1>9, <1>10, Zenon

LEMMA ApiReadsBack == ApiInv => SettersReadBack
<1> SUFFICES ASSUME ApiInv, NEW type \in Scalars, NEW v \in Values[type],
                    NEW p \in DOMAIN config, ~Loses(type, config[p].type, v)
             PROVE  LET set == config_setting_set(config, p, type, v, auto) IN
                    /\ \A t \in set : FoundAgain(t, p, type, v)
                    /\ config[p].hook # NULL /\ assertType(p, type) =>
                         IF set = {} THEN LostInSilence(type, config[p].type, v)
                                     ELSE FoundByWrapper(The(set), p, type, v)
  BY Zenon DEF SettersReadBack
<1> DEFINE set == config_setting_set(config, p, type, v, auto)
<1>1. v \in Nat /\ (type = "int" => v \in Ints)
  BY ValuesAssumption, IntsAssumption, Zenon
<1>2. IsTree(config)
  BY Zenon DEF ApiInv, Fine
<1>3. ASSUME NEW t \in set
      PROVE  /\ FoundAgain(t, p, type, v)
             /\ assertType(p, type) => FoundByWrapper(t, p, type, v)
  <2>1. p # <<>>
    BY RootTakesNothing, Zenon
  <2>2. IsFound(t, p, type, v)
    BY <1>1, <2>1, SetIsFound, Zenon
  <2> HIDE DEF set
  <2> QED
    BY <2>2, FoundIs, Zenon
<1>4. ASSUME config[p].hook # NULL, assertType(p, type), set = {}
      PROVE  LostInSilence(type, config[p].type, v)
  <2> DEFINE old == config[p].type
  <2>1. Stores(config, p, type, v, auto)
    BY <1>2, SetIs, Zenon
  <2>2. StoredAs(type, old, v, auto) = {}
    BY <1>4, <2>1, Zenon DEF Stores
  <2>3. old = type \/ (auto /\ {old, type} \subseteq {"int", "int64", "float"})
    BY <1>4, KnowsType, Zenon DEF assertType
  <2> HIDE DEF old
  <2>4. auto /\ (\/ type = "int64" /\ old = "int" /\ v \notin Ints
                 \/ type = "int" /\ old = "int64")
    BY <2>2, <2>3, LostMeans, Zenon
  <2> QED
    BY <2>4, Zenon DEF LostInSilence, old
<1>5. set # {} => The(set) \in set
  <2> HIDE DEF set
  <2> QED
    BY Zenon DEF The
<1> HIDE DEF set
<1>6. /\ \A t \in set : FoundAgain(t, p, type, v)
      /\ config[p].hook # NULL /\ assertType(p, type) =>
           IF set = {} THEN LostInSilence(type, config[p].type, v)
                       ELSE FoundByWrapper(The(set), p, type, v)
  BY <1>3, <1>4, <1>5, Zenon
<1> QED
  BY <1>6, Zenon DEF set

(* A value that a setter or operator= stores is what the getters, the lookup *)
(* functions and lookupValue find, at the setting's path and under its name; *)
(* an assignment that stores nothing and throws nothing is one of the two  *)
(* of LostInSilence.                                                       *)
THEOREM WhatIsSetIsFound == ApiSpec => []SettersReadBack
<1> QED
  BY ApiInvariant, ApiReadsBack, PTL
===============================================================================
