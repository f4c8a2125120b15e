----------------------------- MODULE Sums_proofs -----------------------------
(***************************************************************************)
(* Lemmas about sums over finite sets.  The models add up requirements,    *)
(* points and visits with MapThenSumSet, which is a recursive function on  *)
(* the subsets of the set.  That it is defined, and what it does with one  *)
(* element more or less, is shown here without induction: the smallest set *)
(* for which a claim fails has an element, and without it the claim holds. *)
(***************************************************************************)
EXTENDS Integers, FiniteSets, FiniteSetsExt, FiniteSetTheorems, TLAPS

(* A nonempty set of naturals has a least element, and Min chooses it.     *)
LEMMA MinIsLeast ==
  ASSUME NEW S \in SUBSET Nat, S # {}
  PROVE  Min(S) \in S /\ \A y \in S : Min(S) <= y
<1>1. PICK x \in S : \A y \in S : <<y, x>> \notin OpToRel(<, Nat)
  BY NatLessThanWellFounded, WFMin, Zenon
<1>2. ASSUME NEW y \in S PROVE x <= y
  <2>1. x \in Nat /\ y \in Nat
    OBVIOUS
  <2>2. <<y, x>> \notin { ss \in Nat \X Nat : ss[1] < ss[2] }
    BY <1>1, Zenon DEF OpToRel
  <2> QED
    BY <2>1, <2>2
<1> QED
  BY <1>2, Zenon DEF Min

(* Among finite sets one is smallest: no proper subset of it is among them. *)
LEMMA SmallestSet ==
  ASSUME NEW S, IsFiniteSet(S), NEW Bad \in SUBSET (SUBSET S), Bad # {}
  PROVE  \E T \in Bad : \A U \in SUBSET T : U # T => U \notin Bad
<1> DEFINE N == { Cardinality(T) : T \in Bad }
<1>1. ASSUME NEW T \in SUBSET S
      PROVE  IsFiniteSet(T) /\ Cardinality(T) \in Nat
  BY FS_Subset, FS_CardinalityType, Zenon
<1>2. N \in SUBSET Nat /\ N # {}
  BY <1>1, Zenon
<1>3. Min(N) \in N /\ \A y \in N : Min(N) <= y
  <2> HIDE DEF N
  <2> QED
    BY <1>2, MinIsLeast, Zenon
<1>4. PICK T \in Bad : \A U \in Bad : Cardinality(T) <= Cardinality(U)
  BY <1>3, Zenon
<1>5. ASSUME NEW U \in SUBSET T, U # T, U \in Bad PROVE FALSE
  <2>1. IsFiniteSet(T) /\ T \in SUBSET S /\ U \in SUBSET S
    BY <1>1, Zenon
  <2>2. Cardinality(U) <= Cardinality(T) /\ (Cardinality(T) = Cardinality(U) => T = U)
    BY <2>1, FS_Subset, Zenon
  <2>3. Cardinality(T) <= Cardinality(U)
    BY <1>4, <1>5, Zenon
  <2>4. Cardinality(T) \in Nat /\ Cardinality(U) \in Nat
    BY <1>1, <2>1, Zenon
  <2> QED
    BY <1>5, <2>2, <2>3, <2>4
<1> QED
  BY <1>5, Zenon

-----------------------------------------------------------------------------
(* The sum of f over S, and the recursive function that computes it.       *)

SumOver(S, f) == MapThenSumSet(LAMBDA x : f[x], S)

AnyOf(s) == CHOOSE x \in s : TRUE

SumsUp(S, f, g) ==
  g = [s \in SUBSET S |-> IF s = {} THEN 0 ELSE f[AnyOf(s)] + g[s \ {AnyOf(s)}]]

SumValue(S, f) == (CHOOSE g : SumsUp(S, f, g))[S]

LEMMA SumIsChosen ==
  ASSUME NEW S, NEW f
  PROVE SumOver(S, f) = SumValue(S, f)
BY Zenon DEF SumOver, MapThenSumSet, MapThenFoldSet, SumsUp, SumValue, AnyOf

LEMMA AnyOfIsMember ==
  ASSUME NEW S, S # {}
  PROVE  AnyOf(S) \in S
BY Zenon DEF AnyOf

LEMMA SumAtEmpty ==
  ASSUME NEW S, NEW f, NEW g, SumsUp(S, f, g)
  PROVE  g[{}] = 0
<1>1. {} \in SUBSET S
  BY Zenon
<1>2. g[{}] = IF {} = {} THEN 0 ELSE f[AnyOf({})] + g[{} \ {AnyOf({})}]
  BY <1>1, Zenon DEF SumsUp
<1> QED
  BY <1>2, Zenon

Recurs(f, g, s) == g[s] = f[AnyOf(s)] + g[s \ {AnyOf(s)}]

LEMMA SumAtSet ==
  ASSUME NEW S, NEW f, NEW g, SumsUp(S, f, g), NEW s \in SUBSET S, s # {}
  PROVE  Recurs(f, g, s)
<1>1. g[s] = IF s = {} THEN 0 ELSE f[AnyOf(s)] + g[s \ {AnyOf(s)}]
  BY Zenon DEF SumsUp
<1> QED
  BY <1>1, Zenon DEF Recurs

(* Two such functions have the same value where both are defined.          *)
LEMMA SumFunctionsAgree ==
  ASSUME NEW U, NEW V, NEW f, NEW g, NEW h,
         SumsUp(U, f, g), SumsUp(V, f, h),
         NEW w, w \in SUBSET U, w \in SUBSET V, IsFiniteSet(w)
  PROVE  g[w] = h[w]
<1> DEFINE Bad == { t \in SUBSET w : g[t] # h[t] }
<1>1. ASSUME Bad # {} PROVE FALSE
  <2>1. Bad \in SUBSET (SUBSET w)
    BY Zenon
  <2>2. PICK T \in Bad : \A t \in SUBSET T : t # T => t \notin Bad
    <3> HIDE DEF Bad
    <3> QED
      BY <1>1, <2>1, SmallestSet, Zenon
  <2>3. T \in SUBSET w /\ T \in SUBSET U /\ T \in SUBSET V
    BY <2>1, Zenon
  <2>4. T # {}
    BY <2>3, SumAtEmpty, Zenon
  <2> DEFINE rest == T \ {AnyOf(T)}
  <2>5. rest \in SUBSET T /\ rest # T
    BY <2>4, AnyOfIsMember, Zenon
  <2>6. g[rest] = h[rest]
    BY <2>2, <2>3, <2>5, Zenon
  <2>7. g[T] = f[AnyOf(T)] + g[rest]
    <3>1. Recurs(f, g, T)
      BY <2>3, <2>4, SumAtSet, Zenon
    <3> QED
      BY <3>1, Zenon DEF Recurs
  <2>8. h[T] = f[AnyOf(T)] + h[rest]
    <3>1. Recurs(f, h, T)
      BY <2>3, <2>4, SumAtSet, Zenon
    <3> QED
      BY <3>1, Zenon DEF Recurs
  <2> QED
    BY <2>6, <2>7, <2>8, Zenon
<1> QED
  BY <1>1, Zenon

LEMMA SumValueIsValue ==
  ASSUME NEW S, NEW f, NEW g, IsFiniteSet(S), SumsUp(S, f, g)
  PROVE  SumValue(S, f) = g[S]
<1> DEFINE h == CHOOSE k : SumsUp(S, f, k)
<1>1. SumsUp(S, f, h)
  BY Zenon
<1>2. h[S] = g[S]
  <2>1. S \in SUBSET S
    BY Zenon
  <2> HIDE DEF h
  <2> QED
    BY <1>1, <2>1, SumFunctionsAgree
<1> QED
  BY <1>2, Zenon DEF SumValue

LEMMA SumFunctionRestricts ==
  ASSUME NEW S, NEW f, NEW g, SumsUp(S, f, g), NEW T \in SUBSET S
  PROVE  SumsUp(T, f, [s \in SUBSET T |-> g[s]])
<1> DEFINE h == [s \in SUBSET T |-> g[s]]
<1>1. ASSUME NEW s \in SUBSET T
      PROVE  h[s] = IF s = {} THEN 0 ELSE f[AnyOf(s)] + h[s \ {AnyOf(s)}]
  <2>1. s \in SUBSET S /\ h[s] = g[s]
    BY Zenon
  <2>2. (s \ {AnyOf(s)}) \in SUBSET T
    BY Zenon
  <2>3. h[s \ {AnyOf(s)}] = g[s \ {AnyOf(s)}]
    BY <2>2, Zenon
  <2>4. CASE s = {}
    BY <2>1, <2>4, SumAtEmpty, Zenon
  <2>5. CASE s # {}
    <3>1. Recurs(f, g, s)
      BY <2>1, <2>5, SumAtSet, Zenon
    <3> HIDE DEF h
    <3> QED
      BY <2>1, <2>3, <2>5, <3>1, Zenon DEF Recurs
  <2> QED
    BY <2>4, <2>5, Zenon
<1>2. h = [s \in SUBSET T |-> h[s]]
  BY Zenon
<1> HIDE DEF h
<1>3. h = [s \in SUBSET T |-> IF s = {} THEN 0 ELSE f[AnyOf(s)] + h[s \ {AnyOf(s)}]]
  BY <1>1, <1>2, Zenon
<1>4. SumsUp(T, f, h)
  BY <1>3, Zenon DEF SumsUp
<1> QED
  BY <1>4, Zenon DEF h

(* The recursion defines a function on the subsets of every finite set.    *)
LEMMA SumFunctionExists ==
  ASSUME NEW S, IsFiniteSet(S), NEW f
  PROVE  \E g : SumsUp(S, f, g)
<1> DEFINE Bad == { T \in SUBSET S : ~ \E g : SumsUp(T, f, g) }
<1>1. ASSUME Bad # {} PROVE FALSE
  <2>1. PICK T \in Bad : \A U \in SUBSET T : U # T => U \notin Bad
    <3>1. Bad \in SUBSET (SUBSET S)
      BY Zenon
    <3> HIDE DEF Bad
    <3> QED
      BY <1>1, <3>1, SmallestSet, Zenon
  <2>2. T \in SUBSET S /\ ~ \E g : SumsUp(T, f, g)
    BY Zenon
  <2>3. ASSUME NEW U \in SUBSET T, U # T
        PROVE  IsFiniteSet(U) /\ \E g : SumsUp(U, f, g)
    <3>1. U \in SUBSET S
      BY <2>2, Zenon
    <3> QED
      BY <2>1, <2>3, <3>1, FS_Subset, Zenon
  <2> DEFINE rest(s) == s \ {AnyOf(s)}
             g == [s \in SUBSET T |->
                    IF s = {} THEN 0 ELSE f[AnyOf(s)] + SumValue(rest(s), f)]
  <2>4. ASSUME NEW s \in SUBSET T, s # {}
        PROVE  g[rest(s)] = SumValue(rest(s), f)
    <3> DEFINE u == rest(s)
    <3>1. u \in SUBSET T /\ u # T
      BY <2>4, AnyOfIsMember, Zenon
    <3>2. PICK G : SumsUp(u, f, G)
      BY <2>3, <3>1, Zenon
    <3>3. SumValue(u, f) = G[u]
      BY <2>3, <3>1, <3>2, SumValueIsValue, Zenon
    <3>4. CASE u = {}
      <4>1. G[u] = 0
        <5> HIDE DEF u
        <5> QED
          BY <3>2, <3>4, SumAtEmpty, Zenon
      <4>2. g[u] = 0
        <5> HIDE DEF u
        <5> QED
          BY <3>1, <3>4, Zenon
      <4> QED
        BY <3>3, <4>1, <4>2, Zenon
    <3>5. CASE u # {}
      <4>1. G[u] = f[AnyOf(u)] + G[rest(u)]
        <5>1. u \in SUBSET u
          BY Zenon
        <5> HIDE DEF u
        <5>2. Recurs(f, G, u)
          BY <3>2, <3>5, <5>1, SumAtSet, Zenon
        <5> QED
          BY <5>2, Zenon DEF Recurs
      <4>2. rest(u) \in SUBSET u /\ rest(u) \in SUBSET T /\ rest(u) # T
        BY <3>1, <3>5, AnyOfIsMember, Zenon
      <4>3. PICK H : SumsUp(rest(u), f, H)
        BY <2>3, <4>2, Zenon
      <4>4. SumValue(rest(u), f) = H[rest(u)]
        BY <2>3, <4>2, <4>3, SumValueIsValue, Zenon
      <4>5. H[rest(u)] = G[rest(u)]
        <5>1. IsFiniteSet(rest(u)) /\ rest(u) \in SUBSET rest(u)
          BY <2>3, <4>2, Zenon
        <5> DEFINE v == rest(u)
        <5>2. v \in SUBSET u /\ v \in SUBSET v /\ IsFiniteSet(v) /\ SumsUp(v, f, H)
          BY <4>2, <4>3, <5>1, Zenon
        <5> HIDE DEF u, v
        <5>3. H[v] = G[v]
          BY <3>2, <5>2, SumFunctionsAgree
        <5> QED
          BY <5>3, Zenon DEF v
      <4>6. g[u] = f[AnyOf(u)] + SumValue(rest(u), f)
        <5> HIDE DEF u, rest
        <5> QED
          BY <3>1, <3>5, Zenon
      <4> QED
        BY <3>3, <4>1, <4>4, <4>5, <4>6, Zenon
    <3> QED
      BY <3>4, <3>5, Zenon
  <2>5. SumsUp(T, f, g)
    <3>1. \A s \in SUBSET T :
            g[s] = IF s = {} THEN 0 ELSE f[AnyOf(s)] + g[s \ {AnyOf(s)}]
      BY <2>4, Zenon
    <3>2. g = [s \in SUBSET T |-> g[s]]
      BY Zenon
    <3> HIDE DEF g
    <3>3. g = [s \in SUBSET T |-> IF s = {} THEN 0 ELSE f[AnyOf(s)] + g[s \ {AnyOf(s)}]]
      BY <3>1, <3>2, Zenon
    <3> QED
      BY <3>3, Zenon DEF SumsUp
  <2> QED
    BY <2>2, <2>5, Zenon
<1> QED
  BY <1>1, FS_Subset, Zenon

-----------------------------------------------------------------------------
(* What a sum is.                                                          *)

LEMMA SumOfNothing ==
  ASSUME NEW f
  PROVE  SumOver({}, f) = 0
<1>1. IsFiniteSet({})
  BY FS_EmptySet, Zenon
<1>2. PICK g : SumsUp({}, f, g)
  BY <1>1, SumFunctionExists, Zenon
<1>3. SumValue({}, f) = g[{}]
  BY <1>1, <1>2, SumValueIsValue, Zenon
<1> QED
  BY <1>2, <1>3, SumAtEmpty, SumIsChosen, Zenon

LEMMA SumOfOneMore ==
  ASSUME NEW S, IsFiniteSet(S), S # {}, NEW f
  PROVE  SumOver(S, f) = f[AnyOf(S)] + SumOver(S \ {AnyOf(S)}, f)
<1> DEFINE T == S \ {AnyOf(S)}
<1>1. PICK g : SumsUp(S, f, g)
  BY SumFunctionExists, Zenon
<1>2. T \in SUBSET S /\ S \in SUBSET S /\ T \in SUBSET T
  BY Zenon
<1>3. IsFiniteSet(T)
  BY <1>2, FS_Subset, Zenon
<1>4. PICK h : SumsUp(T, f, h)
  BY <1>3, SumFunctionExists, Zenon
<1>5. SumOver(S, f) = g[S]
  BY <1>1, SumValueIsValue, SumIsChosen, Zenon
<1>6. SumOver(T, f) = h[T]
  <2> HIDE DEF T
  <2> QED
    BY <1>3, <1>4, SumValueIsValue, SumIsChosen, Zenon
<1>7. h[T] = g[T]
  <2> HIDE DEF T
  <2> QED
    BY <1>1, <1>2, <1>3, <1>4, SumFunctionsAgree
<1>8. g[S] = f[AnyOf(S)] + g[T]
  <2>1. Recurs(f, g, S)
    BY <1>1, <1>2, SumAtSet, Zenon
  <2> QED
    BY <2>1, Zenon DEF Recurs
<1> QED
  BY <1>5, <1>6, <1>7, <1>8, Zenon

(* A sum of naturals is a natural.                                         *)
LEMMA SumType ==
  ASSUME NEW S, IsFiniteSet(S), NEW f, \A x \in S : f[x] \in Nat
  PROVE  SumOver(S, f) \in Nat
<1> DEFINE Bad == { T \in SUBSET S : SumOver(T, f) \notin Nat }
<1>1. ASSUME Bad # {} PROVE FALSE
  <2>1. PICK T \in Bad : \A U \in SUBSET T : U # T => U \notin Bad
    <3>1. Bad \in SUBSET (SUBSET S)
      BY Zenon
    <3> HIDE DEF Bad
    <3> QED
      BY <1>1, <3>1, SmallestSet, Zenon
  <2> DEFINE a == AnyOf(T)
             rest == T \ {a}
  <2>2. T \in SUBSET S /\ SumOver(T, f) \notin Nat
    BY Zenon
  <2>3. T # {}
    BY <2>2, SumOfNothing
  <2>4. a \in T
    BY <2>3, AnyOfIsMember, Zenon
  <2>5. SumOver(rest, f) \in Nat
    <3>1. rest \in SUBSET T /\ rest # T /\ rest \in SUBSET S
      BY <2>2, <2>4, Zenon
    <3> QED
      BY <2>1, <3>1, Zenon
  <2>6. SumOver(T, f) = f[a] + SumOver(rest, f)
    BY <2>2, <2>3, FS_Subset, SumOfOneMore, Zenon
  <2>7. f[a] \in Nat
    BY <2>2, <2>4, Zenon
  <2> HIDE DEF a, rest
  <2> QED
    BY <2>2, <2>5, <2>6, <2>7
<1>2. S \in SUBSET S
  BY Zenon
<1> QED
  BY <1>1, <1>2, Zenon

(* Any element may be taken out first.                                     *)
LEMMA SumWithout ==
  ASSUME NEW S, IsFiniteSet(S), NEW f, \A x \in S : f[x] \in Nat, NEW e \in S
  PROVE  SumOver(S, f) = f[e] + SumOver(S \ {e}, f)
<1> DEFINE Bad == { T \in SUBSET S :
                      \E x \in T : SumOver(T, f) # f[x] + SumOver(T \ {x}, f) }
<1>1. ASSUME Bad # {} PROVE FALSE
  <2>1. PICK T \in Bad : \A U \in SUBSET T : U # T => U \notin Bad
    <3>1. Bad \in SUBSET (SUBSET S)
      BY Zenon
    <3> HIDE DEF Bad
    <3> QED
      BY <1>1, <3>1, SmallestSet, Zenon
  <2>2. T \in SUBSET S /\ T # {}
    BY Zenon
  <2>3. PICK x \in T : SumOver(T, f) # f[x] + SumOver(T \ {x}, f)
    BY Zenon
  <2> DEFINE a == AnyOf(T)
             Both == (T \ {a}) \ {x}
  <2>4. a \in T
    BY <2>2, AnyOfIsMember, Zenon
  <2>5. SumOver(T, f) = f[a] + SumOver(T \ {a}, f)
    BY <2>2, FS_Subset, SumOfOneMore, Zenon
  <2>6. a # x
    BY <2>3, <2>5, Zenon
  <2>7. SumOver(T \ {a}, f) = f[x] + SumOver(Both, f)
    <3>1. (T \ {a}) \in SUBSET T /\ (T \ {a}) # T /\ (T \ {a}) \in SUBSET S /\ x \in T \ {a}
      BY <2>2, <2>4, <2>6, Zenon
    <3>2. T \ {a} \notin Bad
      BY <2>1, <3>1, Zenon
    <3> HIDE DEF a
    <3> QED
      BY <3>1, <3>2, Zenon
  <2>8. SumOver(T \ {x}, f) = f[a] + SumOver(Both, f)
    <3>1. (T \ {x}) \in SUBSET T /\ (T \ {x}) # T /\ (T \ {x}) \in SUBSET S /\ a \in T \ {x}
      BY <2>2, <2>4, <2>6, Zenon
    <3>2. T \ {x} \notin Bad
      BY <2>1, <3>1, Zenon
    <3>3. (T \ {x}) \ {a} = Both
      BY Zenon
    <3>4. SumOver(T \ {x}, f) = f[a] + SumOver((T \ {x}) \ {a}, f)
      <4> HIDE DEF a
      <4> QED
        BY <3>1, <3>2, Zenon
    <3> QED
      BY <3>3, <3>4, Zenon
  <2>9. f[a] \in Nat /\ f[x] \in Nat
    BY <2>2, <2>4, Zenon
  <2>10. SumOver(Both, f) \in Nat
    <3>1. Both \in SUBSET S
      BY <2>2, Zenon
    <3> QED
      BY <3>1, FS_Subset, SumType, Zenon
  <2> HIDE DEF a, Both
  <2> QED
    BY <2>3, <2>5, <2>7, <2>8, <2>9, <2>10
<1>2. S \in SUBSET S
  BY Zenon
<1> QED
  BY <1>1, <1>2, Zenon

LEMMA SumWith ==
  ASSUME NEW S, IsFiniteSet(S), NEW e, e \notin S,
         NEW f, \A x \in S \cup {e} : f[x] \in Nat
  PROVE  SumOver(S \cup {e}, f) = f[e] + SumOver(S, f)
<1>1. IsFiniteSet(S \cup {e})
  BY FS_AddElement, Zenon
<1>2. (S \cup {e}) \ {e} = S /\ e \in S \cup {e}
  BY Zenon
<1>3. SumOver(S \cup {e}, f) = f[e] + SumOver((S \cup {e}) \ {e}, f)
  BY <1>1, <1>2, SumWithout, Zenon
<1> QED
  BY <1>2, <1>3, Zenon

(* The sums of two functions that agree on the set.                        *)
LEMMA SumSame ==
  ASSUME NEW S, IsFiniteSet(S), NEW f, NEW g, \A x \in S : f[x] = g[x]
  PROVE  SumOver(S, f) = SumOver(S, g)
<1> DEFINE Bad == { T \in SUBSET S : SumOver(T, f) # SumOver(T, g) }
<1>1. ASSUME Bad # {} PROVE FALSE
  <2>1. PICK T \in Bad : \A U \in SUBSET T : U # T => U \notin Bad
    <3>1. Bad \in SUBSET (SUBSET S)
      BY Zenon
    <3> HIDE DEF Bad
    <3> QED
      BY <1>1, <3>1, SmallestSet, Zenon
  <2> DEFINE a == AnyOf(T)
             rest == T \ {a}
  <2>2. T \in SUBSET S /\ SumOver(T, f) # SumOver(T, g) /\ IsFiniteSet(T)
    BY FS_Subset, Zenon
  <2>3. T # {}
    BY <2>2, SumOfNothing, Zenon
  <2>4. a \in T
    BY <2>3, AnyOfIsMember, Zenon
  <2>5. SumOver(rest, f) = SumOver(rest, g)
    <3>1. rest \in SUBSET T /\ rest # T /\ rest \in SUBSET S
      BY <2>2, <2>4, Zenon
    <3> QED
      BY <2>1, <3>1, Zenon
  <2>6. SumOver(T, f) = f[a] + SumOver(rest, f)
    BY <2>2, <2>3, SumOfOneMore, Zenon
  <2>7. SumOver(T, g) = g[a] + SumOver(rest, g)
    BY <2>2, <2>3, SumOfOneMore, Zenon
  <2>8. f[a] = g[a]
    BY <2>2, <2>4, Zenon
  <2> QED
    BY <2>2, <2>5, <2>6, <2>7, <2>8, Zenon
<1>2. S \in SUBSET S
  BY Zenon
<1> QED
  BY <1>1, <1>2, Zenon

LEMMA SumOfZeros ==
  ASSUME NEW S, IsFiniteSet(S), NEW f, \A x \in S : f[x] = 0
  PROVE  SumOver(S, f) = 0
<1> DEFINE g == [s \in SUBSET S |-> 0]
<1>1. ASSUME NEW s \in SUBSET S
      PROVE  g[s] = IF s = {} THEN 0 ELSE f[AnyOf(s)] + g[s \ {AnyOf(s)}]
  <2>1. s # {} => f[AnyOf(s)] = 0
    BY AnyOfIsMember, Zenon
  <2>2. (s \ {AnyOf(s)}) \in SUBSET S
    BY Zenon
  <2>3. g[s] = 0 /\ g[s \ {AnyOf(s)}] = 0
    BY <2>2, Zenon
  <2>4. 0 + 0 = 0
    OBVIOUS
  <2> HIDE DEF g
  <2> QED
    BY <2>1, <2>3, <2>4, Zenon
<1>2. g = [s \in SUBSET S |-> g[s]]
  BY Zenon
<1>3. g[S] = 0
  BY Zenon
<1> HIDE DEF g
<1>4. g = [s \in SUBSET S |-> IF s = {} THEN 0 ELSE f[AnyOf(s)] + g[s \ {AnyOf(s)}]]
  BY <1>1, <1>2, Zenon
<1>5. SumsUp(S, f, g)
  BY <1>4, Zenon DEF SumsUp
<1> QED
  BY <1>3, <1>5, SumValueIsValue, SumIsChosen, Zenon

(* No element has more than the sum.                                       *)
LEMMA SumBounds ==
  ASSUME NEW S, IsFiniteSet(S), NEW f, \A x \in S : f[x] \in Nat, NEW e \in S
  PROVE  f[e] <= SumOver(S, f)
<1>1. SumOver(S, f) = f[e] + SumOver(S \ {e}, f)
  BY SumWithout, Zenon
<1>2. IsFiniteSet(S \ {e}) /\ \A x \in S \ {e} : f[x] \in Nat
  BY FS_RemoveElement, Zenon
<1>3. SumOver(S \ {e}, f) \in Nat
  BY <1>2, SumType, Zenon
<1>4. f[e] \in Nat
  BY Zenon
<1> QED
  BY <1>1, <1>3, <1>4

(* One element grows by one.                                               *)
LEMMA SumGrows ==
  ASSUME NEW S, IsFiniteSet(S), NEW f, NEW g, \A x \in S : f[x] \in Nat,
         NEW e \in S, g[e] = f[e] + 1, \A x \in S \ {e} : g[x] = f[x]
  PROVE  SumOver(S, g) = SumOver(S, f) + 1
<1>1. IsFiniteSet(S \ {e}) /\ \A x \in S \ {e} : f[x] \in Nat
  BY FS_RemoveElement, Zenon
<1>2. f[e] \in Nat /\ g[e] \in Nat
  <2>1. f[e] \in Nat
    BY Zenon
  <2> QED
    BY <2>1
<1>3. \A x \in S : g[x] \in Nat
  BY <1>1, <1>2, Zenon
<1>4. SumOver(S \ {e}, g) = SumOver(S \ {e}, f)
  BY <1>1, SumSame, Zenon
<1>5. SumOver(S, f) = f[e] + SumOver(S \ {e}, f)
  BY SumWithout, Zenon
<1>6. SumOver(S, g) = g[e] + SumOver(S \ {e}, g)
  BY <1>3, SumWithout, ZenonT(60)
<1>7. SumOver(S \ {e}, f) \in Nat
  BY <1>1, SumType, Zenon
<1> QED
  BY <1>2, <1>4, <1>5, <1>6, <1>7

(* A sum counts each element once, whatever it is called.                  *)
SameSum(S, b, f, g) == SumOver({ b[x] : x \in S }, g) = SumOver(S, f)

LEMMA SumRenamed ==
  ASSUME NEW S, IsFiniteSet(S), NEW f, NEW g, NEW b,
         \A x, y \in S : b[x] = b[y] => x = y,
         \A x \in S : f[x] \in Nat /\ f[x] = g[b[x]]
  PROVE  SameSum(S, b, f, g)
<1> DEFINE image(T) == { b[x] : x \in T }
           Bad == { T \in SUBSET S : SumOver(image(T), g) # SumOver(T, f) }
<1>1. ASSUME NEW T \in SUBSET S
      PROVE  IsFiniteSet(T) /\ IsFiniteSet(image(T)) /\ \A y \in image(T) : g[y] \in Nat
  <2>1. IsFiniteSet(T)
    BY FS_Subset, Zenon
  <2>2. [x \in T |-> b[x]] \in Surjection(T, image(T))
    BY DEF Surjection
  <2>3. IsFiniteSet(image(T))
    BY <2>1, <2>2, FS_Surjection, Zenon
  <2>4. ASSUME NEW y \in image(T) PROVE g[y] \in Nat
    <3>1. PICK x \in T : y = b[x]
      BY Zenon
    <3>2. f[x] \in Nat /\ f[x] = g[b[x]]
      BY Zenon
    <3> QED
      BY <3>1, <3>2, Zenon
  <2> HIDE DEF image
  <2> QED
    BY <2>1, <2>3, <2>4, Zenon
<1>2. ASSUME Bad # {} PROVE FALSE
  <2>1. PICK T \in Bad : \A U \in SUBSET T : U # T => U \notin Bad
    <3>1. Bad \in SUBSET (SUBSET S)
      BY Zenon
    <3> HIDE DEF Bad
    <3> QED
      BY <1>2, <3>1, SmallestSet, Zenon
  <2> DEFINE a == AnyOf(T)
             rest == T \ {a}
  <2>2. T \in SUBSET S /\ SumOver(image(T), g) # SumOver(T, f)
    BY Zenon
  <2>3. T # {}
    <3>1. image({}) = {}
      BY Zenon
    <3> QED
      BY <2>2, <3>1, SumOfNothing, Zenon
  <2>4. a \in T
    BY <2>3, AnyOfIsMember, Zenon
  <2>5. SumOver(image(rest), g) = SumOver(rest, f)
    <3>1. rest \in SUBSET T /\ rest # T /\ rest \in SUBSET S
      BY <2>2, <2>4, Zenon
    <3> HIDE DEF image, rest
    <3> QED
      BY <2>1, <3>1, Zenon
  <2>6. SumOver(T, f) = f[a] + SumOver(rest, f)
    BY <1>1, <2>2, <2>3, SumOfOneMore, Zenon
  <2>7. SumOver(image(T), g) = g[b[a]] + SumOver(image(T) \ {b[a]}, g)
    <3>1. b[a] \in image(T)
      BY <2>4, Zenon
    <3> HIDE DEF image, a
    <3> QED
      BY <1>1, <2>2, <3>1, SumWithout, Zenon
  <2>8. image(T) \ {b[a]} = image(rest)
    <3>1. ASSUME NEW y \in image(T), y # b[a] PROVE y \in image(rest)
      BY <3>1, Zenon
    <3>2. ASSUME NEW y \in image(rest) PROVE y \in image(T) /\ y # b[a]
      <4>1. PICK x \in T : x # a /\ y = b[x]
        BY Zenon
      <4>2. x \in S /\ a \in S
        BY <2>2, <2>4, Zenon
      <4>3. b[x] # b[a]
        BY <4>1, <4>2, Zenon
      <4> QED
        BY <4>1, <4>3, Zenon
    <3> HIDE DEF image, a, rest
    <3> QED
      BY <3>1, <3>2, Zenon
  <2>9. f[a] = g[b[a]]
    BY <2>2, <2>4, Zenon
  <2> HIDE DEF image, a, rest
  <2> QED
    BY <2>2, <2>5, <2>6, <2>7, <2>8, <2>9, Zenon
<1>3. S \in SUBSET S
  BY Zenon
<1> QED
  BY <1>2, <1>3, Zenon DEF SameSum

===============================================================================
