----------------------------- MODULE Sums_proofs -----------------------------
(***************************************************************************)
(* Facts about Sum for every finite set.  Each is shown by looking at a    *)
(* smallest part of the set for which it fails, so that no induction rule  *)
(* over an operator is needed: only the well-foundedness of the strict     *)
(* subsets of a finite set.                                                *)
(***************************************************************************)
EXTENDS Sums, FiniteSetTheorems, TLAPS

(* Among sets of parts of a finite set there is one without a smaller one. *)
LEMMA SmallestPart ==
  ASSUME NEW S, IsFiniteSet(S), NEW B, B \subseteq SUBSET S, B # {}
  PROVE  \E T \in B : \A U \in B : U \subseteq T => U = T
<1>1. B \subseteq FiniteSubsetsOf(S)
  BY FS_FiniteSubsetsOfFinite
<1>2. IsWellFoundedOn(StrictSubsetOrdering(S), FiniteSubsetsOf(S))
  BY FS_StrictSubsetOrderingWellFounded
<1>3. \E T \in B : \A U \in B : ~(<<U, T>> \in StrictSubsetOrdering(S))
  BY <1>1, <1>2, WFMin
<1> QED
  BY <1>3 DEF StrictSubsetOrdering

-----------------------------------------------------------------------------
(* A sum folds over its set in an order that CHOOSE decides: g gives the   *)
(* sum of each part of S.                                                  *)
Pick(s) == CHOOSE x \in s : TRUE

IsSum(g, f, S) ==
  g = [s \in SUBSET S |-> IF s = {} THEN 0 ELSE f[Pick(s)] + g[s \ {Pick(s)}]]

TheSum(f, S) == CHOOSE g : IsSum(g, f, S)

(* Sum is defined by such a function.                                      *)
LEMMA SumIsThat == ASSUME NEW f, NEW S PROVE Sum(f, S) = TheSum(f, S)[S]
  BY DEF Sum, MapThenSumSet, MapThenFoldSet, TheSum, IsSum, Pick

(* The element that is folded in first is one of the set.                  *)
LEMMA PickIsThere == ASSUME NEW s, s # {} PROVE Pick(s) \in s
  BY DEF Pick

(* The equation of such a function for one part.                           *)
LEMMA IsSumAt ==
  ASSUME NEW f, NEW S, NEW g, IsSum(g, f, S), NEW s \in SUBSET S
  PROVE  g[s] = IF s = {} THEN 0 ELSE f[Pick(s)] + g[s \ {Pick(s)}]
  BY DEF IsSum

(* Two such functions agree where both are defined.                        *)
LEMMA IsSumAgrees ==
  ASSUME NEW f, NEW S, NEW T, IsFiniteSet(S), NEW g, NEW h,
         IsSum(g, f, S), IsSum(h, f, T), NEW u \in SUBSET S, u \subseteq T
  PROVE  g[u] = h[u]
<1> DEFINE B == {s \in SUBSET S : s \subseteq T /\ g[s] # h[s]}
<1>1. B \subseteq SUBSET S
  OBVIOUS
<1>2. ASSUME NEW s \in B, \A t \in B : t \subseteq s => t = s PROVE FALSE
  <2>2. g[s] = IF s = {} THEN 0 ELSE f[Pick(s)] + g[s \ {Pick(s)}]
    BY IsSumAt
  <2>3. h[s] = IF s = {} THEN 0 ELSE f[Pick(s)] + h[s \ {Pick(s)}]
    BY IsSumAt
  <2>4. s # {}
    BY <2>2, <2>3
  <2>5. s \ {Pick(s)} # s
    BY <2>4, PickIsThere
  <2>6. g[s \ {Pick(s)}] = h[s \ {Pick(s)}]
    BY <1>2, <2>5
  <2> QED
    BY <2>2, <2>3, <2>6
<1>3. B = {}
  <2> HIDE DEF B
  <2> QED BY <1>1, <1>2, SmallestPart
<1> QED
  BY <1>3

(* There is such a function for every finite set.                          *)
LEMMA TheSumIsSum ==
  ASSUME NEW f, NEW S, IsFiniteSet(S) PROVE IsSum(TheSum(f, S), f, S)
<1> DEFINE B == {s \in SUBSET S : ~\E g : IsSum(g, f, s)}
           next(s) == s \ {Pick(s)}
           g(s) == IF s = {} THEN 0 ELSE f[Pick(s)] + TheSum(f, next(s))[next(s)]
<1>1. B \subseteq SUBSET S
  OBVIOUS
<1>2. ASSUME NEW s \in B, \A t \in B : t \subseteq s => t = s PROVE FALSE
  <2>2. \A t \in SUBSET s : t # s => IsSum(TheSum(f, t), f, t)
    BY <1>2 DEF TheSum
  <2>3. \A t \in SUBSET s : t # {} => next(t) \in SUBSET s /\ next(t) # s
    BY PickIsThere
  <2>4. ASSUME NEW t \in SUBSET s, t # s PROVE TheSum(f, t)[t] = g(t)
    <3>1. IsSum(TheSum(f, t), f, t)
      BY <2>2, <2>4
    <3>2. TheSum(f, t)[t] = IF t = {} THEN 0 ELSE f[Pick(t)] + TheSum(f, t)[next(t)]
      BY <3>1, IsSumAt
    <3>3. ASSUME t # {} PROVE TheSum(f, t)[next(t)] = TheSum(f, next(t))[next(t)]
      <4>1. IsSum(TheSum(f, next(t)), f, next(t))
        BY <2>2, <2>3, <3>3
      <4>2. IsFiniteSet(t)
        BY FS_Subset
      <4> QED
        BY <3>1, <4>1, <4>2, IsSumAgrees
    <3> QED
      BY <3>2, <3>3
  <2>5. IsSum([t \in SUBSET s |-> g(t)], f, s)
    <3> DEFINE h == [t \in SUBSET s |-> g(t)]
    <3>1. ASSUME NEW t \in SUBSET s, t # {} PROVE h[next(t)] = TheSum(f, next(t))[next(t)]
      BY <2>3, <2>4, <3>1
    <3>2. ASSUME NEW t \in SUBSET s
          PROVE  h[t] = IF t = {} THEN 0 ELSE f[Pick(t)] + h[next(t)]
      BY <3>1
    <3> HIDE DEF g
    <3>3. h = [t \in SUBSET s |-> h[t]]
      OBVIOUS
    <3> HIDE DEF h
    <3> QED
      BY <3>2, <3>3 DEF IsSum
  <2> QED
    BY <2>5
<1>3. B = {}
  <2> HIDE DEF B
  <2> QED BY <1>1, <1>2, SmallestPart
<1>4. \E k : IsSum(k, f, S)
  BY <1>3
<1> QED
  BY <1>4 DEF TheSum

(* Nothing adds up to 0.                                                   *)
LEMMA SumEmpty == ASSUME NEW f PROVE Sum(f, {}) = 0
<1>1. IsSum(TheSum(f, {}), f, {})
  BY TheSumIsSum, FS_EmptySet
<1> QED
  BY <1>1, IsSumAt, SumIsThat

(* The element that is folded in first may be taken out of a sum.          *)
LEMMA SumPick ==
  ASSUME NEW f, NEW S, IsFiniteSet(S), S # {}
  PROVE  Sum(f, S) = f[Pick(S)] + Sum(f, S \ {Pick(S)})
<1> DEFINE T == S \ {Pick(S)}
<1>1. IsSum(TheSum(f, S), f, S)
  BY TheSumIsSum
<1>2. IsFiniteSet(T)
  BY FS_RemoveElement
<1>3. IsSum(TheSum(f, T), f, T)
  BY <1>2, TheSumIsSum
<1>4. TheSum(f, S)[T] = TheSum(f, T)[T]
  <2>1. T \in SUBSET S /\ T \subseteq T
    OBVIOUS
  <2> HIDE DEF T
  <2> QED BY <1>1, <1>3, <2>1, IsSumAgrees
<1>5. TheSum(f, S)[S] = f[Pick(S)] + TheSum(f, S)[T]
  BY <1>1, IsSumAt
<1> QED
  BY <1>4, <1>5, SumIsThat

-----------------------------------------------------------------------------
(* A sum of integers is an integer.                                        *)
LEMMA SumInt ==
  ASSUME NEW S, IsFiniteSet(S), NEW f, \A x \in S : f[x] \in Int
  PROVE  Sum(f, S) \in Int
<1> DEFINE B == {s \in SUBSET S : Sum(f, s) \notin Int}
<1>1. B \subseteq SUBSET S
  OBVIOUS
<1>2. ASSUME NEW s \in B, \A t \in B : t \subseteq s => t = s PROVE FALSE
  <2>2. s # {}
    BY SumEmpty
  <2>3. Pick(s) \in s /\ IsFiniteSet(s)
    BY <2>2, PickIsThere, FS_Subset
  <2>4. Sum(f, s \ {Pick(s)}) \in Int
    BY <1>2, <2>3
  <2> QED
    BY <2>2, <2>3, <2>4, SumPick
<1>3. B = {}
  <2> HIDE DEF B
  <2> QED BY <1>1, <1>2, SmallestPart
<1> QED
  BY <1>3

(* A sum of natural numbers is one.                                        *)
LEMMA SumNat ==
  ASSUME NEW S, IsFiniteSet(S), NEW f, \A x \in S : f[x] \in Nat
  PROVE  Sum(f, S) \in Nat
<1> DEFINE B == {s \in SUBSET S : Sum(f, s) \notin Nat}
<1>1. B \subseteq SUBSET S
  OBVIOUS
<1>2. ASSUME NEW s \in B, \A t \in B : t \subseteq s => t = s PROVE FALSE
  <2>2. s # {}
    BY SumEmpty
  <2>3. Pick(s) \in s /\ IsFiniteSet(s)
    BY <2>2, PickIsThere, FS_Subset
  <2>4. Sum(f, s \ {Pick(s)}) \in Nat
    BY <1>2, <2>3
  <2> QED
    BY <2>2, <2>3, <2>4, SumPick
<1>3. B = {}
  <2> HIDE DEF B
  <2> QED BY <1>1, <1>2, SmallestPart
<1> QED
  BY <1>3

(* Any member may be taken out of a sum.                                   *)
LEMMA SumRemove ==
  ASSUME NEW S, IsFiniteSet(S), NEW f, \A x \in S : f[x] \in Int, NEW a \in S
  PROVE  Sum(f, S) = f[a] + Sum(f, S \ {a})
<1> DEFINE Splits(s) == \A x \in s : Sum(f, s) = f[x] + Sum(f, s \ {x})
           B == {s \in SUBSET S : ~Splits(s)}
<1>1. B \subseteq SUBSET S
  OBVIOUS
<1>2. ASSUME NEW s \in B, \A t \in B : t \subseteq s => t = s PROVE FALSE
  <2>1. PICK x \in s : Sum(f, s) # f[x] + Sum(f, s \ {x})
    OBVIOUS
  <2>2. PICK p \in s : Sum(f, s) = f[p] + Sum(f, s \ {p})
    BY SumPick, PickIsThere, FS_Subset
  <2>3. p # x
    BY <2>1, <2>2
  <2>4. Sum(f, s \ {p}) = f[x] + Sum(f, (s \ {p}) \ {x})
    BY <1>2, <2>3
  <2>5. Sum(f, s \ {x}) = f[p] + Sum(f, (s \ {x}) \ {p})
    BY <1>2, <2>3
  <2>6. (s \ {p}) \ {x} = (s \ {x}) \ {p}
    OBVIOUS
  <2>7. Sum(f, (s \ {x}) \ {p}) \in Int /\ f[x] \in Int /\ f[p] \in Int
    <3>1. (s \ {x}) \ {p} \in SUBSET S
      OBVIOUS
    <3>2. IsFiniteSet((s \ {x}) \ {p})
      BY <3>1, FS_Subset
    <3> QED
      BY <3>1, <3>2, SumInt
  <2>8. Sum(f, s) = f[p] + (f[x] + Sum(f, (s \ {x}) \ {p}))
    BY <2>2, <2>4, <2>6
  <2> QED
    BY <2>1, <2>5, <2>7, <2>8
<1>3. B = {}
  <2> HIDE DEF B
  <2> QED BY <1>1, <1>2, SmallestPart
<1>4. Splits(S)
  BY <1>3
<1> QED
  BY <1>4
-----------------------------------------------------------------------------
(* A sum depends only on the values it adds up.                            *)
LEMMA SumEqual ==
  ASSUME NEW S, IsFiniteSet(S), NEW f, NEW g, \A x \in S : f[x] = g[x]
  PROVE  Sum(f, S) = Sum(g, S)
<1> DEFINE B == {s \in SUBSET S : Sum(f, s) # Sum(g, s)}
<1>1. B \subseteq SUBSET S
  OBVIOUS
<1>2. ASSUME NEW s \in B, \A t \in B : t \subseteq s => t = s PROVE FALSE
  <2>2. s # {}
    BY SumEmpty
  <2>3. Pick(s) \in s /\ IsFiniteSet(s)
    BY <2>2, PickIsThere, FS_Subset
  <2>4. Sum(f, s \ {Pick(s)}) = Sum(g, s \ {Pick(s)})
    BY <1>2, <2>3
  <2>5. Sum(f, s) = f[Pick(s)] + Sum(f, s \ {Pick(s)})
    BY <2>2, <2>3, SumPick
  <2>6. Sum(g, s) = g[Pick(s)] + Sum(g, s \ {Pick(s)})
    BY <2>2, <2>3, SumPick
  <2>7. f[Pick(s)] = g[Pick(s)]
    BY <2>3
  <2> QED
    BY <2>4, <2>5, <2>6, <2>7
<1>3. B = {}
  <2> HIDE DEF B
  <2> QED BY <1>1, <1>2, SmallestPart
<1> QED
  BY <1>3

(* Zeros add up to 0.                                                      *)
LEMMA SumZero ==
  ASSUME NEW S, IsFiniteSet(S), NEW f, \A x \in S : f[x] = 0
  PROVE  Sum(f, S) = 0
<1> DEFINE B == {s \in SUBSET S : Sum(f, s) # 0}
<1>1. B \subseteq SUBSET S
  OBVIOUS
<1>2. ASSUME NEW s \in B, \A t \in B : t \subseteq s => t = s PROVE FALSE
  <2>2. s # {}
    BY SumEmpty
  <2>3. Pick(s) \in s /\ IsFiniteSet(s)
    BY <2>2, PickIsThere, FS_Subset
  <2>4. Sum(f, s \ {Pick(s)}) = 0
    BY <1>2, <2>3
  <2> QED
    BY <2>2, <2>3, <2>4, SumPick
<1>3. B = {}
  <2> HIDE DEF B
  <2> QED BY <1>1, <1>2, SmallestPart
<1> QED
  BY <1>3

(* Two functions that differ in one place only have sums that differ by as *)
(* much.                                                                   *)
LEMMA SumChange ==
  ASSUME NEW S, IsFiniteSet(S), NEW f, NEW g, NEW a \in S,
         \A x \in S : f[x] \in Int /\ g[x] \in Int,
         \A x \in S \ {a} : f[x] = g[x]
  PROVE  Sum(f, S) - Sum(g, S) = f[a] - g[a]
<1>1. Sum(f, S) = f[a] + Sum(f, S \ {a}) /\ Sum(g, S) = g[a] + Sum(g, S \ {a})
  BY SumRemove
<1>2. IsFiniteSet(S \ {a})
  BY FS_RemoveElement
<1>3. Sum(f, S \ {a}) = Sum(g, S \ {a}) /\ Sum(f, S \ {a}) \in Int
  BY <1>2, SumEqual, SumInt
<1> QED
  BY <1>1, <1>3

(* What is added up is never more than the sum, and all of it only when    *)
(* the rest is 0.                                                          *)
LEMMA SumAtLeast ==
  ASSUME NEW S, IsFiniteSet(S), NEW f, \A x \in S : f[x] \in Nat, NEW a \in S
  PROVE  /\ Sum(f, S) \in Nat /\ f[a] <= Sum(f, S)
         /\ Sum(f, S) = f[a] => \A x \in S \ {a} : f[x] = 0
<1>1. IsFiniteSet(S \ {a})
  BY FS_RemoveElement
<1>2. Sum(f, S \ {a}) \in Nat
  BY <1>1, SumNat
<1>3. Sum(f, S) = f[a] + Sum(f, S \ {a})
  BY SumRemove
<1>4. ASSUME Sum(f, S) = f[a], NEW x \in S \ {a} PROVE f[x] = 0
  <2>1. Sum(f, S \ {a}) = 0
    BY <1>2, <1>3, <1>4
  <2>2. Sum(f, S \ {a}) = f[x] + Sum(f, (S \ {a}) \ {x})
    BY <1>1, SumRemove
  <2>3. Sum(f, (S \ {a}) \ {x}) \in Nat
    <3>1. IsFiniteSet((S \ {a}) \ {x})
      BY <1>1, FS_RemoveElement
    <3> QED BY <3>1, SumNat
  <2> QED BY <2>1, <2>2, <2>3
<1> QED
  BY <1>2, <1>3, <1>4

(* A part of natural numbers adds up to no more than all of them.          *)
LEMMA SumOfPart ==
  ASSUME NEW S, IsFiniteSet(S), NEW f, \A x \in S : f[x] \in Nat,
         NEW T \in SUBSET S
  PROVE  Sum(f, T) <= Sum(f, S)
<1> DEFINE B == {s \in SUBSET S : T \subseteq s /\ ~(Sum(f, T) <= Sum(f, s))}
<1>1. B \subseteq SUBSET S
  OBVIOUS
<1>2. ASSUME NEW s \in B, \A t \in B : t \subseteq s => t = s PROVE FALSE
  <2>1. IsFiniteSet(s) /\ IsFiniteSet(T)
    BY FS_Subset
  <2>2. Sum(f, T) \in Nat
    BY <2>1, SumNat
  <2>3. PICK x \in s : x \notin T
    BY <2>2
  <2>4. s \ {x} \notin B /\ T \subseteq s \ {x}
    BY <1>2, <2>3
  <2>5. Sum(f, T) <= Sum(f, s \ {x})
    BY <2>4
  <2>6. IsFiniteSet(s \ {x})
    BY <2>1, FS_RemoveElement
  <2>7. Sum(f, s \ {x}) \in Nat
    BY <2>6, SumNat
  <2>8. Sum(f, s) = f[x] + Sum(f, s \ {x}) /\ f[x] \in Nat
    BY <2>1, <2>3, SumRemove
  <2> QED
    BY <2>2, <2>5, <2>7, <2>8
<1>3. B = {}
  <2> HIDE DEF B
  <2> QED BY <1>1, <1>2, SmallestPart
<1>4. T \notin B
  BY <1>3
<1>5. Sum(f, T) \in Nat
  <2>1. IsFiniteSet(T)
    BY FS_Subset
  <2> QED BY <2>1, SumNat
<1>6. Sum(f, S) \in Nat
  BY SumNat
<1> QED
  BY <1>3, <1>5, <1>6

==============================================================================
