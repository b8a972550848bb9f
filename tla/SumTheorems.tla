---------------------------- MODULE SumTheorems ----------------------------
(***************************************************************************)
(* What SumFunctionOnSet of the community modules computes on a finite     *)
(* set, for the totals that the components keep beside their parts: the    *)
(* hub asset of the pools, the shares of the positions, the budgets of the *)
(* schedules, the bonds of an asset.                                       *)
(*                                                                         *)
(* The library defines it by a recursive function over the subsets.  The   *)
(* proofs by induction are arguments by a smallest counterexample, which   *)
(* needs no induction rule with a predicate as a parameter: a non-empty    *)
(* family of subsets of a finite set has a minimal member.                 *)
(***************************************************************************)
EXTENDS Integers, Functions, FiniteSetTheorems, WellFoundedInduction, TLAPS

(* The element the recursion takes out of a set next.                      *)
Picked(T) == CHOOSE x \in T : TRUE

(* g is the recursive function: the sum of f over every subset of S.       *)
IsSum(g, f, S) ==
  g = [T \in SUBSET S |-> IF T = {} THEN 0 ELSE f[Picked(T)] + g[T \ {Picked(T)}]]

(* SumFunctionOnSet, with the definitions of the library expanded.         *)
LEMMA SumUnfolded ==
  ASSUME NEW f, NEW S
  PROVE  SumFunctionOnSet(f, S) = (CHOOSE g : IsSum(g, f, S))[S]
  BY DEF SumFunctionOnSet, FoldFunctionOnSet, MapThenFoldSet, IsSum, Picked

(* A non-empty family of subsets of a finite set has a member that no      *)
(* other one is contained in.                                              *)
LEMMA MinimalSet ==
  ASSUME NEW S, IsFiniteSet(S), NEW B \in SUBSET SUBSET S, B # {}
  PROVE  \E T \in B : \A U \in B : U \subseteq T => U = T
<1>1. IsWellFoundedOn(StrictSubsetOrdering(S), SUBSET S)
  BY FS_FiniteSubsetsOfFinite, FS_StrictSubsetOrderingWellFounded, Zenon
<1>2. PICK T \in B : \A U \in B : ~ (<<U, T>> \in StrictSubsetOrdering(S))
  <2> DEFINE R == StrictSubsetOrdering(S)
  <2>1. IsWellFoundedOn(R, SUBSET S)
    BY <1>1
  <2> HIDE DEF R
  <2>2. \E T \in B : \A U \in B : ~ (<<U, T>> \in R)
    BY <2>1, WFMin, Zenon
  <2> QED BY <2>2 DEF R
<1> QED BY <1>2 DEF StrictSubsetOrdering

(* The element picked from a non-empty set is one of its elements.         *)
LEMMA PickedFrom ==
  ASSUME NEW T, T # {}
  PROVE  Picked(T) \in T
  BY DEF Picked

(* The recursive functions of a set and of a subset agree where both are   *)
(* defined.                                                                *)
LEMMA SumsAgree ==
  ASSUME NEW f, NEW S, IsFiniteSet(S), NEW R \in SUBSET S, NEW g, NEW h,
         IsSum(g, f, S), IsSum(h, f, R), NEW T \in SUBSET R
  PROVE  g[T] = h[T]
<1> DEFINE Bad == {U \in SUBSET R : g[U] # h[U]}
<1> SUFFICES ASSUME Bad # {} PROVE FALSE
  OBVIOUS
<1>1. PICK U \in Bad : \A V \in Bad : V \subseteq U => V = U
  <2>1. Bad \in SUBSET SUBSET S
    OBVIOUS
  <2> HIDE DEF Bad
  <2> QED BY <2>1, MinimalSet
<1>2. /\ g[U] = IF U = {} THEN 0 ELSE f[Picked(U)] + g[U \ {Picked(U)}]
      /\ h[U] = IF U = {} THEN 0 ELSE f[Picked(U)] + h[U \ {Picked(U)}]
  <2>1. U \in SUBSET S /\ U \in SUBSET R
    OBVIOUS
  <2> QED BY <2>1, Zenon DEF IsSum
<1>3. U # {}
  BY <1>2
<1>4. g[U \ {Picked(U)}] # h[U \ {Picked(U)}]
  BY <1>2, <1>3
<1>5. U \ {Picked(U)} \in Bad
  BY <1>4
<1> QED BY <1>1, <1>3, <1>5, PickedFrom

(* The recursion has a solution: put together from those of the proper     *)
(* subsets.                                                                *)
LEMMA SumsExist ==
  ASSUME NEW f, NEW S, IsFiniteSet(S)
  PROVE  \E g : IsSum(g, f, S)
<1> DEFINE Bad == {U \in SUBSET S : ~ \E g : IsSum(g, f, U)}
<1> SUFFICES ASSUME Bad # {} PROVE FALSE
  OBVIOUS
<1>1. PICK T \in Bad : \A V \in Bad : V \subseteq T => V = T
  <2>1. Bad \in SUBSET SUBSET S
    OBVIOUS
  <2> HIDE DEF Bad
  <2> QED BY <2>1, MinimalSet
<1> DEFINE G(U) == (CHOOSE g : IsSum(g, f, U))[U]
           h == [U \in SUBSET T |-> IF U = {} THEN 0 ELSE f[Picked(U)] + G(U \ {Picked(U)})]
<1>2. ASSUME NEW U \in SUBSET T, U # T
      PROVE  IsSum(CHOOSE g : IsSum(g, f, U), f, U)
  <2>1. U \notin Bad /\ U \in SUBSET S
    BY <1>1, <1>2
  <2>2. \E g : IsSum(g, f, U)
    BY <2>1
  <2> QED BY <2>2, Zenon
<1>3. ASSUME NEW U \in SUBSET T, U # T
      PROVE  G(U) = h[U]
  <2> DEFINE c == CHOOSE g : IsSum(g, f, U)
  <2>1. IsSum(c, f, U) /\ G(U) = c[U]
    BY <1>2, <1>3
  <2> HIDE DEF c
  <2>2. c[U] = IF U = {} THEN 0 ELSE f[Picked(U)] + c[U \ {Picked(U)}]
    BY <2>1, Zenon DEF IsSum
  <2>3. CASE U = {}
    BY <2>1, <2>2, <2>3
  <2>4. CASE U # {}
    <3> DEFINE W == U \ {Picked(U)}
    <3>1. W \in SUBSET U /\ W \in SUBSET T /\ W # T /\ IsFiniteSet(U)
      <4>1. Picked(U) \in U
        BY <2>4, PickedFrom
      <4>2. U \in SUBSET S
        OBVIOUS
      <4> QED BY <4>1, <4>2, FS_Subset
    <3>2. IsSum(CHOOSE g : IsSum(g, f, W), f, W)
      BY <1>2, <3>1, Zenon
    <3>3. W \in SUBSET W
      OBVIOUS
    <3>4. c[W] = G(W)
      <4> DEFINE d == CHOOSE g : IsSum(g, f, W)
      <4>1. IsSum(d, f, W) /\ G(W) = d[W]
        BY <3>2
      <4> HIDE DEF d, W, G
      <4>2. W \in SUBSET U
        BY <3>1
      <4> QED BY <2>1, <3>1, <3>3, <4>1, <4>2, SumsAgree
    <3>5. h[U] = f[Picked(U)] + G(W)
      BY <2>4
    <3> QED BY <2>1, <2>2, <2>4, <3>4, <3>5
  <2> QED BY <2>3, <2>4
<1>4. IsSum(h, f, T)
  <2>1. ASSUME NEW U \in SUBSET T
        PROVE  h[U] = IF U = {} THEN 0 ELSE f[Picked(U)] + h[U \ {Picked(U)}]
    <3>1. CASE U = {}
      BY <3>1
    <3>2. CASE U # {}
      <4>1. Picked(U) \in U
        BY <3>2, PickedFrom
      <4>2. U \ {Picked(U)} \in SUBSET T /\ U \ {Picked(U)} # T
        BY <4>1
      <4>3. G(U \ {Picked(U)}) = h[U \ {Picked(U)}]
        BY <1>3, <4>2, Zenon
      <4>4. h[U] = f[Picked(U)] + G(U \ {Picked(U)})
        BY <3>2
      <4> HIDE DEF h, G
      <4> QED BY <3>2, <4>3, <4>4
    <3> QED BY <3>1, <3>2
  <2>2. h = [U \in SUBSET T |-> h[U]]
    OBVIOUS
  <2> HIDE DEF h
  <2> QED BY <2>1, <2>2 DEF IsSum
<1> QED BY <1>4

-----------------------------------------------------------------------------
(* The empty sum.                                                          *)
LEMMA SumEmpty ==
  ASSUME NEW f
  PROVE  SumFunctionOnSet(f, {}) = 0
<1> DEFINE c == CHOOSE g : IsSum(g, f, {})
<1>1. IsSum(c, f, {})
  BY SumsExist, FS_EmptySet
<1>2. SumFunctionOnSet(f, {}) = c[{}]
  BY SumUnfolded
<1> HIDE DEF c
<1> QED BY <1>1, <1>2 DEF IsSum

(* The equation of the recursion.                                          *)
LEMMA SumPicked ==
  ASSUME NEW f, NEW S, IsFiniteSet(S), S # {}
  PROVE  SumFunctionOnSet(f, S) = f[Picked(S)] + SumFunctionOnSet(f, S \ {Picked(S)})
<1> DEFINE W == S \ {Picked(S)}
           c == CHOOSE g : IsSum(g, f, S)
           d == CHOOSE g : IsSum(g, f, W)
<1>1. IsSum(c, f, S) /\ SumFunctionOnSet(f, S) = c[S]
  BY SumsExist, SumUnfolded
<1>2. W \in SUBSET S /\ IsFiniteSet(W)
  BY FS_RemoveElement
<1>3. IsSum(d, f, W) /\ SumFunctionOnSet(f, W) = d[W]
  <2> HIDE DEF W
  <2> QED BY <1>2, SumsExist, SumUnfolded
<1> HIDE DEF c, d
<1>4. c[S] = f[Picked(S)] + c[W]
  BY <1>1 DEF IsSum
<1>5. c[W] = d[W]
  <2> HIDE DEF W
  <2>1. W \in SUBSET W
    OBVIOUS
  <2> QED BY <1>1, <1>2, <1>3, <2>1, SumsAgree
<1> QED BY <1>1, <1>3, <1>4, <1>5

(* A sum of integers is an integer.                                        *)
LEMMA SumInt ==
  ASSUME NEW f, NEW S, IsFiniteSet(S), \A x \in S : f[x] \in Int
  PROVE  SumFunctionOnSet(f, S) \in Int
<1> DEFINE Bad == {T \in SUBSET S : SumFunctionOnSet(f, T) \notin Int}
<1> SUFFICES ASSUME Bad # {} PROVE FALSE
  OBVIOUS
<1>1. PICK T \in Bad : \A V \in Bad : V \subseteq T => V = T
  <2>1. Bad \in SUBSET SUBSET S
    OBVIOUS
  <2> HIDE DEF Bad
  <2> QED BY <2>1, MinimalSet
<1>2. T # {}
  BY SumEmpty
<1>3. /\ Picked(T) \in T
      /\ IsFiniteSet(T)
  BY <1>2, PickedFrom, FS_Subset
<1>4. SumFunctionOnSet(f, T) = f[Picked(T)] + SumFunctionOnSet(f, T \ {Picked(T)})
  BY <1>2, <1>3, SumPicked
<1>5. SumFunctionOnSet(f, T \ {Picked(T)}) \in Int
  <2>1. T \ {Picked(T)} \notin Bad /\ T \ {Picked(T)} \in SUBSET S
    BY <1>1, <1>3
  <2> QED BY <2>1
<1> QED BY <1>3, <1>4, <1>5

(* Any element may be taken out first, not only the one picked.            *)
LEMMA SumRemove ==
  ASSUME NEW f, NEW S, IsFiniteSet(S), \A x \in S : f[x] \in Int, NEW x \in S
  PROVE  /\ SumFunctionOnSet(f, S) = f[x] + SumFunctionOnSet(f, S \ {x})
         /\ SumFunctionOnSet(f, S \ {x}) \in Int
<1> DEFINE Sum(T) == SumFunctionOnSet(f, T)
           Bad == {T \in SUBSET S : \E y \in T : Sum(T) # f[y] + Sum(T \ {y})}
<1>0. \A T \in SUBSET S : IsFiniteSet(T) /\ Sum(T) \in Int
  BY SumInt, FS_Subset
<1> SUFFICES ASSUME Bad # {} PROVE FALSE
  BY <1>0
<1>1. PICK T \in Bad : \A V \in Bad : V \subseteq T => V = T
  <2>1. Bad \in SUBSET SUBSET S
    OBVIOUS
  <2> HIDE DEF Bad
  <2> QED BY <2>1, MinimalSet
<1>2. PICK y \in T : Sum(T) # f[y] + Sum(T \ {y})
  OBVIOUS
<1> DEFINE p == Picked(T)
<1>3. p \in T
  BY PickedFrom
<1>4. Sum(T) = f[p] + Sum(T \ {p})
  BY <1>0, SumPicked
<1> HIDE DEF p
<1>5. y # p
  BY <1>2, <1>4
<1>6. \A z \in T : \A v \in T \ {z} : Sum(T \ {z}) = f[v] + Sum((T \ {z}) \ {v})
  <2>1. \A z \in T : T \ {z} \in SUBSET S /\ T \ {z} \notin Bad
    BY <1>1
  <2> HIDE DEF Sum
  <2> QED BY <2>1
<1> HIDE DEF Sum
<1> DEFINE r == Sum((T \ {y}) \ {p})
<1>7. Sum(T \ {p}) = f[y] + r
  <2>1. (T \ {p}) \ {y} = (T \ {y}) \ {p}
    OBVIOUS
  <2>2. Sum(T \ {p}) = f[y] + Sum((T \ {p}) \ {y})
    BY <1>3, <1>5, <1>6
  <2> QED BY <2>1, <2>2
<1>8. Sum(T \ {y}) = f[p] + r
  BY <1>3, <1>5, <1>6
<1>9. f[p] \in Int /\ f[y] \in Int /\ r \in Int
  BY <1>0, <1>3
<1> HIDE DEF r
<1>10. f[p] + Sum(T \ {p}) = f[y] + Sum(T \ {y})
  BY <1>7, <1>8, <1>9
<1> QED BY <1>2, <1>4, <1>10

(* A new element adds its value.                                           *)
LEMMA SumInsert ==
  ASSUME NEW f, NEW S, IsFiniteSet(S), NEW x, x \notin S, \A y \in S \cup {x} : f[y] \in Int
  PROVE  SumFunctionOnSet(f, S \cup {x}) = f[x] + SumFunctionOnSet(f, S)
<1> DEFINE T == S \cup {x}
<1>1. IsFiniteSet(T) /\ x \in T /\ T \ {x} = S
  BY FS_AddElement
<1> HIDE DEF T
<1>2. SumFunctionOnSet(f, T) = f[x] + SumFunctionOnSet(f, T \ {x})
  BY <1>1, SumRemove DEF T
<1> QED BY <1>1, <1>2 DEF T

(* Only the values on the set matter.                                      *)
LEMMA SumSame ==
  ASSUME NEW f, NEW g, NEW S, IsFiniteSet(S), \A x \in S : f[x] = g[x]
  PROVE  SumFunctionOnSet(f, S) = SumFunctionOnSet(g, S)
<1> DEFINE Bad == {T \in SUBSET S : SumFunctionOnSet(f, T) # SumFunctionOnSet(g, T)}
<1> SUFFICES ASSUME Bad # {} PROVE FALSE
  OBVIOUS
<1>1. PICK T \in Bad : \A V \in Bad : V \subseteq T => V = T
  <2>1. Bad \in SUBSET SUBSET S
    OBVIOUS
  <2> HIDE DEF Bad
  <2> QED BY <2>1, MinimalSet
<1>2. T # {}
  BY SumEmpty
<1>3. /\ Picked(T) \in T
      /\ IsFiniteSet(T)
  BY <1>2, PickedFrom, FS_Subset
<1>4. /\ SumFunctionOnSet(f, T) = f[Picked(T)] + SumFunctionOnSet(f, T \ {Picked(T)})
      /\ SumFunctionOnSet(g, T) = g[Picked(T)] + SumFunctionOnSet(g, T \ {Picked(T)})
  BY <1>2, <1>3, SumPicked
<1>5. SumFunctionOnSet(f, T \ {Picked(T)}) = SumFunctionOnSet(g, T \ {Picked(T)})
  <2>1. T \ {Picked(T)} \notin Bad /\ T \ {Picked(T)} \in SUBSET S
    BY <1>1, <1>3
  <2> QED BY <2>1
<1> QED BY <1>3, <1>4, <1>5

(* Changing one value changes the sum by as much.                          *)
LEMMA SumChange ==
  ASSUME NEW f, NEW g, NEW S, IsFiniteSet(S), NEW x \in S,
         \A y \in S : f[y] \in Int /\ g[y] \in Int,
         \A y \in S \ {x} : f[y] = g[y]
  PROVE  SumFunctionOnSet(g, S) = (SumFunctionOnSet(f, S) - f[x]) + g[x]
<1>1. IsFiniteSet(S \ {x})
  BY FS_RemoveElement
<1>2. SumFunctionOnSet(f, S \ {x}) = SumFunctionOnSet(g, S \ {x})
  BY <1>1, SumSame
<1>3. /\ SumFunctionOnSet(f, S) = f[x] + SumFunctionOnSet(f, S \ {x})
      /\ SumFunctionOnSet(f, S \ {x}) \in Int
  BY SumRemove
<1>4. SumFunctionOnSet(g, S) = g[x] + SumFunctionOnSet(g, S \ {x})
  BY SumRemove
<1>5. f[x] \in Int /\ g[x] \in Int
  OBVIOUS
<1> QED BY <1>2, <1>3, <1>4, <1>5

(* Smaller values, smaller sum.                                            *)
LEMMA SumMonotone ==
  ASSUME NEW f, NEW g, NEW S, IsFiniteSet(S),
         \A x \in S : f[x] \in Int /\ g[x] \in Int /\ f[x] <= g[x]
  PROVE  SumFunctionOnSet(f, S) <= SumFunctionOnSet(g, S)
<1> DEFINE Bad == {T \in SUBSET S : ~ (SumFunctionOnSet(f, T) <= SumFunctionOnSet(g, T))}
<1> SUFFICES ASSUME Bad # {} PROVE FALSE
  OBVIOUS
<1>1. PICK T \in Bad : \A V \in Bad : V \subseteq T => V = T
  <2>1. Bad \in SUBSET SUBSET S
    OBVIOUS
  <2> HIDE DEF Bad
  <2> QED BY <2>1, MinimalSet
<1>2. PICK x : x \in T
  <2>1. T # {}
    BY SumEmpty
  <2> QED BY <2>1
<1>3. IsFiniteSet(T)
  BY FS_Subset
<1>4. /\ SumFunctionOnSet(f, T) = f[x] + SumFunctionOnSet(f, T \ {x})
      /\ SumFunctionOnSet(f, T \ {x}) \in Int
      /\ SumFunctionOnSet(g, T) = g[x] + SumFunctionOnSet(g, T \ {x})
      /\ SumFunctionOnSet(g, T \ {x}) \in Int
  BY <1>2, <1>3, SumRemove
<1>5. SumFunctionOnSet(f, T \ {x}) <= SumFunctionOnSet(g, T \ {x})
  <2>1. T \ {x} \notin Bad /\ T \ {x} \in SUBSET S
    BY <1>1, <1>2
  <2> QED BY <2>1
<1>6. f[x] \in Int /\ g[x] \in Int /\ f[x] <= g[x]
  BY <1>2
<1>7. SumFunctionOnSet(f, T) <= SumFunctionOnSet(g, T)
  BY <1>4, <1>5, <1>6
<1> QED BY <1>7

(* A sum of zeros is zero.                                                 *)
LEMMA SumOfZeros ==
  ASSUME NEW f, NEW S, IsFiniteSet(S), \A x \in S : f[x] = 0
  PROVE  SumFunctionOnSet(f, S) = 0
<1> DEFINE Bad == {T \in SUBSET S : SumFunctionOnSet(f, T) # 0}
<1> SUFFICES ASSUME Bad # {} PROVE FALSE
  OBVIOUS
<1>1. PICK T \in Bad : \A V \in Bad : V \subseteq T => V = T
  <2>1. Bad \in SUBSET SUBSET S
    OBVIOUS
  <2> HIDE DEF Bad
  <2> QED BY <2>1, MinimalSet
<1>2. PICK x : x \in T
  <2>1. T # {}
    BY SumEmpty
  <2> QED BY <2>1
<1>3. IsFiniteSet(T)
  BY FS_Subset
<1>4. SumFunctionOnSet(f, T) = f[x] + SumFunctionOnSet(f, T \ {x})
  BY <1>2, <1>3, SumRemove
<1>5. SumFunctionOnSet(f, T \ {x}) = 0
  <2>1. T \ {x} \notin Bad /\ T \ {x} \in SUBSET S
    BY <1>1, <1>2
  <2> QED BY <2>1
<1> QED BY <1>2, <1>4, <1>5

(* A sum of naturals is a natural, and no smaller than any of its parts.   *)
LEMMA SumNat ==
  ASSUME NEW f, NEW S, IsFiniteSet(S), \A x \in S : f[x] \in Nat
  PROVE  /\ SumFunctionOnSet(f, S) \in Nat
         /\ \A x \in S : f[x] <= SumFunctionOnSet(f, S)
<1>1. ASSUME NEW T \in SUBSET S
      PROVE  SumFunctionOnSet(f, T) \in Nat
  <2> DEFINE z == [x \in T |-> 0]
  <2>1. IsFiniteSet(T)
    BY FS_Subset
  <2>2. SumFunctionOnSet(z, T) = 0
    BY <2>1, SumOfZeros
  <2>3. \A x \in T : z[x] \in Int /\ f[x] \in Int /\ z[x] <= f[x]
    OBVIOUS
  <2> HIDE DEF z
  <2>4. SumFunctionOnSet(z, T) <= SumFunctionOnSet(f, T)
    BY <2>1, <2>3, SumMonotone
  <2>5. SumFunctionOnSet(f, T) \in Int
    BY <2>1, <2>3, SumInt
  <2> QED BY <2>2, <2>4, <2>5
<1>2. ASSUME NEW x \in S
      PROVE  f[x] <= SumFunctionOnSet(f, S)
  <2>1. SumFunctionOnSet(f, S) = f[x] + SumFunctionOnSet(f, S \ {x})
    BY SumRemove
  <2>2. SumFunctionOnSet(f, S \ {x}) \in Nat
    BY <1>1
  <2> QED BY <2>1, <2>2
<1> QED BY <1>1, <1>2
=============================================================================
