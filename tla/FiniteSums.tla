---------------------------- MODULE FiniteSums ----------------------------
(***************************************************************************)
(* Sums over finite sets.  The byte counts of the caches are sums over what  *)
(* they hold; FiniteSetsExt defines such a sum by a recursive function and   *)
(* states nothing about it.  The lemmas here are proved by induction on the  *)
(* subsets of the set, which follows from their strict order being           *)
(* well-founded.                                                             *)
(***************************************************************************)
EXTENDS Integers, FiniteSets, FiniteSetsExt, FiniteSetTheorems, WellFoundedInduction, TLAPS

(* The sum of the values of f on S.                                          *)
SumOver(f, S) == MapThenSumSet(LAMBDA x : f[x], S)

(* MapThenSumSet takes the elements of a set in the order of CHOOSE; the     *)
(* function it folds with is the one that satisfies IsFold.                  *)
Pick(s) == CHOOSE x \in s : TRUE
IsFold(g, f, S) ==
  g = [s \in SUBSET S |-> IF s = {} THEN 0 ELSE f[Pick(s)] + g[s \ {Pick(s)}]]
FoldOf(f, S) == CHOOSE g : IsFold(g, f, S)

(* The library sum over S, taken apart into the function it is chosen to be. *)
LEMMA SumIsFold ==
  ASSUME NEW f, NEW S
  PROVE  SumOver(f, S) = FoldOf(f, S)[S]
BY Zenon DEF SumOver, MapThenSumSet, MapThenFoldSet, FoldOf, IsFold, Pick

(* Induction on the subsets of a finite set: a set of subsets in which every *)
(* member has a smaller one is empty. The predicate is a set, so the provers *)
(* can use it.                                                               *)
LEMMA SubsetInduction ==
  ASSUME NEW S, IsFiniteSet(S), NEW Bad \in SUBSET SUBSET S,
         \A T \in SUBSET S : (\A U \in SUBSET T : U # T => U \notin Bad) => T \notin Bad
  PROVE  Bad = {}
<1> SUFFICES ASSUME Bad # {} PROVE FALSE
  OBVIOUS
<1>1. Bad \subseteq FiniteSubsetsOf(S)
  BY FS_Subset DEF FiniteSubsetsOf
<1>2. PICK T \in Bad : \A U \in Bad : ~ (<<U, T>> \in StrictSubsetOrdering(S))
  BY <1>1, FS_StrictSubsetOrderingWellFounded, WFMin, Zenon
<1>3. \A U \in SUBSET T : U # T => U \notin Bad
  BY <1>2 DEF StrictSubsetOrdering
<1> QED BY <1>3

(* One step of the fold.                                                     *)
LEMMA FoldStep ==
  ASSUME NEW f, NEW S, NEW g, IsFold(g, f, S), NEW T \in SUBSET S
  PROVE  g[T] = IF T = {} THEN 0 ELSE f[Pick(T)] + g[T \ {Pick(T)}]
BY DEF IsFold

(* The element picked from a non-empty set is one of its elements.           *)
LEMMA PickIn == \A s : s # {} => Pick(s) \in s
BY DEF Pick

(* The folds over a set and over a subset of it agree on the subset.         *)
LEMMA FoldsAgree ==
  ASSUME NEW f, NEW S, NEW T \in SUBSET S, IsFiniteSet(T),
         NEW g, IsFold(g, f, S), NEW h, IsFold(h, f, T)
  PROVE  g[T] = h[T]
<1> DEFINE Bad == {U \in SUBSET T : g[U] # h[U]}
<1>1. ASSUME NEW U \in SUBSET T, \A V \in SUBSET U : V # U => V \notin Bad
      PROVE  U \notin Bad
  <2>1. CASE U = {}
    BY <2>1, FoldStep
  <2>2. CASE U # {}
    <3> DEFINE V == U \ {Pick(U)}
    <3>1. V \in SUBSET U /\ V # U /\ V \in SUBSET T
      BY <2>2, PickIn
    <3>2. g[V] = h[V]
      BY <3>1, <1>1
    <3>3. g[U] = f[Pick(U)] + g[V]
      BY <2>2, FoldStep
    <3>4. h[U] = f[Pick(U)] + h[V]
      BY <2>2, FoldStep
    <3> QED BY <3>2, <3>3, <3>4
  <2> QED BY <2>1, <2>2
<1>2. Bad = {}
  <2>1. Bad \in SUBSET SUBSET T
    OBVIOUS
  <2> HIDE DEF Bad
  <2> QED BY <1>1, <2>1, SubsetInduction
<1> QED BY <1>2

(* The fold exists for every subset of a finite set.                         *)
LEMMA FoldExists ==
  ASSUME NEW f, NEW S, IsFiniteSet(S)
  PROVE  \A T \in SUBSET S : IsFold(FoldOf(f, T), f, T)
<1> DEFINE Bad == {T \in SUBSET S : ~IsFold(FoldOf(f, T), f, T)}
<1>1. ASSUME NEW T \in SUBSET S, \A U \in SUBSET T : U # T => U \notin Bad
      PROVE  T \notin Bad
  <2> DEFINE Less(s) == s \ {Pick(s)}
             G == [s \in SUBSET T |-> IF s = {} THEN 0 ELSE f[Pick(s)] + FoldOf(f, Less(s))[Less(s)]]
  <2>1. ASSUME NEW s \in SUBSET T, s # {}
        PROVE  Less(s) \in SUBSET T /\ Less(s) # T /\ Less(s) \in SUBSET S
    BY <2>1, PickIn
  <2>2. ASSUME NEW V \in SUBSET T, V # T
        PROVE  G[V] = FoldOf(f, V)[V]
    <3>1. V \in SUBSET S /\ IsFold(FoldOf(f, V), f, V)
      BY <2>2, <1>1
    <3>2. CASE V = {}
      BY <3>1, <3>2, FoldStep
    <3>3. CASE V # {}
      <4>1. Less(V) \in SUBSET V /\ IsFold(FoldOf(f, Less(V)), f, Less(V)) /\ IsFiniteSet(Less(V))
        BY <3>3, <2>1, <1>1, FS_Subset
      <4>2. FoldOf(f, V)[Less(V)] = FoldOf(f, Less(V))[Less(V)]
        BY <3>1, <4>1, FoldsAgree
      <4> QED BY <3>1, <3>3, <4>2, FoldStep
    <3> QED BY <3>2, <3>3
  <2>3. ASSUME NEW s \in SUBSET T, s # {}
        PROVE  G[s] = f[Pick(s)] + G[Less(s)]
    BY <2>1, <2>2, <2>3
  <2>4. IsFold(G, f, T)
    BY <2>3 DEF IsFold
  <2>5. IsFold(FoldOf(f, T), f, T)
    BY <2>4 DEF FoldOf
  <2> QED BY <2>5
<1>2. Bad = {}
  <2>1. Bad \in SUBSET SUBSET S
    OBVIOUS
  <2> HIDE DEF Bad
  <2> QED BY <1>1, <2>1, SubsetInduction
<1> QED BY <1>2

(* The sum over no element is 0.                                             *)
LEMMA SumEmpty == ASSUME NEW f PROVE SumOver(f, {}) = 0
<1>1. IsFold(FoldOf(f, {}), f, {})
  BY FoldExists, FS_EmptySet
<1> QED BY <1>1, SumIsFold, FoldStep

(* The sum over a set, with the picked element set apart.                    *)
LEMMA SumPick ==
  ASSUME NEW f, NEW S, IsFiniteSet(S), S # {}
  PROVE  SumOver(f, S) = f[Pick(S)] + SumOver(f, S \ {Pick(S)})
<1> DEFINE T == S \ {Pick(S)}
<1>1. IsFold(FoldOf(f, S), f, S) /\ IsFold(FoldOf(f, T), f, T) /\ IsFiniteSet(T)
  BY FoldExists, FS_Subset
<1>2. FoldOf(f, S)[T] = FoldOf(f, T)[T]
  BY <1>1, FoldsAgree
<1>3. FoldOf(f, S)[S] = f[Pick(S)] + FoldOf(f, S)[T]
  BY <1>1, FoldStep
<1> QED BY <1>2, <1>3, SumIsFold

(* A finite sum of integers is an integer.                                   *)
LEMMA SumInt ==
  ASSUME NEW f, NEW S, IsFiniteSet(S), \A x \in S : f[x] \in Int
  PROVE  SumOver(f, S) \in Int
<1> DEFINE Bad == {T \in SUBSET S : SumOver(f, T) \notin Int}
<1>1. ASSUME NEW T \in SUBSET S, \A U \in SUBSET T : U # T => U \notin Bad
      PROVE  T \notin Bad
  <2>1. CASE T = {}
    BY <2>1, SumEmpty
  <2>2. CASE T # {}
    <3>1. Pick(T) \in T /\ IsFiniteSet(T)
      BY <2>2, PickIn, FS_Subset
    <3>2. SumOver(f, T \ {Pick(T)}) \in Int
      BY <3>1, <1>1
    <3> QED BY <2>2, <3>1, <3>2, SumPick
  <2> QED BY <2>1, <2>2
<1>2. Bad = {}
  <2>1. Bad \in SUBSET SUBSET S
    OBVIOUS
  <2> HIDE DEF Bad
  <2> QED BY <1>1, <2>1, SubsetInduction
<1> QED BY <1>2

(* A finite sum of natural numbers is a natural number.                      *)
LEMMA SumNat ==
  ASSUME NEW f, NEW S, IsFiniteSet(S), \A x \in S : f[x] \in Nat
  PROVE  SumOver(f, S) \in Nat
<1> DEFINE Bad == {T \in SUBSET S : SumOver(f, T) \notin Nat}
<1>1. ASSUME NEW T \in SUBSET S, \A U \in SUBSET T : U # T => U \notin Bad
      PROVE  T \notin Bad
  <2>1. CASE T = {}
    BY <2>1, SumEmpty
  <2>2. CASE T # {}
    <3>1. Pick(T) \in T /\ IsFiniteSet(T)
      BY <2>2, PickIn, FS_Subset
    <3>2. SumOver(f, T \ {Pick(T)}) \in Nat
      BY <3>1, <1>1
    <3> QED BY <2>2, <3>1, <3>2, SumPick
  <2> QED BY <2>1, <2>2
<1>2. Bad = {}
  <2>1. Bad \in SUBSET SUBSET S
    OBVIOUS
  <2> HIDE DEF Bad
  <2> QED BY <1>1, <2>1, SubsetInduction
<1> QED BY <1>2

(* The sum over a set, with any one of its elements set apart: the order of the   *)
(* fold does not matter.                                                     *)
LEMMA SumRemove ==
  ASSUME NEW f, NEW S, IsFiniteSet(S), \A x \in S : f[x] \in Int, NEW x \in S
  PROVE  SumOver(f, S) = f[x] + SumOver(f, S \ {x})
<1> DEFINE Bad == {T \in SUBSET S : \E y \in T : SumOver(f, T) # f[y] + SumOver(f, T \ {y})}
<1>1. ASSUME NEW T \in SUBSET S, \A U \in SUBSET T : U # T => U \notin Bad
      PROVE  T \notin Bad
  <2> SUFFICES ASSUME NEW y \in T PROVE SumOver(f, T) = f[y] + SumOver(f, T \ {y})
    OBVIOUS
  <2> DEFINE p == Pick(T)
  <2>1. p \in T /\ IsFiniteSet(T)
    BY PickIn, FS_Subset
  <2>2. SumOver(f, T) = f[p] + SumOver(f, T \ {p})
    BY <2>1, SumPick
  <2>3. CASE p # y
    <3>1. SumOver(f, T \ {p}) = f[y] + SumOver(f, (T \ {p}) \ {y})
      BY <2>1, <2>3, <1>1
    <3>2. SumOver(f, T \ {y}) = f[p] + SumOver(f, (T \ {y}) \ {p})
      BY <2>1, <2>3, <1>1
    <3>3. (T \ {y}) \ {p} = (T \ {p}) \ {y}
      OBVIOUS
    <3>4. IsFiniteSet((T \ {p}) \ {y}) /\ SumOver(f, (T \ {p}) \ {y}) \in Int
      BY <2>1, FS_Subset, SumInt
    <3>5. f[p] \in Int /\ f[y] \in Int
      BY <2>1
    <3> DEFINE rest == SumOver(f, (T \ {p}) \ {y})
    <3>6. SumOver(f, T) = f[p] + (f[y] + rest) /\ SumOver(f, T \ {y}) = f[p] + rest /\ rest \in Int
      BY <2>2, <3>1, <3>2, <3>3, <3>4
    <3> HIDE DEF rest, p
    <3> QED BY <3>5, <3>6
  <2> QED BY <2>2, <2>3
<1>2. Bad = {}
  <2>1. Bad \in SUBSET SUBSET S
    OBVIOUS
  <2> HIDE DEF Bad
  <2> QED BY <1>1, <2>1, SubsetInduction
<1> QED BY <1>2

(* The sum over a set is the sum over a part of it and over the rest.        *)
LEMMA SumSplit ==
  ASSUME NEW f, NEW S, IsFiniteSet(S), \A x \in S : f[x] \in Int, NEW T \in SUBSET S
  PROVE  SumOver(f, S) = SumOver(f, T) + SumOver(f, S \ T)
<1> DEFINE Bad == {U \in SUBSET S : SumOver(f, S) # SumOver(f, U) + SumOver(f, S \ U)}
<1>1. ASSUME NEW U \in SUBSET S, \A V \in SUBSET U : V # U => V \notin Bad
      PROVE  U \notin Bad
  <2>0. SumOver(f, S) \in Int
    BY SumInt
  <2>1. CASE U = {}
    <3>1. S \ U = S
      BY <2>1
    <3> QED BY <2>0, <2>1, <3>1, SumEmpty
  <2>2. CASE U # {}
    <3> DEFINE p == Pick(U)
    <3>1. p \in U /\ IsFiniteSet(U) /\ IsFiniteSet(S \ U) /\ IsFiniteSet(S \ (U \ {p}))
      BY <2>2, PickIn, FS_Subset
    <3>2. SumOver(f, S) = SumOver(f, U \ {p}) + SumOver(f, S \ (U \ {p}))
      BY <3>1, <1>1
    <3>3. SumOver(f, U) = f[p] + SumOver(f, U \ {p})
      BY <3>1, <2>2, SumPick
    <3>4. (S \ (U \ {p})) \ {p} = S \ U /\ p \in S \ (U \ {p})
      BY <3>1
    <3>5. SumOver(f, S \ (U \ {p})) = f[p] + SumOver(f, S \ U)
      BY <3>1, <3>4, SumRemove
    <3>6. SumOver(f, U \ {p}) \in Int /\ SumOver(f, S \ U) \in Int /\ f[p] \in Int
      BY <3>1, FS_Subset, SumInt
    <3> QED BY <3>2, <3>3, <3>5, <3>6
  <2> QED BY <2>1, <2>2
<1>2. Bad = {}
  <2>1. Bad \in SUBSET SUBSET S
    OBVIOUS
  <2> HIDE DEF Bad
  <2> QED BY <1>1, <2>1, SubsetInduction
<1> QED BY <1>2

(* The sum depends on the values on the set only.                            *)
LEMMA SumSame ==
  ASSUME NEW f, NEW h, NEW S, IsFiniteSet(S), \A x \in S : f[x] = h[x]
  PROVE  SumOver(f, S) = SumOver(h, S)
<1> DEFINE Bad == {T \in SUBSET S : SumOver(f, T) # SumOver(h, T)}
<1>1. ASSUME NEW T \in SUBSET S, \A U \in SUBSET T : U # T => U \notin Bad
      PROVE  T \notin Bad
  <2>1. CASE T = {}
    BY <2>1, SumEmpty
  <2>2. CASE T # {}
    <3>1. Pick(T) \in T /\ IsFiniteSet(T)
      BY <2>2, PickIn, FS_Subset
    <3>2. SumOver(f, T \ {Pick(T)}) = SumOver(h, T \ {Pick(T)})
      BY <3>1, <1>1
    <3> QED BY <2>2, <3>1, <3>2, SumPick
  <2> QED BY <2>1, <2>2
<1>2. Bad = {}
  <2>1. Bad \in SUBSET SUBSET S
    OBVIOUS
  <2> HIDE DEF Bad
  <2> QED BY <1>1, <2>1, SubsetInduction
<1> QED BY <1>2

(* Numbers that are not negative sum to no less over a larger set.            *)
LEMMA SumSubset ==
  ASSUME NEW f, NEW S, IsFiniteSet(S), \A x \in S : f[x] \in Nat, NEW T \in SUBSET S
  PROVE  SumOver(f, T) \in Nat /\ SumOver(f, S) \in Nat /\ SumOver(f, T) <= SumOver(f, S)
<1>1. IsFiniteSet(T) /\ IsFiniteSet(S \ T)
  BY FS_Subset
<1>2. SumOver(f, T) \in Nat /\ SumOver(f, S \ T) \in Nat
  BY <1>1, SumNat
<1>3. SumOver(f, S) = SumOver(f, T) + SumOver(f, S \ T)
  BY SumSplit
<1> QED BY <1>2, <1>3

(* A map of a set to another, one element at a time.                         *)
LEMMA ImageStep ==
  ASSUME NEW h, NEW T, NEW x \in T
  PROVE  {h[y] : y \in T} = {h[y] : y \in T \ {x}} \cup {h[x]}
OBVIOUS

(* The image of a set, and a map to values of g that keeps those of f.       *)
ImageOf(h, S) == {h[x] : x \in S}
Carries(h, f, g, S) == \A x \in S : f[x] \in Nat /\ g[h[x]] = f[x]

(* A map that keeps what is summed does not increase the sum, nor the number of *)
(* elements.                                                                *)
LEMMA SumImage ==
  ASSUME NEW f, NEW g, NEW h, NEW S, IsFiniteSet(S), Carries(h, f, g, S)
  PROVE  /\ IsFiniteSet(ImageOf(h, S)) /\ Cardinality(ImageOf(h, S)) <= Cardinality(S)
         /\ SumOver(g, ImageOf(h, S)) <= SumOver(f, S)
<1> DEFINE Image(T) == {h[x] : x \in T}
           Good(T) == /\ IsFiniteSet(Image(T)) /\ Cardinality(Image(T)) <= Cardinality(T)
                      /\ SumOver(g, Image(T)) <= SumOver(f, T)
           Bad == {T \in SUBSET S : ~Good(T)}
<1>1. ASSUME NEW T \in SUBSET S, \A U \in SUBSET T : U # T => U \notin Bad
      PROVE  T \notin Bad
  <2>0. IsFiniteSet(T) /\ \A x \in T : f[x] \in Nat /\ g[h[x]] = f[x]
    BY FS_Subset DEF Carries
  <2>1. CASE T = {}
    <3>1. Image({}) = {} /\ Image(T) = {}
      BY <2>1
    <3>2. Good(T)
      BY <2>1, <3>1, SumEmpty, FS_EmptySet
    <3> QED BY <3>2
  <2>2. CASE T # {}
    <3>1. PICK x \in T : TRUE
      BY <2>2
    <3>2. PICK U : U = T \ {x}
      OBVIOUS
    <3>3. Good(U)
      <4>1. U \in SUBSET T /\ U # T /\ U \in SUBSET S
        BY <3>1, <3>2
      <4> QED BY <1>1, <4>1
    <3>4. PICK I : I = Image(U)
      OBVIOUS
    <3>5. PICK J : J = Image(T)
      OBVIOUS
    <3>6. J = I \cup {h[x]}
      BY <3>1, <3>2, <3>4, <3>5, ImageStep
    <3>7. IsFiniteSet(I) /\ Cardinality(I) <= Cardinality(U) /\ SumOver(g, I) <= SumOver(f, U)
      BY <3>3, <3>4
    <3>8. IsFiniteSet(U) /\ Cardinality(U) \in Nat /\ Cardinality(T) = Cardinality(U) + 1
          /\ Cardinality(I) \in Nat
      <4>1. Cardinality(T) \in Nat /\ IsFiniteSet(U) /\ Cardinality(U) = Cardinality(T) - 1
        BY <2>0, <3>1, <3>2, FS_RemoveElement, FS_CardinalityType
      <4>2. Cardinality(U) \in Nat
        BY <4>1, FS_CardinalityType
      <4> QED BY <3>7, <4>1, <4>2, FS_CardinalityType
    <3>9. SumOver(f, T) = f[x] + SumOver(f, U) /\ f[x] \in Nat /\ SumOver(f, U) \in Nat /\ g[h[x]] = f[x]
      <4>1. SumOver(f, T) = f[x] + SumOver(f, U)
        BY <2>0, <3>1, <3>2, SumRemove
      <4>2. SumOver(f, U) \in Nat
        BY <2>0, <3>2, <3>8, SumNat
      <4> QED BY <2>0, <3>1, <4>1, <4>2
    <3>10. \A y \in J : g[y] \in Nat
      <4>1. \A y \in Image(T) : g[y] \in Nat
        BY <2>0
      <4> QED BY <3>5, <4>1
    <3>11. SumOver(g, I) \in Nat
      BY <3>6, <3>7, <3>10, SumNat
    <3>12. IsFiniteSet(J) /\ Cardinality(J) <= Cardinality(T) /\ SumOver(g, J) <= SumOver(f, T)
      <4>1. CASE h[x] \in I
        <5>1. J = I
          BY <3>6, <4>1
        <5> QED BY <3>7, <3>8, <3>9, <3>11, <5>1
      <4>2. CASE h[x] \notin I
        <5>1. IsFiniteSet(J) /\ Cardinality(J) = Cardinality(I) + 1
          BY <3>6, <3>7, <4>2, FS_AddElement
        <5>2. J \ {h[x]} = I /\ h[x] \in J
          BY <3>6, <4>2
        <5>3. SumOver(g, J) = g[h[x]] + SumOver(g, J \ {h[x]})
          BY <3>10, <5>1, <5>2, SumRemove
        <5>4. SumOver(g, J) = f[x] + SumOver(g, I)
          BY <3>9, <5>2, <5>3
        <5>5. SumOver(g, J) <= SumOver(f, T)
          BY <3>7, <3>9, <3>11, <5>4
        <5>6. Cardinality(J) <= Cardinality(T)
          BY <3>7, <3>8, <5>1
        <5> QED BY <5>1, <5>5, <5>6
      <4> QED BY <4>1, <4>2
    <3> QED BY <3>5, <3>12
  <2> QED BY <2>1, <2>2
<1> HIDE DEF Bad
<1>2. Bad = {}
  <2>1. Bad \in SUBSET SUBSET S
    BY DEF Bad
  <2> QED BY <1>1, <2>1, SubsetInduction
<1>3. Good(S)
  BY <1>2 DEF Bad
<1> QED BY <1>3 DEF ImageOf
=============================================================================
