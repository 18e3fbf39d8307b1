-------------------------------- MODULE Sums --------------------------------
(***************************************************************************)
(* Sums of a function over a finite set: SumFunctionOnSet of the community *)
(* modules, a fold in the order in which CHOOSE picks the elements.  The   *)
(* lemmas free it of that order.                                           *)
(*                                                                         *)
(* The fold is a recursive function, that is, a CHOOSE of one that         *)
(* satisfies its equation.  Induction is over the subsets of the set, as   *)
(* the search for a smallest counterexample (Smallest).                    *)
(***************************************************************************)
EXTENDS Functions, FiniteSetTheorems, TLAPS

Pick(s) == CHOOSE x \in s : TRUE
\* g is the fold of f over every subset of S.
IsFold(f, S, g) ==
  g = [s \in SUBSET S |-> IF s = {} THEN 0 ELSE f[Pick(s)] + g[s \ {Pick(s)}]]
FoldOf(f, S) == CHOOSE g : IsFold(f, S, g)

\* Among sets of subsets of a finite set one contains no other.
LEMMA Smallest ==
  ASSUME NEW S, IsFiniteSet(S), NEW Bad \in SUBSET SUBSET S, Bad # {}
  PROVE  \E T \in Bad : \A U \in Bad : ~(U \subseteq T /\ U # T)
<1>1. IsWellFoundedOn(StrictSubsetOrdering(S), SUBSET S)
  BY FS_StrictSubsetOrderingWellFounded, FS_FiniteSubsetsOfFinite
<1>2. PICK T \in Bad : \A U \in Bad : <<U, T>> \notin StrictSubsetOrdering(S)
  BY <1>1, WFMin
<1>3. \A U \in Bad : <<U, T>> \in (SUBSET S) \X (SUBSET S)
  OBVIOUS
<1>. QED BY <1>2, <1>3 DEF StrictSubsetOrdering

\* A set that is not empty has the picked element.
LEMMA PickIn == \A s : s # {} => Pick(s) \in s
BY DEF Pick

\* Two folds agree where both are defined.
LEMMA FoldUnique ==
  ASSUME NEW f, NEW S, IsFiniteSet(S), NEW T \in SUBSET S,
         NEW g, IsFold(f, S, g), NEW h, IsFold(f, T, h)
  PROVE  \A s \in SUBSET T : g[s] = h[s]
<1>. DEFINE Bad == {s \in SUBSET T : g[s] # h[s]}
<1>1. SUFFICES ASSUME Bad # {} PROVE FALSE
  OBVIOUS
<1>2. PICK s \in Bad : \A U \in Bad : ~(U \subseteq s /\ U # s)
  <2>1. Bad \in SUBSET SUBSET S
    OBVIOUS
  <2>. HIDE DEF Bad
  <2>. QED BY <1>1, <2>1, Smallest
<1>3. s \in SUBSET S /\ s \in SUBSET T
  OBVIOUS
<1>4. CASE s = {}
  <2>1. g[s] = 0 /\ h[s] = 0
    BY <1>3, <1>4 DEF IsFold
  <2>. QED BY <2>1
<1>5. CASE s # {}
  <2>. DEFINE U == s \ {Pick(s)}
  <2>1. U \in SUBSET T /\ U # s
    BY <1>3, <1>5, PickIn
  <2>2. g[U] = h[U]
    BY <1>2, <2>1
  <2>3. g[s] = f[Pick(s)] + g[U] /\ h[s] = f[Pick(s)] + h[U]
    BY <1>3, <1>5 DEF IsFold
  <2>. QED BY <2>2, <2>3
<1>. QED BY <1>4, <1>5

\* A finite set has a fold.
LEMMA FoldExists ==
  ASSUME NEW f, NEW S, IsFiniteSet(S)
  PROVE  IsFold(f, S, FoldOf(f, S))
<1>. DEFINE Bad == {T \in SUBSET S : ~IsFold(f, T, FoldOf(f, T))}
<1>1. SUFFICES ASSUME Bad # {} PROVE FALSE
  OBVIOUS
<1>2. PICK T \in Bad : \A U \in Bad : ~(U \subseteq T /\ U # T)
  <2>1. Bad \in SUBSET SUBSET S
    OBVIOUS
  <2>. HIDE DEF Bad
  <2>. QED BY <1>1, <2>1, Smallest
<1>3. \A U \in SUBSET T : U # T => IsFold(f, U, FoldOf(f, U)) /\ IsFiniteSet(U)
  BY <1>2, FS_Subset
<1>. DEFINE Rest(s) == s \ {Pick(s)}
            g == [s \in SUBSET T |-> IF s = {} THEN 0 ELSE f[Pick(s)] + FoldOf(f, Rest(s))[Rest(s)]]
<1>4. ASSUME NEW s \in SUBSET T, s # {} PROVE g[Rest(s)] = FoldOf(f, Rest(s))[Rest(s)]
  <2>. DEFINE U == Rest(s)
  <2>1. U \in SUBSET T /\ U # T /\ Rest(s) = U
    BY <1>4, PickIn
  <2>2. IsFold(f, U, FoldOf(f, U)) /\ IsFiniteSet(U)
    BY <1>3, <2>1
  <2>3. CASE U = {}
    BY <2>1, <2>2, <2>3 DEF IsFold
  <2>4. CASE U # {}
    <3>. DEFINE V == Rest(U)
    <3>1. V \in SUBSET U /\ V \in SUBSET T /\ V # T
      BY <2>1, <2>4, PickIn
    <3>2. IsFold(f, V, FoldOf(f, V))
      BY <1>3, <3>1
    <3>3. FoldOf(f, U)[V] = FoldOf(f, V)[V]
      <4>. HIDE DEF V, U
      <4>. QED BY <2>2, <3>1, <3>2, FoldUnique
    <3>4. FoldOf(f, U)[U] = f[Pick(U)] + FoldOf(f, U)[V]
      BY <2>2, <2>4 DEF IsFold
    <3>5. g[U] = f[Pick(U)] + FoldOf(f, V)[V]
      BY <2>1, <2>4
    <3>. QED BY <3>3, <3>4, <3>5
  <2>. QED BY <2>3, <2>4
<1>5. IsFold(f, T, g)
  <2>1. \A s \in SUBSET T : g[s] = IF s = {} THEN 0 ELSE f[Pick(s)] + g[Rest(s)]
    BY <1>4
  <2>2. g = [s \in SUBSET T |-> g[s]]
    OBVIOUS
  <2>. HIDE DEF g
  <2>. QED BY <2>1, <2>2 DEF IsFold
<1>6. IsFold(f, T, FoldOf(f, T))
  <2>. HIDE DEF g
  <2>. QED BY <1>5 DEF FoldOf
<1>. QED BY <1>2, <1>6

\* Nothing adds up to nothing.
LEMMA SumEmpty ==
  ASSUME NEW f PROVE SumFunctionOnSet(f, {}) = 0
<1>1. IsFold(f, {}, FoldOf(f, {}))
  BY FS_EmptySet, FoldExists
<1>2. FoldOf(f, {})[{}] = 0
  BY <1>1 DEF IsFold
<1>. QED BY <1>2 DEF SumFunctionOnSet, FoldFunctionOnSet, MapThenFoldSet, FoldOf, IsFold, Pick

\* The equation of the fold.
LEMMA SumPick ==
  ASSUME NEW f, NEW S, IsFiniteSet(S), S # {}
  PROVE  SumFunctionOnSet(f, S) = f[Pick(S)] + SumFunctionOnSet(f, S \ {Pick(S)})
<1>. DEFINE T == S \ {Pick(S)}
<1>0. \A A : SumFunctionOnSet(f, A) = FoldOf(f, A)[A]
  BY DEF SumFunctionOnSet, FoldFunctionOnSet, MapThenFoldSet, FoldOf, IsFold, Pick
<1>1. T \in SUBSET S /\ IsFiniteSet(T)
  BY FS_Subset
<1>2. IsFold(f, S, FoldOf(f, S)) /\ IsFold(f, T, FoldOf(f, T))
  BY <1>1, FoldExists
<1>3. FoldOf(f, S)[T] = FoldOf(f, T)[T]
  <2>. HIDE DEF T
  <2>. QED BY <1>1, <1>2, FoldUnique
<1>4. FoldOf(f, S)[S] = f[Pick(S)] + FoldOf(f, S)[T]
  BY <1>2 DEF IsFold
<1>. QED BY <1>0, <1>3, <1>4

\* A sum of naturals is one.
LEMMA SumNat ==
  ASSUME NEW f, NEW S, IsFiniteSet(S), \A x \in S : f[x] \in Nat
  PROVE  SumFunctionOnSet(f, S) \in Nat
<1>. DEFINE Bad == {T \in SUBSET S : SumFunctionOnSet(f, T) \notin Nat}
<1>1. SUFFICES ASSUME Bad # {} PROVE FALSE
  OBVIOUS
<1>2. PICK T \in Bad : \A U \in Bad : ~(U \subseteq T /\ U # T)
  <2>1. Bad \in SUBSET SUBSET S
    OBVIOUS
  <2>. HIDE DEF Bad
  <2>. QED BY <1>1, <2>1, Smallest
<1>3. T # {}
  <2>1. SumFunctionOnSet(f, {}) = 0
    BY SumEmpty
  <2>. QED BY <2>1
<1>4. IsFiniteSet(T) /\ Pick(T) \in T
  BY <1>3, PickIn, FS_Subset
<1>5. SumFunctionOnSet(f, T \ {Pick(T)}) \in Nat
  BY <1>2, <1>4
<1>6. SumFunctionOnSet(f, T) = f[Pick(T)] + SumFunctionOnSet(f, T \ {Pick(T)})
  BY <1>3, <1>4, SumPick
<1>. QED BY <1>2, <1>4, <1>5, <1>6

\* Any element may be taken out first.
LEMMA SumRemove ==
  ASSUME NEW f, NEW S, IsFiniteSet(S), \A x \in S : f[x] \in Nat, NEW x \in S
  PROVE  SumFunctionOnSet(f, S) = f[x] + SumFunctionOnSet(f, S \ {x})
<1>. DEFINE Sum(T) == SumFunctionOnSet(f, T)
            Bad == {T \in SUBSET S : \E y \in T : Sum(T) # f[y] + Sum(T \ {y})}
<1>1. SUFFICES ASSUME Bad # {} PROVE FALSE
  OBVIOUS
<1>2. PICK T \in Bad : \A U \in Bad : ~(U \subseteq T /\ U # T)
  <2>1. Bad \in SUBSET SUBSET S
    OBVIOUS
  <2>. HIDE DEF Bad
  <2>. QED BY <1>1, <2>1, Smallest
<1>3. PICK y \in T : Sum(T) # f[y] + Sum(T \ {y})
  BY <1>2
<1>. DEFINE p == Pick(T)
<1>4. p \in T /\ IsFiniteSet(T) /\ T \in SUBSET S
  BY <1>3, PickIn, FS_Subset
<1>5. Sum(T) = f[p] + Sum(T \ {p})
  BY <1>3, <1>4, SumPick
<1>6. y # p
  BY <1>3, <1>5
<1>. HIDE DEF p, Bad
<1>7. \A U \in SUBSET T : U # T => \A z \in U : Sum(U) = f[z] + Sum(U \ {z})
  BY <1>2, <1>4 DEF Bad
<1>8. /\ Sum(T \ {p}) = f[y] + Sum((T \ {p}) \ {y})
      /\ Sum(T \ {y}) = f[p] + Sum((T \ {y}) \ {p})
  BY <1>3, <1>4, <1>6, <1>7
<1>9. (T \ {p}) \ {y} = (T \ {y}) \ {p} /\ IsFiniteSet((T \ {y}) \ {p})
  BY <1>4, FS_Subset
<1>10. Sum((T \ {y}) \ {p}) \in Nat /\ f[p] \in Nat /\ f[y] \in Nat
  BY <1>3, <1>4, <1>9, SumNat
<1>. QED
  <2>. HIDE DEF Sum
  <2>. QED BY <1>3, <1>5, <1>8, <1>9, <1>10

\* Another element adds its value.
LEMMA SumAdd ==
  ASSUME NEW f, NEW S, IsFiniteSet(S), \A y \in S : f[y] \in Nat, NEW x, x \notin S, f[x] \in Nat
  PROVE  SumFunctionOnSet(f, S \cup {x}) = f[x] + SumFunctionOnSet(f, S)
<1>1. IsFiniteSet(S \cup {x})
  BY FS_AddElement
<1>2. SumFunctionOnSet(f, S \cup {x}) = f[x] + SumFunctionOnSet(f, (S \cup {x}) \ {x})
  BY <1>1, SumRemove
<1>3. (S \cup {x}) \ {x} = S
  OBVIOUS
<1>. QED BY <1>2, <1>3

\* A smaller function has a smaller sum, and the same sum only if it is the
\* same on the set.
LEMMA SumMonotone ==
  ASSUME NEW S, IsFiniteSet(S),
         NEW f, NEW g, \A x \in S : f[x] \in Nat /\ g[x] \in Nat /\ f[x] <= g[x]
  PROVE  /\ SumFunctionOnSet(f, S) <= SumFunctionOnSet(g, S)
         /\ SumFunctionOnSet(f, S) = SumFunctionOnSet(g, S) => \A x \in S : f[x] = g[x]
<1>. DEFINE F(T) == SumFunctionOnSet(f, T)
            G(T) == SumFunctionOnSet(g, T)
            Good(T) == F(T) <= G(T) /\ (F(T) = G(T) => \A x \in T : f[x] = g[x])
            Bad == {T \in SUBSET S : ~Good(T)}
<1>1. SUFFICES ASSUME Bad # {} PROVE FALSE
  OBVIOUS
<1>2. PICK T \in Bad : \A U \in Bad : ~(U \subseteq T /\ U # T)
  <2>1. Bad \in SUBSET SUBSET S
    OBVIOUS
  <2>. HIDE DEF Bad
  <2>. QED BY <1>1, <2>1, Smallest
<1>3. T # {}
  <2>1. F({}) = 0 /\ G({}) = 0
    BY SumEmpty
  <2>2. Good({})
    BY <2>1
  <2>. QED BY <2>2
<1>. DEFINE p == Pick(T)
            U == T \ {p}
<1>4. p \in T /\ IsFiniteSet(T) /\ T \in SUBSET S /\ U \in SUBSET S /\ U # T /\ U \subseteq T
  BY <1>3, PickIn, FS_Subset
<1>5. F(T) = f[p] + F(U) /\ G(T) = g[p] + G(U)
  BY <1>3, <1>4, SumPick
<1>6. F(U) \in Nat /\ G(U) \in Nat
  <2>1. IsFiniteSet(U)
    BY <1>4, FS_Subset
  <2>. QED BY <1>4, <2>1, SumNat
<1>7. Good(U)
  BY <1>2, <1>4
<1>8. f[p] \in Nat /\ g[p] \in Nat /\ f[p] <= g[p]
  BY <1>4
<1>9. T = U \cup {p}
  BY <1>4
<1>10. Good(T)
  <2>1. F(T) <= G(T)
    <3>. HIDE DEF F, G, p, U
    <3>. QED BY <1>5, <1>6, <1>7, <1>8
  <2>2. ASSUME F(T) = G(T) PROVE \A x \in T : f[x] = g[x]
    <3>1. F(U) = G(U) /\ f[p] = g[p]
      <4>. HIDE DEF F, G, p, U
      <4>. QED BY <1>5, <1>6, <1>7, <1>8, <2>2
    <3>. HIDE DEF F, G, p, U
    <3>. QED BY <1>7, <1>9, <3>1
  <2>. QED BY <2>1, <2>2
<1>. QED BY <1>2, <1>10

\* Functions that agree on the set have one sum.
LEMMA SumSame ==
  ASSUME NEW S, IsFiniteSet(S), NEW f, NEW g, \A x \in S : f[x] \in Nat /\ f[x] = g[x]
  PROVE  SumFunctionOnSet(f, S) = SumFunctionOnSet(g, S)
<1>1. /\ SumFunctionOnSet(f, S) <= SumFunctionOnSet(g, S)
      /\ SumFunctionOnSet(g, S) <= SumFunctionOnSet(f, S)
  BY SumMonotone
<1>2. SumFunctionOnSet(f, S) \in Nat /\ SumFunctionOnSet(g, S) \in Nat
  BY SumNat
<1>. QED BY <1>1, <1>2

\* Zeros add up to zero.
LEMMA SumZero ==
  ASSUME NEW S, IsFiniteSet(S), NEW f, \A x \in S : f[x] = 0
  PROVE  SumFunctionOnSet(f, S) = 0
<1>. DEFINE Bad == {T \in SUBSET S : SumFunctionOnSet(f, T) # 0}
<1>1. SUFFICES ASSUME Bad # {} PROVE FALSE
  OBVIOUS
<1>2. PICK T \in Bad : \A U \in Bad : ~(U \subseteq T /\ U # T)
  <2>1. Bad \in SUBSET SUBSET S
    OBVIOUS
  <2>. HIDE DEF Bad
  <2>. QED BY <1>1, <2>1, Smallest
<1>3. T # {}
  <2>1. SumFunctionOnSet(f, {}) = 0
    BY SumEmpty
  <2>. QED BY <2>1
<1>4. IsFiniteSet(T) /\ Pick(T) \in T
  BY <1>3, PickIn, FS_Subset
<1>5. SumFunctionOnSet(f, T \ {Pick(T)}) = 0
  BY <1>2, <1>4
<1>6. SumFunctionOnSet(f, T) = f[Pick(T)] + SumFunctionOnSet(f, T \ {Pick(T)})
  BY <1>3, <1>4, SumPick
<1>. QED BY <1>2, <1>4, <1>5, <1>6

\* A part has no larger sum than the whole.
LEMMA SumSubset ==
  ASSUME NEW S, IsFiniteSet(S), NEW T \in SUBSET S, NEW f, \A x \in S : f[x] \in Nat
  PROVE  SumFunctionOnSet(f, T) <= SumFunctionOnSet(f, S)
<1>. DEFINE Sum(U) == SumFunctionOnSet(f, U)
            Bad == {U \in SUBSET S : T \subseteq U /\ ~(Sum(T) <= Sum(U))}
<1>1. SUFFICES ASSUME Bad # {} PROVE FALSE
  OBVIOUS
<1>2. PICK U \in Bad : \A V \in Bad : ~(V \subseteq U /\ V # U)
  <2>1. Bad \in SUBSET SUBSET S
    OBVIOUS
  <2>. HIDE DEF Bad
  <2>. QED BY <1>1, <2>1, Smallest
<1>3. IsFiniteSet(T) /\ IsFiniteSet(U) /\ Sum(T) \in Nat /\ Sum(U) \in Nat
  BY FS_Subset, SumNat
<1>4. T # U
  BY <1>2, <1>3
<1>5. PICK x \in U : x \notin T
  BY <1>2, <1>4
<1>. DEFINE V == U \ {x}
<1>6. V \in SUBSET S /\ T \subseteq V /\ V \subseteq U /\ V # U
  BY <1>2, <1>5
<1>7. Sum(T) <= Sum(V)
  BY <1>2, <1>6
<1>8. Sum(U) = f[x] + Sum(V) /\ Sum(V) \in Nat /\ f[x] \in Nat
  <2>1. IsFiniteSet(V)
    BY <1>3, <1>6, FS_Subset
  <2>2. \A y \in U : f[y] \in Nat
    OBVIOUS
  <2>3. Sum(U) = f[x] + Sum(U \ {x})
    BY <1>3, <2>2, SumRemove
  <2>. QED BY <2>1, <2>2, <2>3, SumNat
<1>9. Sum(T) <= Sum(U)
  <2>. HIDE DEF Sum, V
  <2>. QED BY <1>3, <1>7, <1>8
<1>. QED BY <1>2, <1>9
=============================================================================
