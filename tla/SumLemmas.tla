------------------------------- MODULE SumLemmas -------------------------------
(***************************************************************************)
(* What the sums of the community modules, which are recursive functions   *)
(* over the subsets of a set, do on every finite set: they add one element *)
(* at a time, whichever is chosen first.                                   *)
(*                                                                         *)
(* No induction rule can be applied to them; each lemma takes a smallest   *)
(* counterexample among the finite subsets instead.                        *)
(***************************************************************************)
EXTENDS Integers, FiniteSetsExt, Functions, FiniteSetTheorems, TLAPS

SumOf(f, S) == SumFunctionOnSet(f, S)

Pick(S) == CHOOSE x \in S : TRUE
IsSum(g, f, S) == g = [T \in SUBSET S |-> IF T = {} THEN 0 ELSE f[Pick(T)] + g[T \ {Pick(T)}]]

(* A set of subsets of a finite set has a smallest member. *)
LEMMA HasSmallest ==
  ASSUME NEW S, IsFiniteSet(S), NEW bad \in SUBSET SUBSET S, bad # {}
  PROVE  \E T \in bad : \A U \in SUBSET T : U # T => U \notin bad
<1>1. IsWellFoundedOn(StrictSubsetOrdering(S), SUBSET S)
  BY FS_StrictSubsetOrderingWellFounded, FS_FiniteSubsetsOfFinite
<1>2. PICK T \in bad : \A U \in bad : ~(<<U, T>> \in StrictSubsetOrdering(S))
  BY <1>1, WFMin
<1>3. \A U \in SUBSET T : U # T => U \notin bad
  <2> SUFFICES ASSUME NEW U \in bad, U \subseteq T, U # T PROVE FALSE
    OBVIOUS
  <2>1. <<U, T>> \in StrictSubsetOrdering(S)
    BY DEF StrictSubsetOrdering
  <2> QED
    BY <1>2, <2>1
<1> QED
  BY <1>3

LEMMA PickIs ==
  ASSUME NEW S, S # {}
  PROVE  Pick(S) \in S
BY DEF Pick

LEMMA ImageIsFinite ==
  ASSUME NEW S, IsFiniteSet(S), NEW key
  PROVE  IsFiniteSet({key[x] : x \in S})
<1> DEFINE K == {key[x] : x \in S}
           f == [x \in S |-> key[x]]
<1>1. f \in Surjection(S, K)
  BY DEF Surjection
<1> QED
  BY <1>1, FS_Surjection

-----------------------------------------------------------------------------
(* There is one function that sums.                                        *)

LEMMA IsSumAt ==
  ASSUME NEW f, NEW S, NEW g, IsSum(g, f, S), NEW T \in SUBSET S
  PROVE  /\ T = {} => g[T] = 0
         /\ T # {} => g[T] = f[Pick(T)] + g[T \ {Pick(T)}]
BY DEF IsSum

LEMMA SumsAgree ==
  ASSUME NEW f, NEW S, IsFiniteSet(S), NEW T \in SUBSET S,
         NEW g, IsSum(g, f, S), NEW h, IsSum(h, f, T)
  PROVE  \A U \in SUBSET T : g[U] = h[U]
<1> DEFINE bad == {U \in SUBSET T : g[U] # h[U]}
<1> SUFFICES ASSUME bad # {} PROVE FALSE
  OBVIOUS
<1>1. IsFiniteSet(T) /\ bad \in SUBSET SUBSET T
  BY FS_Subset
<1> HIDE DEF bad
<1>2. PICK U \in bad : \A V \in SUBSET U : V # U => V \notin bad
  BY <1>1, HasSmallest
<1> USE DEF bad
<1>3. U \in SUBSET T /\ U \in SUBSET S /\ g[U] # h[U]
  OBVIOUS
<1>4. U # {}
  BY <1>3, IsSumAt
<1> DEFINE V == U \ {Pick(U)}
<1>5. V \in SUBSET U /\ V # U
  BY <1>4, PickIs
<1>6. g[V] = h[V]
  BY <1>2, <1>3, <1>5
<1> QED
  BY <1>3, <1>4, <1>6, IsSumAt

LEMMA SumExists ==
  ASSUME NEW f, NEW S, IsFiniteSet(S)
  PROVE  \E g : IsSum(g, f, S)
<1> DEFINE bad == {T \in SUBSET S : ~\E g : IsSum(g, f, T)}
<1> SUFFICES ASSUME bad # {} PROVE FALSE
  OBVIOUS
<1>0. bad \in SUBSET SUBSET S
  OBVIOUS
<1> HIDE DEF bad
<1>1. PICK T \in bad : \A U \in SUBSET T : U # T => U \notin bad
  BY <1>0, HasSmallest
<1> USE DEF bad
<1> DEFINE G(U) == CHOOSE g : IsSum(g, f, U)
           rest(U) == U \ {Pick(U)}
           h == [U \in SUBSET T |-> IF U = {} THEN 0 ELSE f[Pick(U)] + G(rest(U))[rest(U)]]
<1>2. \A U \in SUBSET T : U # T => IsSum(G(U), f, U)
  <2> SUFFICES ASSUME NEW U \in SUBSET T, U # T PROVE IsSum(G(U), f, U)
    OBVIOUS
  <2>1. \E g : IsSum(g, f, U)
    BY <1>1
  <2> QED
    BY <2>1
<1>3. \A U \in SUBSET T : U # {} => rest(U) \in SUBSET T /\ rest(U) # T /\ rest(U) # U /\ rest(U) \subseteq U
  BY PickIs
<1> HIDE DEF G, rest
<1>4. \A U \in SUBSET T : U # T => h[U] = G(U)[U]
  <2> SUFFICES ASSUME NEW U \in SUBSET T, U # T PROVE h[U] = G(U)[U]
    OBVIOUS
  <2>1. IsSum(G(U), f, U)
    BY <1>2
  <2>2. CASE U = {}
    <3>1. U \in SUBSET U
      OBVIOUS
    <3>2. G(U)[U] = 0
      BY <2>1, <2>2, <3>1, IsSumAt
    <3> QED
      BY <2>2, <3>2
  <2>3. CASE U # {}
    <3>1. IsSum(G(rest(U)), f, rest(U)) /\ rest(U) \in SUBSET U
      BY <1>2, <1>3, <2>3
    <3>2. IsFiniteSet(U)
      BY FS_Subset
    <3>3. G(U)[rest(U)] = G(rest(U))[rest(U)]
      BY <2>1, <3>1, <3>2, SumsAgree
    <3>4. G(U)[U] = f[Pick(U)] + G(U)[rest(U)]
      <4>1. U \in SUBSET U
        OBVIOUS
      <4> QED
        BY <2>1, <2>3, <4>1, IsSumAt DEF rest
    <3> QED
      BY <2>3, <3>3, <3>4
  <2> QED
    BY <2>2, <2>3
<1>5. h = [U \in SUBSET T |-> IF U = {} THEN 0 ELSE f[Pick(U)] + h[rest(U)]]
  <2>1. \A U \in SUBSET T : U # {} => h[rest(U)] = G(rest(U))[rest(U)]
    BY <1>3, <1>4
  <2> DEFINE k == [U \in SUBSET T |-> IF U = {} THEN 0 ELSE f[Pick(U)] + h[rest(U)]]
  <2>2. \A U \in SUBSET T : h[U] = k[U]
    BY <2>1
  <2> QED
    BY <2>2
<1>6. IsSum(h, f, T)
  BY <1>5 DEF IsSum, rest
<1> QED
  BY <1>6

LEMMA TotalIs ==
  ASSUME NEW f, NEW S, IsFiniteSet(S)
  PROVE  \E g : IsSum(g, f, S) /\ \A T \in SUBSET S : SumOf(f, T) = g[T]
<1> DEFINE G(U) == CHOOSE g : IsSum(g, f, U)
<1>1. \A T \in SUBSET S : IsSum(G(T), f, T)
  <2> SUFFICES ASSUME NEW T \in SUBSET S PROVE IsSum(G(T), f, T)
    OBVIOUS
  <2>1. \E g : IsSum(g, f, T)
    BY SumExists, FS_Subset
  <2> QED
    BY <2>1
<1>2. \A T \in SUBSET S : SumOf(f, T) = G(T)[T]
  BY DEF SumOf, SumFunctionOnSet, FoldFunctionOnSet, MapThenFoldSet, IsSum, Pick
<1> HIDE DEF G
<1>3. \A T \in SUBSET S : G(T)[T] = G(S)[T]
  BY <1>1, SumsAgree
<1> QED
  BY <1>1, <1>2, <1>3

-----------------------------------------------------------------------------
(* The laws of sums.                                                       *)

LEMMA TotalFirst ==
  ASSUME NEW f, NEW S, IsFiniteSet(S)
  PROVE  /\ S = {} => SumOf(f, S) = 0
         /\ S # {} => SumOf(f, S) = f[Pick(S)] + SumOf(f, S \ {Pick(S)})
<1>1. PICK g : IsSum(g, f, S) /\ \A T \in SUBSET S : SumOf(f, T) = g[T]
  BY TotalIs
<1>2. S \in SUBSET S /\ S \ {Pick(S)} \in SUBSET S
  OBVIOUS
<1>3. SumOf(f, S) = g[S] /\ SumOf(f, S \ {Pick(S)}) = g[S \ {Pick(S)}]
  BY <1>1, <1>2
<1> QED
  BY <1>1, <1>2, <1>3, IsSumAt

LEMMA TotalEmpty == \A f : SumOf(f, {}) = 0
BY TotalFirst, FS_EmptySet

LEMMA TotalType ==
  ASSUME NEW f, NEW S, IsFiniteSet(S), \A x \in S : f[x] \in Int
  PROVE  SumOf(f, S) \in Int
<1> DEFINE bad == {T \in SUBSET S : SumOf(f, T) \notin Int}
<1> SUFFICES ASSUME bad # {} PROVE FALSE
  OBVIOUS
<1>0. bad \in SUBSET SUBSET S
  OBVIOUS
<1> HIDE DEF bad
<1>1. PICK T \in bad : \A U \in SUBSET T : U # T => U \notin bad
  BY <1>0, HasSmallest
<1> USE DEF bad
<1>2. IsFiniteSet(T) /\ SumOf(f, T) \notin Int
  BY FS_Subset
<1>3. T # {}
  <2>1. SumOf(f, {}) \in Int
    BY TotalEmpty
  <2> QED
    BY <1>2, <2>1
<1>4. Pick(T) \in T
  BY <1>3, PickIs
<1>5. SumOf(f, T \ {Pick(T)}) \in Int
  BY <1>1, <1>4
<1> QED
  BY <1>2, <1>3, <1>4, <1>5, TotalFirst

(* Whatever element is added, and whichever the sum begins with.           *)
LEMMA TotalAdds ==
  ASSUME NEW f, NEW S, IsFiniteSet(S), \A x \in S : f[x] \in Int, NEW y, y \notin S, f[y] \in Int
  PROVE  SumOf(f, S \cup {y}) = f[y] + SumOf(f, S)
<1> DEFINE R == S \cup {y}
           bad == {T \in SUBSET R : \E x \in R \ T : SumOf(f, T \cup {x}) # f[x] + SumOf(f, T)}
<1>1. IsFiniteSet(R) /\ \A x \in R : f[x] \in Int
  BY FS_AddElement
<1> SUFFICES ASSUME bad # {} PROVE FALSE
  OBVIOUS
<1>0. bad \in SUBSET SUBSET R
  OBVIOUS
<1> HIDE DEF bad
<1>2. PICK T \in bad : \A U \in SUBSET T : U # T => U \notin bad
  BY <1>0, <1>1, HasSmallest
<1> USE DEF bad
<1>3. PICK x \in R \ T : SumOf(f, T \cup {x}) # f[x] + SumOf(f, T)
  OBVIOUS
<1> DEFINE W == T \cup {x}
           p == Pick(W)
<1>4. /\ IsFiniteSet(W) /\ IsFiniteSet(T) /\ W # {} /\ p \in W /\ W \in SUBSET R
  BY <1>1, FS_Subset, PickIs
<1>5. SumOf(f, W) = f[p] + SumOf(f, W \ {p})
  BY <1>4, TotalFirst
<1> HIDE DEF p
<1>6. CASE p = x
  <2>1. W \ {p} = T
    BY <1>3, <1>6
  <2> QED
    BY <1>3, <1>5, <1>6, <2>1
<1>7. CASE p # x
  <2> DEFINE V == T \ {p}
  <2>1. p \in T /\ V \in SUBSET T /\ V # T /\ V \in SUBSET R
    BY <1>4, <1>7
  <2>2. V \notin bad
    BY <1>2, <2>1
  <2>3. SumOf(f, V \cup {x}) = f[x] + SumOf(f, V) /\ SumOf(f, V \cup {p}) = f[p] + SumOf(f, V)
    BY <2>1, <2>2, <1>3
  <2>4. V \cup {x} = W \ {p} /\ V \cup {p} = T
    BY <1>3, <1>7, <2>1
  <2>5. f[p] \in Int /\ f[x] \in Int /\ SumOf(f, V) \in Int
    <3>1. IsFiniteSet(V) /\ \A z \in V : f[z] \in Int
      BY <1>1, <2>1, FS_Subset
    <3> QED
      BY <1>1, <1>3, <2>1, <3>1, TotalType
  <2> HIDE DEF V, W
  <2>6. SumOf(f, W) = f[p] + (f[x] + SumOf(f, V)) /\ SumOf(f, T) = f[p] + SumOf(f, V)
    BY <1>5, <2>3, <2>4
  <2>7. SumOf(f, W) = f[x] + SumOf(f, T)
    BY <2>5, <2>6
  <2> QED
    BY <1>3, <2>7 DEF W
<1> QED
  BY <1>6, <1>7

LEMMA TotalRemoves ==
  ASSUME NEW f, NEW S, IsFiniteSet(S), \A x \in S : f[x] \in Int, NEW y \in S
  PROVE  SumOf(f, S) = f[y] + SumOf(f, S \ {y})
<1>1. IsFiniteSet(S \ {y}) /\ y \notin S \ {y} /\ (S \ {y}) \cup {y} = S
  BY FS_Subset
<1> DEFINE R == S \ {y}
<1>2. \A x \in R : f[x] \in Int
  OBVIOUS
<1> HIDE DEF R
<1>3. IsFiniteSet(R) /\ y \notin R /\ R \cup {y} = S
  BY <1>1 DEF R
<1>4. SumOf(f, R \cup {y}) = f[y] + SumOf(f, R)
  BY <1>2, <1>3, TotalAdds
<1> QED
  BY <1>3, <1>4 DEF R

(* A sum depends on the values within the set only. *)
LEMMA TotalSame ==
  ASSUME NEW f, NEW g, NEW S, IsFiniteSet(S), \A x \in S : f[x] = g[x]
  PROVE  SumOf(f, S) = SumOf(g, S)
<1> DEFINE bad == {T \in SUBSET S : SumOf(f, T) # SumOf(g, T)}
<1> SUFFICES ASSUME bad # {} PROVE FALSE
  OBVIOUS
<1>0. bad \in SUBSET SUBSET S
  OBVIOUS
<1> HIDE DEF bad
<1>1. PICK T \in bad : \A U \in SUBSET T : U # T => U \notin bad
  BY <1>0, HasSmallest
<1> USE DEF bad
<1>2. IsFiniteSet(T) /\ SumOf(f, T) # SumOf(g, T)
  BY FS_Subset
<1>3. T # {}
  <2>1. SumOf(f, {}) = SumOf(g, {})
    BY TotalEmpty
  <2> QED
    BY <1>2, <2>1
<1>4. Pick(T) \in T
  BY <1>3, PickIs
<1>5. SumOf(f, T \ {Pick(T)}) = SumOf(g, T \ {Pick(T)})
  BY <1>1, <1>4
<1> QED
  BY <1>2, <1>3, <1>4, <1>5, TotalFirst

(* Sets that have nothing in common are summed up one after the other. *)
LEMMA TotalUnion ==
  ASSUME NEW f, NEW S, IsFiniteSet(S), NEW R, IsFiniteSet(R), S \cap R = {},
         \A x \in S \cup R : f[x] \in Int
  PROVE  SumOf(f, S \cup R) = SumOf(f, S) + SumOf(f, R)
<1> DEFINE bad == {T \in SUBSET S : SumOf(f, T \cup R) # SumOf(f, T) + SumOf(f, R)}
<1> SUFFICES ASSUME bad # {} PROVE FALSE
  OBVIOUS
<1>0. bad \in SUBSET SUBSET S
  OBVIOUS
<1> HIDE DEF bad
<1>1. PICK T \in bad : \A U \in SUBSET T : U # T => U \notin bad
  BY <1>0, HasSmallest
<1> USE DEF bad
<1>2. IsFiniteSet(T) /\ SumOf(f, T \cup R) # SumOf(f, T) + SumOf(f, R)
  BY FS_Subset
<1>3. SumOf(f, R) \in Int
  BY TotalType
<1>4. T # {}
  <2>1. SumOf(f, {} \cup R) = SumOf(f, {}) + SumOf(f, R)
    <3>1. {} \cup R = R
      OBVIOUS
    <3> QED
      BY <1>3, <3>1, TotalEmpty
  <2> QED
    BY <1>2, <2>1
<1>5. PICK y \in T : TRUE
  BY <1>4
<1> DEFINE V == T \ {y}
<1>6. SumOf(f, V \cup R) = SumOf(f, V) + SumOf(f, R)
  BY <1>1
<1>7. IsFiniteSet(T \cup R) /\ (T \cup R) \ {y} = V \cup R
  BY <1>2, FS_Union
<1>8. SumOf(f, T \cup R) = f[y] + SumOf(f, V \cup R)
  <2> DEFINE W == T \cup R
  <2>1. \A x \in W : f[x] \in Int
    OBVIOUS
  <2>2. IsFiniteSet(W) /\ y \in W /\ W \ {y} = V \cup R
    BY <1>7
  <2> HIDE DEF W, V
  <2>3. SumOf(f, W) = f[y] + SumOf(f, W \ {y})
    BY <2>1, <2>2, TotalRemoves
  <2> QED
    BY <2>2, <2>3 DEF W
<1>9. SumOf(f, T) = f[y] + SumOf(f, V)
  BY <1>2, TotalRemoves
<1>10. f[y] \in Int /\ SumOf(f, V) \in Int
  <2>1. IsFiniteSet(V) /\ \A x \in V : f[x] \in Int
    BY <1>2, FS_Subset
  <2> HIDE DEF V
  <2> QED
    BY <2>1, TotalType
<1> HIDE DEF V
<1> QED
  BY <1>2, <1>3, <1>6, <1>8, <1>9, <1>10

(* Sums of sums. *)
LEMMA TotalPlus ==
  ASSUME NEW f, NEW g, NEW h, NEW S, IsFiniteSet(S),
         \A x \in S : f[x] \in Int /\ g[x] \in Int /\ h[x] = f[x] + g[x]
  PROVE  SumOf(h, S) = SumOf(f, S) + SumOf(g, S)
<1> DEFINE bad == {T \in SUBSET S : SumOf(h, T) # SumOf(f, T) + SumOf(g, T)}
<1> SUFFICES ASSUME bad # {} PROVE FALSE
  OBVIOUS
<1>0. bad \in SUBSET SUBSET S
  OBVIOUS
<1> HIDE DEF bad
<1>1. PICK T \in bad : \A U \in SUBSET T : U # T => U \notin bad
  BY <1>0, HasSmallest
<1> USE DEF bad
<1>2. IsFiniteSet(T) /\ SumOf(h, T) # SumOf(f, T) + SumOf(g, T)
  BY FS_Subset
<1>3. T # {}
  <2>1. SumOf(h, {}) = SumOf(f, {}) + SumOf(g, {})
    BY TotalEmpty
  <2> QED
    BY <1>2, <2>1
<1> DEFINE y == Pick(T)
           V == T \ {y}
<1>4. y \in T
  BY <1>3, PickIs
<1>5. SumOf(h, V) = SumOf(f, V) + SumOf(g, V)
  BY <1>1, <1>4
<1>6. SumOf(f, V) \in Int /\ SumOf(g, V) \in Int
  <2>1. IsFiniteSet(V) /\ \A x \in V : f[x] \in Int /\ g[x] \in Int
    BY <1>2, FS_Subset
  <2> HIDE DEF V
  <2> QED
    BY <2>1, TotalType
<1>7. /\ SumOf(h, T) = h[y] + SumOf(h, V) /\ SumOf(f, T) = f[y] + SumOf(f, V)
      /\ SumOf(g, T) = g[y] + SumOf(g, V)
  BY <1>2, <1>3, TotalFirst
<1>8. f[y] \in Int /\ g[y] \in Int /\ h[y] = f[y] + g[y]
  BY <1>4
<1> HIDE DEF y, V
<1> QED
  BY <1>2, <1>5, <1>6, <1>7, <1>8

LEMMA TotalAtMost ==
  ASSUME NEW f, NEW g, NEW S, IsFiniteSet(S),
         \A x \in S : f[x] \in Int /\ g[x] \in Int /\ f[x] <= g[x]
  PROVE  SumOf(f, S) <= SumOf(g, S)
<1> DEFINE bad == {T \in SUBSET S : ~(SumOf(f, T) <= SumOf(g, T))}
<1> SUFFICES ASSUME bad # {} PROVE FALSE
  OBVIOUS
<1>0. bad \in SUBSET SUBSET S
  OBVIOUS
<1> HIDE DEF bad
<1>1. PICK T \in bad : \A U \in SUBSET T : U # T => U \notin bad
  BY <1>0, HasSmallest
<1> USE DEF bad
<1>2. IsFiniteSet(T) /\ ~(SumOf(f, T) <= SumOf(g, T))
  BY FS_Subset
<1>3. T # {}
  <2>1. SumOf(f, {}) <= SumOf(g, {})
    BY TotalEmpty
  <2> QED
    BY <1>2, <2>1
<1> DEFINE y == Pick(T)
           V == T \ {y}
<1>4. y \in T
  BY <1>3, PickIs
<1>5. SumOf(f, V) <= SumOf(g, V)
  BY <1>1, <1>4
<1>6. SumOf(f, V) \in Int /\ SumOf(g, V) \in Int
  <2>1. IsFiniteSet(V) /\ \A x \in V : f[x] \in Int /\ g[x] \in Int
    BY <1>2, FS_Subset
  <2> HIDE DEF V
  <2> QED
    BY <2>1, TotalType
<1>7. SumOf(f, T) = f[y] + SumOf(f, V) /\ SumOf(g, T) = g[y] + SumOf(g, V)
  BY <1>2, <1>3, TotalFirst
<1>8. f[y] \in Int /\ g[y] \in Int /\ f[y] <= g[y]
  BY <1>4
<1> HIDE DEF y, V
<1> QED
  BY <1>2, <1>5, <1>6, <1>7, <1>8

LEMMA TotalZero ==
  ASSUME NEW f, NEW S, IsFiniteSet(S), \A x \in S : f[x] = 0
  PROVE  SumOf(f, S) = 0
<1>1. SumOf(f, S) = SumOf(f, S) + SumOf(f, S)
  BY TotalPlus
<1>2. SumOf(f, S) \in Int
  BY TotalType
<1> DEFINE n == SumOf(f, S)
<1> HIDE DEF n
<1>3. n \in Int /\ n = n + n
  BY <1>1, <1>2 DEF n
<1>4. n = 0
  BY <1>3
<1> QED
  BY <1>4 DEF n

(* The same values under other names make the same sum.                    *)
LEMMA TotalMoved ==
  ASSUME NEW f, NEW g, NEW S, IsFiniteSet(S), NEW move, \A x, y \in S : move[x] = move[y] => x = y,
         \A x \in S : f[x] \in Int /\ g[move[x]] = f[x]
  PROVE  SumOf(g, {move[x] : x \in S}) = SumOf(f, S)
<1> DEFINE To(T) == {move[x] : x \in T}
           bad == {T \in SUBSET S : ~(IsFiniteSet(To(T)) /\ SumOf(g, To(T)) = SumOf(f, T))}
<1> SUFFICES ASSUME bad # {} PROVE FALSE
  OBVIOUS
<1>0. bad \in SUBSET SUBSET S
  OBVIOUS
<1> HIDE DEF bad
<1>1. PICK T \in bad : \A U \in SUBSET T : U # T => U \notin bad
  BY <1>0, HasSmallest
<1> USE DEF bad
<1>2. IsFiniteSet(T) /\ ~(IsFiniteSet(To(T)) /\ SumOf(g, To(T)) = SumOf(f, T)) /\ T \subseteq S
  BY FS_Subset
<1> HIDE DEF bad
<1>3. T # {}
  <2>1. To({}) = {} /\ IsFiniteSet(To({})) /\ SumOf(g, To({})) = SumOf(f, {})
    <3>1. To({}) = {}
      OBVIOUS
    <3> QED
      BY <3>1, TotalEmpty, FS_EmptySet
  <2> QED
    BY <1>2, <2>1
<1>4. PICK y \in T : TRUE
  BY <1>3
<1> DEFINE V == T \ {y}
<1>5. IsFiniteSet(V) /\ IsFiniteSet(To(V)) /\ SumOf(g, To(V)) = SumOf(f, V)
  <2>1. V \in SUBSET T /\ V # T /\ V \in SUBSET S
    BY <1>2
  <2> QED
    BY <1>1, <1>2, <2>1, FS_Subset DEF bad
<1>6. To(T) = To(V) \cup {move[y]}
  OBVIOUS
<1>7. move[y] \notin To(V)
  BY <1>2
<1>8. (\A x \in To(V) : g[x] \in Int) /\ g[move[y]] = f[y] /\ f[y] \in Int
  BY <1>2
<1>9. IsFiniteSet(To(T)) /\ SumOf(g, To(T)) = f[y] + SumOf(g, To(V))
  <2> DEFINE W == To(V)
  <2>1. IsFiniteSet(W) /\ move[y] \notin W /\ (\A x \in W : g[x] \in Int) /\ g[move[y]] = f[y] /\ f[y] \in Int
    BY <1>5, <1>7, <1>8
  <2> HIDE DEF W
  <2>2. SumOf(g, W \cup {move[y]}) = f[y] + SumOf(g, W) /\ IsFiniteSet(W \cup {move[y]})
    BY <2>1, TotalAdds, FS_AddElement
  <2> QED
    BY <1>6, <2>2 DEF W
<1>10. SumOf(f, T) = f[y] + SumOf(f, V)
  BY <1>2, TotalRemoves
<1> QED
  BY <1>2, <1>5, <1>9, <1>10

(* One value changes. *)
LEMMA TotalChanges ==
  ASSUME NEW f, NEW g, NEW S, IsFiniteSet(S), NEW y \in S,
         \A x \in S : f[x] \in Int, g[y] \in Int, \A x \in S \ {y} : g[x] = f[x]
  PROVE  SumOf(g, S) = SumOf(f, S) - f[y] + g[y]
<1> DEFINE R == S \ {y}
<1>1. IsFiniteSet(R) /\ (\A x \in S : g[x] \in Int) /\ (\A x \in R : g[x] = f[x] /\ f[x] \in Int)
  BY FS_Subset
<1>2. SumOf(f, S) = f[y] + SumOf(f, R) /\ SumOf(g, S) = g[y] + SumOf(g, R)
  <2>1. SumOf(g, S) = g[y] + SumOf(g, R)
    BY <1>1, TotalRemoves
  <2> QED
    BY <2>1, TotalRemoves
<1> HIDE DEF R
<1>3. SumOf(f, R) = SumOf(g, R) /\ SumOf(f, R) \in Int
  BY <1>1, TotalSame, TotalType
<1> QED
  BY <1>2, <1>3

(* Equal values make a product. *)
LEMMA TotalConstant ==
  ASSUME NEW f, NEW S, IsFiniteSet(S), NEW q \in Int, \A x \in S : f[x] = q
  PROVE  SumOf(f, S) = Cardinality(S) * q
<1> DEFINE bad == {T \in SUBSET S : SumOf(f, T) # Cardinality(T) * q}
<1> SUFFICES ASSUME bad # {} PROVE FALSE
  OBVIOUS
<1>0. bad \in SUBSET SUBSET S
  OBVIOUS
<1> HIDE DEF bad
<1>1. PICK T \in bad : \A U \in SUBSET T : U # T => U \notin bad
  BY <1>0, HasSmallest
<1> USE DEF bad
<1>2. IsFiniteSet(T) /\ SumOf(f, T) # Cardinality(T) * q
  BY FS_Subset
<1>3. T # {}
  <2>1. SumOf(f, {}) = 0 /\ Cardinality({}) * q = 0
    BY TotalEmpty, FS_EmptySet
  <2> QED
    BY <1>2, <2>1
<1> DEFINE y == Pick(T)
           V == T \ {y}
<1>4. y \in T
  BY <1>3, PickIs
<1>5. SumOf(f, V) = Cardinality(V) * q
  BY <1>1, <1>4
<1>6. SumOf(f, T) = f[y] + SumOf(f, V) /\ f[y] = q
  BY <1>2, <1>3, <1>4, TotalFirst
<1>7. Cardinality(T) \in Nat /\ Cardinality(V) = Cardinality(T) - 1
  BY <1>2, <1>4, FS_RemoveElement, FS_CardinalityType
<1> HIDE DEF y, V
<1>8. Cardinality(V) * q + q = Cardinality(T) * q
  <2> DEFINE n == Cardinality(T)
  <2>1. n \in Nat
    BY <1>7
  <2> HIDE DEF n
  <2>2. (n - 1) * q + q = n * q
    BY <2>1
  <2> QED
    BY <1>7, <2>2 DEF n
<1>9. Cardinality(V) * q \in Int
  BY <1>7
<1> QED
  BY <1>2, <1>5, <1>6, <1>8, <1>9

LEMMA TotalNegated ==
  ASSUME NEW f, NEW g, NEW S, IsFiniteSet(S), \A x \in S : f[x] \in Int /\ g[x] = -f[x]
  PROVE  SumOf(g, S) = -SumOf(f, S)
<1> DEFINE h == [x \in S |-> 0]
<1>1. \A x \in S : f[x] \in Int /\ g[x] \in Int /\ h[x] = f[x] + g[x] /\ h[x] = 0
  OBVIOUS
<1> HIDE DEF h
<1>2. SumOf(h, S) = 0 /\ SumOf(f, S) \in Int /\ SumOf(g, S) \in Int
  BY <1>1, TotalZero, TotalType
<1>3. SumOf(h, S) = SumOf(f, S) + SumOf(g, S)
  BY <1>1, TotalPlus
<1> QED
  BY <1>2, <1>3

(* What is summed up group by group is summed up as a whole. *)
LEMMA TotalGrouped ==
  ASSUME NEW f, NEW S, IsFiniteSet(S), \A x \in S : f[x] \in Int,
         NEW key, NEW K, IsFiniteSet(K), \A x \in S : key[x] \in K,
         NEW part, \A k \in K : \A x : x \in part[k] <=> x \in S /\ key[x] = k,
         NEW g, \A k \in K : g[k] = SumOf(f, part[k])
  PROVE  SumOf(g, K) = SumOf(f, S)
<1> DEFINE within(T) == {x \in S : key[x] \in T}
           bad == {T \in SUBSET K : SumOf(g, T) # SumOf(f, within(T))}
<1>1. bad = {}
  <2> SUFFICES ASSUME bad # {} PROVE FALSE
    OBVIOUS
  <2>0. bad \in SUBSET SUBSET K
    OBVIOUS
  <2> HIDE DEF bad
  <2>1. PICK T \in bad : \A U \in SUBSET T : U # T => U \notin bad
    BY <2>0, HasSmallest
  <2> USE DEF bad
  <2>2. IsFiniteSet(T) /\ T \in SUBSET K /\ SumOf(g, T) # SumOf(f, within(T))
    BY <2>1, FS_Subset
  <2>3. T # {}
    <3>1. within({}) = {}
      OBVIOUS
    <3>2. SumOf(g, {}) = 0 /\ SumOf(f, within({})) = 0
      BY <3>1, TotalEmpty
    <3> QED
      BY <2>2, <3>2
  <2> DEFINE y == Pick(T)
             V == T \ {y}
             A == within({y})
             B == within(V)
  <2>4. y \in T
    BY <2>3, PickIs
  <2>5. SumOf(g, V) = SumOf(f, B)
    BY <2>1, <2>4
  <2>6. A \cap B = {} /\ within(T) = A \cup B /\ A \subseteq S /\ B \subseteq S /\ A = part[y]
    BY <2>2, <2>4
  <2>7. g[y] = SumOf(f, A)
    BY <2>2, <2>4, <2>6
  <2>8. SumOf(g, T) = g[y] + SumOf(g, V)
    BY <2>2, <2>3, TotalFirst
  <2> HIDE DEF y, V, A, B, within, bad
  <2>9. IsFiniteSet(A) /\ IsFiniteSet(B) /\ \A x \in A \cup B : f[x] \in Int
    BY <2>6, FS_Subset
  <2>10. SumOf(f, A \cup B) = SumOf(f, A) + SumOf(f, B)
    BY <2>6, <2>9, TotalUnion
  <2> QED
    BY <2>2, <2>5, <2>6, <2>7, <2>8, <2>10
<1>2. within(K) = S /\ K \in SUBSET K
  OBVIOUS
<1> QED
  BY <1>1, <1>2

(* What is so many times as much is so in all. *)
LEMMA TotalTimes ==
  ASSUME NEW f, NEW g, NEW S, IsFiniteSet(S), NEW k \in Int, \A x \in S : f[x] \in Int /\ g[x] = k * f[x]
  PROVE  SumOf(g, S) = k * SumOf(f, S)
<1> DEFINE bad == {T \in SUBSET S : SumOf(g, T) # k * SumOf(f, T)}
<1>1. SUFFICES ASSUME bad # {} PROVE FALSE
  OBVIOUS
<1>2. bad \in SUBSET SUBSET S
  OBVIOUS
<1> HIDE DEF bad
<1>3. PICK T \in bad : \A U \in SUBSET T : U # T => U \notin bad
  BY <1>1, <1>2, HasSmallest
<1>4. T \in SUBSET S /\ SumOf(g, T) # k * SumOf(f, T) /\ IsFiniteSet(T)
  BY <1>3, FS_Subset DEF bad
<1>5. T # {}
  <2>1. SumOf(g, {}) = 0 /\ SumOf(f, {}) = 0
    BY TotalEmpty
  <2>2. k * 0 = 0
    OBVIOUS
  <2> SUFFICES ASSUME T = {} PROVE FALSE
    OBVIOUS
  <2> QED
    BY <1>4, <2>1, <2>2
<1>6. PICK x \in T : TRUE
  BY <1>5
<1> DEFINE U == T \ {x}
<1>7. U \in SUBSET T /\ U # T /\ U \in SUBSET S /\ IsFiniteSet(U)
  BY <1>4, FS_Subset
<1>8. \A y \in S : f[y] \in Int /\ g[y] \in Int
  OBVIOUS
<1>9. SumOf(f, T) = f[x] + SumOf(f, U) /\ SumOf(g, T) = g[x] + SumOf(g, U)
  BY <1>4, <1>8, TotalRemoves
<1>10. SumOf(g, U) = k * SumOf(f, U)
  BY <1>3, <1>7 DEF bad
<1>11. SumOf(f, U) \in Int
  BY <1>7, <1>8, TotalType
<1>12. g[x] = k * f[x] /\ f[x] \in Int
  BY <1>4
<1> HIDE DEF U
<1> DEFINE a == f[x]
           b == SumOf(f, U)
<1>13. a \in Int /\ b \in Int
  BY <1>11, <1>12
<1> HIDE DEF a, b
<1>14. k * a + k * b = k * (a + b)
  BY <1>13
<1> QED
  BY <1>4, <1>9, <1>10, <1>12, <1>14 DEF a, b

(* A part of what is never negative is no more than the whole. *)
LEMMA TotalWithin ==
  ASSUME NEW f, NEW S, IsFiniteSet(S), \A x \in S : f[x] \in Nat, NEW T \in SUBSET S
  PROVE  SumOf(f, T) \in Nat /\ SumOf(f, S) \in Nat /\ SumOf(f, T) <= SumOf(f, S)
<1>1. ASSUME NEW U \in SUBSET S PROVE SumOf(f, U) \in Nat
  <2> DEFINE z == [x \in U |-> 0]
  <2>1. IsFiniteSet(U) /\ \A x \in U : z[x] = 0 /\ z[x] \in Int /\ f[x] \in Int /\ z[x] <= f[x]
    BY FS_Subset
  <2> HIDE DEF z
  <2>2. SumOf(z, U) = 0 /\ SumOf(z, U) <= SumOf(f, U) /\ SumOf(f, U) \in Int
    BY <2>1, TotalZero, TotalAtMost, TotalType
  <2> QED
    BY <2>2
<1> DEFINE R == S \ T
<1>2. S = T \cup R /\ T \cap R = {} /\ IsFiniteSet(T) /\ IsFiniteSet(R) /\ \A x \in T \cup R : f[x] \in Int
  BY FS_Subset
<1>3. SumOf(f, R) \in Nat /\ SumOf(f, T) \in Nat /\ SumOf(f, S) \in Nat
  BY <1>1
<1> HIDE DEF R
<1>4. SumOf(f, T \cup R) = SumOf(f, T) + SumOf(f, R)
  BY ONLY <1>2, TotalUnion
<1> QED
  BY <1>2, <1>3, <1>4

-----------------------------------------------------------------------------
(* There is one function that folds: it applies a step to the elements of  *)
(* a set, last the one that is picked among all.                           *)

Picks(pick, S) == \A T \in SUBSET S : T # {} => pick[T] \in T
IsFold(g, step, base, pick, S) ==
  g = [T \in SUBSET S |-> IF T = {} THEN base ELSE step[<<pick[T], g[T \ {pick[T]}]>>]]

LEMMA IsFoldAt ==
  ASSUME NEW step, NEW base, NEW pick, NEW S, NEW g, IsFold(g, step, base, pick, S), NEW T \in SUBSET S
  PROVE  /\ T = {} => g[T] = base
         /\ T # {} => g[T] = step[<<pick[T], g[T \ {pick[T]}]>>]
BY DEF IsFold

LEMMA FoldOfNone ==
  ASSUME NEW step, NEW base, NEW pick, NEW S, NEW g, IsFold(g, step, base, pick, S)
  PROVE  g[{}] = base
BY DEF IsFold

LEMMA FoldsAgree ==
  ASSUME NEW step, NEW base, NEW pick, NEW S, IsFiniteSet(S), Picks(pick, S), NEW T \in SUBSET S,
         NEW g, IsFold(g, step, base, pick, S), NEW h, IsFold(h, step, base, pick, T)
  PROVE  \A U \in SUBSET T : g[U] = h[U]
<1> DEFINE bad == {U \in SUBSET T : g[U] # h[U]}
<1> SUFFICES ASSUME bad # {} PROVE FALSE
  OBVIOUS
<1>1. IsFiniteSet(T) /\ bad \in SUBSET SUBSET T
  BY FS_Subset
<1> HIDE DEF bad
<1>2. PICK U \in bad : \A V \in SUBSET U : V # U => V \notin bad
  BY <1>1, HasSmallest
<1> USE DEF bad
<1>3. U \in SUBSET T /\ U \in SUBSET S /\ g[U] # h[U]
  OBVIOUS
<1>4. U # {}
  <2>1. g[{}] = base /\ h[{}] = base
    BY FoldOfNone
  <2> QED
    BY <1>3, <2>1
<1> DEFINE V == U \ {pick[U]}
<1>5. V \in SUBSET U /\ V # U
  BY <1>4 DEF Picks
<1>6. g[V] = h[V]
  BY <1>2, <1>3, <1>5
<1>7. g[U] = step[<<pick[U], g[V]>>]
  BY <1>3, <1>4, IsFoldAt
<1>8. h[U] = step[<<pick[U], h[V]>>]
  BY <1>3, <1>4, IsFoldAt
<1> QED
  BY <1>3, <1>6, <1>7, <1>8

LEMMA FoldExists ==
  ASSUME NEW step, NEW base, NEW pick, NEW S, IsFiniteSet(S), Picks(pick, S)
  PROVE  \E g : IsFold(g, step, base, pick, S)
<1> DEFINE bad == {T \in SUBSET S : ~\E g : IsFold(g, step, base, pick, T)}
<1> SUFFICES ASSUME bad # {} PROVE FALSE
  OBVIOUS
<1>0. bad \in SUBSET SUBSET S
  OBVIOUS
<1> HIDE DEF bad
<1>1. PICK T \in bad : \A U \in SUBSET T : U # T => U \notin bad
  BY <1>0, HasSmallest
<1> USE DEF bad
<1> DEFINE G(U) == CHOOSE g : IsFold(g, step, base, pick, U)
           rest(U) == U \ {pick[U]}
           h == [U \in SUBSET T |-> IF U = {} THEN base ELSE step[<<pick[U], G(rest(U))[rest(U)]>>]]
<1>2. \A U \in SUBSET T : U # T => IsFold(G(U), step, base, pick, U)
  <2> SUFFICES ASSUME NEW U \in SUBSET T, U # T PROVE IsFold(G(U), step, base, pick, U)
    OBVIOUS
  <2>1. \E g : IsFold(g, step, base, pick, U)
    BY <1>1
  <2> QED
    BY <2>1
<1>3. \A U \in SUBSET T : U # {} => rest(U) \in SUBSET T /\ rest(U) # T /\ rest(U) # U /\ rest(U) \subseteq U
  BY DEF Picks
<1> HIDE DEF G, rest
<1>4. \A U \in SUBSET T : U # T => h[U] = G(U)[U]
  <2> SUFFICES ASSUME NEW U \in SUBSET T, U # T PROVE h[U] = G(U)[U]
    OBVIOUS
  <2>1. IsFold(G(U), step, base, pick, U)
    BY <1>2
  <2>2. CASE U = {}
    <3>1. G(U)[U] = base
      BY <2>1, <2>2, FoldOfNone
    <3> QED
      BY <2>2, <3>1
  <2>3. CASE U # {}
    <3>1. IsFold(G(rest(U)), step, base, pick, rest(U)) /\ rest(U) \in SUBSET U
      BY <1>2, <1>3, <2>3
    <3>2. IsFiniteSet(U) /\ Picks(pick, U)
      BY FS_Subset DEF Picks
    <3>3. G(U)[rest(U)] = G(rest(U))[rest(U)]
      BY <2>1, <3>1, <3>2, FoldsAgree
    <3>4. G(U)[U] = step[<<pick[U], G(U)[rest(U)]>>]
      <4>1. U \in SUBSET U
        OBVIOUS
      <4> QED
        BY <2>1, <2>3, <4>1, IsFoldAt DEF rest
    <3> QED
      BY <2>3, <3>3, <3>4
  <2> QED
    BY <2>2, <2>3
<1>5. h = [U \in SUBSET T |-> IF U = {} THEN base ELSE step[<<pick[U], h[rest(U)]>>]]
  <2>1. \A U \in SUBSET T : U # {} => h[rest(U)] = G(rest(U))[rest(U)]
    BY <1>3, <1>4
  <2> DEFINE k == [U \in SUBSET T |-> IF U = {} THEN base ELSE step[<<pick[U], h[rest(U)]>>]]
  <2>2. \A U \in SUBSET T : h[U] = k[U]
    BY <2>1
  <2> QED
    BY <2>2
<1>6. IsFold(h, step, base, pick, T)
  BY <1>5 DEF IsFold, rest
<1> QED
  BY <1>6

(* What every step keeps, the fold keeps. *)
LEMMA FoldStays ==
  ASSUME NEW step, NEW base, NEW pick, NEW S, IsFiniteSet(S), Picks(pick, S),
         NEW g, IsFold(g, step, base, pick, S),
         NEW A, base \in A, \A x \in S : \A a \in A : step[<<x, a>>] \in A
  PROVE  \A T \in SUBSET S : g[T] \in A
<1> DEFINE bad == {T \in SUBSET S : g[T] \notin A}
<1> SUFFICES ASSUME bad # {} PROVE FALSE
  OBVIOUS
<1>0. bad \in SUBSET SUBSET S
  OBVIOUS
<1> HIDE DEF bad
<1>1. PICK T \in bad : \A U \in SUBSET T : U # T => U \notin bad
  BY <1>0, HasSmallest
<1> USE DEF bad
<1>2. T # {}
  BY FoldOfNone
<1>3. pick[T] \in T /\ g[T] = step[<<pick[T], g[T \ {pick[T]}]>>]
  BY <1>2, IsFoldAt DEF Picks
<1>4. g[T \ {pick[T]}] \in A
  BY <1>1, <1>3
<1> QED
  BY <1>3, <1>4

-----------------------------------------------------------------------------
(* Finitely many things in an order have a last one. *)
LEMMA HasLastOne ==
  ASSUME NEW S, IsFiniteSet(S), S # {}, NEW R,
         \A x, y \in S : x = y \/ <<x, y>> \in R \/ <<y, x>> \in R,
         \A x, y, z \in S : <<x, y>> \in R /\ <<y, z>> \in R => <<x, z>> \in R
  PROVE  \E x \in S : \A y \in S \ {x} : <<y, x>> \in R
<1> DEFINE bad == {T \in SUBSET S : T # {} /\ ~\E x \in T : \A y \in T \ {x} : <<y, x>> \in R}
<1> SUFFICES ASSUME bad # {} PROVE FALSE
  OBVIOUS
<1>0. bad \in SUBSET SUBSET S
  OBVIOUS
<1> HIDE DEF bad
<1>1. PICK T \in bad : \A U \in SUBSET T : U # T => U \notin bad
  BY <1>0, HasSmallest
<1> USE DEF bad
<1>2. PICK y \in T : TRUE
  OBVIOUS
<1> DEFINE V == T \ {y}
<1>3. CASE V = {}
  BY <1>3
<1>4. CASE V # {}
  <2>0. V \in SUBSET T /\ V # T /\ V \in SUBSET S /\ T \in SUBSET S
    BY <1>2
  <2> HIDE DEF bad
  <2>4. V \notin bad
    BY <1>1, <2>0
  <2> HIDE DEF V
  <2>5. \E z \in V : \A x \in V \ {z} : <<x, z>> \in R
    BY <2>0, <2>4, <1>4 DEF bad
  <2>1. PICK z \in V : \A x \in V \ {z} : <<x, z>> \in R
    BY <2>5
  <2>7. ~\E t \in T : \A x \in T \ {t} : <<x, t>> \in R
    BY DEF bad
  <2> USE DEF V
  <2>8. z \in T /\ y \in T /\ z # y /\ z \in S /\ y \in S /\ T \subseteq S
    BY <2>0
  <2>2. CASE <<z, y>> \in R
    <3>1. \A x \in T \ {y} : <<x, y>> \in R
      <4>1. \A x \in T \ {y} : x = z \/ (x \in S /\ <<x, z>> \in R)
        BY <2>1, <2>8
      <4> QED
        BY <2>2, <2>8, <4>1
    <3> QED
      BY <2>7, <2>8, <3>1
  <2>3. CASE <<y, z>> \in R
    <3>1. \A x \in T \ {z} : <<x, z>> \in R
      BY <2>1, <2>3
    <3> QED
      BY <2>7, <2>8, <3>1
  <2> QED
    BY <2>2, <2>3, <2>8
<1> QED
  BY <1>3, <1>4

(* The least and the greatest of some numbers. *)
LEMMA HasFirst ==
  ASSUME NEW S \in SUBSET Nat, S # {}
  PROVE  Min(S) \in S /\ \A x \in S : Min(S) <= x
<1>1. PICK g \in S : \A h \in S : ~(<<h, g>> \in OpToRel(<, Nat))
  BY NatLessThanWellFounded, WFMin
<1>2. \A h \in S : g <= h
  <2> SUFFICES ASSUME NEW h \in S, h < g PROVE FALSE
    OBVIOUS
  <2>1. <<h, g>> \in OpToRel(<, Nat)
    BY DEF OpToRel
  <2> QED
    BY <1>1, <2>1
<1> QED
  BY <1>2 DEF Min

LEMMA HasLast ==
  ASSUME NEW S \in SUBSET Nat, S # {}, NEW n \in Nat, \A x \in S : x <= n
  PROVE  Max(S) \in S /\ \A x \in S : x <= Max(S)
<1> DEFINE gaps == {g \in Nat : n - g \in S}
<1>1. gaps \in SUBSET Nat /\ gaps # {}
  <2>1. PICK x \in S : TRUE
    OBVIOUS
  <2>2. n - x \in gaps
    OBVIOUS
  <2> QED
    BY <2>2
<1> HIDE DEF gaps
<1>2. Min(gaps) \in gaps /\ \A g \in gaps : Min(gaps) <= g
  BY <1>1, HasFirst
<1>3. \A x \in S : n - x \in gaps
  BY DEF gaps
<1>4. n - Min(gaps) \in S /\ Min(gaps) \in Nat
  BY <1>2 DEF gaps
<1>5. \A x \in S : x <= n - Min(gaps)
  BY <1>2, <1>3, <1>4
<1> QED
  BY <1>4, <1>5 DEF Max

LEMMA MaxIs ==
  ASSUME NEW S \in SUBSET Int, NEW x \in S, \A y \in S : y <= x
  PROVE  Max(S) = x
<1>1. \E z \in S : \A y \in S : z >= y
  OBVIOUS
<1>2. Max(S) \in S /\ \A y \in S : Max(S) >= y
  BY <1>1 DEF Max
<1>3. Max(S) \in Int /\ x \in Int /\ Max(S) >= x /\ Max(S) <= x
  BY <1>2
<1> QED
  BY <1>3

(* If of whatever is at some rate or above there is no more than nothing,  *)
(* then there is no more than nothing when each is weighed by its rate.    *)
LEMMA DearestLess ==
  ASSUME NEW S, IsFiniteSet(S), NEW rate, NEW e, NEW h, \A x \in S : rate[x] \in Nat /\ e[x] \in Int,
         \A r \in Nat : SumOf([x \in S |-> IF rate[x] >= r THEN e[x] ELSE 0], S) <= 0,
         \A x \in S : h[x] = rate[x] * e[x]
  PROVE  SumOf(h, S) <= 0
<1> DEFINE tail(r) == [x \in S |-> IF rate[x] >= r THEN e[x] ELSE 0]
           low(r) == [x \in S |-> IF rate[x] < r THEN rate[x] * e[x] ELSE r * e[x]]
           bad == {r \in Nat : ~(SumOf(low(r), S) <= 0)}
<1>1. ASSUME NEW r \in Nat, NEW x \in S
      PROVE  /\ low(r)[x] \in Int /\ tail(r + 1)[x] \in Int
             /\ low(r + 1)[x] = low(r)[x] + tail(r + 1)[x]
  <2>1. rate[x] \in Nat /\ e[x] \in Int
    OBVIOUS
  <2> DEFINE p == rate[x]
             q == e[x]
  <2>2. /\ low(r)[x] = IF p < r THEN p * q ELSE r * q
        /\ low(r + 1)[x] = IF p < r + 1 THEN p * q ELSE (r + 1) * q
        /\ tail(r + 1)[x] = IF p >= r + 1 THEN q ELSE 0
    OBVIOUS
  <2>3. p \in Nat /\ q \in Int
    BY <2>1
  <2> HIDE DEF p, q, low, tail
  <2>4. p * q \in Int /\ r * q \in Int /\ (r + 1) * q = r * q + q
    BY <2>3
  <2>5. CASE p < r
    BY <2>2, <2>3, <2>4, <2>5
  <2>6. CASE p = r
    BY <2>2, <2>3, <2>4, <2>6
  <2>7. CASE p > r
    BY <2>2, <2>3, <2>4, <2>7
  <2> QED
    BY <2>3, <2>5, <2>6, <2>7
<1>2. ASSUME NEW r \in Nat PROVE SumOf(tail(r), S) <= 0
  OBVIOUS
<1>3. \A x \in S : low(0)[x] = 0
  OBVIOUS
<1>4. ASSUME NEW r \in Nat, \A x \in S : rate[x] < r PROVE \A x \in S : low(r)[x] = h[x]
  BY <1>4
<1> HIDE DEF tail, low
<1>5. bad = {}
  <2> SUFFICES ASSUME bad # {} PROVE FALSE
    OBVIOUS
  <2>1. bad \in SUBSET Nat
    OBVIOUS
  <2> DEFINE n == Min(bad)
  <2> HIDE DEF bad, n
  <2>2. n \in bad /\ \A k \in bad : n <= k
    BY <2>1, HasFirst DEF n
  <2>3. n \in Nat /\ ~(SumOf(low(n), S) <= 0)
    BY <2>2 DEF bad
  <2>4. SumOf(low(0), S) = 0
    BY <1>3, TotalZero
  <2>5. n # 0
    BY <2>3, <2>4
  <2> DEFINE m == n - 1
  <2>6. m \in Nat /\ n = m + 1 /\ m \notin bad
    BY <2>2, <2>3, <2>5
  <2> HIDE DEF m
  <2>7. SumOf(low(m), S) <= 0
    BY <2>6 DEF bad
  <2>8. SumOf(low(m + 1), S) = SumOf(low(m), S) + SumOf(tail(m + 1), S)
    BY <1>1, <2>6, TotalPlus
  <2>9. SumOf(tail(m + 1), S) <= 0
    BY <1>2, <2>6
  <2>10. SumOf(low(m), S) \in Int /\ SumOf(tail(m + 1), S) \in Int
    BY <1>1, <2>6, TotalType
  <2> QED
    BY <2>3, <2>6, <2>7, <2>8, <2>9, <2>10
<1>6. \E r \in Nat : \A x \in S : rate[x] < r
  <2>1. \A x \in S : rate[x] \in Int
    OBVIOUS
  <2>2. SumOf(rate, S) \in Int
    BY <2>1, TotalType
  <2>3. ASSUME NEW x \in S PROVE rate[x] <= SumOf(rate, S)
    <3>1. SumOf(rate, S) = rate[x] + SumOf(rate, S \ {x})
      BY <2>1, TotalRemoves
    <3>2. SumOf(rate, S \ {x}) \in Nat
      BY TotalWithin
    <3> QED
      BY <2>1, <3>1, <3>2
  <2> DEFINE n == IF SumOf(rate, S) < 0 THEN 0 ELSE SumOf(rate, S) + 1
  <2>4. n \in Nat /\ \A x \in S : rate[x] < n
    BY <2>1, <2>2, <2>3
  <2> QED
    BY <2>4
<1>7. PICK r \in Nat : \A x \in S : rate[x] < r
  BY <1>6
<1>8. SumOf(low(r), S) <= 0
  BY <1>5
<1>9. SumOf(low(r), S) = SumOf(h, S)
  BY <1>4, <1>7, TotalSame
<1> QED
  BY <1>8, <1>9
================================================================================
