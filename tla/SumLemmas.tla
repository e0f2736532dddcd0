----------------------------- MODULE SumLemmas -----------------------------
(***************************************************************************)
(* Sums over finite sets, as MapThenSumSet folds them: adding an element   *)
(* adds its value, and a larger set of naturals has no smaller a sum.      *)
(* The induction is by a smallest set for which a claim fails.             *)
(***************************************************************************)
EXTENDS Integers, FiniteSetsExt, FiniteSetTheorems, TLAPS

FunSum(f, S) == MapThenSumSet(LAMBDA x : f[x], S)

\* The element a fold takes next, and what makes a function its recursion.
OneOf(s) == CHOOSE x \in s : TRUE

IsSumOf(g, f, S) ==
    g = [s \in SUBSET S |-> IF s = {} THEN 0
                            ELSE f[OneOf(s)] + g[s \ {OneOf(s)}]]

UnfoldsAt(f, s) ==
    FunSum(f, s) = IF s = {} THEN 0
                   ELSE f[OneOf(s)] + FunSum(f, s \ {OneOf(s)})

-----------------------------------------------------------------------------
\* A family of subsets of a finite set has a member that contains no other.
LEMMA Smallest ==
    ASSUME NEW S, IsFiniteSet(S), NEW C, C \subseteq SUBSET S, C # {}
    PROVE  \E T \in C : \A U \in C : U \subseteq T => U = T
<1>1. IsWellFoundedOn(StrictSubsetOrdering(S), SUBSET S)
  BY FS_StrictSubsetOrderingWellFounded, FS_FiniteSubsetsOfFinite
<1>2. PICK T \in C : \A U \in C : <<U, T>> \notin StrictSubsetOrdering(S)
  BY <1>1, WFMin
<1>3. \A U \in C : U \subseteq T => U = T
  BY <1>2 DEF StrictSubsetOrdering
<1> QED BY <1>3

\* The fold takes an element of the set.
LEMMA OneOfIsIn == \A s : s # {} => OneOf(s) \in s
  BY DEF OneOf

\* The sum is read off the recursion the fold chooses,
LEMMA SumIsFold ==
    ASSUME NEW f, NEW S
    PROVE FunSum(f, S) = (CHOOSE g : IsSumOf(g, f, S))[S]
  BY DEF FunSum, MapThenSumSet, MapThenFoldSet, IsSumOf, OneOf

\* of which there is one at most,
LEMMA SumUnique ==
    ASSUME NEW f, NEW S, IsFiniteSet(S), NEW g, NEW h,
           IsSumOf(g, f, S), IsSumOf(h, f, S)
    PROVE  g = h
<1> DEFINE C == {s \in SUBSET S : g[s] # h[s]}
<1>1. CASE C # {}
  <2>1. PICK T \in C : \A U \in C : U \subseteq T => U = T
    <3>1. C \subseteq SUBSET S OBVIOUS
    <3> HIDE DEF C
    <3> QED BY <1>1, <3>1, Smallest
  <2>2. T \in SUBSET S /\ g[T] # h[T] OBVIOUS
  <2>3. T # {} BY <2>2 DEF IsSumOf
  <2>4. OneOf(T) \in T BY <2>3, OneOfIsIn
  <2>5. T \ {OneOf(T)} \notin C BY <2>1, <2>4
  <2>6. g[T \ {OneOf(T)}] = h[T \ {OneOf(T)}] BY <2>2, <2>5
  <2> QED BY <2>2, <2>3, <2>6 DEF IsSumOf
<1>2. CASE C = {}
  <2>1. \A s \in SUBSET S : g[s] = h[s] BY <1>2
  <2>2. g = [s \in SUBSET S |-> g[s]] /\ h = [s \in SUBSET S |-> h[s]]
    BY DEF IsSumOf
  <2> QED BY <2>1, <2>2
<1> QED BY <1>1, <1>2

\* and one at least: the sums of the smaller sets make it.
LEMMA SumUnfolds ==
    ASSUME NEW f, NEW S, IsFiniteSet(S)
    PROVE  UnfoldsAt(f, S)
<1> DEFINE C == {s \in SUBSET S : ~ UnfoldsAt(f, s)}
<1> SUFFICES ASSUME C # {} PROVE FALSE OBVIOUS
<1>1. PICK T \in C : \A U \in C : U \subseteq T => U = T
  <2>1. C \subseteq SUBSET S OBVIOUS
  <2> HIDE DEF C
  <2> QED BY <2>1, Smallest
<1>2. T \in SUBSET S /\ ~ UnfoldsAt(f, T) OBVIOUS
<1>3. IsFiniteSet(T) BY <1>2, FS_Subset
<1> DEFINE h == [s \in SUBSET T |-> IF s = {} THEN 0
                      ELSE f[OneOf(s)] + FunSum(f, s \ {OneOf(s)})]
<1>4. IsSumOf(h, f, T)
  <2>1. ASSUME NEW s \in SUBSET T, s # {}
        PROVE  h[s \ {OneOf(s)}] = FunSum(f, s \ {OneOf(s)})
    <3> DEFINE u == s \ {OneOf(s)}
    <3>1. OneOf(s) \in s BY <2>1, OneOfIsIn
    <3>2. u \in SUBSET T /\ u # T /\ u \in SUBSET S BY <1>2, <3>1
    <3>3. UnfoldsAt(f, u) BY <1>1, <3>2
    <3> QED BY <3>2, <3>3 DEF UnfoldsAt
  <2>2. \A s \in SUBSET T : h[s] = IF s = {} THEN 0
                               ELSE f[OneOf(s)] + h[s \ {OneOf(s)}]
    BY <2>1
  <2> HIDE DEF h
  <2>3. h = [s \in SUBSET T |-> h[s]] BY DEF h
  <2> QED BY <2>2, <2>3 DEF IsSumOf
<1> HIDE DEF h
<1>5. IsSumOf(CHOOSE g : IsSumOf(g, f, T), f, T) BY <1>4
<1>6. FunSum(f, T) = h[T] BY <1>3, <1>4, <1>5, SumUnique, SumIsFold
<1>7. UnfoldsAt(f, T) BY <1>6 DEF h, UnfoldsAt
<1> QED BY <1>2, <1>7

-----------------------------------------------------------------------------
\* The empty sum.
LEMMA SumEmpty == \A f : FunSum(f, {}) = 0
  BY SumUnfolds, FS_EmptySet DEF UnfoldsAt

\* A sum of naturals is a natural.
LEMMA SumNat ==
    ASSUME NEW S, IsFiniteSet(S), NEW f, \A x \in S : f[x] \in Nat
    PROVE  FunSum(f, S) \in Nat
<1> DEFINE C == {s \in SUBSET S : FunSum(f, s) \notin Nat}
<1> SUFFICES ASSUME C # {} PROVE FALSE OBVIOUS
<1>1. PICK T \in C : \A U \in C : U \subseteq T => U = T
  <2>1. C \subseteq SUBSET S OBVIOUS
  <2> HIDE DEF C
  <2> QED BY <2>1, Smallest
<1>2. T \in SUBSET S /\ FunSum(f, T) \notin Nat OBVIOUS
<1>3. IsFiniteSet(T) BY <1>2, FS_Subset
<1>4. T # {} BY <1>2, SumEmpty
<1>5. OneOf(T) \in T BY <1>4, OneOfIsIn
<1>6. FunSum(f, T \ {OneOf(T)}) \in Nat BY <1>1, <1>2, <1>5
<1>7. f[OneOf(T)] \in Nat BY <1>2, <1>5
<1>8. FunSum(f, T) = f[OneOf(T)] + FunSum(f, T \ {OneOf(T)})
  BY <1>3, <1>4, SumUnfolds DEF UnfoldsAt
<1> QED BY <1>2, <1>6, <1>7, <1>8

\* Any element may be taken out of a sum first.
LEMMA SumRemove ==
    ASSUME NEW S, IsFiniteSet(S), NEW f, \A x \in S : f[x] \in Nat,
           NEW x \in S
    PROVE  FunSum(f, S) = f[x] + FunSum(f, S \ {x})
<1> DEFINE C == {s \in SUBSET S : \E y \in s :
                    FunSum(f, s) # f[y] + FunSum(f, s \ {y})}
<1> SUFFICES ASSUME C # {} PROVE FALSE OBVIOUS
<1>1. PICK T \in C : \A U \in C : U \subseteq T => U = T
  <2>1. C \subseteq SUBSET S OBVIOUS
  <2> HIDE DEF C
  <2> QED BY <2>1, Smallest
<1>2. PICK y \in T : FunSum(f, T) # f[y] + FunSum(f, T \ {y}) OBVIOUS
<1> DEFINE c == OneOf(T)
<1>3. T \in SUBSET S /\ c \in T BY OneOfIsIn
<1> HIDE DEF C, c
<1>4. \A s \in SUBSET T : IsFiniteSet(s) BY <1>3, FS_Subset
<1>5. FunSum(f, T) = f[c] + FunSum(f, T \ {c})
  BY <1>3, <1>4, SumUnfolds DEF UnfoldsAt, c
<1>6. c # y BY <1>2, <1>5
<1>7. \A s \in SUBSET T : s # T => s \notin C BY <1>1
<1>8. FunSum(f, T \ {c}) = f[y] + FunSum(f, (T \ {c}) \ {y})
  <2>1. T \ {c} \notin C BY <1>3, <1>7
  <2>2. y \in T \ {c} /\ T \ {c} \in SUBSET S BY <1>3, <1>6
  <2> QED BY <2>1, <2>2 DEF C
<1>9. FunSum(f, T \ {y}) = f[c] + FunSum(f, (T \ {y}) \ {c})
  <2>1. T \ {y} \notin C BY <1>2, <1>7
  <2>2. c \in T \ {y} /\ T \ {y} \in SUBSET S BY <1>3, <1>6
  <2> QED BY <2>1, <2>2 DEF C
<1>10. (T \ {c}) \ {y} = (T \ {y}) \ {c} OBVIOUS
<1>11. /\ f[c] \in Nat /\ f[y] \in Nat
       /\ FunSum(f, (T \ {c}) \ {y}) \in Nat
  <2>1. IsFiniteSet((T \ {c}) \ {y}) BY <1>4
  <2>2. \A z \in (T \ {c}) \ {y} : f[z] \in Nat BY <1>3
  <2> QED BY <1>3, <2>1, <2>2, SumNat
<1>12. \A i, j, k \in Nat : i + (j + k) = j + (i + k) OBVIOUS
<1>13. f[c] + (f[y] + FunSum(f, (T \ {c}) \ {y}))
          = f[y] + (f[c] + FunSum(f, (T \ {c}) \ {y}))
  BY <1>11, <1>12
<1>14. FunSum(f, T) = f[c] + (f[y] + FunSum(f, (T \ {c}) \ {y}))
  BY <1>5, <1>8
<1>15. f[y] + FunSum(f, T \ {y})
          = f[y] + (f[c] + FunSum(f, (T \ {c}) \ {y}))
  BY <1>9, <1>10
<1> QED BY <1>2, <1>13, <1>14, <1>15

\* Adding an element adds its value.
LEMMA SumAdd ==
    ASSUME NEW S, IsFiniteSet(S), NEW f, NEW y, y \notin S,
           \A x \in S \cup {y} : f[x] \in Nat
    PROVE  FunSum(f, S \cup {y}) = FunSum(f, S) + f[y]
<1>1. IsFiniteSet(S \cup {y}) BY FS_AddElement
<1>2. (S \cup {y}) \ {y} = S OBVIOUS
<1>3. FunSum(f, S) \in Nat /\ f[y] \in Nat BY SumNat
<1>4. FunSum(f, S \cup {y}) = f[y] + FunSum(f, (S \cup {y}) \ {y})
  BY <1>1, SumRemove
<1> QED BY <1>2, <1>3, <1>4

\* A larger set of naturals has no smaller a sum.
LEMMA SumMonotonic ==
    ASSUME NEW S, IsFiniteSet(S), NEW f, \A x \in S : f[x] \in Nat,
           NEW R \in SUBSET S
    PROVE  FunSum(f, R) <= FunSum(f, S)
<1> DEFINE C == {s \in SUBSET S :
                    R \subseteq s /\ ~ (FunSum(f, R) <= FunSum(f, s))}
<1> SUFFICES ASSUME C # {} PROVE FALSE OBVIOUS
<1>1. PICK T \in C : \A U \in C : U \subseteq T => U = T
  <2>1. C \subseteq SUBSET S OBVIOUS
  <2> HIDE DEF C
  <2> QED BY <2>1, Smallest
<1>2. T \in SUBSET S /\ R \subseteq T /\ ~ (FunSum(f, R) <= FunSum(f, T))
  OBVIOUS
<1>3. IsFiniteSet(T) /\ IsFiniteSet(R) BY <1>2, FS_Subset
<1>4. FunSum(f, R) \in Nat BY <1>3, SumNat
<1>5. PICK y \in T : y \notin R BY <1>2, <1>4
<1>6. T \ {y} \in SUBSET S /\ IsFiniteSet(T \ {y}) BY <1>2, FS_Subset
<1>7. FunSum(f, R) <= FunSum(f, T \ {y}) BY <1>1, <1>2, <1>5, <1>6
<1>8. FunSum(f, T) = f[y] + FunSum(f, T \ {y}) BY <1>2, <1>3, SumRemove
<1>9. FunSum(f, T \ {y}) \in Nat /\ f[y] \in Nat BY <1>2, <1>6, SumNat
<1> QED BY <1>2, <1>4, <1>7, <1>8, <1>9

=============================================================================
