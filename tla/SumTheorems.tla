----------------------------- MODULE SumTheorems -----------------------------
(***************************************************************************)
(* Sums over finite sets of rows.  SumFunctionOnSet is a fold: a recursive *)
(* function on the subsets of its index set that takes the elements in the *)
(* order CHOOSE gives.  The facts below say that the order does not matter *)
(* and what one element contributes; each is proved by looking at a        *)
(* smallest set for which it would fail.                                   *)
(***************************************************************************)
EXTENDS FiniteSets, Functions, FiniteSetTheorems, TLAPS

\* Among sets of subsets of a finite set, a smallest one.
LEMMA SmallestSubset ==
  ASSUME NEW S, IsFiniteSet(S), NEW F \in SUBSET (SUBSET S), F # {}
  PROVE  \E s \in F : \A t \in F : t \subseteq s => t = s
<1>1. IsWellFoundedOn(StrictSubsetOrdering(S), SUBSET S)
  BY FS_StrictSubsetOrderingWellFounded, FS_FiniteSubsetsOfFinite
<1>2. PICK s \in F : \A t \in F : <<t, s>> \notin StrictSubsetOrdering(S)
  BY <1>1, WFMin
<1>3. ASSUME NEW t \in F, t \subseteq s PROVE t = s
  BY <1>2, <1>3 DEF StrictSubsetOrdering
<1> QED
  BY <1>3

First(s) == CHOOSE x \in s : TRUE

\* g is the recursive function the fold of f evaluates, on the subsets of S.
Folds(g, f, S) ==
  g = [s \in SUBSET S |-> IF s = {} THEN 0 ELSE f[First(s)] + g[s \ {First(s)}]]

\* The sum is the value of such a function, if there is one.
LEMMA SumIsFold ==
  ASSUME NEW f, NEW S, NEW g, Folds(g, f, S)
  PROVE  \E h : Folds(h, f, S) /\ SumFunctionOnSet(f, S) = h[S]
  BY Zenon DEF SumFunctionOnSet, FoldFunctionOnSet, MapThenFoldSet, Folds, First

\* Two such functions agree wherever both are defined.
LEMMA FoldsAgree ==
  ASSUME NEW f, NEW S, NEW T, IsFiniteSet(S), S \subseteq T,
         NEW g, Folds(g, f, S), NEW h, Folds(h, f, T)
  PROVE  g[S] = h[S]
<1> DEFINE F == {s \in SUBSET S : g[s] # h[s]}
<1>0. F \in SUBSET (SUBSET S)
  OBVIOUS
<1>1. ASSUME F # {} PROVE FALSE
  <2>1. PICK s \in F : \A t \in F : t \subseteq s => t = s
    <3> HIDE DEF F
    <3> QED
      BY <1>0, <1>1, SmallestSubset
  <2>2. s # {}
    BY DEF Folds
  <2> DEFINE t == s \ {First(s)}
  <2>3. First(s) \in s /\ t \in SUBSET S /\ t # s /\ t \subseteq s
    BY <2>2 DEF First
  <2>4. g[t] = h[t]
    BY <2>1, <2>3
  <2>5. g[s] = f[First(s)] + g[t] /\ h[s] = f[First(s)] + h[t]
    BY <2>2 DEF Folds
  <2> QED
    BY <2>4, <2>5
<1> QED
  BY <1>1

\* There is one on the subsets of every finite set.
LEMMA FoldExists ==
  ASSUME NEW f, NEW S, IsFiniteSet(S)
  PROVE  \E g : Folds(g, f, S)
<1> DEFINE F == {s \in SUBSET S : ~ \E g : Folds(g, f, s)}
<1>0. F \in SUBSET (SUBSET S)
  OBVIOUS
<1>1. ASSUME F # {} PROVE FALSE
  <2>1. PICK s \in F : \A t \in F : t \subseteq s => t = s
    <3> HIDE DEF F
    <3> QED
      BY <1>0, <1>1, SmallestSubset
  <2> DEFINE G(t) == CHOOSE g : Folds(g, f, t)
             value(t) == IF t = {} THEN 0
                         ELSE f[First(t)] + G(t \ {First(t)})[t \ {First(t)}]
             h == [t \in SUBSET s |-> value(t)]
  <2>2. ASSUME NEW t \in SUBSET s, t # s PROVE Folds(G(t), f, t)
    <3>1. \E g : Folds(g, f, t)
      BY <2>1, <2>2
    <3> QED
      BY <3>1
  <2>3. ASSUME NEW t, t # {}
        PROVE  First(t) \in t /\ t \ {First(t)} \in SUBSET t /\ t \ {First(t)} # t
    BY <2>3 DEF First
  <2>4. ASSUME NEW t \in SUBSET s, t # s PROVE value(t) = G(t)[t]
    <3>1. Folds(G(t), f, t)
      BY <2>2, <2>4
    <3> HIDE DEF G
    <3>2. CASE t = {}
      BY <3>1, <3>2 DEF Folds
    <3>3. CASE t # {}
      <4> DEFINE u == t \ {First(t)}
      <4>1. u \in SUBSET t /\ u # t /\ u \in SUBSET s /\ u # s
        BY <2>3, <3>3
      <4>2. Folds(G(u), f, u)
        BY <2>2, <4>1
      <4>3. IsFiniteSet(u)
        BY <4>1, FS_Subset
      <4>4. G(u)[u] = G(t)[u]
        <5>1. u \subseteq t
          OBVIOUS
        <5> HIDE DEF u
        <5> QED
          BY <3>1, <4>2, <4>3, <5>1, FoldsAgree
      <4>5. G(t)[t] = f[First(t)] + G(t)[u]
        BY <3>1, <3>3 DEF Folds
      <4> QED
        BY <4>4, <4>5, <3>3
    <3> QED
      BY <3>2, <3>3
  <2>5. ASSUME NEW t \in SUBSET s
        PROVE  h[t] = IF t = {} THEN 0 ELSE f[First(t)] + h[t \ {First(t)}]
    <3>1. CASE t = {}
      BY <3>1
    <3>2. CASE t # {}
      <4> DEFINE u == t \ {First(t)}
      <4>1. u \in SUBSET s /\ u # s
        BY <2>3, <3>2
      <4>2. value(u) = G(u)[u]
        BY <2>4, <4>1
      <4>3. h[u] = value(u)
        BY <4>1
      <4> QED
        BY <3>2, <4>2, <4>3
    <3> QED
      BY <3>1, <3>2
  <2>6. Folds(h, f, s)
    <3> HIDE DEF value
    <3>1. h = [t \in SUBSET s |-> h[t]]
      OBVIOUS
    <3> HIDE DEF h
    <3> QED
      BY <2>5, <3>1 DEF Folds
  <2> QED
    BY <2>1, <2>6
<1>2. S \notin F
  BY <1>1
<1> QED
  BY <1>2

\* The sum over a set and the recursive function on its subsets.
LEMMA SumUnfolds ==
  ASSUME NEW f, NEW S, IsFiniteSet(S)
  PROVE  SumFunctionOnSet(f, S) =
           IF S = {} THEN 0 ELSE f[First(S)] + SumFunctionOnSet(f, S \ {First(S)})
<1>1. PICK g : Folds(g, f, S) /\ SumFunctionOnSet(f, S) = g[S]
  BY FoldExists, SumIsFold
<1>2. CASE S = {}
  BY <1>1, <1>2 DEF Folds
<1>3. CASE S # {}
  <2> DEFINE T == S \ {First(S)}
  <2>1. IsFiniteSet(T)
    BY FS_Subset
  <2>2. PICK h : Folds(h, f, T) /\ SumFunctionOnSet(f, T) = h[T]
    BY <2>1, FoldExists, SumIsFold
  <2>3. h[T] = g[T]
    <3>1. T \subseteq S
      OBVIOUS
    <3> HIDE DEF T
    <3> QED
      BY <1>1, <2>1, <2>2, <3>1, FoldsAgree
  <2>4. g[S] = f[First(S)] + g[T]
    BY <1>1, <1>3 DEF Folds
  <2> QED
    BY <1>1, <1>3, <2>2, <2>3, <2>4
<1> QED
  BY <1>2, <1>3

-----------------------------------------------------------------------------
(* What is cited elsewhere: SumFunctionOnSet is never unfolded again *)

\* The empty sum.
THEOREM SumOfNone == ASSUME NEW f PROVE SumFunctionOnSet(f, {}) = 0
  BY SumUnfolds, FS_EmptySet

\* A sum of integers is an integer.
THEOREM SumIsInt ==
  ASSUME NEW f, NEW S, IsFiniteSet(S), \A x \in S : f[x] \in Int
  PROVE  SumFunctionOnSet(f, S) \in Int
<1> DEFINE F == {s \in SUBSET S : SumFunctionOnSet(f, s) \notin Int}
<1>0. F \in SUBSET (SUBSET S)
  OBVIOUS
<1>1. ASSUME F # {} PROVE FALSE
  <2>1. PICK s \in F : \A t \in F : t \subseteq s => t = s
    <3> HIDE DEF F
    <3> QED
      BY <1>0, <1>1, SmallestSubset
  <2>2. IsFiniteSet(s)
    BY FS_Subset
  <2>3. s # {} /\ SumFunctionOnSet(f, s) = f[First(s)] + SumFunctionOnSet(f, s \ {First(s)})
    BY <2>2, SumUnfolds
  <2>4. First(s) \in s
    BY <2>3 DEF First
  <2>5. s \ {First(s)} \notin F
    BY <2>1, <2>4
  <2>6. SumFunctionOnSet(f, s \ {First(s)}) \in Int /\ f[First(s)] \in Int
    BY <2>4, <2>5
  <2> QED
    BY <2>3, <2>6
<1> QED
  BY <1>1

\* Any element may be taken first.
THEOREM SumRemove ==
  ASSUME NEW f, NEW S, IsFiniteSet(S), \A x \in S : f[x] \in Int, NEW x \in S
  PROVE  SumFunctionOnSet(f, S) = f[x] + SumFunctionOnSet(f, S \ {x})
<1> DEFINE Sum(s) == SumFunctionOnSet(f, s)
           F == {s \in SUBSET S : \E y \in s : Sum(s) # f[y] + Sum(s \ {y})}
<1>0. F \in SUBSET (SUBSET S)
  OBVIOUS
<1>1. ASSUME F # {} PROVE FALSE
  <2>1. PICK s \in F : \A t \in F : t \subseteq s => t = s
    <3> HIDE DEF F
    <3> QED
      BY <1>0, <1>1, SmallestSubset
  <2>2. PICK y \in s : Sum(s) # f[y] + Sum(s \ {y})
    BY <2>1
  <2> DEFINE c == First(s)
             u == s \ {c}
             v == s \ {y}
             w == s \ {c, y}
  <2>3. IsFiniteSet(s) /\ IsFiniteSet(v) /\ IsFiniteSet(w)
    BY FS_Subset
  <2>4. Sum(s) = f[c] + Sum(u)
    BY <2>3, SumUnfolds
  <2>5. c \in s /\ c # y
    BY <2>2, <2>4 DEF First
  <2>6. u \notin F /\ v \notin F
    BY <2>1, <2>2, <2>5
  <2>7. Sum(u) = f[y] + Sum(u \ {y}) /\ Sum(v) = f[c] + Sum(v \ {c})
    BY <2>5, <2>6
  <2>8. u \ {y} = w /\ v \ {c} = w
    OBVIOUS
  <2>9. f[c] \in Int /\ f[y] \in Int /\ Sum(w) \in Int
    BY <2>3, <2>5, SumIsInt
  <2>10. Sum(s) = f[c] + (f[y] + Sum(w)) /\ Sum(v) = f[c] + Sum(w)
    BY <2>4, <2>7, <2>8
  <2> HIDE DEF Sum, c, v, w
  <2>11. Sum(s) = f[y] + Sum(v)
    BY <2>9, <2>10
  <2> QED
    BY <2>2, <2>11 DEF v
<1>2. S \notin F
  BY <1>1
<1> QED
  BY <1>2

\* Only the values on the set count.
THEOREM SumAgree ==
  ASSUME NEW f, NEW g, NEW S, IsFiniteSet(S), \A x \in S : f[x] = g[x]
  PROVE  SumFunctionOnSet(f, S) = SumFunctionOnSet(g, S)
<1> DEFINE F == {s \in SUBSET S : SumFunctionOnSet(f, s) # SumFunctionOnSet(g, s)}
<1>0. F \in SUBSET (SUBSET S)
  OBVIOUS
<1>1. ASSUME F # {} PROVE FALSE
  <2>1. PICK s \in F : \A t \in F : t \subseteq s => t = s
    <3> HIDE DEF F
    <3> QED
      BY <1>0, <1>1, SmallestSubset
  <2>2. IsFiniteSet(s)
    BY FS_Subset
  <2> DEFINE u == s \ {First(s)}
  <2>3. s # {} /\ SumFunctionOnSet(f, s) = f[First(s)] + SumFunctionOnSet(f, u)
               /\ SumFunctionOnSet(g, s) = g[First(s)] + SumFunctionOnSet(g, u)
    BY <2>1, <2>2, SumUnfolds
  <2>4. First(s) \in s
    BY <2>3 DEF First
  <2>5. SumFunctionOnSet(f, u) = SumFunctionOnSet(g, u)
    BY <2>1, <2>4
  <2>6. f[First(s)] = g[First(s)]
    BY <2>4
  <2> QED
    BY <2>1, <2>3, <2>5, <2>6
<1> QED
  BY <1>1

\* More of each is no less altogether.
THEOREM SumMonotone ==
  ASSUME NEW f, NEW g, NEW S, IsFiniteSet(S),
         \A x \in S : f[x] \in Int /\ g[x] \in Int /\ f[x] <= g[x]
  PROVE  SumFunctionOnSet(f, S) <= SumFunctionOnSet(g, S)
<1> DEFINE F == {s \in SUBSET S : ~ SumFunctionOnSet(f, s) <= SumFunctionOnSet(g, s)}
<1>0. F \in SUBSET (SUBSET S)
  OBVIOUS
<1>1. ASSUME F # {} PROVE FALSE
  <2>1. PICK s \in F : \A t \in F : t \subseteq s => t = s
    <3> HIDE DEF F
    <3> QED
      BY <1>0, <1>1, SmallestSubset
  <2> DEFINE u == s \ {First(s)}
  <2>2. IsFiniteSet(s) /\ IsFiniteSet(u)
    BY FS_Subset
  <2>3. SumFunctionOnSet(f, u) \in Int /\ SumFunctionOnSet(g, u) \in Int
    BY <2>2, SumIsInt
  <2>4. s # {}
    BY SumOfNone
  <2>5. SumFunctionOnSet(f, s) = f[First(s)] + SumFunctionOnSet(f, u)
        /\ SumFunctionOnSet(g, s) = g[First(s)] + SumFunctionOnSet(g, u)
    BY <2>2, <2>4, SumUnfolds
  <2>6. First(s) \in s
    BY <2>4 DEF First
  <2>7. SumFunctionOnSet(f, u) <= SumFunctionOnSet(g, u)
    BY <2>1, <2>6
  <2>8. f[First(s)] <= g[First(s)] /\ f[First(s)] \in Int /\ g[First(s)] \in Int
    BY <2>6
  <2>9. ~ SumFunctionOnSet(f, s) <= SumFunctionOnSet(g, s)
    BY <2>1
  <2> QED
    BY <2>3, <2>5, <2>7, <2>8, <2>9
<1> QED
  BY <1>1

\* A sum of zeros.
THEOREM SumOfZeros ==
  ASSUME NEW f, NEW S, IsFiniteSet(S), \A x \in S : f[x] = 0
  PROVE  SumFunctionOnSet(f, S) = 0
<1> DEFINE F == {s \in SUBSET S : SumFunctionOnSet(f, s) # 0}
<1>0. F \in SUBSET (SUBSET S)
  OBVIOUS
<1>1. ASSUME F # {} PROVE FALSE
  <2>1. PICK s \in F : \A t \in F : t \subseteq s => t = s
    <3> HIDE DEF F
    <3> QED
      BY <1>0, <1>1, SmallestSubset
  <2> DEFINE u == s \ {First(s)}
  <2>2. s # {} /\ IsFiniteSet(s)
    BY FS_Subset, SumOfNone
  <2>3. SumFunctionOnSet(f, s) = f[First(s)] + SumFunctionOnSet(f, u)
    BY <2>2, SumUnfolds
  <2>4. First(s) \in s
    BY <2>2 DEF First
  <2>5. SumFunctionOnSet(f, u) = 0 /\ f[First(s)] = 0
    BY <2>1, <2>4
  <2> QED
    BY <2>1, <2>3, <2>5
<1> QED
  BY <1>1

\* A sum of natural numbers is one.
THEOREM SumIsNat ==
  ASSUME NEW f, NEW S, IsFiniteSet(S), \A x \in S : f[x] \in Nat
  PROVE  SumFunctionOnSet(f, S) \in Nat
<1> DEFINE zero == [x \in S |-> 0]
<1>1. \A x \in S : zero[x] \in Int /\ f[x] \in Int /\ zero[x] <= f[x] /\ zero[x] = 0
  OBVIOUS
<1> HIDE DEF zero
<1>2. SumFunctionOnSet(zero, S) <= SumFunctionOnSet(f, S)
  BY <1>1, SumMonotone
<1>3. SumFunctionOnSet(zero, S) = 0 /\ SumFunctionOnSet(f, S) \in Int
  BY <1>1, SumOfZeros, SumIsInt
<1> QED
  BY <1>2, <1>3

\* One row is replaced.
THEOREM SumChange ==
  ASSUME NEW f, NEW g, NEW S, IsFiniteSet(S), NEW x \in S,
         \A y \in S : f[y] \in Int /\ g[y] \in Int,
         \A y \in S \ {x} : g[y] = f[y]
  PROVE  SumFunctionOnSet(g, S) = SumFunctionOnSet(f, S) - f[x] + g[x]
<1> DEFINE T == S \ {x}
<1>1. IsFiniteSet(T)
  BY FS_Subset
<1>2. SumFunctionOnSet(f, S) = f[x] + SumFunctionOnSet(f, T)
  BY SumRemove
<1>3. SumFunctionOnSet(g, S) = g[x] + SumFunctionOnSet(g, T)
  BY SumRemove
<1>4. SumFunctionOnSet(f, T) = SumFunctionOnSet(g, T)
  BY <1>1, SumAgree
<1>5. SumFunctionOnSet(f, T) \in Int /\ f[x] \in Int /\ g[x] \in Int
  BY <1>1, SumIsInt
<1> QED
  BY <1>2, <1>3, <1>4, <1>5

\* One row is added.
THEOREM SumAdd ==
  ASSUME NEW f, NEW S, IsFiniteSet(S), NEW x, x \notin S,
         \A y \in S \cup {x} : f[y] \in Int
  PROVE  SumFunctionOnSet(f, S \cup {x}) = SumFunctionOnSet(f, S) + f[x]
<1> DEFINE T == S \cup {x}
<1>1. IsFiniteSet(T) /\ x \in T /\ T \ {x} = S
  BY FS_AddElement
<1>2. SumFunctionOnSet(f, T) = f[x] + SumFunctionOnSet(f, T \ {x})
  BY <1>1, SumRemove
<1>3. SumFunctionOnSet(f, S) \in Int /\ f[x] \in Int
  BY SumIsInt
<1>4. SumFunctionOnSet(f, T) = f[x] + SumFunctionOnSet(f, S)
  BY <1>1, <1>2
<1> QED
  BY <1>3, <1>4

\* A row is part of the sum.
THEOREM SumOfOne ==
  ASSUME NEW f, NEW S, IsFiniteSet(S), NEW x \in S, \A y \in S : f[y] \in Nat
  PROVE  f[x] <= SumFunctionOnSet(f, S)
<1>1. SumFunctionOnSet(f, S) = f[x] + SumFunctionOnSet(f, S \ {x})
  BY SumRemove
<1>2. SumFunctionOnSet(f, S \ {x}) \in Nat
  BY FS_Subset, SumIsNat
<1> QED
  BY <1>1, <1>2

\* Rows that count for nothing may be left out.
THEOREM SumRestrict ==
  ASSUME NEW f, NEW S, NEW T \in SUBSET S, IsFiniteSet(S),
         \A x \in S : f[x] \in Int, \A x \in S \ T : f[x] = 0
  PROVE  SumFunctionOnSet(f, T) = SumFunctionOnSet(f, S)
<1> DEFINE Sum(s) == SumFunctionOnSet(f, s)
           F == {s \in SUBSET S : Sum(s \cap T) # Sum(s)}
<1>0. F \in SUBSET (SUBSET S)
  OBVIOUS
<1>1. ASSUME F # {} PROVE FALSE
  <2>1. PICK s \in F : \A t \in F : t \subseteq s => t = s
    <3> HIDE DEF F
    <3> QED
      BY <1>0, <1>1, SmallestSubset
  <2> DEFINE c == First(s)
             u == s \ {c}
  <2>2. s # {} /\ IsFiniteSet(s) /\ IsFiniteSet(s \cap T) /\ IsFiniteSet(u)
    BY FS_Subset
  <2>3. c \in s
    BY <2>2 DEF First
  <2>4. Sum(s) = f[c] + Sum(u)
    BY <2>2, SumUnfolds
  <2>5. Sum(u \cap T) = Sum(u) /\ Sum(u) \in Int /\ f[c] \in Int
    BY <2>1, <2>2, <2>3, SumIsInt
  <2>6. Sum(s \cap T) # Sum(s)
    BY <2>1
  <2>7. CASE c \in T
    <3>1. c \in s \cap T /\ (s \cap T) \ {c} = u \cap T
      BY <2>3, <2>7
    <3>2. Sum(s \cap T) = f[c] + Sum((s \cap T) \ {c})
      BY <2>2, <3>1, SumRemove
    <3> QED
      BY <2>4, <2>5, <2>6, <3>1, <3>2
  <2>8. CASE c \notin T
    <3>1. s \cap T = u \cap T /\ f[c] = 0
      BY <2>3, <2>8
    <3>2. Sum(s \cap T) = Sum(u \cap T)
      BY <3>1
    <3> HIDE DEF Sum, u, c
    <3> QED
      BY <2>4, <2>5, <2>6, <3>1, <3>2
  <2> QED
    BY <2>7, <2>8
<1>2. Sum(S \cap T) = Sum(S) /\ S \cap T = T
  BY <1>1
<1> QED
  BY <1>2

\* Two sums over the same rows, taken together.
THEOREM SumPlus ==
  ASSUME NEW f, NEW g, NEW h, NEW S, IsFiniteSet(S),
         \A x \in S : f[x] \in Int /\ g[x] \in Int /\ h[x] = f[x] + g[x]
  PROVE  SumFunctionOnSet(h, S) = SumFunctionOnSet(f, S) + SumFunctionOnSet(g, S)
<1> DEFINE Sum(e, s) == SumFunctionOnSet(e, s)
           F == {s \in SUBSET S : Sum(h, s) # Sum(f, s) + Sum(g, s)}
<1>0. F \in SUBSET (SUBSET S)
  OBVIOUS
<1>1. ASSUME F # {} PROVE FALSE
  <2>1. PICK s \in F : \A t \in F : t \subseteq s => t = s
    <3> HIDE DEF F
    <3> QED
      BY <1>0, <1>1, SmallestSubset
  <2> DEFINE c == First(s)
             u == s \ {c}
  <2>2. IsFiniteSet(s) /\ IsFiniteSet(u)
    BY FS_Subset
  <2>3. Sum(h, s) # Sum(f, s) + Sum(g, s)
    BY <2>1
  <2>4. s # {}
    <3>1. Sum(f, {}) = 0 /\ Sum(g, {}) = 0 /\ Sum(h, {}) = 0
      BY SumOfNone
    <3>2. s = {} => Sum(h, s) = Sum(f, s) + Sum(g, s)
      <4> HIDE DEF Sum, F
      <4>1. ASSUME s = {} PROVE Sum(h, s) = 0 /\ Sum(f, s) = 0 /\ Sum(g, s) = 0
        BY <3>1, <4>1, Zenon
      <4> QED
        BY <4>1
    <3> QED
      BY <2>3, <3>2
  <2>5. c \in s
    BY <2>4 DEF First
  <2>6. /\ Sum(f, s) = f[c] + Sum(f, u)
        /\ Sum(g, s) = g[c] + Sum(g, u)
        /\ Sum(h, s) = h[c] + Sum(h, u)
    BY <2>2, <2>4, SumUnfolds
  <2>7. Sum(h, u) = Sum(f, u) + Sum(g, u)
    BY <2>1, <2>5
  <2>8. h[c] = f[c] + g[c] /\ f[c] \in Int /\ g[c] \in Int
    BY <2>5
  <2>9. Sum(f, u) \in Int /\ Sum(g, u) \in Int
    BY <2>2, SumIsInt
  <2> HIDE DEF Sum, c, u
  <2> QED
    BY <2>3, <2>6, <2>7, <2>8, <2>9
<1> QED
  BY <1>1

\* A sum over selected rows is one over all rows, the others counting for nothing.
THEOREM SumSelected ==
  ASSUME NEW f, NEW g, NEW S, NEW T \in SUBSET S, IsFiniteSet(S),
         T = DOMAIN f, \A x \in T : f[x] \in Int /\ g[x] = f[x],
         \A x \in S \ T : g[x] = 0
  PROVE  SumFunction(f) = SumFunctionOnSet(g, S)
<1>1. IsFiniteSet(T)
  BY FS_Subset
<1>2. SumFunctionOnSet(f, T) = SumFunctionOnSet(g, T)
  BY <1>1, SumAgree
<1>3. \A x \in S : g[x] \in Int
  OBVIOUS
<1>4. SumFunctionOnSet(g, T) = SumFunctionOnSet(g, S)
  BY <1>3, SumRestrict
<1>5. SumFunction(f) = SumFunctionOnSet(f, T)
  BY DEF SumFunction
<1> QED
  BY <1>2, <1>4, <1>5

\* The sum over a single row.
THEOREM SumOfSingle ==
  ASSUME NEW f, NEW x, f[x] \in Int
  PROVE  SumFunctionOnSet(f, {x}) = f[x]
<1>1. IsFiniteSet({x}) /\ First({x}) = x
  BY FS_Singleton DEF First
<1>2. {x} \ {x} = {}
  OBVIOUS
<1>3. SumFunctionOnSet(f, {x}) = f[x] + SumFunctionOnSet(f, {})
  BY <1>1, <1>2, SumUnfolds
<1> QED
  BY <1>3, SumOfNone
\* The sum over two sets that have nothing in common.
THEOREM SumDisjoint ==
  ASSUME NEW f, NEW S, NEW T, IsFiniteSet(S), IsFiniteSet(T), S \cap T = {},
         \A x \in S \cup T : f[x] \in Int
  PROVE  SumFunctionOnSet(f, S \cup T) = SumFunctionOnSet(f, S) + SumFunctionOnSet(f, T)
<1> DEFINE all == S \cup T
           left == [x \in all |-> IF x \in S THEN f[x] ELSE 0]
           right == [x \in all |-> IF x \in T THEN f[x] ELSE 0]
<1>1. IsFiniteSet(all) /\ S \in SUBSET all /\ T \in SUBSET all
  BY FS_Union
<1>2. \A x \in all : left[x] \in Int /\ right[x] \in Int /\ f[x] = left[x] + right[x]
  OBVIOUS
<1>3. /\ \A x \in all \ S : left[x] = 0
      /\ \A x \in all \ T : right[x] = 0
      /\ \A x \in S : left[x] = f[x]
      /\ \A x \in T : right[x] = f[x]
  OBVIOUS
<1> HIDE DEF all, left, right
<1>4. SumFunctionOnSet(f, all) = SumFunctionOnSet(left, all) + SumFunctionOnSet(right, all)
  BY <1>1, <1>2, SumPlus
<1>5. SumFunctionOnSet(left, S) = SumFunctionOnSet(left, all)
  BY <1>1, <1>2, <1>3, SumRestrict
<1>6. SumFunctionOnSet(right, T) = SumFunctionOnSet(right, all)
  BY <1>1, <1>2, <1>3, SumRestrict
<1>7. SumFunctionOnSet(left, S) = SumFunctionOnSet(f, S)
  BY <1>3, SumAgree
<1>8. SumFunctionOnSet(right, T) = SumFunctionOnSet(f, T)
  BY <1>3, SumAgree
<1> QED
  BY <1>4, <1>5, <1>6, <1>7, <1>8 DEF all

\* More rows are no less altogether.
THEOREM SumSubset ==
  ASSUME NEW f, NEW S, NEW T \in SUBSET S, IsFiniteSet(S), \A x \in S : f[x] \in Nat
  PROVE  SumFunctionOnSet(f, T) <= SumFunctionOnSet(f, S)
<1>1. IsFiniteSet(T) /\ IsFiniteSet(S \ T) /\ T \cup (S \ T) = S /\ T \cap (S \ T) = {}
  BY FS_Subset, FS_Difference
<1>2. SumFunctionOnSet(f, S) = SumFunctionOnSet(f, T) + SumFunctionOnSet(f, S \ T)
  <2>1. \A x \in T \cup (S \ T) : f[x] \in Int
    OBVIOUS
  <2> QED
    BY <1>1, <2>1, SumDisjoint
<1>3. SumFunctionOnSet(f, T) \in Nat /\ SumFunctionOnSet(f, S \ T) \in Nat
  BY <1>1, SumIsNat
<1> QED
  BY <1>2, <1>3

\* The sums over the sets of a family, no two of which share an element, make the
\* sum over its union.
THEOREM SumOfUnion ==
  ASSUME NEW f, NEW S, IsFiniteSet(S), \A x \in S : f[x] \in Int,
         NEW F \in SUBSET (SUBSET S), \A u, v \in F : u # v => u \cap v = {},
         NEW g, \A u \in F : g[u] = SumFunctionOnSet(f, u)
  PROVE  SumFunctionOnSet(g, F) = SumFunctionOnSet(f, UNION F)
<1>0. IsFiniteSet(F)
  BY FS_SUBSET, FS_Subset
<1> DEFINE Bad == {s \in SUBSET F : SumFunctionOnSet(g, s) # SumFunctionOnSet(f, UNION s)}
<1>1. Bad \in SUBSET (SUBSET F)
  OBVIOUS
<1>2. ASSUME Bad # {} PROVE FALSE
  <2>1. PICK s \in Bad : \A t \in Bad : t \subseteq s => t = s
    <3> HIDE DEF Bad
    <3> QED
      BY <1>0, <1>1, <1>2, SmallestSubset
  <2>2. s # {}
    <3>1. UNION {} = {} /\ SumFunctionOnSet(g, {}) = 0 /\ SumFunctionOnSet(f, {}) = 0
      BY SumOfNone
    <3> QED
      BY <2>1, <3>1
  <2> DEFINE c == First(s)
             rest == s \ {c}
  <2>3. c \in s /\ s \subseteq F /\ IsFiniteSet(s)
    BY <1>0, <2>1, <2>2, FS_Subset DEF First
  <2>4. SumFunctionOnSet(g, s) = g[c] + SumFunctionOnSet(g, rest)
    BY <2>2, <2>3, SumUnfolds
  <2>5. SumFunctionOnSet(g, rest) = SumFunctionOnSet(f, UNION rest)
    BY <2>1, <2>3
  <2>6. SumFunctionOnSet(f, UNION s) # SumFunctionOnSet(g, s)
    BY <2>1
  <2> HIDE DEF c, Bad
  <2>7. UNION s = c \cup UNION rest /\ c \cap UNION rest = {}
    BY <2>3
  <2>8. c \in SUBSET S /\ UNION rest \in SUBSET S
    BY <2>3
  <2> HIDE DEF rest
  <2>9. IsFiniteSet(c) /\ IsFiniteSet(UNION rest)
    BY <2>8, FS_Subset
  <2>10. SumFunctionOnSet(f, c \cup UNION rest)
           = SumFunctionOnSet(f, c) + SumFunctionOnSet(f, UNION rest)
    BY <2>7, <2>8, <2>9, SumDisjoint
  <2>11. g[c] = SumFunctionOnSet(f, c)
    BY <2>3
  <2> QED
    BY <2>4, <2>5, <2>6, <2>7, <2>10, <2>11
<1> QED
  BY <1>2

\* A multiple of every row is a multiple of the sum.
THEOREM SumTimes ==
  ASSUME NEW f, NEW g, NEW S, IsFiniteSet(S), NEW k \in Int,
         \A x \in S : f[x] \in Int /\ g[x] = k * f[x]
  PROVE  SumFunctionOnSet(g, S) = k * SumFunctionOnSet(f, S)
<1> DEFINE Sum(e, s) == SumFunctionOnSet(e, s)
           F == {s \in SUBSET S : Sum(g, s) # k * Sum(f, s)}
<1>0. F \in SUBSET (SUBSET S)
  OBVIOUS
<1>1. ASSUME F # {} PROVE FALSE
  <2>1. PICK s \in F : \A t \in F : t \subseteq s => t = s
    <3> HIDE DEF F
    <3> QED
      BY <1>0, <1>1, SmallestSubset
  <2> DEFINE c == First(s)
             u == s \ {c}
  <2>2. IsFiniteSet(s) /\ IsFiniteSet(u)
    BY FS_Subset
  <2>3. Sum(g, s) # k * Sum(f, s)
    BY <2>1
  <2>4. s # {}
    <3>1. Sum(f, {}) = 0 /\ Sum(g, {}) = 0
      BY SumOfNone
    <3>2. ASSUME s = {} PROVE Sum(g, s) = 0 /\ Sum(f, s) = 0
      <4> HIDE DEF Sum, F
      <4> QED
        BY <3>1, <3>2, Zenon
    <3> HIDE DEF Sum, F
    <3> QED
      BY <2>3, <3>2
  <2>5. c \in s
    BY <2>4 DEF First
  <2>6. Sum(f, s) = f[c] + Sum(f, u) /\ Sum(g, s) = g[c] + Sum(g, u)
    BY <2>2, <2>4, SumUnfolds
  <2>7. Sum(g, u) = k * Sum(f, u)
    BY <2>1, <2>5
  <2>8. g[c] = k * f[c] /\ f[c] \in Int
    BY <2>5
  <2>9. Sum(f, u) \in Int
    BY <2>2, SumIsInt
  <2>10. k * (f[c] + Sum(f, u)) = k * f[c] + k * Sum(f, u)
    <3> HIDE DEF Sum, c, u
    <3> QED
      BY <2>8, <2>9
  <2> HIDE DEF Sum, c, u
  <2> QED
    BY <2>3, <2>6, <2>7, <2>8, <2>9, <2>10
<1> QED
  BY <1>1

\* The number of the rows that count for one.
THEOREM SumCounts ==
  ASSUME NEW f, NEW S, IsFiniteSet(S), NEW T \in SUBSET S,
         \A x \in S : f[x] = IF x \in T THEN 1 ELSE 0
  PROVE  SumFunctionOnSet(f, S) = Cardinality(T)
<1> DEFINE Sum(s) == SumFunctionOnSet(f, s)
           F == {s \in SUBSET T : Sum(s) # Cardinality(s)}
<1>0. F \in SUBSET (SUBSET T) /\ IsFiniteSet(T)
  BY FS_Subset
<1>1. ASSUME F # {} PROVE FALSE
  <2>1. PICK s \in F : \A t \in F : t \subseteq s => t = s
    <3> HIDE DEF F
    <3> QED
      BY <1>0, <1>1, SmallestSubset
  <2> DEFINE c == First(s)
             u == s \ {c}
  <2>2. IsFiniteSet(s) /\ IsFiniteSet(u)
    BY <1>0, FS_Subset
  <2>3. Sum(s) # Cardinality(s)
    BY <2>1
  <2>4. s # {}
    <3>1. Sum({}) = 0 /\ Cardinality({}) = 0
      BY SumOfNone, FS_EmptySet
    <3>2. ASSUME s = {} PROVE Sum(s) = 0 /\ Cardinality(s) = 0
      <4> HIDE DEF Sum, F
      <4> QED
        BY <3>1, <3>2, Zenon
    <3> HIDE DEF Sum, F
    <3> QED
      BY <2>3, <3>2
  <2>5. c \in s /\ f[c] = 1
    BY <2>4 DEF First
  <2>6. Sum(s) = f[c] + Sum(u)
    BY <2>2, <2>4, SumUnfolds
  <2>7. Sum(u) = Cardinality(u)
    BY <2>1, <2>5
  <2>8. Cardinality(u) = Cardinality(s) - 1 /\ Cardinality(s) \in Nat
    BY <2>2, <2>5, FS_RemoveElement, FS_CardinalityType
  <2> HIDE DEF Sum, c, u
  <2> QED
    BY <2>3, <2>5, <2>6, <2>7, <2>8
<1>2. Sum(T) = Cardinality(T)
  BY <1>1
<1>3. Sum(T) = Sum(S)
  <2> HIDE DEF F
  <2> QED
    BY SumRestrict
<1> QED
  BY <1>2, <1>3

\* h adds up the rows of f that have each key.
SumsByKey(h, f, key, S, K) ==
  /\ K = {key[x] : x \in S}
  /\ \A q \in K : h[q] = SumFunctionOnSet(f, {x \in S : key[x] = q})

\* Added up by their keys, the rows come to what they come to without.
THEOREM SumByKey ==
  ASSUME NEW f, NEW S, IsFiniteSet(S), \A x \in S : f[x] \in Int,
         NEW key, NEW K, NEW h, SumsByKey(h, f, key, S, K)
  PROVE  SumFunctionOnSet(h, K) = SumFunctionOnSet(f, S)
<1> USE DEF SumsByKey
<1> DEFINE Of(s) == {x \in S : key[x] \in s}
           F == {s \in SUBSET K : SumFunctionOnSet(h, s) # SumFunctionOnSet(f, Of(s))}
<1>0. IsFiniteSet(K) /\ F \in SUBSET (SUBSET K)
  <2> DEFINE k == [x \in S |-> key[x]]
  <2>1. k \in Surjection(S, K)
    BY DEF Surjection
  <2> HIDE DEF k
  <2>2. IsFiniteSet(K)
    BY <2>1, FS_Surjection
  <2> QED
    BY <2>2
<1>1. ASSUME F # {} PROVE FALSE
  <2>1. PICK s \in F : \A t \in F : t \subseteq s => t = s
    <3> HIDE DEF F
    <3> QED
      BY <1>0, <1>1, SmallestSubset
  <2> DEFINE c == First(s)
             u == s \ {c}
             C == {x \in S : key[x] = c}
  <2>2. IsFiniteSet(s) /\ IsFiniteSet(u) /\ IsFiniteSet(C) /\ IsFiniteSet(Of(u))
    <3>1. s \in SUBSET K /\ u \in SUBSET K /\ C \in SUBSET S /\ Of(u) \in SUBSET S
      OBVIOUS
    <3> QED
      BY <1>0, <3>1, FS_Subset
  <2>3. SumFunctionOnSet(h, s) # SumFunctionOnSet(f, Of(s))
    BY <2>1
  <2>4. s # {}
    <3>1. SumFunctionOnSet(h, {}) = 0 /\ SumFunctionOnSet(f, {}) = 0
      BY SumOfNone
    <3>2. ASSUME s = {} PROVE FALSE
      <4>1. Of(s) = {}
        BY <3>2
      <4> HIDE DEF Of, F
      <4> QED
        BY <2>3, <3>1, <3>2, <4>1, Zenon
    <3> QED
      BY <3>2
  <2>5. c \in s /\ c \in K /\ u \in SUBSET K /\ u # s /\ u \subseteq s
    BY <2>4 DEF First
  <2>6. SumFunctionOnSet(h, u) = SumFunctionOnSet(f, Of(u))
    BY <2>1, <2>5
  <2>7. SumFunctionOnSet(h, s) = h[c] + SumFunctionOnSet(h, u)
    BY <2>2, <2>4, SumUnfolds
  <2>8. Of(s) = C \cup Of(u) /\ C \cap Of(u) = {} /\ \A x \in C \cup Of(u) : f[x] \in Int
    BY <2>5
  <2>9. SumFunctionOnSet(f, C \cup Of(u)) = SumFunctionOnSet(f, C) + SumFunctionOnSet(f, Of(u))
    <3> HIDE DEF C, Of, c, u, F
    <3> QED
      BY <2>2, <2>8, SumDisjoint
  <2>10. h[c] = SumFunctionOnSet(f, C)
    BY <2>5
  <2> HIDE DEF Of, C, c, u
  <2> QED
    BY <2>3, <2>6, <2>7, <2>8, <2>9, <2>10
<1>2. SumFunctionOnSet(h, K) = SumFunctionOnSet(f, Of(K))
  <2>1. K \notin F
    BY <1>1
  <2> QED
    BY <2>1
<1>3. Of(K) = S
  OBVIOUS
<1> QED
  BY <1>2, <1>3

-----------------------------------------------------------------------------
(* Ranks: who comes before whom in a finite set that an order lines up *)

Before(x, S, R) == {y \in S : <<y, x>> \in R}
AmongFirst(n, S, R) == {x \in S : Cardinality(Before(x, S, R)) < n}
LinesUp(R, S) ==
  /\ \A x, y, z \in S : <<x, y>> \in R /\ <<y, z>> \in R => <<x, z>> \in R
  /\ \A x \in S : <<x, x>> \notin R
  /\ \A x, y \in S : x # y => <<x, y>> \in R \/ <<y, x>> \in R

\* A finite set has a greatest element in every strict order.
LEMMA GreatestInOrder ==
  ASSUME NEW S, IsFiniteSet(S), S # {}, NEW R,
         \A x, y, z \in S : <<x, y>> \in R /\ <<y, z>> \in R => <<x, z>> \in R,
         \A x \in S : <<x, x>> \notin R
  PROVE  \E x \in S : \A y \in S : <<x, y>> \notin R
<1> DEFINE Above(x) == {y \in S : <<x, y>> \in R}
           F == {Above(x) : x \in S}
<1>1. F \in SUBSET (SUBSET S)
  OBVIOUS
<1>2. F # {}
  <2>1. PICK x \in S : TRUE
    OBVIOUS
  <2>2. Above(x) \in F
    OBVIOUS
  <2> QED
    BY <2>2
<1>3. PICK s \in F : \A t \in F : t \subseteq s => t = s
  <2> HIDE DEF F
  <2> QED
    BY <1>1, <1>2, SmallestSubset
<1>4. PICK x \in S : s = Above(x)
  OBVIOUS
<1>5. \A y \in S : <<x, y>> \notin R
  <2> SUFFICES ASSUME NEW y \in S, <<x, y>> \in R PROVE FALSE
    OBVIOUS
  <2>1. Above(y) \in F
    OBVIOUS
  <2>2. Above(y) \subseteq Above(x)
    OBVIOUS
  <2>3. y \in Above(x) /\ y \notin Above(y)
    OBVIOUS
  <2> QED
    BY <1>3, <1>4, <2>1, <2>2, <2>3
<1> QED
  BY <1>5

\* As many elements have fewer than n before them as n says.
THEOREM RanksCount ==
  ASSUME NEW S, IsFiniteSet(S), NEW R, LinesUp(R, S), NEW n \in 0..Cardinality(S)
  PROVE  Cardinality(AmongFirst(n, S, R)) = n
<1> DEFINE F == {s \in SUBSET S : \E i \in 0..Cardinality(s) : Cardinality(AmongFirst(i, s, R)) # i}
<1>0. F \in SUBSET (SUBSET S)
  OBVIOUS
<1>1. ASSUME F # {} PROVE FALSE
  <2>1. PICK s \in F : \A t \in F : t \subseteq s => t = s
    <3> HIDE DEF F
    <3> QED
      BY <1>0, <1>1, SmallestSubset
  <2>2. s \in SUBSET S /\ IsFiniteSet(s) /\ Cardinality(s) \in Nat /\ LinesUp(R, s)
    BY FS_Subset, FS_CardinalityType DEF LinesUp
  <2>3. PICK i \in 0..Cardinality(s) : Cardinality(AmongFirst(i, s, R)) # i
    BY <2>1
  <2>4. s # {}
    <3>1. ASSUME s = {} PROVE FALSE
      <4>1. i = 0 /\ AmongFirst(i, s, R) = {}
        BY <3>1, <2>3, FS_EmptySet DEF AmongFirst
      <4> QED
        BY <2>3, <4>1, FS_EmptySet
    <3> QED
      BY <3>1
  <2>5. PICK m \in s : \A y \in s : <<m, y>> \notin R
    BY <2>2, <2>4, GreatestInOrder DEF LinesUp
  <2> DEFINE u == s \ {m}
  <2>6. /\ u \in SUBSET S /\ u \subseteq s /\ u # s /\ u \cup {m} = s /\ m \notin u
        /\ Cardinality(u) = Cardinality(s) - 1 /\ Cardinality(u) \in Nat
    <3>1. Cardinality(u) = Cardinality(s) - 1 /\ IsFiniteSet(u)
      BY <2>2, <2>5, FS_RemoveElement
    <3>2. Cardinality(u) \in Nat
      BY <3>1, FS_CardinalityType
    <3> QED
      BY <2>2, <2>5, <3>1, <3>2
  <2>7. \A j \in 0..Cardinality(u) : Cardinality(AmongFirst(j, u, R)) = j
    <3>1. u \notin F
      BY <2>1, <2>6
    <3> HIDE DEF u
    <3> QED
      BY <2>6, <3>1
  <2>8. \A x \in u : Before(x, s, R) = Before(x, u, R)
    BY <2>5 DEF Before
  <2>9. Before(m, s, R) = u
    BY <2>2, <2>5 DEF Before, LinesUp
  <2> HIDE DEF u, F
  <2>10. CASE i <= Cardinality(u)
    <3>1. ~ (Cardinality(Before(m, s, R)) < i)
      BY <2>3, <2>6, <2>9, <2>10
    <3>2. AmongFirst(i, s, R) = AmongFirst(i, u, R)
      BY <2>6, <2>8, <3>1 DEF AmongFirst
    <3> QED
      BY <2>3, <2>6, <2>7, <2>10, <3>2
  <2>11. CASE i = Cardinality(s)
    <3>1. ASSUME NEW x \in s PROVE Cardinality(Before(x, s, R)) < i
      <4>1. Before(x, s, R) \in SUBSET (s \ {x})
        BY <2>2 DEF Before, LinesUp
      <4>2. IsFiniteSet(s \ {x}) /\ Cardinality(s \ {x}) = Cardinality(s) - 1
        BY <2>2, FS_RemoveElement
      <4>3. /\ Cardinality(Before(x, s, R)) <= Cardinality(s \ {x})
            /\ Cardinality(Before(x, s, R)) \in Nat
        BY <4>1, <4>2, FS_Subset, FS_CardinalityType
      <4> QED
        BY <2>2, <2>11, <4>2, <4>3
    <3>2. AmongFirst(i, s, R) = s
      BY <3>1 DEF AmongFirst
    <3> QED
      BY <2>3, <2>11, <3>2
  <2> QED
    BY <2>2, <2>3, <2>6, <2>10, <2>11
<1>2. S \notin F
  BY <1>1
<1> QED
  BY <1>2
=============================================================================
