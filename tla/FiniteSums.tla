------------------------------ MODULE FiniteSums ------------------------------
(* Lemmas about SumFunction over a finite domain: a sum whose terms grow    *)
(* grows, and by at least as much as any one of them.  The sum is a fold    *)
(* over a recursive function on subsets; the lemmas reach its values by     *)
(* the smallest subset that breaks a claim, in place of an induction over   *)
(* the set.                                                                *)
EXTENDS Integers, FiniteSets, Functions, FiniteSetTheorems,
        WellFoundedInduction, TLAPS

\* The element of a set that the folds of the library take first.
Pick(s) == CHOOSE x \in s : TRUE

\* g holds the sums of f over the subsets of T, as the library defines them.
IsFold(g, f, T) ==
    g = [s \in SUBSET T |-> IF s = {} THEN 0
                            ELSE f[Pick(s)] + g[s \ {Pick(s)}]]

Fold(f, T) == CHOOSE g : IsFold(g, f, T)

\* The library's SumFunction in these terms.
LEMMA SumIsFold == \A f : SumFunction(f) = Fold(f, DOMAIN f)[DOMAIN f]
  BY Zenon DEF SumFunction, SumFunctionOnSet, FoldFunctionOnSet,
               MapThenFoldSet, IsFold, Pick, Fold

\* The element picked is one of the set.
LEMMA Picked ==
    ASSUME NEW s, s # {}
    PROVE  Pick(s) \in s
  BY DEF Pick

\* A fold has the values its defining equation gives it.
LEMMA FoldUnfolds ==
    ASSUME NEW g, NEW f, NEW T, IsFold(g, f, T)
    PROVE  /\ g[{}] = 0
           /\ \A s \in SUBSET T :
                  s # {} => g[s] = f[Pick(s)] + g[s \ {Pick(s)}]
  BY DEF IsFold

\* A set of subsets of a finite set has a member that is minimal in it.
LEMMA MinimalMember ==
    ASSUME NEW T, IsFiniteSet(T), NEW Bad \in SUBSET (SUBSET T), Bad # {}
    PROVE  \E s \in Bad : \A x \in s : s \ {x} \notin Bad
  <1> DEFINE R == StrictSubsetOrdering(T)
  <1>1. IsWellFoundedOn(R, FiniteSubsetsOf(T))
    BY FS_StrictSubsetOrderingWellFounded
  <1>2. Bad \subseteq FiniteSubsetsOf(T)
    BY FS_Subset DEF FiniteSubsetsOf
  <1>3. PICK s \in Bad : \A u \in Bad : <<u, s>> \notin R
    <2> HIDE DEF R
    <2>1. QED BY <1>1, <1>2, WFMin
  <1>4. ASSUME NEW x \in s, s \ {x} \in Bad PROVE FALSE
    <2>1. /\ s \subseteq T /\ s \ {x} \subseteq T
          /\ s \ {x} \subseteq s /\ s \ {x} # s
      OBVIOUS
    <2>2. <<s \ {x}, s>> \in R
      BY <2>1 DEF StrictSubsetOrdering
    <2>3. QED BY <1>3, <1>4, <2>2
  <1>5. QED BY <1>4

\* A fold over T holds the sums over the subsets of any part of T too.
LEMMA FoldRestricts ==
    ASSUME NEW g, NEW f, NEW T, IsFold(g, f, T), NEW U \in SUBSET T
    PROVE  IsFold([s \in SUBSET U |-> g[s]], f, U)
  <1> DEFINE h == [s \in SUBSET U |-> g[s]]
  <1>1. \A s \in SUBSET U : s \ {Pick(s)} \in SUBSET U /\ s \in SUBSET T
    OBVIOUS
  <1>2. \A s \in SUBSET U :
            h[s] = IF s = {} THEN 0 ELSE f[Pick(s)] + h[s \ {Pick(s)}]
    <2> TAKE s \in SUBSET U
    <2>1. h[s] = g[s] /\ h[s \ {Pick(s)}] = g[s \ {Pick(s)}] /\ s \in SUBSET T
      BY <1>1
    <2> HIDE DEF h
    <2>2. CASE s = {}
      BY <2>1, <2>2, FoldUnfolds
    <2>3. CASE s # {}
      <3>1. g[s] = f[Pick(s)] + g[s \ {Pick(s)}]
        BY <2>1, <2>3, FoldUnfolds
      <3>2. QED BY <2>1, <2>3, <3>1
    <2>4. QED BY <2>2, <2>3
  <1> DEFINE k == [s \in SUBSET U |->
                       IF s = {} THEN 0 ELSE f[Pick(s)] + h[s \ {Pick(s)}]]
  <1>3. h = k
    BY <1>2
  <1>4. QED BY <1>3 DEF IsFold

\* The defining equation has one solution on a finite set.
LEMMA FoldUnique ==
    ASSUME NEW T, IsFiniteSet(T), NEW f, NEW g, NEW h,
           IsFold(g, f, T), IsFold(h, f, T)
    PROVE  \A s \in SUBSET T : g[s] = h[s]
  <1> DEFINE Bad == {s \in SUBSET T : g[s] # h[s]}
  <1>1. SUFFICES ASSUME Bad # {} PROVE FALSE
    OBVIOUS
  <1>2. PICK s \in Bad : \A x \in s : s \ {x} \notin Bad
    BY <1>1, MinimalMember
  <1>3. s # {}
    BY <1>2, FoldUnfolds
  <1>4. g[s \ {Pick(s)}] = h[s \ {Pick(s)}]
    BY <1>2, <1>3, Picked
  <1>5. QED BY <1>2, <1>3, <1>4, FoldUnfolds

\* The defining equation has a solution on a finite set: the recursion ends.
LEMMA FoldExists ==
    ASSUME NEW S, IsFiniteSet(S), NEW f
    PROVE  \E g : IsFold(g, f, S)
  <1> DEFINE Bad == {T \in SUBSET S : ~\E g : IsFold(g, f, T)}
  <1>1. SUFFICES ASSUME Bad # {} PROVE FALSE
    OBVIOUS
  <1>2. PICK T \in Bad : \A x \in T : T \ {x} \notin Bad
    BY <1>1, MinimalMember
  <1>3. IsFiniteSet(T)
    BY FS_Subset
  <1>4. CASE T = {}
    <2> DEFINE g == [s \in SUBSET T |-> 0]
    <2>1. g = [s \in SUBSET T |-> IF s = {} THEN 0
                                  ELSE f[Pick(s)] + g[s \ {Pick(s)}]]
      BY <1>4
    <2> HIDE DEF g
    <2>2. IsFold(g, f, T)
      BY <2>1 DEF IsFold
    <2>3. QED BY <1>2, <2>2
  <1>5. CASE T # {}
    <2> DEFINE val == [s \in SUBSET T |-> Fold(f, s)[s]]
               g == [s \in SUBSET T |->
                         IF s = T THEN f[Pick(T)] + val[T \ {Pick(T)}]
                                  ELSE val[s]]
    <2>1. Pick(T) \in T
      BY <1>5, Picked
    <2>2. ASSUME NEW s \in SUBSET T, s # T
          PROVE  IsFold(Fold(f, s), f, s)
      <3>1. PICK x \in T : x \notin s
        BY <2>2
      <3>2. PICK u : IsFold(u, f, T \ {x})
        BY <1>2
      <3>3. s \in SUBSET (T \ {x})
        BY <3>1
      <3>4. IsFold([r \in SUBSET s |-> u[r]], f, s)
        BY <3>2, <3>3, FoldRestricts
      <3>5. QED BY <3>4 DEF Fold
    <2>3. ASSUME NEW s \in SUBSET T, s # T, s # {}
          PROVE  val[s] = f[Pick(s)] + val[s \ {Pick(s)}]
      <3> DEFINE t == s \ {Pick(s)}
                 h == [u \in SUBSET t |-> Fold(f, s)[u]]
      <3>1. t \in SUBSET s /\ t \in SUBSET T /\ t # T /\ t \in SUBSET t
            /\ s \in SUBSET s
        BY <2>3
      <3>2. IsFold(Fold(f, s), f, s) /\ IsFold(Fold(f, t), f, t)
        BY <2>2, <2>3, <3>1
      <3>3. IsFold(h, f, t)
        <4> HIDE DEF t
        <4>1. QED BY <3>1, <3>2, FoldRestricts
      <3>4. IsFiniteSet(t)
        BY <1>3, <3>1, FS_Subset
      <3>5. h[t] = Fold(f, t)[t]
        <4> HIDE DEF t, h
        <4>1. QED BY <3>1, <3>2, <3>3, <3>4, FoldUnique
      <3>6. Fold(f, s)[t] = Fold(f, t)[t]
        BY <3>1, <3>5
      <3>7. Fold(f, s)[s] = f[Pick(s)] + Fold(f, s)[t]
        BY <2>3, <3>1, <3>2, FoldUnfolds
      <3>8. QED BY <3>1, <3>6, <3>7
    <2>4. val[{}] = 0
      BY <1>5, <2>2, FoldUnfolds
    <2>5. ASSUME NEW s \in SUBSET T
          PROVE  g[s] = IF s = {} THEN 0
                        ELSE f[Pick(s)] + g[s \ {Pick(s)}]
      <3> HIDE DEF val
      <3>1. CASE s = {}
        BY <1>5, <2>4, <3>1
      <3>2. CASE s = T
        <4>1. T \ {Pick(T)} \in SUBSET T /\ T \ {Pick(T)} # T
          BY <2>1
        <4>2. QED BY <1>5, <3>2, <4>1
      <3>3. CASE s # {} /\ s # T
        <4>1. s \ {Pick(s)} \in SUBSET T /\ s \ {Pick(s)} # T
          BY <3>3
        <4>2. QED BY <2>3, <3>3, <4>1
      <3>4. QED BY <3>1, <3>2, <3>3
    <2> HIDE DEF val
    <2>6. g = [s \in SUBSET T |-> g[s]]
      OBVIOUS
    <2> HIDE DEF g
    <2>7. g = [s \in SUBSET T |-> IF s = {} THEN 0
                                  ELSE f[Pick(s)] + g[s \ {Pick(s)}]]
      BY <2>5, <2>6
    <2>8. IsFold(g, f, T)
      BY <2>7 DEF IsFold
    <2>9. QED BY <1>2, <2>8
  <1>6. QED BY <1>4, <1>5

\* What is used of g, the sums of f over the subsets of S.
SumsUp(g, f, S) ==
    /\ g[{}] = 0
    /\ \A s \in SUBSET S :
           /\ g[s] \in Int
           /\ s # {} => g[s] = f[Pick(s)] + g[s \ {Pick(s)}]

\* The sum of a function over a finite set, element by element.
LEMMA SumUnfolds ==
    ASSUME NEW S, IsFiniteSet(S), NEW f \in [S -> Int]
    PROVE  \E g : SumFunction(f) = g[S] /\ SumsUp(g, f, S)
  <1> DEFINE g == Fold(f, S)
  <1>1. IsFold(g, f, S)
    BY FoldExists DEF Fold
  <1>2. SumFunction(f) = g[S]
    <2>1. DOMAIN f = S
      OBVIOUS
    <2>2. QED BY <2>1, SumIsFold
  <1> HIDE DEF g
  <1>3. /\ g[{}] = 0
        /\ \A s \in SUBSET S : s # {} => g[s] = f[Pick(s)] + g[s \ {Pick(s)}]
    BY <1>1, FoldUnfolds
  <1> DEFINE Bad == {s \in SUBSET S : g[s] \notin Int}
  <1>4. Bad = {}
    <2>1. SUFFICES ASSUME Bad # {} PROVE FALSE
      OBVIOUS
    <2>2. PICK s \in Bad : \A x \in s : s \ {x} \notin Bad
      BY <2>1, MinimalMember
    <2>3. s \in SUBSET S /\ g[s] \notin Int
      BY <2>2
    <2>4. s # {}
      <3>1. ASSUME s = {} PROVE FALSE
        BY <1>3, <2>3, <3>1
      <3>2. QED BY <3>1
    <2>5. Pick(s) \in s
      BY <2>4, Picked
    <2>6. g[s \ {Pick(s)}] \in Int /\ f[Pick(s)] \in Int
      BY <2>2, <2>3, <2>5
    <2>7. g[s] = f[Pick(s)] + g[s \ {Pick(s)}]
      BY <1>3, <2>3, <2>4
    <2>8. QED BY <2>3, <2>6, <2>7
  <1>5. SumsUp(g, f, S)
    BY <1>3, <1>4 DEF SumsUp
  <1>6. QED BY <1>2, <1>5

\* A sum of integers is one.
LEMMA SumIsInt ==
    ASSUME NEW S, IsFiniteSet(S), NEW f \in [S -> Int]
    PROVE  SumFunction(f) \in Int
  <1>1. PICK g : SumFunction(f) = g[S] /\ SumsUp(g, f, S)
    BY SumUnfolds
  <1>2. S \in SUBSET S
    OBVIOUS
  <1>3. QED BY <1>1, <1>2 DEF SumsUp

\* A sum whose terms grow grows, and by d if one of them grows by d.
LEMMA SumGrows ==
    ASSUME NEW S, IsFiniteSet(S), NEW f \in [S -> Int], NEW h \in [S -> Int],
           \A x \in S : f[x] <= h[x], NEW d \in Nat,
           d = 0 \/ \E k \in S : f[k] + d <= h[k]
    PROVE  SumFunction(f) + d <= SumFunction(h)
  <1>1. PICK F : SumFunction(f) = F[S] /\ SumsUp(F, f, S)
    BY SumUnfolds
  <1>2. PICK H : SumFunction(h) = H[S] /\ SumsUp(H, h, S)
    BY SumUnfolds
  <1>3. PICK k : d = 0 \/ (k \in S /\ f[k] + d <= h[k])
    OBVIOUS
  <1> DEFINE due == [s \in SUBSET S |-> IF k \in s THEN d ELSE 0]
             Bad == {s \in SUBSET S : ~(F[s] + due[s] <= H[s])}
  <1>4. Bad = {}
    <2>1. SUFFICES ASSUME Bad # {} PROVE FALSE
      OBVIOUS
    <2>2. PICK s \in Bad : \A x \in s : s \ {x} \notin Bad
      BY <2>1, MinimalMember
    <2>3. s \in SUBSET S /\ ~(F[s] + due[s] <= H[s])
      BY <2>2
    <2>4. s # {}
      <3>1. due[{}] = 0 /\ F[{}] = 0 /\ H[{}] = 0
        BY <1>1, <1>2 DEF SumsUp
      <3>2. ASSUME s = {} PROVE FALSE
        <4> HIDE DEF due
        <4>1. QED BY <2>3, <3>1, <3>2
      <3>3. QED BY <3>2
    <2> DEFINE x == Pick(s)
               t == s \ {x}
    <2>5. x \in s /\ x \in S /\ t \in SUBSET S
      BY <2>3, <2>4, Picked
    <2>6. F[t] + due[t] <= H[t]
      BY <2>2, <2>5
    <2>7. F[s] = f[x] + F[t] /\ H[s] = h[x] + H[t]
      BY <1>1, <1>2, <2>3, <2>4 DEF SumsUp
    <2>8. /\ F[t] \in Int /\ H[t] \in Int /\ f[x] \in Int /\ h[x] \in Int
          /\ f[x] <= h[x]
      BY <1>1, <1>2, <2>5 DEF SumsUp
    <2>9. \/ due[s] = due[t]
          \/ due[t] = 0 /\ due[s] = d /\ f[x] + d <= h[x]
      <3>1. due[s] = (IF k \in s THEN d ELSE 0)
            /\ due[t] = (IF k \in t THEN d ELSE 0)
        BY <2>3, <2>5
      <3>2. CASE k = x
        <4>1. k \in s /\ k \notin t
          BY <2>5, <3>2
        <4>2. QED BY <1>3, <3>1, <3>2, <4>1
      <3>3. CASE k # x
        <4>1. k \in s <=> k \in t
          BY <3>3
        <4>2. QED BY <3>1, <4>1
      <3>4. QED BY <3>2, <3>3
    <2>10. due[s] \in Nat /\ due[t] \in Nat
      BY <2>3, <2>5
    <2> HIDE DEF x, t, due
    <2>11. QED BY <2>3, <2>6, <2>7, <2>8, <2>9, <2>10
  <1>5. S \in SUBSET S /\ (d = 0 \/ k \in S)
    BY <1>3
  <1>6. F[S] + due[S] <= H[S] /\ due[S] = d
    BY <1>4, <1>5
  <1>7. QED BY <1>1, <1>2, <1>6

\* A sum of terms that are not negative is not negative.
LEMMA SumNotNegative ==
    ASSUME NEW S, IsFiniteSet(S), NEW f \in [S -> Nat]
    PROVE  SumFunction(f) >= 0
  <1>1. f \in [S -> Int]
    OBVIOUS
  <1>2. PICK F : SumFunction(f) = F[S] /\ SumsUp(F, f, S)
    BY <1>1, SumUnfolds
  <1> DEFINE Bad == {s \in SUBSET S : ~(F[s] >= 0)}
  <1>3. Bad = {}
    <2>1. SUFFICES ASSUME Bad # {} PROVE FALSE
      OBVIOUS
    <2>2. PICK s \in Bad : \A x \in s : s \ {x} \notin Bad
      BY <2>1, MinimalMember
    <2>3. s \in SUBSET S /\ ~(F[s] >= 0)
      BY <2>2
    <2>4. s # {}
      <3>1. F[{}] = 0
        BY <1>2 DEF SumsUp
      <3>2. ASSUME s = {} PROVE FALSE
        BY <2>3, <3>1, <3>2
      <3>3. QED BY <3>2
    <2> DEFINE x == Pick(s)
               t == s \ {x}
    <2>5. x \in s /\ x \in S /\ t \in SUBSET S
      BY <2>3, <2>4, Picked
    <2>6. F[t] >= 0
      BY <2>2, <2>5
    <2>7. F[s] = f[x] + F[t] /\ F[t] \in Int /\ f[x] \in Nat
      BY <1>2, <2>3, <2>4, <2>5 DEF SumsUp
    <2> HIDE DEF x, t
    <2>8. QED BY <2>3, <2>6, <2>7
  <1>4. QED BY <1>2, <1>3
=============================================================================
