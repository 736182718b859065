------------------------------ MODULE Aggregates ------------------------------
(***************************************************************************)
(* What MIN, MAX and SUM return, for the proofs about what the code takes  *)
(* the first or the last of (a sequence number, a cursor, a request) and   *)
(* about the totals it keeps.                                              *)
(***************************************************************************)
EXTENDS Integers, FiniteSetsExt, FiniteSetTheorems, WellFoundedInduction, TLAPS

-----------------------------------------------------------------------------
(* Least and greatest.                                                     *)

LEMMA NatMin ==
    ASSUME NEW S \in SUBSET Nat, S # {}
    PROVE  \E x \in S : \A y \in S : x <= y
  <1>1. PICK x \in S : \A y \in S : ~(<<y, x>> \in OpToRel(<, Nat))
    BY NatLessThanWellFounded, WFMin
  <1>2. \A y \in S : x \in Nat /\ y \in Nat /\ ~(y < x)
    BY <1>1 DEF OpToRel
  <1> QED
    BY <1>2

\* A set of numbers that has a bound has a greatest one: the least of its bounds.
LEMMA NatMax ==
    ASSUME NEW S \in SUBSET Nat, S # {}, NEW bound \in Nat, \A x \in S : x <= bound
    PROVE  \E x \in S : \A y \in S : y <= x
  <1> DEFINE Bounds == {n \in Nat : \A x \in S : x <= n}
  <1>1. Bounds # {} /\ Bounds \in SUBSET Nat
    OBVIOUS
  <1>2. PICK least \in Bounds : \A n \in Bounds : least <= n
    BY <1>1, NatMin
  <1>3. ASSUME least \notin S PROVE FALSE
    <2>1. least \in Nat /\ \A x \in S : x \in Nat /\ x <= least
      BY <1>2
    <2>2. \A x \in S : x <= least - 1
      BY <1>3, <2>1
    <2>3. least - 1 \in Nat
      <3>1. PICK x \in S : TRUE
        OBVIOUS
      <3> QED
        BY <2>1, <2>2, <3>1
    <2>4. least - 1 \in Bounds
      BY <2>2, <2>3
    <2> QED
      BY <1>2, <2>1, <2>4
  <1> QED
    BY <1>2, <1>3

LEMMA MinIsLeast ==
    ASSUME NEW S \in SUBSET Nat, S # {}
    PROVE  Min(S) \in S /\ \A y \in S : Min(S) <= y
  BY NatMin DEF Min

LEMMA MaxIsGreatest ==
    ASSUME NEW S \in SUBSET Nat, S # {}, NEW bound \in Nat, \A x \in S : x <= bound
    PROVE  Max(S) \in S /\ \A y \in S : y <= Max(S)
  <1>1. \E x \in S : \A y \in S : y <= x
    BY NatMax
  <1>2. \E x \in S : \A y \in S : x >= y
    BY <1>1
  <1>3. Max(S) \in S /\ \A y \in S : Max(S) >= y
    BY <1>2 DEF Max
  <1> QED
    BY <1>3

-----------------------------------------------------------------------------
(* Sums.  FoldSet goes through a set in the order CHOOSE gives, so what it *)
(* returns is settled subset by subset.                                    *)

Chosen(s) == CHOOSE x \in s : TRUE

\* A property of sets that holds of none and passes to a set from what is left of it
\* without the element that CHOOSE names holds of every subset of a finite set.
LEMMA SubsetsOneByOne ==
    ASSUME NEW S, IsFiniteSet(S), NEW Good, {} \in Good,
           \A s \in SUBSET S : s # {} /\ s \ {Chosen(s)} \in Good => s \in Good
    PROVE  SUBSET S \subseteq Good
  <1> DEFINE Bad == {n \in Nat : \E s \in SUBSET S : s \notin Good /\ Cardinality(s) = n}
  <1>1. \A s \in SUBSET S : IsFiniteSet(s) /\ Cardinality(s) \in Nat
    BY FS_Subset, FS_CardinalityType
  <1>2. ASSUME Bad # {} PROVE FALSE
    <2>1. PICK n \in Bad : \A m \in Bad : n <= m
      <3> HIDE DEF Bad
      <3>1. Bad \in SUBSET Nat
        BY DEF Bad
      <3> QED
        BY <1>2, <3>1, NatMin
    <2>2. PICK s \in SUBSET S : s \notin Good /\ Cardinality(s) = n
      BY <2>1
    <2> DEFINE c == Chosen(s)
               t == s \ {c}
    <2>3. s # {} /\ c \in s
      BY <2>2 DEF Chosen
    <2> HIDE DEF c
    <2>4. Cardinality(t) = n - 1 /\ n \in Nat /\ t \in SUBSET S
      BY <1>1, <2>2, <2>3, FS_RemoveElement
    <2>5. Cardinality(t) \in Nat
      BY <1>1, <2>4
    <2>6. t \in Good
      <3> HIDE DEF t
      <3> QED
        BY <2>1, <2>4, <2>5
    <2>7. s \in Good
      BY <2>3, <2>6 DEF c
    <2> QED
      BY <2>2, <2>7
  <1> QED
    BY <1>1, <1>2

\* A fold over the subsets of S: from base, with what pick names of each subset put in
\* by step, all of it in T.
IsFold(f, S, base, pick, step) ==
    f = [s \in SUBSET S |-> IF s = {} THEN base ELSE step[pick[s]][f[s \ {pick[s]}]]]

LEMMA FoldExists ==
    ASSUME NEW S, IsFiniteSet(S), NEW T, NEW base \in T, NEW pick, NEW step,
           \A s \in SUBSET S : s # {} => pick[s] \in s,
           \A x \in S : \A t \in T : step[x][t] \in T
    PROVE  \E f \in [SUBSET S -> T] : IsFold(f, S, base, pick, step)
  <1> DEFINE UpTo(n) == {s \in SUBSET S : Cardinality(s) <= n}
             Next(f, s) == IF s = {} THEN base ELSE step[pick[s]][f[s \ {pick[s]}]]
             Part(f, n) == f \in [UpTo(n) -> T] /\ f = [s \in UpTo(n) |-> Next(f, s)]
             Bad == {n \in Nat : ~\E f : Part(f, n)}
  <1>1. \A s \in SUBSET S : IsFiniteSet(s) /\ Cardinality(s) \in Nat
    BY FS_Subset, FS_CardinalityType
  <1>2. \E f : Part(f, 0)
    <2>1. UpTo(0) = {{}}
      <3>1. \A s \in SUBSET S : Cardinality(s) <= 0 => s = {}
        BY <1>1, FS_EmptySet
      <3>2. Cardinality({}) = 0 /\ {} \in SUBSET S
        BY FS_EmptySet
      <3>3. {} \in UpTo(0)
        BY <3>2
      <3>4. \A s \in UpTo(0) : s = {}
        BY <3>1
      <3> HIDE DEF UpTo
      <3> QED
        BY <3>3, <3>4
    <2>2. Part([s \in UpTo(0) |-> base], 0)
      BY <2>1
    <2> QED
      BY <2>2
  <1>3. ASSUME NEW n \in Nat, NEW f, Part(f, n) PROVE \E g : Part(g, n + 1)
    <2> DEFINE g == [s \in UpTo(n + 1) |-> Next(f, s)]
    <2>1. \A s \in UpTo(n + 1) : s # {} => s \ {pick[s]} \in UpTo(n)
      <3> SUFFICES ASSUME NEW s \in UpTo(n + 1), s # {} PROVE s \ {pick[s]} \in UpTo(n)
        OBVIOUS
      <3>1. pick[s] \in s /\ IsFiniteSet(s) /\ Cardinality(s) \in Nat
        BY <1>1
      <3>2. Cardinality(s \ {pick[s]}) = Cardinality(s) - 1
        BY <3>1, FS_RemoveElement
      <3> QED
        BY <3>1, <3>2
    <2>2. \A s \in UpTo(n) : s \in UpTo(n + 1)
      BY <1>1
    <2>3. UpTo(n + 1) \subseteq SUBSET S
      OBVIOUS
    <2> HIDE DEF UpTo
    <2>4. \A s \in UpTo(n) : g[s] = f[s]
      BY <1>3, <2>2
    <2>5. \A s \in UpTo(n + 1) : Next(f, s) = Next(g, s)
      <3> HIDE DEF g
      <3> QED
        BY <2>1, <2>4
    <2>6. \A s \in UpTo(n + 1) : Next(f, s) \in T
      BY <1>3, <2>1, <2>3
    <2>7. g \in [UpTo(n + 1) -> T]
      <3> HIDE DEF Next
      <3> QED
        BY <2>6
    <2> DEFINE h == g
    <2>8. g = [s \in UpTo(n + 1) |-> Next(h, s)]
      <3>1. \A s \in UpTo(n + 1) : Next(f, s) = Next(h, s)
        BY <2>5
      <3> HIDE DEF h, Next
      <3> QED
        BY <3>1
    <2> HIDE DEF g, Next
    <2>9. Part(g, n + 1)
      BY <2>7, <2>8
    <2> QED
      BY <2>9
  <1>4. Bad = {}
    <2> SUFFICES ASSUME Bad # {} PROVE FALSE
      OBVIOUS
    <2> HIDE DEF Bad
    <2>1. PICK n \in Bad : \A m \in Bad : n <= m
      <3>1. Bad \in SUBSET Nat
        BY DEF Bad
      <3> QED
        BY <3>1, NatMin
    <2> HIDE DEF Part
    <2>2. n \in Nat /\ n # 0 /\ ~\E f : Part(f, n)
      BY <1>2, <2>1 DEF Bad
    <2>3. n - 1 \in Nat /\ n - 1 \notin Bad
      BY <2>1, <2>2
    <2>4. PICK f : Part(f, n - 1)
      BY <2>3 DEF Bad
    <2>5. \E g : Part(g, (n - 1) + 1)
      BY <1>3, <2>3, <2>4
    <2>6. (n - 1) + 1 = n
      BY <2>2
    <2> QED
      BY <2>2, <2>5, <2>6
  <1>5. Cardinality(S) \in Nat /\ UpTo(Cardinality(S)) = SUBSET S
    BY FS_Subset, FS_CardinalityType
  <1>6. PICK f : Part(f, Cardinality(S))
    BY <1>4, <1>5
  <1>7. f \in [SUBSET S -> T] /\ IsFold(f, S, base, pick, step)
    BY <1>5, <1>6 DEF IsFold
  <1> QED
    BY <1>7

\* The function by which FoldSet adds up, over the subsets of S, what column i of a
\* table j says.
IsSum(sum, j, i, S) ==
    sum = [s \in SUBSET S |-> IF s = {} THEN 0
                              ELSE j[Chosen(s)][i] + sum[s \ {Chosen(s)}]]

ColumnSum(j, i, S) == FoldSet(LAMBDA x, total : j[x][i] + total, 0, S)

LEMMA SumExists ==
    ASSUME NEW S, IsFiniteSet(S), NEW j, NEW i, \A x \in S : j[x][i] \in Int
    PROVE  \E sum \in [SUBSET S -> Int] : IsSum(sum, j, i, S)
  <1> DEFINE pick == [s \in SUBSET S |-> Chosen(s)]
             step == [x \in S |-> [t \in Int |-> j[x][i] + t]]
  <1>1. \A s \in SUBSET S : s # {} => pick[s] = Chosen(s) /\ Chosen(s) \in s
    BY DEF Chosen
  <1>2. \A x \in S : \A t \in Int : step[x][t] = j[x][i] + t /\ j[x][i] + t \in Int
    OBVIOUS
  <1> HIDE DEF pick, step
  <1>3. PICK f \in [SUBSET S -> Int] : IsFold(f, S, 0, pick, step)
    <2>1. 0 \in Int /\ (\A s \in SUBSET S : s # {} => pick[s] \in s)
      BY <1>1
    <2>2. \A x \in S : \A t \in Int : step[x][t] \in Int
      BY <1>2
    <2> QED
      BY Zenon, <2>1, <2>2, FoldExists
  <1>4. \A s \in SUBSET S : s # {} =>
          step[pick[s]][f[s \ {pick[s]}]] = j[Chosen(s)][i] + f[s \ {Chosen(s)}]
    BY <1>1, <1>2
  <1>5. IsSum(f, j, i, S)
    BY <1>3, <1>4 DEF IsFold, IsSum
  <1> QED
    BY <1>5

\* What FoldSet adds up is such a function, at the whole set.
LEMMA FoldIsSum ==
    ASSUME NEW S, IsFiniteSet(S), NEW j, NEW i, \A x \in S : j[x][i] \in Int
    PROVE  \E sum : /\ IsSum(sum, j, i, S)
                    /\ ColumnSum(j, i, S) = sum[S]
  <1> DEFINE sum == CHOOSE f : IsSum(f, j, i, S)
  <1>1. IsSum(sum, j, i, S)
    BY SumExists
  <1>2. ColumnSum(j, i, S) = sum[S]
    BY DEF ColumnSum, FoldSet, MapThenFoldSet, IsSum, Chosen
  <1> QED
    BY <1>1, <1>2

LEMMA SumStep ==
    ASSUME NEW S, NEW j, NEW i, NEW sum, IsSum(sum, j, i, S)
    PROVE  /\ sum[{}] = 0
           /\ \A s \in SUBSET S : s # {} =>
                 Chosen(s) \in s /\ sum[s] = j[Chosen(s)][i] + sum[s \ {Chosen(s)}]
  BY DEF IsSum, Chosen

\* There is one such function, as far as S goes.
LEMMA SumIsUnique ==
    ASSUME NEW S, IsFiniteSet(S), NEW j, NEW i, NEW f, NEW g, IsSum(f, j, i, S), IsSum(g, j, i, S)
    PROVE  f[S] = g[S]
  <1> DEFINE Good == {s \in SUBSET S : f[s] = g[s]}
  <1>1. {} \in Good
    BY SumStep
  <1>2. ASSUME NEW s \in SUBSET S, s # {}, s \ {Chosen(s)} \in Good PROVE s \in Good
    <2>1. f[s] = j[Chosen(s)][i] + f[s \ {Chosen(s)}] /\ g[s] = j[Chosen(s)][i] + g[s \ {Chosen(s)}]
      BY <1>2, SumStep
    <2> QED
      BY <1>2, <2>1
  <1> HIDE DEF Good
  <1>3. SUBSET S \subseteq Good
    BY <1>1, <1>2, SubsetsOneByOne
  <1> QED
    BY <1>3 DEF Good

\* The sum of nothing but zeros.
LEMMA SumOfZeros ==
    ASSUME NEW S, IsFiniteSet(S), NEW j, NEW i, \A x \in S : j[x][i] = 0
    PROVE  ColumnSum(j, i, S) = 0
  <1>1. PICK sum : /\ IsSum(sum, j, i, S)
                   /\ ColumnSum(j, i, S) = sum[S]
    BY FoldIsSum
  <1> DEFINE Good == {s \in SUBSET S : sum[s] = 0}
  <1>2. {} \in Good
    BY <1>1, SumStep
  <1>3. ASSUME NEW s \in SUBSET S, s # {}, s \ {Chosen(s)} \in Good PROVE s \in Good
    <2> DEFINE x == Chosen(s)
    <2>1. x \in s /\ sum[s] = j[x][i] + sum[s \ {x}]
      BY <1>1, <1>3, SumStep
    <2>2. sum[s \ {x}] = 0 /\ j[x][i] = 0
      BY <1>3, <2>1
    <2> QED
      BY <2>1, <2>2
  <1> HIDE DEF Good
  <1>4. SUBSET S \subseteq Good
    BY <1>2, <1>3, SubsetsOneByOne
  <1> QED
    BY <1>1, <1>4 DEF Good

\* A sum moves by what one of its terms moves by.
LEMMA SumMoves ==
    ASSUME NEW S, IsFiniteSet(S), NEW j, NEW k, NEW i, NEW y \in S, NEW delta \in Int,
           \A x \in S : j[x][i] \in Int,
           \A x \in S : x # y => k[x][i] = j[x][i],
           k[y][i] = j[y][i] + delta
    PROVE  ColumnSum(k, i, S) =
           ColumnSum(j, i, S) + delta
  <1>1. PICK f : /\ IsSum(f, j, i, S)
                 /\ ColumnSum(j, i, S) = f[S]
    BY FoldIsSum
  <1>2. PICK g : /\ IsSum(g, k, i, S)
                 /\ ColumnSum(k, i, S) = g[S]
    BY FoldIsSum
  <1> DEFINE Good == {s \in SUBSET S : /\ f[s] \in Int
                                       /\ y \in s => g[s] = f[s] + delta
                                       /\ y \notin s => g[s] = f[s]}
  <1>3. {} \in Good
    BY <1>1, <1>2, SumStep
  <1>4. ASSUME NEW s \in SUBSET S, s # {}, s \ {Chosen(s)} \in Good PROVE s \in Good
    <2> DEFINE x == Chosen(s)
    <2>1. x \in s /\ f[s] = j[x][i] + f[s \ {x}]
      BY <1>1, <1>4, SumStep
    <2>2. g[s] = k[x][i] + g[s \ {x}]
      BY <1>2, <1>4, <2>1, SumStep
    <2> DEFINE rest == s \ {x}
    <2>3. /\ f[rest] \in Int
          /\ y \in rest => g[rest] = f[rest] + delta
          /\ y \notin rest => g[rest] = f[rest]
      BY <1>4, <2>1
    <2>4. x \in S /\ (y \in rest <=> y \in s /\ y # x)
      BY <2>1
    <2>5. f[s] = j[x][i] + f[rest] /\ g[s] = k[x][i] + g[rest]
      BY <2>1, <2>2
    <2>6. j[x][i] \in Int
      BY <2>4
    <2> HIDE DEF rest, x
    <2>7. CASE x = y
      <3>1. k[x][i] = j[x][i] + delta /\ y \in s /\ y \notin rest
        BY <2>1, <2>4, <2>7
      <3>2. f[s] \in Int /\ g[s] = f[s] + delta
        BY <2>3, <2>5, <2>6, <3>1
      <3> QED
        BY <3>1, <3>2
    <2>8. CASE x # y
      <3>1. k[x][i] = j[x][i] /\ (y \in rest <=> y \in s)
        BY <2>4, <2>8
      <3> QED
        BY <2>3, <2>5, <2>6, <3>1
    <2> QED
      BY <2>7, <2>8
  <1> HIDE DEF Good
  <1>5. SUBSET S \subseteq Good
    BY <1>3, <1>4, SubsetsOneByOne
  <1>6. S \in Good
    BY <1>5
  <1> QED
    BY <1>1, <1>2, <1>6 DEF Good
=============================================================================
