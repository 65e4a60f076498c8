--------------------------- MODULE MatchingProofs ---------------------------
(***************************************************************************)
(* What the query planner and the matching engine compute, for any          *)
(* scorecard, profile and history: every title is searched in every         *)
(* industry, in order; no point is lost to rounding; only evidence makes a  *)
(* near match; jobs held at the same time count once; what is unknown is    *)
(* not hidden.                                                             *)
(*                                                                         *)
(* The operators are folds of sequences and sums over sets.  Induction is   *)
(* over a set of numbers (Climb) or a set of subsets (Shrink), so that no   *)
(* theorem takes an operator as a parameter: a fold satisfies its equation  *)
(* because the equation has a solution (FoldIsDefined), and what holds of   *)
(* it is shown step by step.                                               *)
(***************************************************************************)
EXTENDS Matching, QueryPlanner, FiniteSetTheorems, WellFoundedInduction, SequenceTheorems, TLAPS

-----------------------------------------------------------------------------
(* Induction by sets.                                                      *)

\* Every set of naturals has a least member.
LEMMA Least ==
  ASSUME NEW S, S \subseteq Nat, S # {}
  PROVE  \E m \in S : \A n \in S : m <= n
<1> DEFINE R == {ss \in Nat \X Nat : ss[1] < ss[2]}
<1>1. IsWellFoundedOn(R, Nat)
  BY NatLessThanWellFounded DEF OpToRel
<1>2. \E m \in S : \A n \in S : <<n, m>> \notin R
  <2> HIDE DEF R
  <2> QED
    BY <1>1, WFMin
<1>3. PICK m \in S : \A n \in S : <<n, m>> \notin R
  BY <1>2
<1>4. ASSUME NEW n \in S PROVE ~ (n < m)
  BY <1>3
<1>5. \A n \in S : n \in Nat /\ m \in Nat
  OBVIOUS
<1>6. QED
  BY <1>4, <1>5

\* Induction up to N, for a set of numbers.
LEMMA Climb ==
  ASSUME NEW N \in Nat, NEW S, 0 \in S,
         \A n \in 0..(N - 1) : n \in S => n + 1 \in S
  PROVE  \A n \in 0..N : n \in S
<1> SUFFICES ASSUME NEW k \in 0..N, k \notin S PROVE FALSE
  OBVIOUS
<1> DEFINE T == {n \in 0..N : n \notin S}
<1>1. T \subseteq Nat /\ T # {}
  OBVIOUS
<1>2. PICK m \in T : \A n \in T : m <= n
  BY <1>1, Least
<1>3. m # 0 /\ m - 1 \in 0..(N - 1)
  OBVIOUS
<1>4. m - 1 \in S
  BY <1>2, <1>3
<1>5. QED
  BY <1>2, <1>3, <1>4

\* The maximum that the folds of sequences take next.
LEMMA MaxOfSet ==
  ASSUME NEW n \in Nat, NEW s \in SUBSET (1..n), s # {}
  PROVE  Max(s) \in s /\ \A y \in s : Max(s) >= y
<1> DEFINE T == {n - x : x \in s}
<1>0. \A x \in s : x \in 1..n /\ n - x \in Nat
  OBVIOUS
<1>1. T \subseteq Nat /\ T # {}
  BY <1>0
<1>2. PICK m \in T : \A k \in T : m <= k
  BY <1>1, Least
<1>3. PICK x \in s : m = n - x
  BY <1>2
<1>4. ASSUME NEW y \in s PROVE x >= y
  <2>1. n - y \in T
    OBVIOUS
  <2>2. m <= n - y
    BY <2>1, <1>2
  <2>3. x \in 1..n /\ y \in 1..n
    BY <1>0
  <2>4. QED
    BY <2>2, <2>3, <1>3
<1>5. \E z \in s : \A y \in s : z >= y
  BY <1>4
<1>6. QED
  BY <1>5 DEF Max

\* Induction over the subsets of a finite set.
LEMMA Shrink ==
  ASSUME NEW S, IsFiniteSet(S), NEW T,
         {} \in T,
         \A s \in SUBSET S : s # {} /\ (\A x \in s : s \ {x} \in T) => s \in T
  PROVE  \A s \in SUBSET S : s \in T
<1> DEFINE N == Cardinality(S)
           G == {n \in 0..N : \A s \in SUBSET S : Cardinality(s) = n => s \in T}
<1>1. N \in Nat
  BY FS_CardinalityType
<1>2. \A s \in SUBSET S : IsFiniteSet(s) /\ Cardinality(s) \in Nat /\ Cardinality(s) <= N
  BY FS_Subset, FS_CardinalityType
<1> HIDE DEF N
<1>3. 0 \in G
  <2>1. \A s \in SUBSET S : Cardinality(s) = 0 => s = {}
    BY <1>2, FS_EmptySet
  <2>2. QED
    BY <1>1, <2>1
<1>4. ASSUME NEW n \in 0..(N - 1), n \in G PROVE n + 1 \in G
  <2>1. ASSUME NEW s \in SUBSET S, Cardinality(s) = n + 1 PROVE s \in T
    <3>1. s # {}
      <4>1. Cardinality({}) = 0
        BY FS_EmptySet
      <4>2. n + 1 # 0
        BY <1>1
      <4>3. QED
        BY <2>1, <4>1, <4>2
    <3>2. ASSUME NEW x \in s PROVE s \ {x} \in T
      <4>1. Cardinality(s \ {x}) = n
        <5>1. Cardinality(s \ {x}) = Cardinality(s) - 1
          BY <1>2, FS_RemoveElement
        <5>2. QED
          BY <2>1, <5>1
      <4>2. s \ {x} \in SUBSET S
        OBVIOUS
      <4>3. QED
        BY <1>4, <4>1, <4>2
    <3>3. QED
      BY <3>1, <3>2
  <2>2. n + 1 \in 0..N
    BY <1>1
  <2>3. QED
    BY <2>1, <2>2
<1> HIDE DEF G
<1>5. \A n \in 0..(N - 1) : n \in G => n + 1 \in G
  BY <1>4
<1>6. \A n \in 0..N : n \in G
  BY <1>1, <1>3, <1>5, Climb
<1>7. ASSUME NEW s \in SUBSET S PROVE s \in T
  <2>1. Cardinality(s) \in 0..N
    BY <1>1, <1>2
  <2>2. Cardinality(s) \in G
    BY <1>6, <2>1
  <2>3. QED
    BY <2>2 DEF G
<1>8. QED
  BY <1>7

-----------------------------------------------------------------------------
(* Folds of sequences.                                                     *)

\* What a fold of the numbers in s is, given those of smaller sets.
FoldOf(base, F, g, s) == IF s = {} THEN base ELSE F[<<Max(s), g[s \ {Max(s)}]>>]

IsFold(N, A, base, F, g) ==
  /\ g \in [SUBSET (1..N) -> A]
  /\ \A s \in SUBSET (1..N) : g[s] = FoldOf(base, F, g, s)

\* The equation of a fold has a solution.
LEMMA FoldIsDefined ==
  ASSUME NEW N \in Nat, NEW A, NEW base \in A, NEW F \in [(1..N) \X A -> A]
  PROVE  \E g : IsFold(N, A, base, F, g)
<1> DEFINE Good(n) == \E g \in [SUBSET (1..n) -> A] :
                        \A s \in SUBSET (1..n) : g[s] = FoldOf(base, F, g, s)
           S == {n \in 0..N : Good(n)}
<1>1. Good(0)
  <2> DEFINE g == [s \in SUBSET (1..0) |-> base]
  <2>1. \A s \in SUBSET (1..0) : s = {}
    OBVIOUS
  <2>2. \A s \in SUBSET (1..0) : g[s] = FoldOf(base, F, g, s)
    BY <2>1 DEF FoldOf
  <2>3. g \in [SUBSET (1..0) -> A]
    OBVIOUS
  <2> HIDE DEF g
  <2>4. QED
    BY <2>2, <2>3
<1>2. ASSUME NEW n \in 0..(N - 1), Good(n) PROVE Good(n + 1)
  <2>0. PICK m \in 1..N : m = n + 1 /\ n \in Nat
    OBVIOUS
  <2>1. PICK g \in [SUBSET (1..n) -> A] : \A s \in SUBSET (1..n) : g[s] = FoldOf(base, F, g, s)
    BY <1>2
  <2> DEFINE h == [s \in SUBSET (1..m) |-> IF m \in s THEN F[<<m, g[s \ {m}]>>] ELSE g[s]]
  <2>2. ASSUME NEW s \in SUBSET (1..m)
        PROVE  /\ m \in s => s \ {m} \in SUBSET (1..n)
               /\ m \notin s => s \in SUBSET (1..n)
    BY <2>0
  <2>3. ASSUME NEW s \in SUBSET (1..m) PROVE h[s] = FoldOf(base, F, h, s)
    <3>1. CASE s = {}
      <4>1. g[s] = FoldOf(base, F, g, s)
        BY <2>1, <2>2, <3>1
      <4>2. h[s] = g[s]
        BY <3>1
      <4>3. QED
        BY <3>1, <4>1, <4>2 DEF FoldOf
    <3>2. CASE s # {} /\ m \in s
      <4>1. Max(s) = m
        <5>1. Max(s) \in s /\ \A y \in s : Max(s) >= y
          BY <2>0, <3>2, MaxOfSet
        <5>2. Max(s) \in 1..m /\ Max(s) >= m
          BY <3>2, <5>1
        <5>3. QED
          BY <2>0, <5>2
      <4>2. s \ {m} \in SUBSET (1..m) /\ m \notin s \ {m}
        BY <2>0
      <4>3. h[s \ {m}] = g[s \ {m}]
        BY <4>2
      <4>4. QED
        BY <3>2, <4>1, <4>3 DEF FoldOf
    <3>3. CASE s # {} /\ m \notin s
      <4>1. s \in SUBSET (1..n)
        BY <2>2, <3>3
      <4>2. g[s] = FoldOf(base, F, g, s)
        BY <2>1, <4>1
      <4>3. h[s \ {Max(s)}] = g[s \ {Max(s)}] /\ h[s] = g[s]
        BY <3>3
      <4>4. QED
        BY <3>3, <4>2, <4>3 DEF FoldOf
    <3>4. QED
      BY <3>1, <3>2, <3>3
  <2>4. h \in [SUBSET (1..m) -> A]
    <3>1. ASSUME NEW s \in SUBSET (1..m) PROVE h[s] \in A
      <4>1. CASE m \in s
        <5>1. g[s \ {m}] \in A
          BY <2>2, <4>1
        <5>2. h[s] = F[<<m, g[s \ {m}]>>]
          BY <4>1
        <5>3. QED
          BY <5>1, <5>2
      <4>2. CASE m \notin s
        <5>1. g[s] \in A
          BY <2>2, <4>2
        <5>2. h[s] = g[s]
          BY <4>2
        <5>3. QED
          BY <5>1, <5>2
      <4>3. QED
        BY <4>1, <4>2
    <3>2. h = [s \in SUBSET (1..m) |-> h[s]]
      OBVIOUS
    <3> HIDE DEF h
    <3>3. QED
      BY <3>1, <3>2
  <2> HIDE DEF h
  <2>5. QED
    BY <2>0, <2>3, <2>4
<1> HIDE DEF Good
<1>3. 0 \in S /\ \A n \in 0..(N - 1) : n \in S => n + 1 \in S
  BY <1>1, <1>2
<1> HIDE DEF S
<1>4. N \in S
  BY <1>3, Climb
<1>5. QED
  BY <1>4 DEF S, Good, IsFold

\* A fold takes the numbers up to n in order.
LEMMA UpTo ==
  ASSUME NEW N \in Nat, NEW n \in 1..N
  PROVE  /\ 1..n \in SUBSET (1..N) /\ 1..n # {}
         /\ Max(1..n) = n /\ (1..n) \ {n} = 1..(n - 1)
<1>1. n \in 1..n /\ n \in Nat /\ 1..n \in SUBSET (1..N)
  OBVIOUS
<1>2. Max(1..n) \in 1..n /\ \A y \in 1..n : Max(1..n) >= y
  BY <1>1, MaxOfSet
<1>3. Max(1..n) = n
  BY <1>1, <1>2
<1>4. (1..n) \ {n} = 1..(n - 1) /\ 1..n # {}
  BY <1>1
<1>5. QED
  BY <1>1, <1>3, <1>4

\* What is left to fold of a set.
LEMMA LessOfSet ==
  ASSUME NEW N \in Nat, NEW s \in SUBSET (1..N), s # {}
  PROVE  Max(s) \in 1..N /\ s \ {Max(s)} \in SUBSET (1..N)
BY MaxOfSet

-----------------------------------------------------------------------------
(* The query planner: the first spelling of every name.                    *)

\* One turn of that loop.
UniqueStep(unique, v) == IF v.name \in Names(unique) THEN unique ELSE Append(unique, v)

\* StableUnique (the loop of _stable_unique) takes one value after the other.
LEMMA UniqueStepByStep ==
  ASSUME NEW N \in Nat, NEW values, Len(values) = N, DOMAIN values = 1..N
  PROVE  \E u : /\ u[0] = <<>>
                /\ \A n \in 1..N : u[n] = UniqueStep(u[n - 1], values[n])
                /\ StableUnique(values) = u[N]
<1> DEFINE V == {values[i] : i \in 1..N}
           A == Seq(V)
           F == [ia \in (1..N) \X A |-> UniqueStep(ia[2], values[ia[1]])]
           Next(g, s) == IF s = {} THEN <<>> ELSE UniqueStep(g[s \ {Max(s)}], values[Max(s)])
           iter == CHOOSE g : g = [s \in SUBSET (1..N) |-> Next(g, s)]
           u == [n \in 0..N |-> iter[1..n]]
<1>1. \A i \in 1..N, a \in A : UniqueStep(a, values[i]) \in A
  <2>1. \A i \in 1..N : values[i] \in V
    OBVIOUS
  <2> HIDE DEF V
  <2>2. QED
    BY <2>1 DEF UniqueStep
<1>2. F \in [(1..N) \X A -> A] /\ <<>> \in A
  BY <1>1
<1>3. \A i \in 1..N, a \in A : F[<<i, a>>] = UniqueStep(a, values[i])
  OBVIOUS
<1> HIDE DEF F, A
<1>31. PICK g : IsFold(N, A, <<>>, F, g)
  BY <1>2, FoldIsDefined
<1>4. /\ g \in [SUBSET (1..N) -> A]
      /\ \A s \in SUBSET (1..N) : g[s] = FoldOf(<<>>, F, g, s)
  BY <1>31 DEF IsFold
<1>5. ASSUME NEW s \in SUBSET (1..N) PROVE g[s] = Next(g, s)
  <2>1. CASE s = {}
    BY <1>4, <2>1 DEF FoldOf
  <2>2. CASE s # {}
    <3>1. Max(s) \in 1..N /\ g[s \ {Max(s)}] \in A
      <4>1. Max(s) \in 1..N /\ s \ {Max(s)} \in SUBSET (1..N)
        BY <2>2, LessOfSet
      <4>2. QED
        BY <1>4, <4>1
    <3>2. QED
      BY <1>3, <1>4, <2>2, <3>1 DEF FoldOf
  <2>3. QED
    BY <2>1, <2>2
<1>6. g = [s \in SUBSET (1..N) |-> Next(g, s)]
  <2> DEFINE f == [s \in SUBSET (1..N) |-> Next(g, s)]
  <2>1. \A s \in SUBSET (1..N) : g[s] = f[s]
    BY <1>5
  <2>2. g = [s \in SUBSET (1..N) |-> g[s]]
    BY <1>4
  <2> HIDE DEF Next
  <2>3. QED
    BY <2>1, <2>2
<1>7. iter = [s \in SUBSET (1..N) |-> Next(iter, s)]
  BY <1>6
<1>8. StableUnique(values) = iter[1..N]
  BY DEF StableUnique, FoldLeft, MapThenFoldSet, UniqueStep
<1> HIDE DEF iter
<1>9. u[0] = <<>> /\ u[N] = iter[1..N]
  <2>1. 1..0 = {} /\ {} \in SUBSET (1..N) /\ 0 \in 0..N /\ N \in 0..N
    OBVIOUS
  <2>2. iter[{}] = <<>>
    BY <1>7
  <2>3. QED
    BY <2>1, <2>2
<1>10. ASSUME NEW n \in 1..N PROVE u[n] = UniqueStep(u[n - 1], values[n])
  <2>1. 1..n \in SUBSET (1..N) /\ 1..n # {} /\ Max(1..n) = n /\ (1..n) \ {n} = 1..(n - 1)
    BY UpTo
  <2>2. iter[1..n] = UniqueStep(iter[1..(n - 1)], values[n])
    BY <1>7, <2>1
  <2>3. n \in 0..N /\ n - 1 \in 0..N
    OBVIOUS
  <2>4. QED
    BY <2>2, <2>3
<1> HIDE DEF u
<1>11. QED
  BY <1>8, <1>9, <1>10

\* w has M values, taken from the first n at the places p: the first ones of their
\* names, in order, and one of every name.
FirstOnes(values, n, w, M, p) ==
  /\ w \in Seq({values[i] : i \in DOMAIN values}) /\ Len(w) = M
  /\ p \in [1..M -> 1..n]
  /\ \A a \in 1..M : /\ w[a] = values[p[a]]
                     /\ \A i \in 1..(p[a] - 1) : values[i].name # w[a].name
  /\ \A a, b \in 1..M : a < b => p[a] < p[b]
  /\ \A i \in 1..n : \E a \in 1..M : w[a].name = values[i].name

\* A turn of the loop keeps the first spelling of every name.
LEMMA FirstOnesGrow ==
  ASSUME NEW N \in Nat, NEW values, DOMAIN values = 1..N, NEW n \in 0..(N - 1),
         NEW w, NEW M \in Nat, NEW p, FirstOnes(values, n, w, M, p)
  PROVE  \E L \in Nat : \E q : FirstOnes(values, n + 1, UniqueStep(w, values[n + 1]), L, q)
<1> DEFINE V == {values[i] : i \in DOMAIN values}
<1>0. PICK m \in 1..N : m = n + 1 /\ n \in Nat
  OBVIOUS
<1>1. w \in Seq(V) /\ Len(w) = M /\ DOMAIN w = 1..M
  BY DEF FirstOnes
<1>2. Names(w) = {w[a].name : a \in 1..M}
  BY <1>1 DEF Names
<1>3. 1..n \subseteq 1..m /\ \A i \in 1..m : i \in 1..n \/ i = m
  BY <1>0
<1>4. CASE values[m].name \in Names(w)
  <2>1. PICK a \in 1..M : w[a].name = values[m].name
    BY <1>2, <1>4
  <2>2. \A i \in 1..m : \E b \in 1..M : w[b].name = values[i].name
    BY <1>3, <2>1 DEF FirstOnes
  <2>3. p \in [1..M -> 1..m]
    BY <1>3 DEF FirstOnes
  <2>4. FirstOnes(values, m, w, M, p)
    BY <2>2, <2>3 DEF FirstOnes
  <2>5. QED
    BY <1>0, <1>4, <2>4 DEF UniqueStep
<1>5. CASE values[m].name \notin Names(w)
  <2> DEFINE x == Append(w, values[m])
             q == [a \in 1..(M + 1) |-> IF a = M + 1 THEN m ELSE p[a]]
  <2>1. values[m] \in V
    BY <1>0
  <2>2. /\ x \in Seq(V) /\ Len(x) = M + 1
        /\ x[M + 1] = values[m]
        /\ \A a \in 1..M : x[a] = w[a]
    BY <1>1, <2>1
  <2> HIDE DEF x
  <2>3. \A a \in 1..(M + 1) : a \in 1..M \/ a = M + 1
    OBVIOUS
  <2>31. \A a \in 1..M : a # M + 1 /\ a \in 1..(M + 1)
    OBVIOUS
  <2>4. \A a \in 1..M : q[a] = p[a] /\ p[a] \in 1..n
    BY <2>31 DEF FirstOnes
  <2>5. q[M + 1] = m
    OBVIOUS
  <2>51. q = [a \in 1..(M + 1) |-> q[a]]
    OBVIOUS
  <2> HIDE DEF q
  <2>6. q \in [1..(M + 1) -> 1..m]
    <3>1. \A a \in 1..(M + 1) : q[a] \in 1..m
      BY <1>3, <2>3, <2>4, <2>5
    <3>2. QED
      BY <2>51, <3>1
  <2>7. \A i \in 1..(m - 1) : values[i].name # x[M + 1].name
    <3>1. \A i \in 1..n : \E a \in 1..M : w[a].name = values[i].name
      BY DEF FirstOnes
    <3>2. \A i \in 1..n : values[i].name \in Names(w)
      BY <3>1, <1>2
    <3>3. QED
      BY <1>0, <1>5, <2>2, <3>2
  <2>8. \A a \in 1..(M + 1) : /\ x[a] = values[q[a]]
                              /\ \A i \in 1..(q[a] - 1) : values[i].name # x[a].name
    <3>1. \A a \in 1..M : /\ x[a] = values[q[a]]
                          /\ \A i \in 1..(q[a] - 1) : values[i].name # x[a].name
      <4>1. ASSUME NEW a \in 1..M
            PROVE  /\ x[a] = values[q[a]]
                   /\ \A i \in 1..(q[a] - 1) : values[i].name # x[a].name
        <5>1. /\ w[a] = values[p[a]]
              /\ \A i \in 1..(p[a] - 1) : values[i].name # w[a].name
          BY DEF FirstOnes
        <5>2. x[a] = w[a] /\ q[a] = p[a]
          BY <2>2, <2>4
        <5>3. QED
          BY <5>1, <5>2
      <4>2. QED
        BY <4>1
    <3>2. QED
      BY <2>2, <2>3, <2>5, <2>7, <3>1
  <2>9. \A a, b \in 1..(M + 1) : a < b => q[a] < q[b]
    <3>1. ASSUME NEW a \in 1..(M + 1), NEW b \in 1..(M + 1), a < b PROVE q[a] < q[b]
      <4>1. a \in 1..M
        BY <3>1
      <4>2. CASE b \in 1..M
        BY <3>1, <4>1, <4>2, <2>4 DEF FirstOnes
      <4>3. CASE b = M + 1
        BY <4>1, <4>3, <2>4, <2>5, <1>0
      <4>4. QED
        BY <4>2, <4>3, <2>3
    <3>2. QED
      BY <3>1
  <2>10. \A i \in 1..m : \E a \in 1..(M + 1) : x[a].name = values[i].name
    <3>1. \A i \in 1..n : \E a \in 1..M : w[a].name = values[i].name
      BY DEF FirstOnes
    <3>2. ASSUME NEW i \in 1..n PROVE \E a \in 1..(M + 1) : x[a].name = values[i].name
      BY <3>1, <2>2, <2>31
    <3>3. M + 1 \in 1..(M + 1) /\ x[M + 1].name = values[m].name
      BY <2>2
    <3>4. QED
      BY <1>3, <3>2, <3>3
  <2>11. FirstOnes(values, m, x, M + 1, q)
    BY <2>2, <2>6, <2>8, <2>9, <2>10 DEF FirstOnes
  <2>12. QED
    BY <1>0, <1>5, <2>11 DEF UniqueStep, x
<1>6. QED
  BY <1>4, <1>5

\* StableUnique keeps the first spelling of every name, in order, once.
LEMMA StableUniqueKeepsFirstOnes ==
  ASSUME NEW N \in Nat, NEW values, Len(values) = N, DOMAIN values = 1..N
  PROVE  \E M \in Nat : \E p : FirstOnes(values, N, StableUnique(values), M, p)
<1>1. PICK u : /\ u[0] = <<>>
               /\ \A n \in 1..N : u[n] = UniqueStep(u[n - 1], values[n])
               /\ StableUnique(values) = u[N]
  BY UniqueStepByStep
<1> DEFINE S == {n \in 0..N : \E M \in Nat : \E p : FirstOnes(values, n, u[n], M, p)}
<1>2. 0 \in S
  <2> DEFINE p == [a \in 1..0 |-> 0]
  <2>1. FirstOnes(values, 0, <<>>, 0, p)
    BY DEF FirstOnes
  <2> HIDE DEF p
  <2>2. QED
    BY <1>1, <2>1
<1>3. ASSUME NEW n \in 0..(N - 1), n \in S PROVE n + 1 \in S
  <2>10. PICK M \in Nat : \E p : FirstOnes(values, n, u[n], M, p)
    BY <1>3
  <2>1. PICK p : FirstOnes(values, n, u[n], M, p)
    BY <2>10
  <2>2. n + 1 \in 1..N /\ (n + 1) - 1 = n
    OBVIOUS
  <2>3. u[n + 1] = UniqueStep(u[n], values[n + 1])
    BY <1>1, <2>2
  <2>4. QED
    BY <2>1, <2>2, <2>3, FirstOnesGrow
<1> HIDE DEF S
<1>31. \A n \in 0..(N - 1) : n \in S => n + 1 \in S
  BY <1>3
<1>4. N \in S
  <2>1. \A n \in 0..N : n \in S
    BY <1>2, <1>31, Climb
  <2>2. QED
    BY <2>1
<1>5. QED
  BY <1>1, <1>4 DEF S

-----------------------------------------------------------------------------
(* The query planner: industry after industry.                             *)

\* What FlattenSeq is at row i, given the rows before.
FlattenStep(rows, g, i) == IF i = 1 THEN rows[i] ELSE g[i - 1] \o rows[i]

\* The equation of FlattenSeq has a solution.
LEMMA FlattenIsDefined ==
  ASSUME NEW m \in Nat, NEW rows
  PROVE  \E g : g = [i \in 1..m |-> FlattenStep(rows, g, i)]
<1> DEFINE Good(n) == \E g : g = [i \in 1..n |-> FlattenStep(rows, g, i)]
           S == {n \in 0..m : Good(n)}
<1>1. Good(0)
  <2> DEFINE g == [i \in 1..0 |-> 0]
  <2>1. g = [i \in 1..0 |-> FlattenStep(rows, g, i)]
    OBVIOUS
  <2>2. QED
    BY <2>1
<1>2. ASSUME NEW n \in 0..(m - 1), Good(n) PROVE Good(n + 1)
  <2>0. PICK k \in Nat : k = n + 1 /\ n \in Nat
    OBVIOUS
  <2>1. PICK g : g = [i \in 1..n |-> FlattenStep(rows, g, i)]
    BY <1>2
  <2> DEFINE h == [i \in 1..k |-> IF i = k THEN FlattenStep(rows, g, i) ELSE g[i]]
  <2>2. ASSUME NEW i \in 1..k PROVE h[i] = FlattenStep(rows, h, i)
    <3>1. CASE i = 1 /\ i = k
      BY <3>1 DEF FlattenStep
    <3>2. CASE i = 1 /\ i # k
      <4>1. i \in 1..n
        BY <2>0, <3>2
      <4>2. QED
        BY <2>1, <3>2, <4>1 DEF FlattenStep
    <3>3. CASE i # 1
      <4>1. i - 1 \in 1..n /\ i - 1 # k /\ i - 1 \in 1..k
        BY <2>0, <3>3
      <4>2. h[i - 1] = g[i - 1]
        BY <4>1
      <4>3. i # k => i \in 1..n
        BY <2>0
      <4>4. i # k => g[i] = FlattenStep(rows, g, i)
        BY <2>1, <4>3
      <4>5. h[i] = FlattenStep(rows, g, i)
        BY <4>4
      <4>6. QED
        BY <3>3, <4>2, <4>5 DEF FlattenStep
    <3>4. QED
      BY <3>1, <3>2, <3>3
  <2>3. h = [i \in 1..k |-> FlattenStep(rows, h, i)]
    <3> DEFINE f == [i \in 1..k |-> FlattenStep(rows, h, i)]
    <3>1. \A i \in 1..k : h[i] = f[i]
      BY <2>2
    <3> QED
      BY <3>1
  <2>4. QED
    BY <2>0, <2>3
<1> HIDE DEF Good
<1>3. 0 \in S /\ \A n \in 0..(m - 1) : n \in S => n + 1 \in S
  BY <1>1, <1>2
<1> HIDE DEF S
<1>4. m \in S
  BY <1>3, Climb
<1>5. QED
  BY <1>4 DEF S, Good

\* w has the values of the first n rows, each of k columns: what stands at x comes
\* from row[x] and col[x], row after row.
RowByRow(V, rows, k, n, w, L, row, col) ==
  /\ w \in Seq(V) /\ Len(w) = L
  /\ row \in [1..L -> 1..n] /\ col \in [1..L -> 1..k]
  /\ \A x \in 1..L : w[x] = rows[row[x]][col[x]]
  /\ \A x, y \in 1..L : x < y => row[x] < row[y] \/ (row[x] = row[y] /\ col[x] < col[y])
  /\ \A i \in 1..n, j \in 1..k : \E x \in 1..L : row[x] = i /\ col[x] = j

\* One row more.
LEMMA RowByRowGrows ==
  ASSUME NEW V, NEW m \in Nat, NEW k \in Nat, NEW rows,
         \A i \in 1..m : rows[i] \in Seq(V) /\ Len(rows[i]) = k,
         NEW n \in 0..(m - 1), NEW w, NEW L \in Nat, NEW row, NEW col,
         RowByRow(V, rows, k, n, w, L, row, col)
  PROVE  \E K \in Nat : \E r, c : RowByRow(V, rows, k, n + 1, w \o rows[n + 1], K, r, c)
<1>0. PICK d \in 1..m : d = n + 1 /\ n \in Nat
  OBVIOUS
<1>1. w \in Seq(V) /\ Len(w) = L
  BY DEF RowByRow
<1>2. rows[d] \in Seq(V) /\ Len(rows[d]) = k
  OBVIOUS
<1> DEFINE K == L + k
           z == w \o rows[d]
           r == [x \in 1..K |-> IF x <= L THEN row[x] ELSE d]
           c == [x \in 1..K |-> IF x <= L THEN col[x] ELSE x - L]
<1>3. /\ z \in Seq(V) /\ Len(z) = K
      /\ \A x \in 1..K : z[x] = IF x <= L THEN w[x] ELSE rows[d][x - L]
  BY <1>1, <1>2, ConcatProperties
<1> HIDE DEF z
<1>4. K \in Nat /\ \A x \in 1..K : \/ x \in 1..L /\ x <= L
                                   \/ ~ (x <= L) /\ x - L \in 1..k
  OBVIOUS
<1>5. \A j \in 1..k : L + j \in 1..K /\ ~ (L + j <= L) /\ (L + j) - L = j
  OBVIOUS
<1>6. \A x \in 1..L : x \in 1..K /\ x <= L
  OBVIOUS
<1>7. \A x \in 1..L : row[x] \in 1..n /\ col[x] \in 1..k
  BY DEF RowByRow
<1>8. 1..n \subseteq 1..d /\ d \in 1..d /\ \A i \in 1..d : i \in 1..n \/ i = d
  BY <1>0
<1>9. \A x \in 1..L : r[x] = row[x] /\ c[x] = col[x]
  BY <1>6
<1>10. \A x \in 1..K : ~ (x <= L) => r[x] = d /\ c[x] = x - L
  OBVIOUS
<1>11. r = [x \in 1..K |-> r[x]] /\ c = [x \in 1..K |-> c[x]]
  OBVIOUS
<1> HIDE DEF r, c, K
<1>12. r \in [1..K -> 1..d] /\ c \in [1..K -> 1..k]
  <2>1. \A x \in 1..K : r[x] \in 1..d /\ c[x] \in 1..k
    BY <1>4, <1>7, <1>8, <1>9, <1>10
  <2>2. QED
    BY <1>11, <2>1
<1>13. \A x \in 1..K : z[x] = rows[r[x]][c[x]]
  <2>1. \A x \in 1..L : w[x] = rows[row[x]][col[x]]
    BY DEF RowByRow
  <2>2. QED
    BY <1>3, <1>4, <1>9, <1>10, <2>1
<1>14. ASSUME NEW x \in 1..K, NEW y \in 1..K, x < y
       PROVE  r[x] < r[y] \/ (r[x] = r[y] /\ c[x] < c[y])
  <2>1. CASE x \in 1..L /\ y \in 1..L
    <3>1. row[x] < row[y] \/ (row[x] = row[y] /\ col[x] < col[y])
      BY <1>14, <2>1 DEF RowByRow
    <3>2. QED
      BY <2>1, <3>1, <1>9
  <2>2. CASE x \in 1..L /\ ~ (y <= L)
    <3>1. r[y] = d /\ r[x] \in 1..n
      BY <2>2, <1>7, <1>9, <1>10
    <3>2. QED
      BY <1>0, <3>1
  <2>3. CASE ~ (x <= L) /\ ~ (y <= L)
    BY <1>14, <2>3, <1>4, <1>10
  <2>4. QED
    BY <1>4, <1>14, <2>1, <2>2, <2>3
<1>15. ASSUME NEW i \in 1..d, NEW j \in 1..k
       PROVE  \E x \in 1..K : r[x] = i /\ c[x] = j
  <2>1. CASE i \in 1..n
    <3>1. PICK x \in 1..L : row[x] = i /\ col[x] = j
      BY <2>1 DEF RowByRow
    <3>2. QED
      BY <3>1, <1>6, <1>9
  <2>2. CASE i = d
    BY <2>2, <1>5, <1>10
  <2>3. QED
    BY <2>1, <2>2, <1>8
<1>16. RowByRow(V, rows, k, d, z, K, r, c)
  BY <1>3, <1>12, <1>13, <1>14, <1>15 DEF RowByRow
<1>17. QED
  BY <1>0, <1>4, <1>16 DEF z

\* FlattenSeq lays rows of one length one after the other.
LEMMA FlattenGoesRowByRow ==
  ASSUME NEW V, NEW m \in Nat \ {0}, NEW k \in Nat, NEW rows, Len(rows) = m,
         \A i \in 1..m : rows[i] \in Seq(V) /\ Len(rows[i]) = k
  PROVE  \E L \in Nat : \E row, col : RowByRow(V, rows, k, m, FlattenSeq(rows), L, row, col)
<1> DEFINE f == CHOOSE g : g = [i \in 1..m |-> FlattenStep(rows, g, i)]
<1>1. f = [i \in 1..m |-> FlattenStep(rows, f, i)]
  BY FlattenIsDefined
<1>2. FlattenSeq(rows) = f[m]
  BY DEF FlattenSeq, FlattenStep
<1> HIDE DEF f
<1> DEFINE S == {n \in 0..m : n > 0 =>
                   \E L \in Nat : \E row, col : RowByRow(V, rows, k, n, f[n], L, row, col)}
<1>3. 0 \in S
  OBVIOUS
<1>4. ASSUME NEW n \in 0..(m - 1), n \in S PROVE n + 1 \in S
  <2>0. n + 1 \in 1..m /\ (n + 1) - 1 = n
    OBVIOUS
  <2>1. CASE n = 0
    <3> DEFINE row == [x \in 1..k |-> 1]
               col == [x \in 1..k |-> x]
    <3>1. f[1] = rows[1]
      BY <1>1 DEF FlattenStep
    <3>2. rows[1] \in Seq(V) /\ Len(rows[1]) = k
      OBVIOUS
    <3>3. RowByRow(V, rows, k, 1, f[1], k, row, col)
      BY <3>1, <3>2 DEF RowByRow
    <3> HIDE DEF row, col
    <3>4. QED
      BY <2>1, <3>3
  <2>2. CASE n > 0
    <3>10. PICK L \in Nat : \E row, col : RowByRow(V, rows, k, n, f[n], L, row, col)
      BY <1>4, <2>2
    <3>1. PICK row, col : RowByRow(V, rows, k, n, f[n], L, row, col)
      BY <3>10
    <3>2. f[n + 1] = f[n] \o rows[n + 1]
      <4>1. f[n + 1] = FlattenStep(rows, f, n + 1)
        BY <1>1, <2>0
      <4>2. n + 1 # 1
        BY <2>2
      <4>3. QED
        BY <2>0, <4>1, <4>2 DEF FlattenStep
    <3>3. \E K \in Nat : \E r, c : RowByRow(V, rows, k, n + 1, f[n] \o rows[n + 1], K, r, c)
      BY <3>1, RowByRowGrows
    <3>4. \E K \in Nat : \E r, c : RowByRow(V, rows, k, n + 1, f[n + 1], K, r, c)
      BY <3>2, <3>3
    <3>5. n + 1 \in 0..m
      OBVIOUS
    <3>6. QED
      BY <3>4, <3>5
  <2>3. QED
    BY <2>1, <2>2
<1> HIDE DEF S
<1>5. \A n \in 0..(m - 1) : n \in S => n + 1 \in S
  BY <1>4
<1>6. m \in S
  <2>1. \A n \in 0..m : n \in S
    BY <1>3, <1>5, Climb
  <2>2. QED
    BY <2>1
<1>7. QED
  BY <1>2, <1>6 DEF S

\* The title at x is in group (x + 2) \div 3 of k and in no other.
Grouped(w, l, k, groups) ==
  /\ k > 0 /\ DOMAIN groups = 1..k
  /\ \A x \in 1..l : (x + 2) \div 3 \in 1..k
  /\ \A x \in 1..l, j \in 1..k : (x + 2) \div 3 = j => w[x].name \in Names(groups[j])
  /\ \A j \in 1..k : \A t \in Names(groups[j]) :
       \E x \in 1..l : (x + 2) \div 3 = j /\ w[x].name = t

\* Groups (the slices of three titles) puts every title into one group.
LEMMA GroupsAreNamed ==
  ASSUME NEW V, NEW l \in Nat \ {0}, NEW w \in Seq(V), Len(w) = l,
         NEW k \in Nat, k = (l + 2) \div 3
  PROVE  Grouped(w, l, k, Groups(w))
<1>1. k > 0 /\ \A x \in 1..l : (x + 2) \div 3 \in 1..k
  OBVIOUS
<1>2. DOMAIN Groups(w) = 1..k
  BY DEF Groups
<1>3. ASSUME NEW j \in 1..k
      PROVE  /\ \A x \in 1..l : (x + 2) \div 3 = j => w[x].name \in Names(Groups(w)[j])
             /\ \A t \in Names(Groups(w)[j]) : \E x \in 1..l : (x + 2) \div 3 = j /\ w[x].name = t
  <2>0. PICK a \in Int : a = 3 * j - 2
    OBVIOUS
  <2>1. PICK b \in Int : b = IF 3 * j < l THEN 3 * j ELSE l
    OBVIOUS
  <2>2. /\ a \in 1..l /\ a <= b /\ b <= l
        /\ \A x \in 1..l : (x + 2) \div 3 = j <=> x \in a..b
    BY <2>0, <2>1
  <2> DEFINE g == SubSeq(w, a, b)
  <2>3. Groups(w)[j] = g
    BY <2>0, <2>1 DEF Groups
  <2>4. \A i \in a..b : w[i] \in V
    BY <2>2
  <2>5. /\ g \in Seq(V) /\ Len(g) = b - a + 1
        /\ \A i \in 1..(b - a + 1) : g[i] = w[a + i - 1]
    BY <2>2, <2>4, SubSeqProperties
  <2> HIDE DEF g
  <2>6. DOMAIN g = 1..(b - a + 1)
    BY <2>5
  <2>7. ASSUME NEW x \in 1..l, (x + 2) \div 3 = j PROVE w[x].name \in Names(g)
    <3>1. PICK i \in Int : i = x - a + 1
      OBVIOUS
    <3>2. i \in 1..(b - a + 1) /\ a + i - 1 = x
      BY <2>2, <2>7, <3>1
    <3>3. g[i] = w[x]
      BY <2>5, <3>2
    <3>4. QED
      BY <2>6, <3>2, <3>3 DEF Names
  <2>8. ASSUME NEW t \in Names(g) PROVE \E x \in 1..l : (x + 2) \div 3 = j /\ w[x].name = t
    <3>1. PICK i \in 1..(b - a + 1) : t = g[i].name
      BY <2>6 DEF Names
    <3>2. a + i - 1 \in a..b /\ a + i - 1 \in 1..l
      BY <2>2
    <3>3. QED
      BY <2>2, <2>5, <3>1, <3>2
  <2>9. QED
    BY <2>3, <2>7, <2>8
<1>4. QED
  BY <1>1, <1>2, <1>3 DEF Grouped

\* What stands at x is a query for industry row[x] and group col[x], industry after
\* industry.
LaidOut(all, unique, groups, M, k, L, row, col) ==
  /\ Len(all) = L /\ L > 0 /\ \E V : all \in Seq(V)
  /\ row \in [1..L -> 1..M] /\ col \in [1..L -> 1..k]
  /\ \A x \in 1..L : all[x].industry = unique[row[x]].name /\ all[x].titles = Names(groups[col[x]])
  /\ \A x, y \in 1..L : x < y => row[x] < row[y] \/ (row[x] = row[y] /\ col[x] < col[y])
  /\ \A i \in 1..M, j \in 1..k : \E x \in 1..L : row[x] = i /\ col[x] = j

\* All queries of a scorecard stand industry after industry, group after group.
LEMMA PlanIsLaidOut ==
  ASSUME NEW M \in Nat \ {0}, NEW k \in Nat \ {0}, NEW unique, NEW groups,
         Len(unique) = M, DOMAIN unique = 1..M, DOMAIN groups = 1..k,
         NEW all, all = FlattenSeq([i \in DOMAIN unique |->
               [j \in DOMAIN groups |-> [industry |-> unique[i].name, titles |-> Names(groups[j])]]])
  PROVE  \E L \in Nat : \E row, col : LaidOut(all, unique, groups, M, k, L, row, col)
<1> DEFINE Q(i, j) == [industry |-> unique[i].name, titles |-> Names(groups[j])]
           rows == [i \in 1..M |-> [j \in 1..k |-> Q(i, j)]]
           V == {Q(i, j) : i \in 1..M, j \in 1..k}
<1>1. all = FlattenSeq(rows)
  OBVIOUS
<1>2. Len(rows) = M
  OBVIOUS
<1>3. ASSUME NEW i \in 1..M PROVE /\ rows[i] \in Seq(V) /\ Len(rows[i]) = k
                                  /\ \A j \in 1..k : rows[i][j] = Q(i, j)
  <2>1. rows[i] = [j \in 1..k |-> Q(i, j)]
    OBVIOUS
  <2>2. \A j \in 1..k : Q(i, j) \in V
    OBVIOUS
  <2> HIDE DEF V, Q
  <2>3. [j \in 1..k |-> Q(i, j)] \in Seq(V) /\ Len([j \in 1..k |-> Q(i, j)]) = k
    BY <2>2
  <2>4. QED
    BY <2>1, <2>3
<1> HIDE DEF rows, V
<1>31. \A i \in 1..M : rows[i] \in Seq(V) /\ Len(rows[i]) = k
  BY <1>3
<1>40. PICK L \in Nat : \E row, col : RowByRow(V, rows, k, M, all, L, row, col)
  <2>1. k \in Nat
    OBVIOUS
  <2>2. \E L \in Nat : \E row, col : RowByRow(V, rows, k, M, FlattenSeq(rows), L, row, col)
    BY <1>2, <1>31, <2>1, FlattenGoesRowByRow
  <2>3. QED
    BY <1>1, <2>2
<1>4. PICK row, col : RowByRow(V, rows, k, M, all, L, row, col)
  BY <1>40
<1>5. L > 0
  <2>1. 1 \in 1..M /\ 1 \in 1..k
    OBVIOUS
  <2>2. QED
    BY <1>4, <2>1 DEF RowByRow
<1>6. ASSUME NEW x \in 1..L
      PROVE  all[x].industry = unique[row[x]].name /\ all[x].titles = Names(groups[col[x]])
  <2>1. row[x] \in 1..M /\ col[x] \in 1..k /\ all[x] = rows[row[x]][col[x]]
    BY <1>4 DEF RowByRow
  <2>2. all[x] = Q(row[x], col[x])
    BY <2>1, <1>3
  <2>3. QED
    BY <2>2
<1>7. /\ Len(all) = L /\ all \in Seq(V)
      /\ row \in [1..L -> 1..M] /\ col \in [1..L -> 1..k]
      /\ \A x, y \in 1..L : x < y => row[x] < row[y] \/ (row[x] = row[y] /\ col[x] < col[y])
      /\ \A i \in 1..M, j \in 1..k : \E x \in 1..L : row[x] = i /\ col[x] = j
  BY <1>4 DEF RowByRow
<1>8. LaidOut(all, unique, groups, M, k, L, row, col)
  BY <1>5, <1>6, <1>7 DEF LaidOut
<1>9. QED
  BY <1>8

\* Whatever is compiled covers every title in every industry, in order: the loops of
\* QueryPlanner.compile, for any lists of titles and industries and any limit.
LEMMA PlanCovers ==
  ASSUME asked \in [titles : TitleLists, industries : IndustryLists, limit : QueryLimits]
  PROVE  PlanCoversInOrder
<1> DEFINE plan == Compile(asked.titles, asked.industries, asked.limit)
           Query(i, t) == {n \in DOMAIN plan : plan[n].industry = i /\ t \in plan[n].titles}
           Place(x) == CHOOSE n \in DOMAIN asked.industries : asked.industries[n].name = x
                         /\ \A m \in 1..(n - 1) : asked.industries[m].name # x
<1>0. asked.titles \in TitleLists /\ asked.industries \in IndustryLists /\ asked.limit \in QueryLimits
  OBVIOUS
<1>1. PICK N \in Nat \ {0} : Len(asked.industries) = N /\ DOMAIN asked.industries = 1..N
  BY <1>0, PlanAssumption
<1>2. PICK O \in Nat \ {0} : Len(asked.titles) = O /\ DOMAIN asked.titles = 1..O
  BY <1>0, PlanAssumption
<1>3. PICK unique : unique = StableUnique(asked.industries)
  OBVIOUS
<1>4. PICK names : names = StableUnique(asked.titles)
  OBVIOUS
<1>50. PICK M \in Nat : \E p : FirstOnes(asked.industries, N, unique, M, p)
  BY <1>1, <1>3, StableUniqueKeepsFirstOnes
<1>5. PICK p : FirstOnes(asked.industries, N, unique, M, p)
  BY <1>50
<1>60. PICK l \in Nat : \E q : FirstOnes(asked.titles, O, names, l, q)
  BY <1>2, <1>4, StableUniqueKeepsFirstOnes
<1>6. PICK q : FirstOnes(asked.titles, O, names, l, q)
  BY <1>60
<1>7. M # 0 /\ l # 0
  <2>1. 1 \in 1..N /\ 1 \in 1..O
    OBVIOUS
  <2>2. \E a \in 1..M : unique[a].name = asked.industries[1].name
    BY <1>5, <2>1 DEF FirstOnes
  <2>3. \E a \in 1..l : names[a].name = asked.titles[1].name
    BY <1>6, <2>1 DEF FirstOnes
  <2>4. QED
    BY <2>2, <2>3
<1>8. PICK k \in Nat : k = (l + 2) \div 3
  OBVIOUS
<1>9. PICK groups : groups = Groups(names)
  OBVIOUS
<1>10. Grouped(names, l, k, groups)
  <2>1. PICK V : names \in Seq(V) /\ Len(names) = l
    BY <1>6 DEF FirstOnes
  <2>2. l \in Nat \ {0}
    BY <1>7
  <2>3. QED
    BY <1>8, <1>9, <2>1, <2>2, GroupsAreNamed
<1>100. asked.limit \in Nat \ {0}
  BY <1>0, PlanAssumption
<1>11. PICK most \in Nat \ {0} : most = IF asked.limit < 8 THEN asked.limit ELSE 8
  BY <1>100
<1>12. asked.limit \in Nat \ {0} /\ most <= 8 /\ most <= asked.limit /\ (most = asked.limit \/ most = 8)
  BY <1>100, <1>11
<1>13. PICK all : all = FlattenSeq([i \in DOMAIN unique |->
               [j \in DOMAIN groups |-> [industry |-> unique[i].name, titles |-> Names(groups[j])]]])
  OBVIOUS
<1>14. plan = SubSeq(all, 1, IF Len(all) < most THEN Len(all) ELSE most)
  BY <1>3, <1>4, <1>9, <1>11, <1>13 DEF Compile
<1>15. Len(unique) = M /\ DOMAIN unique = 1..M
  BY <1>5 DEF FirstOnes
<1>160. PICK L \in Nat : \E row, col : LaidOut(all, unique, groups, M, k, L, row, col)
  <2>1. M \in Nat \ {0} /\ k \in Nat \ {0} /\ DOMAIN groups = 1..k
    BY <1>7, <1>10 DEF Grouped
  <2>2. QED
    BY <1>13, <1>15, <2>1, PlanIsLaidOut
<1>16. PICK row, col : LaidOut(all, unique, groups, M, k, L, row, col)
  BY <1>160
<1>161. L > 0
  BY <1>16 DEF LaidOut
<1>17. PICK P \in Nat : P = IF L < most THEN L ELSE most
  OBVIOUS
<1>18. P \in 1..8 /\ P <= asked.limit /\ P <= L /\ (P = L \/ P = asked.limit \/ P = 8)
  BY <1>12, <1>161, <1>17
<1>19. /\ Len(plan) = P /\ DOMAIN plan = 1..P
       /\ \A n \in 1..P : n \in 1..L /\ plan[n] = all[n]
  <2>1. PICK V : all \in Seq(V)
    BY <1>16 DEF LaidOut
  <2>2. plan = SubSeq(all, 1, P)
    BY <1>14, <1>16, <1>17 DEF LaidOut
  <2>31. DOMAIN all = 1..L
    BY <1>16, <2>1 DEF LaidOut
  <2>3. \A i \in 1..P : i \in 1..L /\ all[i] \in V
    BY <1>18, <2>1, <2>31
  <2>4. /\ SubSeq(all, 1, P) \in Seq(V)
        /\ Len(SubSeq(all, 1, P)) = IF 1 <= P THEN P - 1 + 1 ELSE 0
        /\ \A i \in 1..(P - 1 + 1) : SubSeq(all, 1, P)[i] = all[1 + i - 1]
    BY <2>3, SubSeqProperties
  <2> HIDE DEF plan
  <2>5. plan \in Seq(V) /\ Len(plan) = P
    BY <1>18, <2>2, <2>4
  <2>6. \A n \in 1..P : n \in 1..(P - 1 + 1) /\ 1 + n - 1 = n
    OBVIOUS
  <2>7. QED
    BY <2>2, <2>3, <2>4, <2>5, <2>6
<1> HIDE DEF plan
\* Where an industry and a title meet.
<1>20. ASSUME NEW i \in Names(asked.industries)
       PROVE  \E a \in 1..M : /\ unique[a].name = i
                              /\ \A b \in 1..M : unique[b].name = i => b = a
                              /\ Place(i) = p[a]
  <2>1. PICK n \in 1..N : asked.industries[n].name = i
    BY <1>1 DEF Names
  <2>2. PICK a \in 1..M : unique[a].name = i
    BY <1>5, <2>1 DEF FirstOnes
  <2>3. /\ p[a] \in 1..N /\ asked.industries[p[a]].name = i
        /\ \A m \in 1..(p[a] - 1) : asked.industries[m].name # i
    BY <1>5, <2>2 DEF FirstOnes
  <2>4. ASSUME NEW m \in 1..N, asked.industries[m].name = i,
               \A h \in 1..(m - 1) : asked.industries[h].name # i
        PROVE  m = p[a]
    <3>1. ~ (m < p[a])
      BY <2>3, <2>4
    <3>2. ~ (p[a] < m)
      BY <2>3, <2>4
    <3>3. QED
      BY <2>3, <3>1, <3>2
  <2>5. Place(i) = p[a]
    BY <1>1, <2>3, <2>4
  <2>6. ASSUME NEW b \in 1..M, unique[b].name = i PROVE b = a
    <3>1. /\ p[b] \in 1..N /\ asked.industries[p[b]].name = i
          /\ \A m \in 1..(p[b] - 1) : asked.industries[m].name # i
      BY <1>5, <2>6 DEF FirstOnes
    <3>2. p[b] = p[a]
      BY <2>4, <3>1
    <3>3. ~ (a < b) /\ ~ (b < a)
      <4>1. (a < b => p[a] < p[b]) /\ (b < a => p[b] < p[a])
        BY <1>5 DEF FirstOnes
      <4>2. QED
        BY <2>3, <3>2, <4>1
    <3>4. QED
      BY <3>3
  <2>7. QED
    BY <2>2, <2>5, <2>6
<1> HIDE DEF Place
<1>21. ASSUME NEW t \in Names(asked.titles)
       PROVE  \E b \in 1..k : \A j \in 1..k : t \in Names(groups[j]) <=> j = b
  <2>1. PICK n \in 1..O : asked.titles[n].name = t
    BY <1>2 DEF Names
  <2>2. PICK x \in 1..l : names[x].name = t
    BY <1>6, <2>1 DEF FirstOnes
  <2>3. ASSUME NEW y \in 1..l, names[y].name = t PROVE y = x
    <3>1. /\ q[x] \in 1..O /\ asked.titles[q[x]].name = t
          /\ \A m \in 1..(q[x] - 1) : asked.titles[m].name # t
      BY <1>6, <2>2 DEF FirstOnes
    <3>2. /\ q[y] \in 1..O /\ asked.titles[q[y]].name = t
          /\ \A m \in 1..(q[y] - 1) : asked.titles[m].name # t
      BY <1>6, <2>3 DEF FirstOnes
    <3>3. ~ (q[x] < q[y]) /\ ~ (q[y] < q[x])
      BY <3>1, <3>2
    <3>4. (x < y => q[x] < q[y]) /\ (y < x => q[y] < q[x])
      BY <1>6 DEF FirstOnes
    <3>5. QED
      BY <3>3, <3>4
  <2>4. PICK b \in 1..k : (x + 2) \div 3 = b
    BY <1>10 DEF Grouped
  <2>5. t \in Names(groups[b])
    BY <1>10, <2>2, <2>4 DEF Grouped
  <2>6. ASSUME NEW j \in 1..k, t \in Names(groups[j]) PROVE j = b
    <3>1. PICK y \in 1..l : (y + 2) \div 3 = j /\ names[y].name = t
      BY <1>10, <2>6 DEF Grouped
    <3>2. QED
      BY <2>3, <2>4, <3>1
  <2>7. QED
    BY <2>5, <2>6
\* The query in which they meet.
<1>22. ASSUME NEW i \in Names(asked.industries), NEW t \in Names(asked.titles)
       PROVE  \E a \in 1..M, x \in 1..L :
                /\ Place(i) = p[a] /\ row[x] = a
                /\ \A n \in 1..P : n \in Query(i, t) <=> n = x
                /\ \A n \in 1..P : n < x => row[n] < a \/ (row[n] = a /\ col[n] # col[x])
                /\ t \in Names(groups[col[x]])
                /\ \A j \in 1..k : t \in Names(groups[j]) => j = col[x]
  <2>1. PICK a \in 1..M : /\ unique[a].name = i
                          /\ \A b \in 1..M : unique[b].name = i => b = a
                          /\ Place(i) = p[a]
    BY <1>20
  <2>2. PICK b \in 1..k : \A j \in 1..k : t \in Names(groups[j]) <=> j = b
    BY <1>21
  <2>3. PICK x \in 1..L : row[x] = a /\ col[x] = b
    <3>1. \A c \in 1..M, d \in 1..k : \E y \in 1..L : row[y] = c /\ col[y] = d
      BY <1>16 DEF LaidOut
    <3>2. QED
      BY <3>1
  <2>4. ASSUME NEW n \in 1..P PROVE n \in Query(i, t) <=> n = x
    <3>1. /\ n \in 1..L /\ row[n] \in 1..M /\ col[n] \in 1..k
          /\ plan[n].industry = unique[row[n]].name /\ plan[n].titles = Names(groups[col[n]])
      BY <1>16, <1>19 DEF LaidOut
    <3>2. n \in Query(i, t) <=> row[n] = a /\ col[n] = b
      BY <1>19, <2>1, <2>2, <3>1
    <3>3. (n < x \/ x < n) => row[n] # a \/ col[n] # b
      <4>1. n < x => row[n] < row[x] \/ (row[n] = row[x] /\ col[n] < col[x])
        BY <1>16, <3>1 DEF LaidOut
      <4>2. x < n => row[x] < row[n] \/ (row[x] = row[n] /\ col[x] < col[n])
        BY <1>16, <3>1 DEF LaidOut
      <4>3. QED
        BY <2>3, <3>1, <4>1, <4>2
    <3>4. QED
      BY <2>3, <3>1, <3>2, <3>3
  <2>5. ASSUME NEW n \in 1..P, n < x PROVE row[n] < a \/ (row[n] = a /\ col[n] # col[x])
    <3>1. n \in 1..L /\ row[n] \in 1..M /\ col[n] \in 1..k
      BY <1>16, <1>19 DEF LaidOut
    <3>2. row[n] < row[x] \/ (row[n] = row[x] /\ col[n] < col[x])
      BY <1>16, <2>5, <3>1 DEF LaidOut
    <3>3. QED
      BY <2>3, <3>1, <3>2
  <2>6. QED
    BY <2>1, <2>2, <2>3, <2>4, <2>5
<1>23. ASSUME NEW i \in Names(asked.industries), NEW t \in Names(asked.titles)
       PROVE  /\ Query(i, t) = {} \/ \E x : Query(i, t) = {x}
              /\ P = L => Query(i, t) # {}
  <2>1. PICK a \in 1..M, x \in 1..L : \A n \in 1..P : n \in Query(i, t) <=> n = x
    BY <1>22
  <2>2. Query(i, t) \subseteq 1..P
    BY <1>19
  <2> HIDE DEF Query
  <2>3. \A n \in Query(i, t) : n = x
    BY <2>1, <2>2
  <2>4. Query(i, t) = {} \/ Query(i, t) = {x}
    BY <2>3
  <2>5. P = L => x \in Query(i, t)
    BY <2>1
  <2>6. QED
    BY <2>4, <2>5
<1>24. ASSUME NEW i \in Names(asked.industries), NEW t \in Names(asked.titles), Query(i, t) = {},
              NEW j \in Names(asked.industries), NEW n \in Query(j, t)
       PROVE  Place(j) < Place(i)
  <2>1. PICK a \in 1..M, x \in 1..L :
                /\ Place(i) = p[a] /\ row[x] = a
                /\ \A h \in 1..P : h \in Query(i, t) <=> h = x
                /\ \A h \in 1..P : h < x => row[h] < a \/ (row[h] = a /\ col[h] # col[x])
                /\ \A h \in 1..k : t \in Names(groups[h]) => h = col[x]
    BY <1>22
  <2>2. PICK b \in 1..M, y \in 1..L :
                /\ Place(j) = p[b] /\ row[y] = b
                /\ \A h \in 1..P : h \in Query(j, t) <=> h = y
                /\ t \in Names(groups[col[y]])
    BY <1>22
  <2>3. n \in 1..P
    BY <1>19
  <2> HIDE DEF Query
  <2>4. n = y
    BY <2>2, <2>3
  <2>5. x \notin 1..P
    BY <1>24, <2>1
  <2>6. y < x
    BY <1>18, <2>3, <2>4, <2>5
  <2>7. col[y] \in 1..k
    <3>1. col \in [1..L -> 1..k]
      BY <1>16 DEF LaidOut
    <3>2. QED
      BY <3>1
  <2>8. col[y] = col[x]
    BY <2>1, <2>2, <2>7
  <2>9. b < a
    BY <2>1, <2>2, <2>3, <2>4, <2>6, <2>8
  <2>10. p[b] < p[a]
    BY <1>5, <2>9 DEF FirstOnes
  <2>11. QED
    BY <2>1, <2>2, <2>10
<1>25. ASSUME NEW i \in Names(asked.industries), NEW t \in Names(asked.titles)
       PROVE  Cardinality(Query(i, t)) \in
                (IF Len(plan) = asked.limit \/ Len(plan) = 8 THEN {0, 1} ELSE {1})
  <2>1. /\ Query(i, t) = {} \/ \E x : Query(i, t) = {x}
        /\ P = L => Query(i, t) # {}
    BY <1>23
  <2> HIDE DEF Query
  <2>2. Query(i, t) = {} => Cardinality(Query(i, t)) = 0
    BY FS_EmptySet
  <2>3. (\E x : Query(i, t) = {x}) => Cardinality(Query(i, t)) = 1
    BY FS_Singleton
  <2>4. QED
    BY <1>18, <1>19, <2>1, <2>2, <2>3
<1>26. Len(plan) \in 1..8 /\ Len(plan) <= asked.limit
  BY <1>18, <1>19
<1>27. QED
  BY <1>24, <1>25, <1>26 DEF PlanCoversInOrder, plan, Place

-----------------------------------------------------------------------------
(* Sums over finite sets.                                                  *)

\* The member that MapThenSumSet takes next.
One(s) == CHOOSE x \in s : TRUE

\* g sums f over every subset of S.
IsSum(S, f, g) ==
  /\ g \in [SUBSET S -> Nat]
  /\ \A s \in SUBSET S : g[s] = IF s = {} THEN 0 ELSE f[One(s)] + g[s \ {One(s)}]

\* Sums over a finite set are defined.
LEMMA SumIsDefined ==
  ASSUME NEW S, IsFiniteSet(S), NEW f \in [S -> Nat]
  PROVE  \E g : IsSum(S, f, g)
<1> DEFINE N == Cardinality(S)
           Good(n) == \E g \in [SUBSET S -> Nat] : \A s \in SUBSET S : Cardinality(s) <= n =>
                        g[s] = IF s = {} THEN 0 ELSE f[One(s)] + g[s \ {One(s)}]
           G == {n \in 0..N : Good(n)}
<1>1. N \in Nat
  BY FS_CardinalityType
<1>2. \A s \in SUBSET S : IsFiniteSet(s) /\ Cardinality(s) \in Nat /\ Cardinality(s) <= N
  BY FS_Subset, FS_CardinalityType
<1>3. ASSUME NEW s \in SUBSET S, s # {}
      PROVE  /\ One(s) \in S /\ s \ {One(s)} \in SUBSET S
             /\ Cardinality(s \ {One(s)}) = Cardinality(s) - 1
  <2>1. One(s) \in s
    BY <1>3 DEF One
  <2>2. Cardinality(s \ {One(s)}) = Cardinality(s) - 1
    BY <1>2, <2>1, FS_RemoveElement
  <2>3. QED
    BY <2>1, <2>2
<1> HIDE DEF N
<1>4. Good(0)
  <2> DEFINE g == [s \in SUBSET S |-> 0]
  <2>1. ASSUME NEW s \in SUBSET S, Cardinality(s) <= 0
        PROVE  g[s] = IF s = {} THEN 0 ELSE f[One(s)] + g[s \ {One(s)}]
    <3>1. s = {}
      BY <1>2, <2>1, FS_EmptySet
    <3>2. QED
      BY <3>1
  <2>2. g \in [SUBSET S -> Nat]
    OBVIOUS
  <2> HIDE DEF g
  <2>3. QED
    BY <2>1, <2>2
<1>5. ASSUME NEW n \in 0..(N - 1), Good(n) PROVE Good(n + 1)
  <2>1. PICK g \in [SUBSET S -> Nat] : \A s \in SUBSET S : Cardinality(s) <= n =>
                        g[s] = IF s = {} THEN 0 ELSE f[One(s)] + g[s \ {One(s)}]
    BY <1>5
  <2> DEFINE h == [s \in SUBSET S |-> IF Cardinality(s) <= n THEN g[s]
                                      ELSE f[One(s)] + g[s \ {One(s)}]]
  <2>2. \A s \in SUBSET S : /\ Cardinality(s) <= n => h[s] = g[s]
                            /\ ~ (Cardinality(s) <= n) => h[s] = f[One(s)] + g[s \ {One(s)}]
    OBVIOUS
  <2>3. h = [s \in SUBSET S |-> h[s]]
    OBVIOUS
  <2> HIDE DEF h
  <2>4. \A s \in SUBSET S : ~ (Cardinality(s) <= n) => s # {}
    BY FS_EmptySet
  <2>5. h \in [SUBSET S -> Nat]
    <3>1. ASSUME NEW s \in SUBSET S PROVE h[s] \in Nat
      <4>1. CASE Cardinality(s) <= n
        BY <2>2, <4>1
      <4>2. CASE ~ (Cardinality(s) <= n)
        <5>1. One(s) \in S /\ s \ {One(s)} \in SUBSET S
          BY <1>3, <2>4, <4>2
        <5>2. f[One(s)] \in Nat
          BY <5>1
        <5>3. g[s \ {One(s)}] \in Nat
          BY <5>1
        <5>4. h[s] = f[One(s)] + g[s \ {One(s)}]
          BY <2>2, <4>2
        <5>5. QED
          BY <5>2, <5>3, <5>4
      <4>3. QED
        BY <4>1, <4>2
    <3>2. QED
      BY <2>3, <3>1
  <2>6. ASSUME NEW s \in SUBSET S, Cardinality(s) <= n + 1
        PROVE  h[s] = IF s = {} THEN 0 ELSE f[One(s)] + h[s \ {One(s)}]
    <3>1. CASE s = {}
      <4>1. Cardinality(s) <= n
        BY <3>1, FS_EmptySet
      <4>2. QED
        BY <2>1, <2>2, <3>1, <4>1
    <3>2. CASE s # {}
      <4>1. /\ One(s) \in S /\ s \ {One(s)} \in SUBSET S
            /\ Cardinality(s \ {One(s)}) = Cardinality(s) - 1
        BY <1>3, <3>2
      <4>2. Cardinality(s) \in Nat
        BY <1>2
      <4>3. Cardinality(s \ {One(s)}) <= n
        BY <2>6, <4>1, <4>2
      <4>4. h[s \ {One(s)}] = g[s \ {One(s)}]
        BY <2>2, <4>1, <4>3
      <4>5. h[s] = f[One(s)] + g[s \ {One(s)}]
        BY <2>1, <2>2, <3>2
      <4>6. QED
        BY <3>2, <4>4, <4>5
    <3>3. QED
      BY <3>1, <3>2
  <2>7. QED
    BY <2>5, <2>6
<1> HIDE DEF Good
<1>6. 0 \in G /\ \A n \in 0..(N - 1) : n \in G => n + 1 \in G
  BY <1>1, <1>4, <1>5
<1> HIDE DEF G
<1>7. N \in G
  <2>1. \A n \in 0..N : n \in G
    BY <1>1, <1>6, Climb
  <2>2. QED
    BY <1>1, <2>1
<1>8. Good(N)
  BY <1>7 DEF G
<1>9. QED
  BY <1>2, <1>8 DEF Good, IsSum

\* A sum can take any member first.
TakesAny(S, f, g) == \A s \in SUBSET S : \A x \in s : g[s] = f[x] + g[s \ {x}]

\* Sums do not depend on which member is taken first.
LEMMA SumTakesAny ==
  ASSUME NEW S, IsFiniteSet(S), NEW f \in [S -> Nat], NEW g, IsSum(S, f, g)
  PROVE  TakesAny(S, f, g)
<1> DEFINE T == {s \in SUBSET S : \A x \in s : g[s] = f[x] + g[s \ {x}]}
<1>1. {} \in T
  OBVIOUS
<1>2. ASSUME NEW s \in SUBSET S, s # {}, \A x \in s : s \ {x} \in T PROVE s \in T
  <2>1. PICK c \in s : c = One(s)
    BY <1>2 DEF One
  <2>2. g[s] = f[c] + g[s \ {c}]
    BY <1>2, <2>1 DEF IsSum
  <2>3. ASSUME NEW x \in s, x # c PROVE g[s] = f[x] + g[s \ {x}]
    <3>1. g[s \ {c}] = f[x] + g[(s \ {c}) \ {x}]
      BY <1>2, <2>3
    <3>2. g[s \ {x}] = f[c] + g[(s \ {x}) \ {c}]
      BY <1>2, <2>3
    <3>3. (s \ {c}) \ {x} = (s \ {x}) \ {c}
      OBVIOUS
    <3>4. f[c] \in Nat /\ f[x] \in Nat
      OBVIOUS
    <3>5. g[(s \ {x}) \ {c}] \in Nat
      BY DEF IsSum
    <3>6. QED
      BY <2>2, <3>1, <3>2, <3>3, <3>4, <3>5
  <2>4. QED
    BY <2>2, <2>3
<1> HIDE DEF T
<1>3. \A s \in SUBSET S : s \in T
  BY <1>1, <1>2, Shrink
<1>4. QED
  BY <1>3 DEF T, TakesAny

\* The sum of two sets that are apart.
LEMMA SumOfUnion ==
  ASSUME NEW S, IsFiniteSet(S), NEW f \in [S -> Nat], NEW g, IsSum(S, f, g),
         NEW u \in SUBSET S, NEW v \in SUBSET S, u \cap v = {}
  PROVE  g[u \cup v] = g[u] + g[v]
<1> DEFINE T == {s \in SUBSET S : s \cap v = {} => g[s \cup v] = g[s] + g[v]}
<1>1. \A s \in SUBSET S : g[s] \in Nat
  BY DEF IsSum
<1>2. {} \in T
  <2>1. g[{}] = 0 /\ {} \cup v = v
    BY DEF IsSum
  <2>2. QED
    BY <1>1, <2>1
<1>3. ASSUME NEW s \in SUBSET S, s # {}, \A x \in s : s \ {x} \in T PROVE s \in T
  <2> SUFFICES ASSUME s \cap v = {} PROVE g[s \cup v] = g[s] + g[v]
    OBVIOUS
  <2>1. PICK x : x \in s
    BY <1>3
  <2>2. g[s] = f[x] + g[s \ {x}]
    BY <2>1, SumTakesAny DEF TakesAny
  <2>3. g[s \cup v] = f[x] + g[(s \cup v) \ {x}]
    <3>1. s \cup v \in SUBSET S /\ x \in s \cup v
      BY <2>1
    <3>2. QED
      BY <3>1, SumTakesAny DEF TakesAny
  <2>4. (s \cup v) \ {x} = (s \ {x}) \cup v
    BY <2>1
  <2>5. g[(s \ {x}) \cup v] = g[s \ {x}] + g[v]
    BY <1>3, <2>1
  <2>6. f[x] \in Nat /\ g[s \ {x}] \in Nat /\ g[v] \in Nat
    BY <1>1, <2>1
  <2>7. g[s \cup v] = f[x] + (g[s \ {x}] + g[v])
    BY <2>3, <2>4, <2>5
  <2>8. QED
    BY <2>2, <2>6, <2>7
<1> HIDE DEF T
<1>4. \A s \in SUBSET S : s \in T
  BY <1>2, <1>3, Shrink
<1>5. QED
  BY <1>4 DEF T

\* Larger summands make no smaller sum.
LEMMA SumGrows ==
  ASSUME NEW S, IsFiniteSet(S), NEW f \in [S -> Nat], NEW g, IsSum(S, f, g),
         NEW e \in [S -> Nat], NEW h, IsSum(S, e, h), \A x \in S : f[x] <= e[x]
  PROVE  \A s \in SUBSET S : g[s] <= h[s]
<1> DEFINE T == {s \in SUBSET S : g[s] <= h[s]}
<1>1. {} \in T
  <2>1. {} \in SUBSET S
    OBVIOUS
  <2>2. g[{}] = 0
    BY <2>1 DEF IsSum
  <2>3. h[{}] = 0
    BY <2>1 DEF IsSum
  <2>4. QED
    BY <2>1, <2>2, <2>3
<1>2. ASSUME NEW s \in SUBSET S, s # {}, \A x \in s : s \ {x} \in T PROVE s \in T
  <2>1. PICK x : x \in s
    BY <1>2
  <2>2. g[s] = f[x] + g[s \ {x}] /\ h[s] = e[x] + h[s \ {x}]
    BY <2>1, SumTakesAny DEF TakesAny
  <2>3. g[s \ {x}] <= h[s \ {x}] /\ f[x] <= e[x]
    BY <1>2, <2>1
  <2>4. f[x] \in Nat /\ e[x] \in Nat /\ g[s \ {x}] \in Nat /\ h[s \ {x}] \in Nat
    BY <2>1 DEF IsSum
  <2>5. g[s] <= h[s]
    BY <2>2, <2>3, <2>4
  <2>6. QED
    BY <2>5
<1> HIDE DEF T
<1>3. \A s \in SUBSET S : s \in T
  BY <1>1, <1>2, Shrink
<1>4. QED
  BY <1>3 DEF T

\* Each gets q, those in B one more.
HasShares(f, E, q, B) == \A x \in E : f[x] = q + IF x \in B THEN 1 ELSE 0

\* What is shared out is as many times q as there are members, and one for each of B.
LEMMA SumOfShares ==
  ASSUME NEW S, IsFiniteSet(S), NEW f \in [S -> Nat], NEW g, IsSum(S, f, g),
         NEW E \in SUBSET S, NEW B, NEW q \in Nat,
         HasShares(f, E, q, B)
  PROVE  g[E] = q * Cardinality(E) + Cardinality(E \cap B)
<1> DEFINE T == {s \in SUBSET S : s \in SUBSET E =>
                   g[s] = q * Cardinality(s) + Cardinality(s \cap B)}
<1>0. TakesAny(S, f, g)
  BY SumTakesAny
<1>1. {} \in T
  <2>1. Cardinality({}) = 0 /\ {} \cap B = {} /\ g[{}] = 0
    BY FS_EmptySet DEF IsSum
  <2>2. QED
    BY <2>1
<1>2. ASSUME NEW s \in SUBSET S, s # {}, \A x \in s : s \ {x} \in T PROVE s \in T
  <2> SUFFICES ASSUME s \in SUBSET E PROVE g[s] = q * Cardinality(s) + Cardinality(s \cap B)
    OBVIOUS
  <2>1. PICK x : x \in s
    BY <1>2
  <2>2. g[s] = f[x] + g[s \ {x}]
    BY <1>0, <2>1 DEF TakesAny
  <2>3. PICK n \in Nat, m \in Nat : n = Cardinality(s \ {x}) /\ m = Cardinality((s \ {x}) \cap B)
    <3>1. IsFiniteSet(s \ {x}) /\ IsFiniteSet((s \ {x}) \cap B)
      BY FS_Subset
    <3>2. QED
      BY <3>1, FS_CardinalityType
  <2>4. g[s \ {x}] = q * n + m
    BY <1>2, <2>1, <2>3
  <2>5. IsFiniteSet(s) /\ IsFiniteSet(s \cap B)
    BY FS_Subset
  <2>6. Cardinality(s) = n + 1
    <3>1. Cardinality(s \ {x}) = Cardinality(s) - 1 /\ Cardinality(s) \in Nat
      BY <2>1, <2>5, FS_RemoveElement, FS_CardinalityType
    <3>2. QED
      BY <2>3, <3>1
  <2>7. Cardinality(s \cap B) = m + IF x \in B THEN 1 ELSE 0
    <3>1. CASE x \in B
      <4>1. (s \cap B) \ {x} = (s \ {x}) \cap B /\ x \in s \cap B
        BY <2>1, <3>1
      <4>2. Cardinality((s \cap B) \ {x}) = Cardinality(s \cap B) - 1 /\ Cardinality(s \cap B) \in Nat
        BY <2>5, <4>1, FS_RemoveElement, FS_CardinalityType
      <4>3. m = Cardinality(s \cap B) - 1
        <5>1. m = Cardinality((s \cap B) \ {x})
          BY <2>3, <4>1
        <5>2. QED
          BY <4>2, <5>1
      <4>4. Cardinality(s \cap B) = m + 1
        <5>1. Cardinality(s \cap B) \in Nat
          BY <4>2
        <5>2. QED
          BY <4>3, <5>1
      <4>5. QED
        BY <3>1, <4>4
    <3>2. CASE x \notin B
      <4>1. s \cap B = (s \ {x}) \cap B
        BY <3>2
      <4>2. Cardinality(s \cap B) = m
        BY <2>3, <4>1
      <4>3. QED
        BY <3>2, <4>2
    <3>3. QED
      BY <3>1, <3>2
  <2>8. f[x] = q + IF x \in B THEN 1 ELSE 0
    BY <2>1 DEF HasShares
  <2>9. q * (n + 1) = q * n + q
    OBVIOUS
  <2>10. q * n \in Nat
    OBVIOUS
  <2>11. QED
    BY <2>2, <2>4, <2>6, <2>7, <2>8, <2>9, <2>10
<1> HIDE DEF T
<1>3. \A s \in SUBSET S : s \in T
  BY <1>1, <1>2, Shrink
<1>4. QED
  BY <1>3 DEF T

-----------------------------------------------------------------------------
(* Ranks.                                                                  *)

StrictOrder(A, R) ==
  /\ \A x \in A : <<x, x>> \notin R
  /\ \A x, y, z \in A : <<x, y>> \in R /\ <<y, z>> \in R => <<x, z>> \in R
  /\ \A x, y \in A : x # y => <<x, y>> \in R \/ <<y, x>> \in R

Below(A, R, x) == {y \in A : <<y, x>> \in R}

\* Whoever is before has fewer before it.
LEMMA BelowGrows ==
  ASSUME NEW A, IsFiniteSet(A), NEW R, StrictOrder(A, R), NEW x \in A, NEW y \in A, <<x, y>> \in R
  PROVE  Cardinality(Below(A, R, x)) < Cardinality(Below(A, R, y))
<1>1. Below(A, R, x) \in SUBSET Below(A, R, y) /\ Below(A, R, y) \in SUBSET A
  BY DEF Below, StrictOrder
<1>2. x \in Below(A, R, y) /\ x \notin Below(A, R, x)
  BY DEF Below, StrictOrder
<1>3. IsFiniteSet(Below(A, R, y))
  BY <1>1, FS_Subset
<1>4. /\ IsFiniteSet(Below(A, R, x))
      /\ Cardinality(Below(A, R, x)) <= Cardinality(Below(A, R, y))
      /\ Cardinality(Below(A, R, y)) = Cardinality(Below(A, R, x)) => Below(A, R, y) = Below(A, R, x)
  BY <1>1, <1>3, FS_Subset
<1>5. Cardinality(Below(A, R, y)) # Cardinality(Below(A, R, x))
  BY <1>2, <1>4
<1>6. Cardinality(Below(A, R, y)) \in Nat /\ Cardinality(Below(A, R, x)) \in Nat
  BY <1>3, <1>4, FS_CardinalityType
<1>7. QED
  BY <1>4, <1>5, <1>6

\* The rank of x is the number of members before it.
Ranked(A, R, rank) ==
  /\ rank \in [A -> 0..(Cardinality(A) - 1)]
  /\ \A x \in A : rank[x] = Cardinality(Below(A, R, x))
  /\ \A x, y \in A : <<x, y>> \in R => rank[x] < rank[y]
  /\ \A x, y \in A : rank[x] < rank[y] => <<x, y>> \in R
  /\ \A x, y \in A : rank[x] = rank[y] => x = y
  /\ \A n \in 0..(Cardinality(A) - 1) : \E x \in A : rank[x] = n

\* The ranks of a finite ordered set are 0 to its size less one, each once.
LEMMA Ranks ==
  ASSUME NEW A, IsFiniteSet(A), NEW R, StrictOrder(A, R)
  PROVE  \E rank : Ranked(A, R, rank)
<1> DEFINE rank == [x \in A |-> Cardinality(Below(A, R, x))]
<1>1. PICK N \in Nat : N = Cardinality(A)
  BY FS_CardinalityType
<1>2. \A x \in A : rank[x] = Cardinality(Below(A, R, x))
  OBVIOUS
<1>3. rank = [x \in A |-> rank[x]]
  OBVIOUS
<1> HIDE DEF rank
<1>4. ASSUME NEW x \in A PROVE rank[x] \in 0..(N - 1)
  <2>1. Below(A, R, x) \in SUBSET A /\ x \notin Below(A, R, x)
    BY DEF Below, StrictOrder
  <2>2. /\ IsFiniteSet(Below(A, R, x))
        /\ Cardinality(Below(A, R, x)) <= Cardinality(A)
        /\ Cardinality(A) = Cardinality(Below(A, R, x)) => A = Below(A, R, x)
    BY <2>1, FS_Subset
  <2>3. Cardinality(Below(A, R, x)) \in Nat
    BY <2>2, FS_CardinalityType
  <2>4. Cardinality(Below(A, R, x)) <= N /\ Cardinality(Below(A, R, x)) # N
    BY <1>1, <2>1, <2>2
  <2>5. QED
    BY <1>1, <1>2, <2>3, <2>4
<1>5. rank \in [A -> 0..(N - 1)]
  BY <1>3, <1>4
<1>6. \A x, y \in A : <<x, y>> \in R => rank[x] < rank[y]
  BY <1>2, BelowGrows
<1>7. ASSUME NEW x \in A, NEW y \in A, x # y PROVE rank[x] # rank[y]
  <2>1. <<x, y>> \in R \/ <<y, x>> \in R
    BY <1>7 DEF StrictOrder
  <2>2. rank[x] \in Nat /\ rank[y] \in Nat
    BY <1>4
  <2>3. QED
    BY <1>6, <2>1, <2>2
<1>8. ASSUME NEW x \in A, NEW y \in A, rank[x] < rank[y] PROVE <<x, y>> \in R
  <2>1. rank[x] \in Nat /\ rank[y] \in Nat
    BY <1>4
  <2>2. x # y
    BY <1>8, <2>1
  <2>3. <<x, y>> \in R \/ <<y, x>> \in R
    BY <2>2 DEF StrictOrder
  <2>4. CASE <<y, x>> \in R
    <3>1. rank[y] < rank[x]
      BY <1>6, <2>4
    <3>2. QED
      BY <1>8, <2>1, <3>1
  <2>5. QED
    BY <2>3, <2>4
<1>9. rank \in Surjection(A, 0..(N - 1))
  <2>1. rank \in Injection(A, 0..(N - 1))
    BY <1>5, <1>7 DEF Injection, IsInjective
  <2>2. IsFiniteSet(0..(N - 1)) /\ Cardinality(0..(N - 1)) = IF 0 > N - 1 THEN 0 ELSE (N - 1) - 0 + 1
    <3>1. 0 \in Int /\ N - 1 \in Int
      OBVIOUS
    <3>2. QED
      BY <3>1, FS_Interval
  <2>3. Cardinality(0..(N - 1)) = N
    BY <1>1, <2>2
  <2>4. Cardinality(A) = Cardinality(0..(N - 1)) <=> rank \in Surjection(A, 0..(N - 1))
    BY <2>1, <2>2, FS_Injection
  <2>5. QED
    BY <1>1, <2>3, <2>4
<1>10. \A n \in 0..(N - 1) : \E x \in A : rank[x] = n
  BY <1>9 DEF Surjection
<1>11. Ranked(A, R, rank)
  BY <1>1, <1>2, <1>5, <1>6, <1>7, <1>8, <1>10 DEF Ranked
<1>12. QED
  BY <1>11

\* Exactly r members have a rank below r.
LEMMA LowRanks ==
  ASSUME NEW A, IsFiniteSet(A), NEW R, NEW rank, Ranked(A, R, rank), NEW r \in 0..Cardinality(A)
  PROVE  Cardinality({x \in A : rank[x] < r}) = r
<1> DEFINE L == {x \in A : rank[x] < r}
           low == [x \in L |-> rank[x]]
<1>1. PICK N \in Nat : N = Cardinality(A)
  BY FS_CardinalityType
<1>2. r \in 0..N
  BY <1>1
<1>3. \A x \in L : x \in A /\ low[x] = rank[x] /\ low[x] \in 0..(r - 1)
  BY <1>1, <1>2 DEF Ranked
<1>4. low = [x \in L |-> low[x]]
  OBVIOUS
<1>5. \A n \in 0..(r - 1) : \E x \in A : rank[x] = n
  BY <1>1, <1>2 DEF Ranked
<1>6. \A n \in 0..(r - 1) : \E x \in L : low[x] = n
  <2> SUFFICES ASSUME NEW n \in 0..(r - 1) PROVE \E x \in L : low[x] = n
    OBVIOUS
  <2>1. PICK x \in A : rank[x] = n
    BY <1>5
  <2>2. x \in L
    BY <1>2, <2>1
  <2>3. QED
    BY <1>3, <2>1, <2>2
<1> HIDE DEF low, L
<1>7. low \in [L -> 0..(r - 1)]
  BY <1>3, <1>4
<1>8. low \in Injection(L, 0..(r - 1))
  BY <1>3, <1>7 DEF Injection, IsInjective, Ranked
<1>9. low \in Surjection(L, 0..(r - 1))
  BY <1>6, <1>7 DEF Surjection
<1>10. IsFiniteSet(0..(r - 1)) /\ Cardinality(0..(r - 1)) = IF 0 > r - 1 THEN 0 ELSE (r - 1) - 0 + 1
  BY <1>2, FS_Interval
<1>11. Cardinality(L) = Cardinality(0..(r - 1))
  BY <1>8, <1>9, <1>10, FS_Injection
<1>12. Cardinality(L) = r
  BY <1>2, <1>10, <1>11
<1>13. QED
  BY <1>12 DEF L

\* A finite ordered set can be lined up.
LEMMA Lined ==
  ASSUME NEW A, IsFiniteSet(A), NEW R, StrictOrder(A, R)
  PROVE  \E s \in [1..Cardinality(A) -> A] : /\ \A i, j \in 1..Cardinality(A) : i < j => <<s[i], s[j]>> \in R
                                             /\ \A x \in A : \E i \in 1..Cardinality(A) : s[i] = x
<1>1. PICK N \in Nat : N = Cardinality(A)
  BY FS_CardinalityType
<1>2. PICK rank : Ranked(A, R, rank)
  BY Ranks
<1> DEFINE s == [i \in 1..N |-> CHOOSE x \in A : rank[x] = i - 1]
<1>3. ASSUME NEW i \in 1..N PROVE s[i] \in A /\ rank[s[i]] = i - 1
  <2>1. i - 1 \in 0..(N - 1)
    BY <1>1
  <2>2. \E x \in A : rank[x] = i - 1
    BY <1>1, <1>2, <2>1 DEF Ranked
  <2>3. QED
    BY <2>2
<1>4. s = [i \in 1..N |-> s[i]]
  OBVIOUS
<1> HIDE DEF s
<1>5. s \in [1..N -> A]
  BY <1>3, <1>4
<1>6. ASSUME NEW i \in 1..N, NEW j \in 1..N, i < j PROVE <<s[i], s[j]>> \in R
  <2>1. rank[s[i]] < rank[s[j]]
    BY <1>1, <1>3, <1>6
  <2>2. QED
    BY <1>2, <1>3, <2>1 DEF Ranked
<1>7. ASSUME NEW x \in A PROVE \E i \in 1..N : s[i] = x
  <2>1. rank[x] \in 0..(N - 1)
    BY <1>1, <1>2 DEF Ranked
  <2>2. PICK i \in 1..N : i = rank[x] + 1
    BY <1>1, <2>1
  <2>3. rank[s[i]] = rank[x] /\ s[i] \in A
    BY <1>3, <2>1, <2>2
  <2>4. s[i] = x
    BY <1>2, <2>3 DEF Ranked
  <2>5. QED
    BY <2>4
<1>8. QED
  BY <1>1, <1>5, <1>6, <1>7

-----------------------------------------------------------------------------
(* Years of experience.                                                    *)

Spans == [from : Nat, to : Nat]
MergedOf(s) == FoldLeft(Merged, <<>>, s)
SumOf(w) == FoldLeft(LAMBDA sum, i : sum + (i.to - i.from), 0, w)

\* Merging keeps the types.
LEMMA MergedIsSpans ==
  ASSUME NEW w \in Seq(Spans), NEW x \in Spans
  PROVE  Merged(w, x) \in Seq(Spans)
<1>1. CASE w = <<>> \/ x.from > Last(w).to
  BY <1>1 DEF Merged
<1>2. CASE ~ (w = <<>> \/ x.from > Last(w).to)
  <2>1. PICK M \in Nat \ {0} : M = Len(w)
    BY <1>2, EmptySeq
  <2>2. Last(w) = w[M] /\ w[M] \in Spans
    BY <2>1 DEF Last
  <2>3. Front(w) \in Seq(Spans)
    <3>1. Front(w) = SubSeq(w, 1, M - 1)
      BY <2>1 DEF Front
    <3>2. QED
      BY <2>1, <3>1, SubSeqProperties
  <2>4. [from |-> Last(w).from, to |-> IF x.to > Last(w).to THEN x.to ELSE Last(w).to] \in Spans
    BY <2>2 DEF Spans
  <2>5. QED
    BY <1>2, <2>3, <2>4 DEF Merged
<1>3. QED
  BY <1>1, <1>2

\* The loop that merges intervals in _years_experience takes one after the other.
LEMMA MergedStepByStep ==
  ASSUME NEW N \in Nat, NEW s \in [1..N -> Spans]
  PROVE  \E u : /\ u[0] = <<>>
                /\ \A n \in 1..N : u[n] = Merged(u[n - 1], s[n])
                /\ MergedOf(s) = u[N]
<1> DEFINE A == Seq(Spans)
           F == [ia \in (1..N) \X A |-> Merged(ia[2], s[ia[1]])]
           Next(g, t) == IF t = {} THEN <<>> ELSE Merged(g[t \ {Max(t)}], s[Max(t)])
           iter == CHOOSE g : g = [t \in SUBSET (1..N) |-> Next(g, t)]
           u == [n \in 0..N |-> iter[1..n]]
<1>1. \A i \in 1..N, a \in A : Merged(a, s[i]) \in A
  BY MergedIsSpans
<1>2. F \in [(1..N) \X A -> A] /\ <<>> \in A
  BY <1>1
<1>3. \A i \in 1..N, a \in A : F[<<i, a>>] = Merged(a, s[i])
  OBVIOUS
<1> HIDE DEF F, A
<1>31. PICK g : IsFold(N, A, <<>>, F, g)
  BY <1>2, FoldIsDefined
<1>4. /\ g \in [SUBSET (1..N) -> A]
      /\ \A t \in SUBSET (1..N) : g[t] = FoldOf(<<>>, F, g, t)
  BY <1>31 DEF IsFold
<1>5. ASSUME NEW t \in SUBSET (1..N) PROVE g[t] = Next(g, t)
  <2>1. CASE t = {}
    BY <1>4, <2>1 DEF FoldOf
  <2>2. CASE t # {}
    <3>1. Max(t) \in 1..N /\ g[t \ {Max(t)}] \in A
      <4>1. Max(t) \in 1..N /\ t \ {Max(t)} \in SUBSET (1..N)
        BY <2>2, LessOfSet
      <4>2. QED
        BY <1>4, <4>1
    <3>2. QED
      BY <1>3, <1>4, <2>2, <3>1 DEF FoldOf
  <2>3. QED
    BY <2>1, <2>2
<1>6. g = [t \in SUBSET (1..N) |-> Next(g, t)]
  <2> DEFINE f == [t \in SUBSET (1..N) |-> Next(g, t)]
  <2>1. \A t \in SUBSET (1..N) : g[t] = f[t]
    BY <1>5
  <2>2. g = [t \in SUBSET (1..N) |-> g[t]]
    BY <1>4
  <2> HIDE DEF Next
  <2>3. QED
    BY <2>1, <2>2
<1>7. iter = [t \in SUBSET (1..N) |-> Next(iter, t)]
  BY <1>6
<1>71. DOMAIN s = 1..N
  OBVIOUS
<1>8. MergedOf(s) = iter[1..N]
  BY <1>71 DEF MergedOf, FoldLeft, MapThenFoldSet
<1> HIDE DEF iter
<1>9. u[0] = <<>> /\ u[N] = iter[1..N]
  <2>1. 1..0 = {} /\ {} \in SUBSET (1..N) /\ 0 \in 0..N /\ N \in 0..N
    OBVIOUS
  <2>2. iter[{}] = <<>>
    BY <1>7
  <2>3. QED
    BY <2>1, <2>2
<1>10. ASSUME NEW n \in 1..N PROVE u[n] = Merged(u[n - 1], s[n])
  <2>1. 1..n \in SUBSET (1..N) /\ 1..n # {} /\ Max(1..n) = n /\ (1..n) \ {n} = 1..(n - 1)
    BY UpTo
  <2>2. iter[1..n] = Merged(iter[1..(n - 1)], s[n])
    BY <1>7, <2>1
  <2>3. n \in 0..N /\ n - 1 \in 0..N
    OBVIOUS
  <2>4. QED
    BY <2>2, <2>3
<1> HIDE DEF u
<1>11. QED
  BY <1>8, <1>9, <1>10

\* So does the sum over what it has merged.
LEMMA SumStepByStep ==
  ASSUME NEW N \in Nat, NEW w, DOMAIN w = 1..N,
         \A i \in 1..N : w[i] \in Spans /\ w[i].from < w[i].to
  PROVE  \E u : /\ u[0] = 0
                /\ \A n \in 1..N : u[n - 1] \in Nat /\ u[n] = u[n - 1] + (w[n].to - w[n].from)
                /\ SumOf(w) = u[N]
<1> DEFINE F == [ia \in (1..N) \X Nat |-> ia[2] + (w[ia[1]].to - w[ia[1]].from)]
           Next(g, t) == IF t = {} THEN 0 ELSE g[t \ {Max(t)}] + (w[Max(t)].to - w[Max(t)].from)
           iter == CHOOSE g : g = [t \in SUBSET (1..N) |-> Next(g, t)]
           u == [n \in 0..N |-> iter[1..n]]
<1>1. \A i \in 1..N, a \in Nat : a + (w[i].to - w[i].from) \in Nat
  BY DEF Spans
<1>2. F \in [(1..N) \X Nat -> Nat] /\ 0 \in Nat
  BY <1>1
<1>3. \A i \in 1..N, a \in Nat : F[<<i, a>>] = a + (w[i].to - w[i].from)
  OBVIOUS
<1> HIDE DEF F
<1>31. PICK g : IsFold(N, Nat, 0, F, g)
  BY <1>2, FoldIsDefined
<1>4. /\ g \in [SUBSET (1..N) -> Nat]
      /\ \A t \in SUBSET (1..N) : g[t] = FoldOf(0, F, g, t)
  BY <1>31 DEF IsFold
<1>5. ASSUME NEW t \in SUBSET (1..N) PROVE g[t] = Next(g, t)
  <2>1. CASE t = {}
    BY <1>4, <2>1 DEF FoldOf
  <2>2. CASE t # {}
    <3>1. Max(t) \in 1..N /\ g[t \ {Max(t)}] \in Nat
      <4>1. Max(t) \in 1..N /\ t \ {Max(t)} \in SUBSET (1..N)
        BY <2>2, LessOfSet
      <4>2. QED
        BY <1>4, <4>1
    <3>2. QED
      BY <1>3, <1>4, <2>2, <3>1 DEF FoldOf
  <2>3. QED
    BY <2>1, <2>2
<1>6. g = [t \in SUBSET (1..N) |-> Next(g, t)]
  <2> DEFINE f == [t \in SUBSET (1..N) |-> Next(g, t)]
  <2>1. \A t \in SUBSET (1..N) : g[t] = f[t]
    BY <1>5
  <2>2. g = [t \in SUBSET (1..N) |-> g[t]]
    BY <1>4
  <2> HIDE DEF Next
  <2>3. QED
    BY <2>1, <2>2
<1>7. iter = [t \in SUBSET (1..N) |-> Next(iter, t)]
  BY <1>6
<1>8. SumOf(w) = iter[1..N]
  BY DEF SumOf, FoldLeft, MapThenFoldSet
<1>81. \A t \in SUBSET (1..N) : iter[t] \in Nat
  <2> DEFINE T == {t \in SUBSET (1..N) : iter[t] \in Nat}
  <2> HIDE DEF iter
  <2>1. IsFiniteSet(1..N)
    BY FS_Interval
  <2>2. {} \in T
    BY <1>7
  <2>3. ASSUME NEW t \in SUBSET (1..N), t # {}, \A x \in t : t \ {x} \in T PROVE t \in T
    <3>1. Max(t) \in t /\ Max(t) \in 1..N
      BY <2>3, MaxOfSet
    <3>2. iter[t \ {Max(t)}] \in Nat
      BY <2>3, <3>1
    <3>3. iter[t] = iter[t \ {Max(t)}] + (w[Max(t)].to - w[Max(t)].from)
      BY <1>7, <2>3
    <3>4. QED
      BY <1>1, <3>1, <3>2, <3>3
  <2> HIDE DEF T
  <2>4. \A t \in SUBSET (1..N) : t # {} /\ (\A x \in t : t \ {x} \in T) => t \in T
    BY <2>3
  <2>6. \A t \in SUBSET (1..N) : t \in T
    BY <2>1, <2>2, <2>4, Shrink
  <2>7. QED
    BY <2>6 DEF T
<1> HIDE DEF iter
<1>9. u[0] = 0 /\ u[N] = iter[1..N]
  <2>1. 1..0 = {} /\ {} \in SUBSET (1..N) /\ 0 \in 0..N /\ N \in 0..N
    OBVIOUS
  <2>2. iter[{}] = 0
    BY <1>7
  <2>3. QED
    BY <2>1, <2>2
<1>10. ASSUME NEW n \in 1..N PROVE u[n - 1] \in Nat /\ u[n] = u[n - 1] + (w[n].to - w[n].from)
  <2>1. 1..n \in SUBSET (1..N) /\ 1..n # {} /\ Max(1..n) = n /\ (1..n) \ {n} = 1..(n - 1)
    BY UpTo
  <2>2. iter[1..n] = iter[1..(n - 1)] + (w[n].to - w[n].from)
    BY <1>7, <2>1
  <2>3. n \in 0..N /\ n - 1 \in 0..N /\ 1..(n - 1) \in SUBSET (1..N)
    OBVIOUS
  <2>4. QED
    BY <1>81, <2>2, <2>3
<1> HIDE DEF u
<1>11. QED
  BY <1>8, <1>9, <1>10

\* y lies in one of the first M of w.
InSpans(w, M, y) == \E a \in 1..M : w[a].from <= y /\ y < w[a].to

\* w is the first j intervals of s, merged: they cover the same years, and leave a gap
\* between one and the next.
Covers(s, j, w, M) ==
  /\ w \in Seq(Spans) /\ Len(w) = M
  /\ \A a \in 1..M : w[a].from < w[a].to
  /\ \A a, b \in 1..M : a < b => w[a].to < w[b].from
  /\ \A y \in Nat : InSpans(w, M, y) <=> InSpans(s, j, y)
  /\ M = 0 <=> j = 0
  /\ j > 0 => w[M].from <= s[j].from

\* Intervals that are not empty, sorted by their start.
ByStart(N, s) ==
  /\ s \in [1..N -> Spans]
  /\ \A i \in 1..N : s[i].from < s[i].to
  /\ \A i, j \in 1..N : i < j => s[i].from <= s[j].from

\* An interval that begins after the last merged one has ended is appended.
LEMMA AppendCovers ==
  ASSUME NEW N \in Nat, NEW s, ByStart(N, s), NEW n \in Nat, n + 1 \in 1..N,
         NEW M \in Nat, NEW w, Covers(s, n, w, M),
         M = 0 \/ s[n + 1].from > w[M].to
  PROVE  Covers(s, n + 1, Append(w, s[n + 1]), M + 1)
<1> DEFINE x == s[n + 1]
           v == Append(w, x)
<1>1. PICK m \in 1..N : m = n + 1
  OBVIOUS
<1>2. x \in Spans /\ x.from \in Nat /\ x.to \in Nat /\ x.from < x.to
  BY DEF ByStart, Spans
<1> HIDE DEF x
<1>3. w \in Seq(Spans) /\ Len(w) = M
  BY DEF Covers
<1>4. /\ v \in Seq(Spans) /\ Len(v) = M + 1 /\ v[M + 1] = x
      /\ \A a \in 1..M : v[a] = w[a]
  BY <1>2, <1>3, AppendProperties
<1> HIDE DEF v
<1>5. \A a \in 1..(M + 1) : a \in 1..M \/ a = M + 1
  OBVIOUS
<1>6. \A a \in 1..M : w[a].from \in Nat /\ w[a].to \in Nat /\ w[a].from < w[a].to
  <2>1. \A a \in 1..M : w[a] \in Spans
    BY <1>3
  <2>2. QED
    BY <2>1 DEF Covers, Spans
<1>7. \A a \in 1..(M + 1) : v[a].from < v[a].to
  BY <1>2, <1>4, <1>5, <1>6
<1>8. ASSUME NEW a \in 1..(M + 1), NEW b \in 1..(M + 1), a < b PROVE v[a].to < v[b].from
  <2>1. a \in 1..M
    BY <1>8
  <2>2. CASE b \in 1..M
    <3>1. w[a].to < w[b].from
      BY <1>8, <2>1, <2>2 DEF Covers
    <3>2. QED
      BY <1>4, <2>1, <2>2, <3>1
  <2>3. CASE b = M + 1
    <3>1. x.from > w[M].to /\ M \in 1..M
      BY <2>1 DEF x
    <3>2. a = M \/ w[a].to < w[M].from
      BY <2>1 DEF Covers
    <3>3. w[a].to < x.from
      BY <1>2, <1>6, <2>1, <3>1, <3>2
    <3>4. QED
      BY <1>4, <2>1, <2>3, <3>3
  <2>4. QED
    BY <1>5, <2>2, <2>3
<1>9. ASSUME NEW y \in Nat PROVE InSpans(v, M + 1, y) <=> InSpans(s, n + 1, y)
  <2>1. InSpans(w, M, y) <=> InSpans(s, n, y)
    BY DEF Covers
  <2>2. InSpans(v, M + 1, y) <=> InSpans(w, M, y) \/ (x.from <= y /\ y < x.to)
    <3>1. M + 1 \in 1..(M + 1) /\ \A a \in 1..M : a \in 1..(M + 1)
      OBVIOUS
    <3>2. QED
      BY <1>4, <1>5, <3>1 DEF InSpans
  <2>3. InSpans(s, n + 1, y) <=> InSpans(s, n, y) \/ (x.from <= y /\ y < x.to)
    <3>1. n + 1 \in 1..(n + 1) /\ \A a \in 1..n : a \in 1..(n + 1)
      OBVIOUS
    <3>2. \A a \in 1..(n + 1) : a \in 1..n \/ a = n + 1
      OBVIOUS
    <3>3. QED
      BY <3>1, <3>2 DEF InSpans, x
  <2>4. QED
    BY <2>1, <2>2, <2>3
<1>10. v[M + 1].from <= x.from
  BY <1>2, <1>4
<1>11. Covers(s, n + 1, v, M + 1)
  BY <1>4, <1>7, <1>8, <1>9, <1>10 DEF Covers, x
<1>12. QED
  BY <1>11 DEF v, x

\* One that begins before extends the last merged one.
LEMMA ExtendCovers ==
  ASSUME NEW N \in Nat, NEW s, ByStart(N, s), NEW n \in Nat, n + 1 \in 1..N,
         NEW M \in Nat \ {0}, NEW w, Covers(s, n, w, M),
         ~ (s[n + 1].from > w[M].to)
  PROVE  Covers(s, n + 1, Merged(w, s[n + 1]), M)
<1> DEFINE x == s[n + 1]
           z == [from |-> w[M].from, to |-> IF x.to > w[M].to THEN x.to ELSE w[M].to]
           v == Merged(w, x)
<1>1. PICK K \in Nat : M = K + 1
  OBVIOUS
<1>2. x \in Spans /\ x.from \in Nat /\ x.to \in Nat /\ x.from < x.to /\ x.from <= w[M].to
  <2>1. x \in Spans /\ x.from \in Nat /\ x.to \in Nat /\ x.from < x.to
    BY DEF ByStart, Spans
  <2>2. w[M].to \in Nat
    <3>1. w \in Seq(Spans) /\ Len(w) = M /\ M \in 1..M
      BY DEF Covers
    <3>2. w[M] \in Spans
      BY <3>1
    <3>3. QED
      BY <3>2 DEF Spans
  <2>3. QED
    BY <2>1, <2>2
<1>3. w \in Seq(Spans) /\ Len(w) = M /\ M \in 1..M
  BY DEF Covers
<1>4. \A a \in 1..M : w[a] \in Spans /\ w[a].from \in Nat /\ w[a].to \in Nat /\ w[a].from < w[a].to
  <2>1. \A a \in 1..M : w[a] \in Spans
    BY <1>3
  <2>2. QED
    BY <2>1 DEF Covers, Spans
<1>5. w[M].from <= x.from
  <2>1. n > 0
    BY DEF Covers
  <2>2. w[M].from <= s[n].from
    BY <2>1 DEF Covers
  <2>3. n \in 1..N /\ n < n + 1
    BY <2>1
  <2>4. s[n].from <= x.from /\ s[n].from \in Nat
    BY <2>3 DEF ByStart, Spans
  <2>5. QED
    BY <1>2, <1>3, <1>4, <2>2, <2>4
<1>6. v = Append(SubSeq(w, 1, K), z)
  <2>1. Last(w) = w[M]
    BY <1>3 DEF Last
  <2>2. Front(w) = SubSeq(w, 1, K)
    BY <1>1, <1>3 DEF Front
  <2>3. w # <<>>
    BY <1>3
  <2>4. ~ (x.from > Last(w).to)
    BY <2>1
  <2>5. QED
    BY <2>1, <2>2, <2>3, <2>4 DEF Merged
<1> HIDE DEF x
<1>7. /\ z \in Spans /\ z.from = w[M].from /\ z.to \in Nat
      /\ z.to >= x.to /\ z.to >= w[M].to /\ (z.to = x.to \/ z.to = w[M].to)
  <2>1. w[M].from \in Nat /\ w[M].to \in Nat
    BY <1>3, <1>4
  <2>2. CASE x.to > w[M].to
    BY <1>2, <2>1, <2>2 DEF Spans
  <2>3. CASE ~ (x.to > w[M].to)
    BY <1>2, <2>1, <2>3 DEF Spans
  <2>4. QED
    BY <2>2, <2>3
<1> HIDE DEF z, v
<1>8. /\ v \in Seq(Spans) /\ Len(v) = M /\ v[M] = z
      /\ \A a \in 1..K : v[a] = w[a]
  <2>1. /\ SubSeq(w, 1, K) \in Seq(Spans) /\ Len(SubSeq(w, 1, K)) = K
        /\ \A a \in 1..K : SubSeq(w, 1, K)[a] = w[a]
    BY <1>1, <1>3, SubSeqProperties
  <2>2. /\ v \in Seq(Spans) /\ Len(v) = K + 1 /\ v[K + 1] = z
        /\ \A a \in 1..K : v[a] = SubSeq(w, 1, K)[a]
    BY <1>6, <1>7, <2>1, AppendProperties
  <2>3. QED
    BY <1>1, <2>1, <2>2
<1>9. \A a \in 1..M : a \in 1..K \/ a = M
  BY <1>1
<1>91. \A a \in 1..K : a \in 1..M
  BY <1>1
<1>10. \A a \in 1..M : v[a].from < v[a].to
  <2>1. z.from < z.to
    BY <1>3, <1>4, <1>7
  <2>2. QED
    BY <1>4, <1>8, <1>9, <2>1
<1>11. ASSUME NEW a \in 1..M, NEW b \in 1..M, a < b PROVE v[a].to < v[b].from
  <2>1. a \in 1..K
    BY <1>1, <1>11
  <2>2. w[a].to < w[b].from
    BY <1>11 DEF Covers
  <2>3. CASE b \in 1..K
    BY <1>8, <2>1, <2>2, <2>3
  <2>4. CASE b = M
    BY <1>7, <1>8, <2>1, <2>2, <2>4
  <2>5. QED
    BY <1>9, <2>3, <2>4
<1>12. ASSUME NEW y \in Nat PROVE InSpans(v, M, y) <=> InSpans(s, n + 1, y)
  <2>1. InSpans(w, M, y) <=> InSpans(s, n, y)
    BY DEF Covers
  <2>2. InSpans(v, M, y) <=> InSpans(w, K, y) \/ (z.from <= y /\ y < z.to)
    BY <1>3, <1>8, <1>9, <1>91 DEF InSpans
  <2>3. InSpans(w, M, y) <=> InSpans(w, K, y) \/ (w[M].from <= y /\ y < w[M].to)
    BY <1>3, <1>9, <1>91 DEF InSpans
  <2>4. (z.from <= y /\ y < z.to) <=> (w[M].from <= y /\ y < w[M].to) \/ (x.from <= y /\ y < x.to)
    BY <1>2, <1>3, <1>4, <1>5, <1>7
  <2>5. InSpans(s, n + 1, y) <=> InSpans(s, n, y) \/ (x.from <= y /\ y < x.to)
    <3>1. n + 1 \in 1..(n + 1) /\ \A a \in 1..n : a \in 1..(n + 1)
      OBVIOUS
    <3>2. \A a \in 1..(n + 1) : a \in 1..n \/ a = n + 1
      OBVIOUS
    <3>3. QED
      BY <3>1, <3>2 DEF InSpans, x
  <2>6. QED
    BY <2>1, <2>2, <2>3, <2>4, <2>5
<1>13. v[M].from <= x.from
  BY <1>5, <1>7, <1>8
<1>14. Covers(s, n + 1, v, M)
  BY <1>8, <1>10, <1>11, <1>12, <1>13 DEF Covers, x
<1>15. QED
  BY <1>14 DEF v, x

\* Merging keeps the years that are covered.
LEMMA MergedCovers ==
  ASSUME NEW N \in Nat, NEW s, ByStart(N, s)
  PROVE  \E M \in Nat : Covers(s, N, MergedOf(s), M)
<1>1. PICK u : /\ u[0] = <<>>
               /\ \A n \in 1..N : u[n] = Merged(u[n - 1], s[n])
               /\ MergedOf(s) = u[N]
  BY MergedStepByStep DEF ByStart
<1> DEFINE S == {n \in 0..N : \E M \in Nat : Covers(s, n, u[n], M)}
<1>2. 0 \in S
  <2>1. <<>> \in Seq(Spans) /\ Len(<<>>) = 0 /\ 1..0 = {}
    OBVIOUS
  <2>2. Covers(s, 0, <<>>, 0)
    BY <2>1 DEF Covers, InSpans
  <2>3. QED
    BY <1>1, <2>2
<1>3. ASSUME NEW n \in 0..(N - 1), n \in S PROVE n + 1 \in S
  <2>1. PICK M \in Nat : Covers(s, n, u[n], M)
    BY <1>3
  <2>2. n + 1 \in 1..N /\ (n + 1) - 1 = n /\ n \in Nat /\ n + 1 \in 0..N
    OBVIOUS
  <2>3. u[n + 1] = Merged(u[n], s[n + 1])
    BY <1>1, <2>2
  <2>4. u[n] \in Seq(Spans) /\ Len(u[n]) = M
    BY <2>1 DEF Covers
  <2>5. CASE M = 0
    <3>1. u[n] = <<>>
      BY <2>4, <2>5, EmptySeq
    <3>2. u[n + 1] = Append(u[n], s[n + 1])
      BY <2>3, <3>1 DEF Merged
    <3>3. Covers(s, n + 1, u[n + 1], M + 1)
      BY <2>1, <2>2, <2>5, <3>2, AppendCovers
    <3>4. QED
      BY <2>2, <3>3
  <2>6. CASE M # 0 /\ s[n + 1].from > u[n][M].to
    <3>1. u[n + 1] = Append(u[n], s[n + 1])
      BY <2>3, <2>4, <2>6 DEF Merged, Last
    <3>2. Covers(s, n + 1, u[n + 1], M + 1)
      BY <2>1, <2>2, <2>6, <3>1, AppendCovers
    <3>3. QED
      BY <2>2, <3>2
  <2>7. CASE M # 0 /\ ~ (s[n + 1].from > u[n][M].to)
    <3>1. Covers(s, n + 1, u[n + 1], M)
      BY <2>1, <2>2, <2>3, <2>7, ExtendCovers
    <3>2. QED
      BY <2>2, <3>1
  <2>8. QED
    BY <2>5, <2>6, <2>7
<1> HIDE DEF S
<1>4. \A n \in 0..(N - 1) : n \in S => n + 1 \in S
  BY <1>3
<1>5. N \in S
  <2>1. \A n \in 0..N : n \in S
    BY <1>2, <1>4, Climb
  <2>2. QED
    BY <2>1
<1>6. QED
  BY <1>1, <1>5 DEF S

Years(w, n) == {y \in Nat : InSpans(w, n, y)}

\* Intervals with gaps between them sum up to the years they cover.
LEMMA SumCountsYears ==
  ASSUME NEW M \in Nat, NEW w \in Seq(Spans), Len(w) = M,
         \A a \in 1..M : w[a].from < w[a].to,
         \A a, b \in 1..M : a < b => w[a].to < w[b].from
  PROVE  IsFiniteSet(Years(w, M)) /\ SumOf(w) = Cardinality(Years(w, M))
<1>1. DOMAIN w = 1..M /\ \A a \in 1..M : w[a] \in Spans
  OBVIOUS
<1>11. PICK u : /\ u[0] = 0
                /\ \A n \in 1..M : u[n - 1] \in Nat /\ u[n] = u[n - 1] + (w[n].to - w[n].from)
                /\ SumOf(w) = u[M]
  BY <1>1, SumStepByStep
<1> DEFINE S == {n \in 0..M : IsFiniteSet(Years(w, n)) /\ u[n] = Cardinality(Years(w, n))}
<1>2. 0 \in S
  <2>1. Years(w, 0) = {}
    BY DEF Years, InSpans
  <2>2. IsFiniteSet({}) /\ Cardinality({}) = 0
    BY FS_EmptySet
  <2>3. 0 \in 0..M /\ u[0] = 0
    BY <1>11
  <2>4. IsFiniteSet(Years(w, 0)) /\ u[0] = Cardinality(Years(w, 0))
    BY <2>1, <2>2, <2>3
  <2>5. QED
    BY <2>3, <2>4
<1>3. ASSUME NEW n \in 0..(M - 1), n \in S PROVE n + 1 \in S
  <2>1. PICK k \in 1..M : k = n + 1 /\ n = k - 1 /\ n \in Nat
    OBVIOUS
  <2>2. PICK f \in Nat, t \in Nat : f = w[k].from /\ t = w[k].to /\ f < t
    BY <1>1 DEF Spans
  <2>3. Years(w, k) = Years(w, n) \cup (f..(t - 1))
    <3>1. \A a \in 1..k : a \in 1..n \/ a = k
      BY <2>1
    <3>2. k \in 1..k /\ \A a \in 1..n : a \in 1..k
      BY <2>1
    <3>3. \A y \in Nat : (f <= y /\ y < t) <=> y \in f..(t - 1)
      BY <2>2
    <3>4. \A y \in f..(t - 1) : y \in Nat
      BY <2>2
    <3>5. \A y \in Nat : InSpans(w, k, y) <=> InSpans(w, n, y) \/ (f <= y /\ y < t)
      BY <2>2, <3>1, <3>2 DEF InSpans
    <3>6. QED
      BY <3>3, <3>4, <3>5 DEF Years
  <2>4. Years(w, n) \cap (f..(t - 1)) = {}
    <3> SUFFICES ASSUME NEW y \in Years(w, n), y \in f..(t - 1) PROVE FALSE
      OBVIOUS
    <3>1. PICK a \in 1..n : w[a].from <= y /\ y < w[a].to
      BY DEF Years, InSpans
    <3>2. a \in 1..M /\ a < k
      BY <2>1
    <3>3. w[a].to < f /\ w[a].to \in Nat
      BY <1>1, <2>2, <3>2 DEF Spans
    <3>4. y \in Nat
      BY DEF Years
    <3>5. QED
      BY <2>2, <3>1, <3>3, <3>4
  <2>5. IsFiniteSet(f..(t - 1)) /\ Cardinality(f..(t - 1)) = t - f
    <3>1. f \in Int /\ t - 1 \in Int
      BY <2>2
    <3>2. /\ IsFiniteSet(f..(t - 1))
          /\ Cardinality(f..(t - 1)) = IF f > t - 1 THEN 0 ELSE (t - 1) - f + 1
      BY <3>1, FS_Interval
    <3>3. QED
      BY <2>2, <3>2
  <2>6. IsFiniteSet(Years(w, n)) /\ u[n] = Cardinality(Years(w, n))
    BY <1>3
  <2>7. /\ IsFiniteSet(Years(w, k))
        /\ Cardinality(Years(w, k)) = Cardinality(Years(w, n)) + (t - f) - Cardinality({})
    BY <2>3, <2>4, <2>5, <2>6, FS_Union
  <2>8. u[k] = u[n] + (t - f) /\ u[n] \in Nat
    BY <1>11, <2>1, <2>2
  <2>9. Cardinality({}) = 0
    BY FS_EmptySet
  <2>10. Cardinality(Years(w, k)) = u[k]
    BY <2>2, <2>6, <2>7, <2>8, <2>9
  <2>11. k \in 0..M
    OBVIOUS
  <2>12. QED
    BY <2>1, <2>7, <2>10, <2>11
<1> HIDE DEF S
<1>4. \A n \in 0..(M - 1) : n \in S => n + 1 \in S
  BY <1>3
<1>5. M \in S
  <2>1. \A n \in 0..M : n \in S
    BY <1>2, <1>4, Climb
  <2>2. QED
    BY <2>1
<1>6. QED
  BY <1>11, <1>5 DEF S

History(h) == IsFiniteSet(h) /\ \A e \in h : e.from \in Nat /\ e.to \in Nat

\* The intervals of a history are finitely many, none of them empty.
LEMMA IntervalsAreSpans ==
  ASSUME NEW h, History(h)
  PROVE  /\ IsFiniteSet(Intervals(h))
         /\ Intervals(h) \subseteq Spans
         /\ \A x \in Intervals(h) : x.from < x.to
<1> DEFINE K == {x \in h : x.full /\ Interval(x).to > x.from}
           f == [e \in K |-> Interval(e)]
<1>1. IsFiniteSet(K)
  BY FS_Subset DEF History
<1>2. Intervals(h) = {Interval(e) : e \in K}
  BY DEF Intervals
<1>3. \A e \in K : Interval(e) \in Spans /\ Interval(e).from < Interval(e).to
  BY MatchAssumption DEF Interval, Spans, History
<1>4. f \in Surjection(K, Intervals(h))
  <2>1. f \in [K -> Intervals(h)]
    BY <1>2
  <2>2. \A x \in Intervals(h) : \E e \in K : f[e] = x
    BY <1>2
  <2>3. QED
    BY <2>1, <2>2 DEF Surjection
<1> HIDE DEF K, f
<1>5. IsFiniteSet(Intervals(h))
  BY <1>1, <1>4, FS_Surjection
<1>6. QED
  BY <1>2, <1>3, <1>5

EarlierIn(I) == {p \in I \X I : Earlier(p[1], p[2])}

\* Earlier is a strict total order of intervals.
LEMMA SpansAreOrdered ==
  ASSUME NEW I, I \subseteq Spans
  PROVE  /\ StrictOrder(I, EarlierIn(I))
         /\ \A x, y \in I : <<x, y>> \in EarlierIn(I) <=> Earlier(x, y)
<1>1. \A x, y \in I : <<x, y>> \in EarlierIn(I) <=> Earlier(x, y)
  BY DEF EarlierIn
<1>2. \A x \in I : x.from \in Nat /\ x.to \in Nat /\ x = [from |-> x.from, to |-> x.to]
  BY DEF Spans
<1>3. \A x \in I : ~ Earlier(x, x)
  BY <1>2 DEF Earlier
<1>4. \A x, y, z \in I : Earlier(x, y) /\ Earlier(y, z) => Earlier(x, z)
  BY <1>2 DEF Earlier
<1>5. ASSUME NEW x \in I, NEW y \in I, x # y PROVE Earlier(x, y) \/ Earlier(y, x)
  <2>1. x.from # y.from \/ x.to # y.to
    BY <1>2, <1>5
  <2>2. QED
    BY <1>2, <2>1 DEF Earlier
<1>6. QED
  BY <1>1, <1>3, <1>4, <1>5 DEF StrictOrder

\* Sorted is defined, and leaves out no interval.
LEMMA SortedLines ==
  ASSUME NEW I, IsFiniteSet(I), I \subseteq Spans, NEW N \in Nat, N = Cardinality(I)
  PROVE  /\ Sorted(I) \in [1..N -> I]
         /\ \A i, j \in 1..N : i < j => Earlier(Sorted(I)[i], Sorted(I)[j])
         /\ \A x \in I : \E i \in 1..N : Sorted(I)[i] = x
<1> DEFINE Good(s) == \A i, j \in DOMAIN s : i < j => Earlier(s[i], s[j])
           s == Sorted(I)
<1>1. PICK r \in [1..N -> I] : \A i, j \in 1..N : i < j => <<r[i], r[j]>> \in EarlierIn(I)
  BY SpansAreOrdered, Lined
<1>2. Good(r)
  BY <1>1, SpansAreOrdered
<1>3. s = CHOOSE t \in [1..N -> I] : Good(t)
  BY DEF Sorted
<1> HIDE DEF Good, s
<1>4. s \in [1..N -> I] /\ Good(s)
  BY <1>2, <1>3
<1>5. \A i, j \in 1..N : i < j => Earlier(s[i], s[j])
  BY <1>4 DEF Good
<1>6. s \in Injection(1..N, I)
  <2>1. ASSUME NEW i \in 1..N, NEW j \in 1..N, s[i] = s[j] PROVE i = j
    <3>1. \A x \in I : ~ Earlier(x, x)
      BY DEF Earlier, Spans
    <3>2. ~ Earlier(s[i], s[j]) /\ ~ Earlier(s[j], s[i])
      BY <1>4, <2>1, <3>1
    <3>3. ~ (i < j) /\ ~ (j < i)
      BY <1>5, <3>2
    <3>4. QED
      BY <3>3
  <2>2. QED
    BY <1>4, <2>1 DEF Injection, IsInjective
<1>7. s \in Surjection(1..N, I)
  <2>1. IsFiniteSet(1..N) /\ Cardinality(1..N) = IF 1 > N THEN 0 ELSE N - 1 + 1
    <3>1. 1 \in Int /\ N \in Int
      OBVIOUS
    <3>2. QED
      BY <3>1, FS_Interval
  <2>2. Cardinality(1..N) = Cardinality(I)
    BY <2>1
  <2>3. QED
    BY <1>6, <2>2, FS_Injection
<1>8. \A x \in I : \E i \in 1..N : s[i] = x
  BY <1>7 DEF Surjection
<1>9. QED
  BY <1>4, <1>5, <1>8 DEF s

\* The years in which there was a job.
Worked(h) == UNION {e.from..(Interval(e).to - 1) : e \in {x \in h : x.full}}

\* They are those that some interval covers.
LEMMA WorkedIsSpans ==
  ASSUME NEW h, History(h)
  PROVE  Worked(h) = {y \in Nat : \E x \in Intervals(h) : x.from <= y /\ y < x.to}
<1>1. \A e \in h : e.from \in Nat /\ Interval(e).from = e.from /\ Interval(e).to \in Nat
  BY MatchAssumption DEF Interval, History
<1>2. ASSUME NEW y \in Worked(h)
      PROVE  y \in Nat /\ \E x \in Intervals(h) : x.from <= y /\ y < x.to
  <2>1. PICK e \in h : e.full /\ y \in e.from..(Interval(e).to - 1)
    BY DEF Worked
  <2>2. y \in Nat /\ e.from <= y /\ y < Interval(e).to /\ Interval(e).to > e.from
    BY <1>1, <2>1
  <2>3. Interval(e) \in Intervals(h)
    BY <2>1, <2>2 DEF Intervals
  <2>4. QED
    BY <1>1, <2>2, <2>3
<1>3. ASSUME NEW y \in Nat, NEW x \in Intervals(h), x.from <= y, y < x.to
      PROVE  y \in Worked(h)
  <2>1. PICK e \in h : e.full /\ x = Interval(e)
    BY DEF Intervals
  <2>2. y \in e.from..(Interval(e).to - 1)
    BY <1>1, <1>3, <2>1
  <2>3. QED
    BY <2>1, <2>2 DEF Worked
<1>4. QED
  BY <1>2, <1>3

\* _years_experience returns the number of years in which there was a job, and nothing
\* when no experience is dated.
LEMMA YearsAreCounted ==
  ASSUME NEW h, History(h)
  PROVE  YearsExperience(h) = IF Worked(h) = {} THEN None ELSE Cardinality(Worked(h))
<1> DEFINE I == Intervals(h)
           s == Sorted(I)
<1>1. IsFiniteSet(I) /\ I \subseteq Spans /\ \A x \in I : x.from < x.to
  BY IntervalsAreSpans
<1>2. PICK N \in Nat : N = Cardinality(I)
  BY <1>1, FS_CardinalityType
<1> HIDE DEF I
<1>3. /\ s \in [1..N -> I]
      /\ \A i, j \in 1..N : i < j => Earlier(s[i], s[j])
      /\ \A x \in I : \E i \in 1..N : s[i] = x
  BY <1>1, <1>2, SortedLines
<1>4. YearsExperience(h) = IF I = {} THEN None ELSE SumOf(MergedOf(s))
  BY DEF YearsExperience, SumOf, MergedOf, I
<1> HIDE DEF s
<1>5. ByStart(N, s)
  <2>1. s \in [1..N -> Spans] /\ \A i \in 1..N : s[i] \in I
    BY <1>1, <1>3
  <2>2. \A i \in 1..N : s[i].from < s[i].to
    BY <1>1, <2>1
  <2>3. ASSUME NEW i \in 1..N, NEW j \in 1..N, i < j PROVE s[i].from <= s[j].from
    <3>1. Earlier(s[i], s[j])
      BY <1>3, <2>3
    <3>2. s[i].from \in Nat /\ s[j].from \in Nat
      BY <2>1 DEF Spans
    <3>3. QED
      BY <3>1, <3>2 DEF Earlier
  <2>4. QED
    BY <2>1, <2>2, <2>3 DEF ByStart
<1>6. PICK M \in Nat : Covers(s, N, MergedOf(s), M)
  BY <1>5, MergedCovers
<1>7. SumOf(MergedOf(s)) = Cardinality(Years(MergedOf(s), M))
  BY <1>6, SumCountsYears DEF Covers
<1>8. Worked(h) = Years(MergedOf(s), M)
  <2>1. \A y \in Nat : InSpans(MergedOf(s), M, y) <=> InSpans(s, N, y)
    BY <1>6 DEF Covers
  <2>2. \A y \in Nat : InSpans(s, N, y) <=> \E x \in I : x.from <= y /\ y < x.to
    BY <1>3 DEF InSpans
  <2>3. QED
    BY <2>1, <2>2, WorkedIsSpans DEF Years, I
<1>9. Worked(h) = {} <=> I = {}
  <2>1. ASSUME NEW x \in I PROVE x.from \in Worked(h)
    <3>1. x.from \in Nat /\ x.from <= x.from /\ x.from < x.to
      BY <1>1 DEF Spans
    <3>2. QED
      BY <3>1, WorkedIsSpans DEF I
  <2>2. QED
    BY <2>1, WorkedIsSpans DEF I
<1>10. QED
  BY <1>4, <1>7, <1>8, <1>9

\* Jobs held at the same time count once (YearsCountOnce), for any history.
LEMMA YearsCountOnceHolds ==
  ASSUME profile.experiences \in Histories \cup {{}}
  PROVE  YearsCountOnce
<1>1. History(profile.experiences)
  BY MatchAssumption, FS_EmptySet DEF History
<1>2. QED
  BY <1>1, YearsAreCounted DEF YearsCountOnce, Worked

-----------------------------------------------------------------------------
(* Gates.                                                                  *)

\* Only evidence makes a near match (HardGatesHold), for any scorecard and profile.
LEMMA GatesHold ==
  ASSUME scored \in Scorecard
  PROVE  HardGatesHold
<1> DEFINE p == profile
           Known(c) == IF c.topic = "skill" THEN p.skills # {} ELSE p.eligibility \in Eligibilities
           Found(c) == IF c.topic = "skill" THEN c.wants \in p.skills ELSE c.wants = p.eligibility
           Reason(c) == \/ c.kind = "must_have" /\ (IF Known(c) THEN ~Found(c) ELSE c.required)
                        \/ c.kind = "exclusion" /\ c.topic = "skill" /\ Found(c)
           Fails(c) == \/ c.kind = "must_have" /\ (\/ CriterionState(c, p) = "failed"
                                                   \/ c.required /\ CriterionState(c, p) = "unknown")
                       \/ c.kind = "exclusion" /\ CriterionState(c, p) = "failed"
<1>1. SUFFICES ASSUME \A c \in scored.criteria : c.kind = "exclusion" => c.topic = "skill"
               PROVE  Classification(scored, p) = "near_match"
                        <=> {c \in scored.criteria : Reason(c)} # {}
  BY DEF HardGatesHold
<1>2. ASSUME NEW c \in scored.criteria PROVE Fails(c) <=> Reason(c)
  <2>1. c.topic \in {"skill", "eligibility"}
    BY MatchAssumption
  <2>2. CASE c.topic = "skill" /\ c.kind = "exclusion"
    BY <2>2 DEF CriterionState, SkillState, Evidenced
  <2>3. CASE c.topic = "skill" /\ c.kind # "exclusion"
    BY <2>3 DEF CriterionState, SkillState, Evidenced
  <2>4. CASE c.topic = "eligibility"
    BY <1>1, <2>4 DEF CriterionState, EligibilityState, Evidenced
  <2>5. QED
    BY <2>1, <2>2, <2>3, <2>4
<1>3. Classification(scored, p) = IF \E c \in scored.criteria : Fails(c) THEN "near_match" ELSE "main"
  BY DEF Classification
<1> HIDE DEF Fails, Reason
<1>4. QED
  BY <1>2, <1>3

-----------------------------------------------------------------------------
(* Points: a group of atoms shares its weight.                             *)

\* A has one member for every key of K.
Keyed(A, K) ==
  /\ K = {a.key : a \in A}
  /\ \A a, b \in A : a.key = b.key => a = b

\* There are as many as keys.
LEMMA KeyedCard ==
  ASSUME NEW A, NEW K, IsFiniteSet(K), Keyed(A, K)
  PROVE  IsFiniteSet(A) /\ Cardinality(A) = Cardinality(K)
<1> DEFINE f == [a \in A |-> a.key]
<1>1. f \in [A -> K] /\ \A a \in A : f[a] = a.key
  BY DEF Keyed
<1>2. \A k \in K : \E a \in A : f[a] = k
  BY <1>1 DEF Keyed
<1> HIDE DEF f
<1>3. f \in Injection(A, K) /\ f \in Surjection(A, K)
  BY <1>1, <1>2 DEF Injection, IsInjective, Surjection, Keyed
<1>4. QED
  BY <1>3, FS_Injection

\* What the key k gets when the keys of K share w: MaxPoints, by keys alone.
KeyPoints(k, K, w) ==
  w \div Cardinality(K) + IF Cardinality({j \in K : j < k}) < w % Cardinality(K) THEN 1 ELSE 0

Shares(K) == IsFiniteSet(K) /\ K \subseteq Nat /\ K # {}

\* The quotient and the remainder of _allocate.
LEMMA Divided ==
  ASSUME NEW K, Shares(K), NEW w \in Nat
  PROVE  \E n \in Nat \ {0}, q \in Nat, r \in Nat : r < n /\
           n = Cardinality(K) /\ q = w \div n /\ r = w % n /\ w = q * n + r
<1>1. Cardinality(K) \in Nat /\ Cardinality(K) # 0
  BY FS_CardinalityType, FS_EmptySet DEF Shares
<1>2. PICK n \in Nat \ {0} : n = Cardinality(K)
  BY <1>1
<1>3. w % n \in Nat /\ w % n < n
  OBVIOUS
<1>4. w \div n \in Nat
  OBVIOUS
<1>5. w % n = w - n * (w \div n)
  <2>1. n \in Nat /\ n > 0
    OBVIOUS
  <2>2. QED
    BY <2>1, Z3
<1>6. PICK q \in Nat : q = w \div n
  BY <1>4
<1>7. PICK r \in Nat : r = w % n
  BY <1>3
<1>8. w = q * n + r
  BY <1>5, <1>6, <1>7
<1>9. QED
  BY <1>2, <1>3, <1>6, <1>7, <1>8

\* Points are naturals.
LEMMA KeyPointsType ==
  ASSUME NEW K, Shares(K), NEW w \in Nat, NEW k
  PROVE  KeyPoints(k, K, w) \in Nat
<1>1. PICK n \in Nat \ {0}, q \in Nat, r \in Nat : r < n /\
           n = Cardinality(K) /\ q = w \div n /\ r = w % n /\ w = q * n + r
  BY Divided
<1>2. KeyPoints(k, K, w) = q \/ KeyPoints(k, K, w) = q + 1
  <2>1. KeyPoints(k, K, w) = q + IF Cardinality({j \in K : j < k}) < r THEN 1 ELSE 0
    BY <1>1 DEF KeyPoints
  <2>2. CASE Cardinality({j \in K : j < k}) < r
    BY <2>1, <2>2
  <2>3. CASE ~ (Cardinality({j \in K : j < k}) < r)
    <3>1. KeyPoints(k, K, w) = q + 0
      BY <2>1, <2>3
    <3>2. QED
      BY <3>1
  <2>4. QED
    BY <2>2, <2>3
<1>3. QED
  BY <1>2

\* What an atom can earn depends on the keys of its group, not on what is known.
LEMMA AllocatedByKey ==
  ASSUME NEW A, NEW K, Keyed(A, K), Shares(K), NEW w \in Nat
  PROVE  /\ Keyed(Allocated(A, w), K)
         /\ \A b \in Allocated(A, w) : /\ b.max = KeyPoints(b.key, K, w)
                                       /\ b.points = IF b.state = "supported" THEN b.max ELSE 0
<1>1. Cardinality(A) = Cardinality(K)
  BY KeyedCard DEF Shares
<1>2. ASSUME NEW a \in A PROVE MaxPoints(a, A, w) = KeyPoints(a.key, K, w)
  <2> DEFINE B == {x \in A : x.key < a.key}
             L == {j \in K : j < a.key}
  <2>1. Keyed(B, L)
    BY DEF Keyed
  <2>2. IsFiniteSet(L)
    BY FS_Subset DEF Shares
  <2>3. Cardinality(B) = Cardinality(L)
    BY <2>1, <2>2, KeyedCard
  <2>4. QED
    BY <1>1, <2>3 DEF MaxPoints, KeyPoints
<1>3. \A b \in Allocated(A, w) : \E a \in A :
        b = [key |-> a.key, state |-> a.state, max |-> MaxPoints(a, A, w),
             points |-> IF a.state = "supported" THEN MaxPoints(a, A, w) ELSE 0]
  BY DEF Allocated
<1>4. \A b \in Allocated(A, w) : /\ b.max = KeyPoints(b.key, K, w)
                                 /\ b.points = IF b.state = "supported" THEN b.max ELSE 0
  BY <1>2, <1>3
<1>5. \A b, c \in Allocated(A, w) : b.key = c.key => b = c
  BY <1>3 DEF Keyed
<1>6. K = {b.key : b \in Allocated(A, w)}
  <2>1. ASSUME NEW a \in A PROVE \E b \in Allocated(A, w) : b.key = a.key
    <3>1. PICK b \in Allocated(A, w) :
            b = [key |-> a.key, state |-> a.state, max |-> MaxPoints(a, A, w),
                 points |-> IF a.state = "supported" THEN MaxPoints(a, A, w) ELSE 0]
      BY DEF Allocated
    <3>2. QED
      BY <3>1
  <2>2. \A b \in Allocated(A, w) : \E a \in A : b.key = a.key
    BY <1>3
  <2>3. QED
    BY <2>1, <2>2 DEF Keyed
<1>7. QED
  BY <1>4, <1>5, <1>6 DEF Keyed

\* The keys share w without losing a point (_allocate).
LEMMA SharesAddUp ==
  ASSUME NEW K, Shares(K), NEW w \in Nat, NEW E, Keyed(E, K),
         NEW S, IsFiniteSet(S), E \in SUBSET S, NEW f \in [S -> Nat], NEW g, IsSum(S, f, g),
         \A b \in E : f[b] = KeyPoints(b.key, K, w)
  PROVE  g[E] = w
<1>1. PICK n \in Nat \ {0}, q \in Nat, r \in Nat : r < n /\
           n = Cardinality(K) /\ q = w \div n /\ r = w % n /\ w = q * n + r
  BY Divided
<1> DEFINE R == {p \in K \X K : p[1] < p[2]}
<1>2. StrictOrder(K, R) /\ \A j, k \in K : <<j, k>> \in R <=> j < k
  <2>1. \A j, k \in K : <<j, k>> \in R <=> j < k
    OBVIOUS
  <2>2. K \subseteq Nat
    BY DEF Shares
  <2> HIDE DEF R
  <2>3. QED
    BY <2>1, <2>2 DEF StrictOrder
<1> HIDE DEF R
<1>3. PICK rank : Ranked(K, R, rank)
  BY <1>2, Ranks DEF Shares
<1>4. \A k \in K : rank[k] = Cardinality({j \in K : j < k})
  <2>1. \A k \in K : rank[k] = Cardinality(Below(K, R, k))
    BY <1>3 DEF Ranked
  <2>2. \A k \in K : Below(K, R, k) = {j \in K : j < k}
    BY <1>2 DEF Below
  <2>3. QED
    BY <2>1, <2>2
<1> DEFINE L == {k \in K : rank[k] < r}
           B == {b \in E : b.key \in L}
<1>5. Cardinality(L) = r /\ IsFiniteSet(L)
  <2>1. r \in 0..Cardinality(K)
    BY <1>1
  <2>2. Cardinality(L) = r
    BY <1>3, <2>1, LowRanks DEF Shares
  <2>3. QED
    BY <2>2, FS_Subset DEF Shares
<1>6. Cardinality(E \cap B) = r
  <2>1. Keyed(E \cap B, L)
    BY DEF Keyed
  <2>2. QED
    BY <1>5, <2>1, KeyedCard
<1>7. Cardinality(E) = n
  BY <1>1, KeyedCard DEF Shares
<1>8. HasShares(f, E, q, B)
  <2> SUFFICES ASSUME NEW b \in E PROVE f[b] = q + IF b \in B THEN 1 ELSE 0
    BY DEF HasShares
  <2>1. b.key \in K
    BY DEF Keyed
  <2>2. KeyPoints(b.key, K, w) = q + IF rank[b.key] < r THEN 1 ELSE 0
    BY <1>1, <1>4, <2>1 DEF KeyPoints
  <2>3. b \in B <=> rank[b.key] < r
    BY <2>1
  <2> HIDE DEF B
  <2>4. QED
    BY <2>2, <2>3
<1> HIDE DEF B
<1> HIDE DEF KeyPoints
<1>9. g[E] = q * Cardinality(E) + Cardinality(E \cap B)
  <2>1. E \in SUBSET S
    OBVIOUS
  <2>2. QED
    BY <1>8, <2>1, SumOfShares
<1>10. QED
  BY <1>1, <1>6, <1>7, <1>9

MaxSum(S) == MapThenSumSet(LAMBDA a : a.max, S)
PointSum(S) == MapThenSumSet(LAMBDA a : a.points, S)

\* Whatever satisfies the equation of a sum is one.
LEMMA SumIsTyped ==
  ASSUME NEW S, IsFiniteSet(S), NEW f \in [S -> Nat], NEW h,
         h = [s \in SUBSET S |-> IF s = {} THEN 0 ELSE f[One(s)] + h[s \ {One(s)}]]
  PROVE  IsSum(S, f, h)
<1>1. h = [s \in SUBSET S |-> h[s]]
  OBVIOUS
<1>2. \A s \in SUBSET S : h[s] = IF s = {} THEN 0 ELSE f[One(s)] + h[s \ {One(s)}]
  OBVIOUS
<1>3. \A s \in SUBSET S : h[s] \in Nat
  <2> DEFINE T == {s \in SUBSET S : h[s] \in Nat}
  <2>1. {} \in T
    <3>1. {} \in SUBSET S
      OBVIOUS
    <3>2. h[{}] = 0
      BY <1>2, <3>1
    <3>3. QED
      BY <3>1, <3>2
  <2>2. ASSUME NEW s \in SUBSET S, s # {}, \A x \in s : s \ {x} \in T PROVE s \in T
    <3>1. One(s) \in s /\ One(s) \in S
      BY <2>2 DEF One
    <3>2. h[s \ {One(s)}] \in Nat /\ f[One(s)] \in Nat
      BY <2>2, <3>1
    <3>3. h[s] = f[One(s)] + h[s \ {One(s)}]
      BY <1>2, <2>2
    <3>4. QED
      BY <3>2, <3>3
  <2> HIDE DEF T
  <2>3. \A s \in SUBSET S : s # {} /\ (\A x \in s : s \ {x} \in T) => s \in T
    BY <2>2
  <2>4. \A s \in SUBSET S : s \in T
    BY <2>1, <2>3, Shrink
  <2>5. QED
    BY <2>4 DEF T
<1>4. QED
  BY <1>1, <1>2, <1>3 DEF IsSum

\* The sum of what can be earned is a sum.
LEMMA MaxSumIsSum ==
  ASSUME NEW S, IsFiniteSet(S), \A a \in S : a.max \in Nat
  PROVE  \E g : IsSum(S, [a \in S |-> a.max], g) /\ MaxSum(S) = g[S]
<1> DEFINE f == [a \in S |-> a.max]
           Next(h, s) == IF s = {} THEN 0 ELSE f[One(s)] + h[s \ {One(s)}]
           Step(h, s) == IF s = {} THEN 0 ELSE One(s).max + h[s \ {One(s)}]
           iter == CHOOSE h : h = [s \in SUBSET S |-> Step(h, s)]
<1>1. f \in [S -> Nat] /\ \A a \in S : f[a] = a.max
  OBVIOUS
<1> HIDE DEF f
<1>2. PICK g : IsSum(S, f, g)
  BY <1>1, SumIsDefined
<1>3. \A h : \A s \in SUBSET S : Next(h, s) = Step(h, s)
  <2>1. \A s \in SUBSET S : s # {} => One(s) \in S
    BY DEF One
  <2>2. QED
    BY <1>1, <2>1
<1>4. g = [s \in SUBSET S |-> Next(g, s)]
  <2>1. \A s \in SUBSET S : g[s] = Next(g, s)
    BY <1>2 DEF IsSum
  <2>2. g = [s \in SUBSET S |-> g[s]]
    BY <1>2 DEF IsSum
  <2> HIDE DEF Next
  <2>3. QED
    BY <2>1, <2>2
<1>5. MaxSum(S) = iter[S]
  BY DEF MaxSum, MapThenSumSet, MapThenFoldSet, One
<1>6. \A h : [s \in SUBSET S |-> Step(h, s)] = [s \in SUBSET S |-> Next(h, s)]
  <2> HIDE DEF Step, Next
  <2>1. QED
    BY <1>3
<1>7. g = [s \in SUBSET S |-> Step(g, s)]
  <2> HIDE DEF Step, Next
  <2>1. QED
    BY <1>4, <1>6
<1>8. iter = [s \in SUBSET S |-> Step(iter, s)]
  BY <1>7
<1> HIDE DEF iter
<1>9. iter = [s \in SUBSET S |-> Next(iter, s)]
  <2> HIDE DEF Step, Next
  <2>1. QED
    BY <1>6, <1>8
<1>10. IsSum(S, f, iter)
  BY <1>1, <1>9, SumIsTyped
<1>11. QED
  BY <1>5, <1>10 DEF f

\* So is that of what is earned.
LEMMA PointSumIsSum ==
  ASSUME NEW S, IsFiniteSet(S), \A a \in S : a.points \in Nat
  PROVE  \E g : IsSum(S, [a \in S |-> a.points], g) /\ PointSum(S) = g[S]
<1> DEFINE f == [a \in S |-> a.points]
           Next(h, s) == IF s = {} THEN 0 ELSE f[One(s)] + h[s \ {One(s)}]
           Step(h, s) == IF s = {} THEN 0 ELSE One(s).points + h[s \ {One(s)}]
           iter == CHOOSE h : h = [s \in SUBSET S |-> Step(h, s)]
<1>1. f \in [S -> Nat] /\ \A a \in S : f[a] = a.points
  OBVIOUS
<1> HIDE DEF f
<1>2. PICK g : IsSum(S, f, g)
  BY <1>1, SumIsDefined
<1>3. \A h : \A s \in SUBSET S : Next(h, s) = Step(h, s)
  <2>1. \A s \in SUBSET S : s # {} => One(s) \in S
    BY DEF One
  <2>2. QED
    BY <1>1, <2>1
<1>4. g = [s \in SUBSET S |-> Next(g, s)]
  <2>1. \A s \in SUBSET S : g[s] = Next(g, s)
    BY <1>2 DEF IsSum
  <2>2. g = [s \in SUBSET S |-> g[s]]
    BY <1>2 DEF IsSum
  <2> HIDE DEF Next
  <2>3. QED
    BY <2>1, <2>2
<1>5. PointSum(S) = iter[S]
  BY DEF PointSum, MapThenSumSet, MapThenFoldSet, One
<1>6. \A h : [s \in SUBSET S |-> Step(h, s)] = [s \in SUBSET S |-> Next(h, s)]
  <2> HIDE DEF Step, Next
  <2>1. QED
    BY <1>3
<1>7. g = [s \in SUBSET S |-> Step(g, s)]
  <2> HIDE DEF Step, Next
  <2>1. QED
    BY <1>4, <1>6
<1>8. iter = [s \in SUBSET S |-> Step(iter, s)]
  BY <1>7
<1> HIDE DEF iter
<1>9. iter = [s \in SUBSET S |-> Next(iter, s)]
  <2> HIDE DEF Step, Next
  <2>1. QED
    BY <1>6, <1>8
<1>10. IsSum(S, f, iter)
  BY <1>1, <1>9, SumIsTyped
<1>11. QED
  BY <1>5, <1>10 DEF f

-----------------------------------------------------------------------------
(* Points: the groups of a scorecard.                                      *)

\* The criteria of a scorecard by topic, and the keys of the four groups.
AskedOf(sc, topic) == {x \in sc.criteria : x.kind # "exclusion" /\ x.topic = topic}
TopicKeys(sc, topic) == {c.key : c \in AskedOf(sc, topic)}
RoleKeys(sc) == {RoleKey} \cup TopicKeys(sc, "skill")
ScopeKeys(sc) == IF HasScope(sc) THEN {YearsKey} ELSE {}
StatedKeys(sc) == (IF sc.located THEN {LocationKey} ELSE {}) \cup TopicKeys(sc, "eligibility")
LocationKeys(sc) == IF StatedKeys(sc) = {} THEN {LocationKey} ELSE StatedKeys(sc)
RecencyKeys == {RecencyKey, TrajectoryKey}

\* Criteria have unique keys, none of them a key of the engine.
LEMMA TopicsAreKeyed ==
  ASSUME NEW sc \in Scorecard, NEW p, NEW topic
  PROVE  /\ Keyed(CriterionAtoms(sc, p, topic), TopicKeys(sc, topic))
         /\ IsFiniteSet(TopicKeys(sc, topic))
         /\ TopicKeys(sc, topic) \subseteq Nat \ (10..14)
<1>1. /\ IsFiniteSet(sc.criteria)
      /\ \A c \in sc.criteria : c.key \in Nat \ (10..14)
      /\ \A c, d \in sc.criteria : c.key = d.key => c = d
  BY MatchAssumption
<1>2. AskedOf(sc, topic) \in SUBSET sc.criteria
  BY DEF AskedOf
<1> DEFINE f == [c \in AskedOf(sc, topic) |-> c.key]
<1>3. f \in Surjection(AskedOf(sc, topic), TopicKeys(sc, topic))
  <2>1. f \in [AskedOf(sc, topic) -> TopicKeys(sc, topic)]
    BY DEF TopicKeys
  <2>2. \A k \in TopicKeys(sc, topic) : \E c \in AskedOf(sc, topic) : f[c] = k
    BY DEF TopicKeys
  <2> HIDE DEF f
  <2>3. QED
    BY <2>1, <2>2 DEF Surjection
<1> HIDE DEF f
<1>4. IsFiniteSet(TopicKeys(sc, topic))
  <2>1. IsFiniteSet(AskedOf(sc, topic))
    BY <1>1, <1>2, FS_Subset
  <2>2. QED
    BY <1>3, <2>1, FS_Surjection
<1>5. TopicKeys(sc, topic) \subseteq Nat \ (10..14)
  BY <1>1, <1>2 DEF TopicKeys
<1>6. CriterionAtoms(sc, p, topic) = {Atom(c.key, CriterionState(c, p)) : c \in AskedOf(sc, topic)}
  BY DEF CriterionAtoms, AskedOf
<1>7. \A a \in CriterionAtoms(sc, p, topic) : \E c \in AskedOf(sc, topic) :
        a = [key |-> c.key, state |-> CriterionState(c, p)]
  BY <1>6 DEF Atom
<1>8. ASSUME NEW c \in AskedOf(sc, topic)
      PROVE  \E a \in CriterionAtoms(sc, p, topic) : a.key = c.key
  <2>1. PICK a \in CriterionAtoms(sc, p, topic) : a = [key |-> c.key, state |-> CriterionState(c, p)]
    BY <1>6 DEF Atom
  <2>2. QED
    BY <2>1
<1>9. TopicKeys(sc, topic) = {a.key : a \in CriterionAtoms(sc, p, topic)}
  <2>1. \A a \in CriterionAtoms(sc, p, topic) : \E c \in AskedOf(sc, topic) : a.key = c.key
    BY <1>7
  <2>2. QED
    BY <1>8, <2>1 DEF TopicKeys
<1>10. ASSUME NEW a \in CriterionAtoms(sc, p, topic), NEW b \in CriterionAtoms(sc, p, topic), a.key = b.key
       PROVE  a = b
  <2>1. PICK c \in AskedOf(sc, topic) : a = [key |-> c.key, state |-> CriterionState(c, p)]
    BY <1>7
  <2>2. PICK d \in AskedOf(sc, topic) : b = [key |-> d.key, state |-> CriterionState(d, p)]
    BY <1>7
  <2>3. c = d
    BY <1>1, <1>2, <1>10, <2>1, <2>2
  <2>4. QED
    BY <2>1, <2>2, <2>3
<1>11. QED
  BY <1>4, <1>5, <1>9, <1>10 DEF Keyed

\* An atom of the engine more.
LEMMA OneKeyed ==
  ASSUME NEW k, NEW x, NEW A, NEW K, Keyed(A, K), k \notin K
  PROVE  Keyed({Atom(k, x)} \cup A, {k} \cup K) /\ Keyed({Atom(k, x)}, {k})
<1>0. Atom(k, x).key = k
  BY DEF Atom
<1>1. PICK z : z = Atom(k, x)
  OBVIOUS
<1>11. z.key = k
  BY <1>0, <1>1
<1>2. Keyed({z} \cup A, {k} \cup K) /\ Keyed({z}, {k})
  BY <1>11 DEF Keyed
<1>3. QED
  BY <1>1, <1>2

\* The keys of each group of atoms are those of the scorecard, whatever is known.
LEMMA GroupsAreKeyed ==
  ASSUME NEW sc \in Scorecard, NEW p
  PROVE  /\ Keyed(RoleAtoms(sc, p), RoleKeys(sc))
         /\ Keyed(ScopeAtoms(sc, p), ScopeKeys(sc))
         /\ Keyed(LocationAtoms(sc, p), LocationKeys(sc))
         /\ Keyed(RecencyAtoms(p), RecencyKeys)
<1>1. /\ Keyed(CriterionAtoms(sc, p, "skill"), TopicKeys(sc, "skill"))
      /\ TopicKeys(sc, "skill") \subseteq Nat \ (10..14)
  BY TopicsAreKeyed
<1>2. /\ Keyed(CriterionAtoms(sc, p, "eligibility"), TopicKeys(sc, "eligibility"))
      /\ TopicKeys(sc, "eligibility") \subseteq Nat \ (10..14)
  BY TopicsAreKeyed
<1>3. Keyed({}, {})
  BY DEF Keyed
<1>4. Keyed(RoleAtoms(sc, p), RoleKeys(sc))
  <2>1. RoleKey \notin TopicKeys(sc, "skill")
    BY <1>1 DEF RoleKey
  <2>2. QED
    BY <1>1, <2>1, OneKeyed DEF RoleAtoms, RoleKeys
<1>5. Keyed(ScopeAtoms(sc, p), ScopeKeys(sc))
  BY <1>3, OneKeyed DEF ScopeAtoms, ScopeKeys
<1>6. Keyed(LocationAtoms(sc, p), LocationKeys(sc))
  <2> DEFINE A == (IF sc.located THEN {Atom(LocationKey, LocationState(sc, p))} ELSE {})
                  \cup CriterionAtoms(sc, p, "eligibility")
  <2>1. LocationAtoms(sc, p) = IF A = {} THEN {Atom(LocationKey, "unknown")} ELSE A
    BY DEF LocationAtoms
  <2>2. Keyed(A, StatedKeys(sc))
    <3>1. LocationKey \notin TopicKeys(sc, "eligibility")
      BY <1>2 DEF LocationKey
    <3>2. CASE sc.located
      BY <1>2, <3>1, <3>2, OneKeyed DEF StatedKeys
    <3>3. CASE ~ sc.located
      <4>1. A = CriterionAtoms(sc, p, "eligibility") /\ StatedKeys(sc) = TopicKeys(sc, "eligibility")
        BY <3>3 DEF StatedKeys
      <4>2. QED
        BY <1>2, <4>1
    <3>4. QED
      BY <3>2, <3>3
  <2> HIDE DEF A
  <2>3. A = {} <=> StatedKeys(sc) = {}
    BY <2>2 DEF Keyed
  <2>4. Keyed({Atom(LocationKey, "unknown")}, {LocationKey})
    BY <1>3, OneKeyed
  <2>5. QED
    BY <2>1, <2>2, <2>3, <2>4 DEF LocationKeys
<1>7. Keyed(RecencyAtoms(p), RecencyKeys)
  <2>1. Keyed({Atom(TrajectoryKey, TrajectoryState(p))}, {TrajectoryKey})
    BY <1>3, OneKeyed
  <2>2. RecencyKey \notin {TrajectoryKey}
    BY DEF RecencyKey, TrajectoryKey
  <2>3. Keyed({Atom(RecencyKey, RecencyState(p))} \cup {Atom(TrajectoryKey, TrajectoryState(p))},
              {RecencyKey} \cup {TrajectoryKey})
    BY <2>1, <2>2, OneKeyed
  <2>4. /\ RecencyAtoms(p) = {Atom(RecencyKey, RecencyState(p))} \cup {Atom(TrajectoryKey, TrajectoryState(p))}
        /\ RecencyKeys = {RecencyKey} \cup {TrajectoryKey}
    BY DEF RecencyAtoms, RecencyKeys
  <2>5. QED
    BY <2>3, <2>4
<1>8. QED
  BY <1>4, <1>5, <1>6, <1>7

\* No group is empty, but that of years and seniority when neither is asked for.
LEMMA GroupsShare ==
  ASSUME NEW sc \in Scorecard
  PROVE  /\ Shares(RoleKeys(sc)) /\ Shares(LocationKeys(sc)) /\ Shares(RecencyKeys)
         /\ HasScope(sc) => Shares(ScopeKeys(sc))
<1>1. /\ IsFiniteSet(TopicKeys(sc, "skill")) /\ TopicKeys(sc, "skill") \subseteq Nat
      /\ IsFiniteSet(TopicKeys(sc, "eligibility")) /\ TopicKeys(sc, "eligibility") \subseteq Nat
  BY TopicsAreKeyed
<1>2. \A k \in Nat : IsFiniteSet({k})
  BY FS_Singleton
<1>3. Shares(RoleKeys(sc))
  <2>1. IsFiniteSet({RoleKey} \cup TopicKeys(sc, "skill"))
    BY <1>1, FS_AddElement
  <2>2. QED
    BY <1>1, <2>1 DEF RoleKeys, RoleKey, Shares
<1>4. Shares({LocationKey}) /\ Shares({YearsKey})
  BY <1>2 DEF Shares, LocationKey, YearsKey
<1>5. Shares(LocationKeys(sc))
  <2>1. IsFiniteSet(TopicKeys(sc, "eligibility") \cup {LocationKey})
    BY <1>1, FS_AddElement
  <2>2. StatedKeys(sc) = TopicKeys(sc, "eligibility") \cup {LocationKey}
        \/ StatedKeys(sc) = TopicKeys(sc, "eligibility")
    BY DEF StatedKeys
  <2>3. IsFiniteSet(StatedKeys(sc)) /\ StatedKeys(sc) \subseteq Nat
    BY <1>1, <2>1, <2>2 DEF LocationKey
  <2>4. QED
    BY <1>4, <2>3 DEF LocationKeys, Shares
<1>6. Shares(RecencyKeys)
  <2>1. IsFiniteSet({RecencyKey} \cup {TrajectoryKey})
    BY FS_Singleton, FS_AddElement
  <2>2. RecencyKeys = {RecencyKey} \cup {TrajectoryKey}
    BY DEF RecencyKeys
  <2>3. QED
    BY <2>1, <2>2 DEF Shares, RecencyKey, TrajectoryKey
<1>7. QED
  BY <1>3, <1>4, <1>5, <1>6 DEF ScopeKeys

\* No key is in two groups.
LEMMA GroupsAreApart ==
  ASSUME NEW sc \in Scorecard
  PROVE  /\ RoleKeys(sc) \cap ScopeKeys(sc) = {}
         /\ (RoleKeys(sc) \cup ScopeKeys(sc)) \cap LocationKeys(sc) = {}
         /\ ((RoleKeys(sc) \cup ScopeKeys(sc)) \cup LocationKeys(sc)) \cap RecencyKeys = {}
<1>1. /\ TopicKeys(sc, "skill") \subseteq Nat \ (10..14)
      /\ TopicKeys(sc, "eligibility") \subseteq Nat \ (10..14)
  BY TopicsAreKeyed
<1>2. TopicKeys(sc, "skill") \cap TopicKeys(sc, "eligibility") = {}
  <2> SUFFICES ASSUME NEW k \in TopicKeys(sc, "skill"), k \in TopicKeys(sc, "eligibility") PROVE FALSE
    OBVIOUS
  <2>1. PICK c \in sc.criteria : c.key = k /\ c.topic = "skill"
    BY DEF TopicKeys, AskedOf
  <2>2. PICK d \in sc.criteria : d.key = k /\ d.topic = "eligibility"
    BY DEF TopicKeys, AskedOf
  <2>3. c = d
    BY <2>1, <2>2, MatchAssumption
  <2>4. QED
    BY <2>1, <2>2, <2>3
<1>3. \A k \in 10..14 : k \notin TopicKeys(sc, "skill") /\ k \notin TopicKeys(sc, "eligibility")
  BY <1>1
<1>4. /\ RoleKey \in 10..14 /\ YearsKey \in 10..14 /\ LocationKey \in 10..14
      /\ RecencyKey \in 10..14 /\ TrajectoryKey \in 10..14
      /\ RoleKey # YearsKey /\ RoleKey # LocationKey /\ RoleKey # RecencyKey /\ RoleKey # TrajectoryKey
      /\ YearsKey # LocationKey /\ YearsKey # RecencyKey /\ YearsKey # TrajectoryKey
      /\ LocationKey # RecencyKey /\ LocationKey # TrajectoryKey
  BY DEF RoleKey, YearsKey, LocationKey, RecencyKey, TrajectoryKey
<1>5. LocationKeys(sc) \subseteq {LocationKey} \cup TopicKeys(sc, "eligibility")
  BY DEF LocationKeys, StatedKeys
<1>6. ScopeKeys(sc) \subseteq {YearsKey}
  BY DEF ScopeKeys
<1>7. QED
  BY <1>2, <1>3, <1>4, <1>5, <1>6 DEF RoleKeys, RecencyKeys

\* The four parts of Evaluation.
EvaluatedRole(sc, p) == Allocated(RoleAtoms(sc, p), 35)
EvaluatedScope(sc, p) == Allocated(ScopeAtoms(sc, p), 25)
EvaluatedLocation(sc, p) == Allocated(LocationAtoms(sc, p), 10)
EvaluatedRecency(p) == Allocated(RecencyAtoms(p), 10)

\* E holds the evaluated criteria with the keys K, which share w.
Allots(E, K, w) ==
  /\ Keyed(E, K)
  /\ \A b \in E : /\ b.max = KeyPoints(b.key, K, w)
                  /\ b.max \in Nat
                  /\ b.points = IF b.state = "supported" THEN b.max ELSE 0

\* _allocate shares out what its group weighs.
LEMMA AllocatedAllots ==
  ASSUME NEW A, NEW K, Keyed(A, K), Shares(K), NEW w \in Nat
  PROVE  Allots(Allocated(A, w), K, w)
<1>1. /\ Keyed(Allocated(A, w), K)
      /\ \A b \in Allocated(A, w) : /\ b.max = KeyPoints(b.key, K, w)
                                    /\ b.points = IF b.state = "supported" THEN b.max ELSE 0
  BY AllocatedByKey
<1>2. \A k : KeyPoints(k, K, w) \in Nat
  BY KeyPointsType
<1>3. QED
  BY <1>1, <1>2 DEF Allots

\* Every part is shared out by the keys of its group.
LEMMA EvaluatedByKey ==
  ASSUME NEW sc \in Scorecard, NEW p
  PROVE  /\ Allots(EvaluatedRole(sc, p), RoleKeys(sc), 35)
         /\ Allots(EvaluatedScope(sc, p), ScopeKeys(sc), 25)
         /\ Allots(EvaluatedLocation(sc, p), LocationKeys(sc), 10)
         /\ Allots(EvaluatedRecency(p), RecencyKeys, 10)
<1>1. /\ Keyed(RoleAtoms(sc, p), RoleKeys(sc))
      /\ Keyed(ScopeAtoms(sc, p), ScopeKeys(sc))
      /\ Keyed(LocationAtoms(sc, p), LocationKeys(sc))
      /\ Keyed(RecencyAtoms(p), RecencyKeys)
  BY GroupsAreKeyed
<1>2. /\ Shares(RoleKeys(sc)) /\ Shares(LocationKeys(sc)) /\ Shares(RecencyKeys)
      /\ HasScope(sc) => Shares(ScopeKeys(sc))
  BY GroupsShare
<1>3. Allots(EvaluatedRole(sc, p), RoleKeys(sc), 35)
  BY <1>1, <1>2, AllocatedAllots DEF EvaluatedRole
<1>4. Allots(EvaluatedLocation(sc, p), LocationKeys(sc), 10)
  BY <1>1, <1>2, AllocatedAllots DEF EvaluatedLocation
<1>5. Allots(EvaluatedRecency(p), RecencyKeys, 10)
  BY <1>1, <1>2, AllocatedAllots DEF EvaluatedRecency
<1>6. CASE HasScope(sc)
  <2>1. Allots(EvaluatedScope(sc, p), ScopeKeys(sc), 25)
    BY <1>1, <1>2, <1>6, AllocatedAllots DEF EvaluatedScope
  <2>2. QED
    BY <1>3, <1>4, <1>5, <2>1
<1>7. CASE ~ HasScope(sc)
  <2>1. ScopeAtoms(sc, p) = {} /\ ScopeKeys(sc) = {}
    BY <1>7 DEF ScopeAtoms, ScopeKeys
  <2>2. EvaluatedScope(sc, p) = {}
    BY <2>1 DEF EvaluatedScope, Allocated
  <2>3. Allots(EvaluatedScope(sc, p), ScopeKeys(sc), 25)
    BY <2>1, <2>2 DEF Allots, Keyed
  <2>4. QED
    BY <1>3, <1>4, <1>5, <2>3
<1>8. QED
  BY <1>6, <1>7

\* They are all there is.
LEMMA EvaluationIsGroups ==
  ASSUME NEW sc, NEW p
  PROVE  Evaluation(sc, p) = ((EvaluatedRole(sc, p) \cup EvaluatedScope(sc, p))
                                \cup EvaluatedLocation(sc, p)) \cup EvaluatedRecency(p)
BY DEF Evaluation, EvaluatedRole, EvaluatedScope, EvaluatedLocation, EvaluatedRecency

\* The weights of the groups are what can be earned, but for the industry.
LEMMA MaximaAddUp ==
  ASSUME NEW sc \in Scorecard, NEW p
  PROVE  /\ IsFiniteSet(Evaluation(sc, p))
         /\ \A a \in Evaluation(sc, p) : a.max \in Nat /\ a.points \in Nat /\ a.points <= a.max
         /\ MaxSum(Evaluation(sc, p)) = IF HasScope(sc) THEN 80 ELSE 55
<1> DEFINE E1 == EvaluatedRole(sc, p)
           E2 == EvaluatedScope(sc, p)
           E3 == EvaluatedLocation(sc, p)
           E4 == EvaluatedRecency(p)
           S == Evaluation(sc, p)
<1>1. /\ Allots(E1, RoleKeys(sc), 35) /\ Allots(E2, ScopeKeys(sc), 25)
      /\ Allots(E3, LocationKeys(sc), 10) /\ Allots(E4, RecencyKeys, 10)
  BY EvaluatedByKey
<1>2. /\ Shares(RoleKeys(sc)) /\ Shares(LocationKeys(sc)) /\ Shares(RecencyKeys)
      /\ HasScope(sc) => Shares(ScopeKeys(sc))
  BY GroupsShare
<1>3. S = ((E1 \cup E2) \cup E3) \cup E4
  BY EvaluationIsGroups
<1>31. ~ HasScope(sc) => ScopeKeys(sc) = {}
  BY DEF ScopeKeys
<1> HIDE DEF E1, E2, E3, E4, S
<1>4. IsFiniteSet(ScopeKeys(sc))
  BY <1>2, <1>31, FS_EmptySet DEF Shares
<1>5. IsFiniteSet(E1) /\ IsFiniteSet(E2) /\ IsFiniteSet(E3) /\ IsFiniteSet(E4)
  BY <1>1, <1>2, <1>4, KeyedCard DEF Allots, Shares
<1>6. IsFiniteSet(S)
  <2>1. IsFiniteSet(E1 \cup E2)
    BY <1>5, FS_Union
  <2>2. IsFiniteSet((E1 \cup E2) \cup E3)
    BY <1>5, <2>1, FS_Union
  <2>3. QED
    BY <1>3, <1>5, <2>2, FS_Union
<1>7. \A a \in S : a.max \in Nat /\ a.points \in Nat /\ a.points <= a.max
  <2>1. \A a \in S : a.max \in Nat /\ a.points = IF a.state = "supported" THEN a.max ELSE 0
    BY <1>1, <1>3 DEF Allots
  <2>2. QED
    BY <2>1
<1>8. PICK g : IsSum(S, [a \in S |-> a.max], g) /\ MaxSum(S) = g[S]
  BY <1>6, <1>7, MaxSumIsSum
<1> DEFINE f == [a \in S |-> a.max]
<1>9. f \in [S -> Nat] /\ \A a \in S : f[a] = a.max
  BY <1>7
<1>10. IsSum(S, f, g)
  BY <1>8
<1> HIDE DEF f
<1>11. E1 \in SUBSET S /\ E2 \in SUBSET S /\ E3 \in SUBSET S /\ E4 \in SUBSET S
  BY <1>3
<1>12. /\ \A b \in E1 : f[b] = KeyPoints(b.key, RoleKeys(sc), 35)
       /\ \A b \in E2 : f[b] = KeyPoints(b.key, ScopeKeys(sc), 25)
       /\ \A b \in E3 : f[b] = KeyPoints(b.key, LocationKeys(sc), 10)
       /\ \A b \in E4 : f[b] = KeyPoints(b.key, RecencyKeys, 10)
  BY <1>1, <1>9, <1>11 DEF Allots
<1>13. Keyed(E1, RoleKeys(sc)) /\ Keyed(E2, ScopeKeys(sc)) /\ Keyed(E3, LocationKeys(sc)) /\ Keyed(E4, RecencyKeys)
  BY <1>1 DEF Allots
<1>14. g[E1] = 35
  BY <1>2, <1>6, <1>9, <1>10, <1>11, <1>12, <1>13, SharesAddUp
<1>15. g[E3] = 10
  BY <1>2, <1>6, <1>9, <1>10, <1>11, <1>12, <1>13, SharesAddUp
<1>16. g[E4] = 10
  BY <1>2, <1>6, <1>9, <1>10, <1>11, <1>12, <1>13, SharesAddUp
<1>17. g[E2] = IF HasScope(sc) THEN 25 ELSE 0
  <2>1. CASE HasScope(sc)
    <3>1. g[E2] = 25
      BY <1>2, <1>6, <1>9, <1>10, <1>11, <1>12, <1>13, <2>1, SharesAddUp
    <3>2. QED
      BY <2>1, <3>1
  <2>2. CASE ~ HasScope(sc)
    <3>1. E2 = {}
      BY <1>13, <1>31, <2>2 DEF Keyed
    <3>2. g[E2] = 0
      BY <1>10, <1>11, <3>1 DEF IsSum
    <3>3. QED
      BY <2>2, <3>2
  <2>3. QED
    BY <2>1, <2>2
<1>18. /\ E1 \cap E2 = {} /\ (E1 \cup E2) \cap E3 = {} /\ ((E1 \cup E2) \cup E3) \cap E4 = {}
  <2>1. /\ RoleKeys(sc) \cap ScopeKeys(sc) = {}
        /\ (RoleKeys(sc) \cup ScopeKeys(sc)) \cap LocationKeys(sc) = {}
        /\ ((RoleKeys(sc) \cup ScopeKeys(sc)) \cup LocationKeys(sc)) \cap RecencyKeys = {}
    BY GroupsAreApart
  <2>2. /\ \A b \in E1 : b.key \in RoleKeys(sc)
        /\ \A b \in E2 : b.key \in ScopeKeys(sc)
        /\ \A b \in E3 : b.key \in LocationKeys(sc)
        /\ \A b \in E4 : b.key \in RecencyKeys
    BY <1>13 DEF Keyed
  <2>3. QED
    BY <2>1, <2>2
<1>19. /\ E1 \cup E2 \in SUBSET S /\ (E1 \cup E2) \cup E3 \in SUBSET S
  BY <1>11
<1>20. g[E1 \cup E2] = g[E1] + g[E2]
  <2>1. E1 \in SUBSET S /\ E2 \in SUBSET S /\ E1 \cap E2 = {}
    BY <1>11, <1>18
  <2>2. QED
    BY <1>6, <1>9, <1>10, <2>1, SumOfUnion
<1>21. g[(E1 \cup E2) \cup E3] = g[E1 \cup E2] + g[E3]
  <2>1. PICK U \in SUBSET S : U = E1 \cup E2
    BY <1>19
  <2>2. U \cap E3 = {} /\ E3 \in SUBSET S
    BY <1>11, <1>18, <2>1
  <2>3. g[U \cup E3] = g[U] + g[E3]
    BY <1>6, <1>9, <1>10, <2>2, SumOfUnion
  <2>4. QED
    BY <2>1, <2>3
<1>22. g[((E1 \cup E2) \cup E3) \cup E4] = g[(E1 \cup E2) \cup E3] + g[E4]
  <2>1. PICK U \in SUBSET S : U = (E1 \cup E2) \cup E3
    BY <1>19
  <2>2. U \cap E4 = {} /\ E4 \in SUBSET S
    BY <1>11, <1>18, <2>1
  <2>3. g[U \cup E4] = g[U] + g[E4]
    BY <1>6, <1>9, <1>10, <2>2, SumOfUnion
  <2>4. QED
    BY <2>1, <2>3
<1>23. MaxSum(S) = IF HasScope(sc) THEN 80 ELSE 55
  <2>1. MaxSum(S) = ((35 + g[E2]) + 10) + 10
    BY <1>3, <1>8, <1>14, <1>15, <1>16, <1>20, <1>21, <1>22
  <2>2. CASE HasScope(sc)
    BY <1>17, <2>1, <2>2
  <2>3. CASE ~ HasScope(sc)
    BY <1>17, <2>1, <2>3
  <2>4. QED
    BY <2>2, <2>3
<1>24. QED
  BY <1>6, <1>7, <1>23 DEF S

\* Nobody earns more than can be earned.
LEMMA PointsStayBelow ==
  ASSUME NEW S, IsFiniteSet(S), \A a \in S : a.max \in Nat /\ a.points \in Nat /\ a.points <= a.max
  PROVE  PointSum(S) <= MaxSum(S) /\ PointSum(S) \in Nat /\ MaxSum(S) \in Nat
<1> DEFINE f == [a \in S |-> a.points]
           e == [a \in S |-> a.max]
<1>1. PICK g : IsSum(S, f, g) /\ PointSum(S) = g[S]
  BY PointSumIsSum
<1>2. PICK h : IsSum(S, e, h) /\ MaxSum(S) = h[S]
  BY MaxSumIsSum
<1>3. f \in [S -> Nat] /\ e \in [S -> Nat] /\ \A a \in S : f[a] <= e[a]
  OBVIOUS
<1> HIDE DEF f, e
<1>4. \A s \in SUBSET S : g[s] <= h[s]
  BY <1>1, <1>2, <1>3, SumGrows
<1>5. S \in SUBSET S
  OBVIOUS
<1>6. g[S] \in Nat /\ h[S] \in Nat
  BY <1>1, <1>2, <1>5 DEF IsSum
<1>7. QED
  BY <1>1, <1>2, <1>4, <1>5, <1>6

\* The points that can be had are 100, or 75 (PointsAddUp), for any scorecard and profile.
LEMMA PointsAddUpHolds ==
  ASSUME scored \in Scorecard
  PROVE  PointsAddUp
<1> DEFINE S == Evaluation(scored, profile)
           i == IndustryPoints(scored, profile)
<1>1. /\ IsFiniteSet(S)
      /\ \A a \in S : a.max \in Nat /\ a.points \in Nat /\ a.points <= a.max
      /\ MaxSum(S) = IF HasScope(scored) THEN 80 ELSE 55
  BY MaximaAddUp
<1>2. PointSum(S) <= MaxSum(S) /\ PointSum(S) \in Nat /\ MaxSum(S) \in Nat
  BY <1>1, PointsStayBelow
<1>3. i \in 0..20
  BY DEF IndustryPoints
<1>4. PointsAddUp <=> /\ MaxSum(S) + 20 = IF HasScope(scored) THEN 100 ELSE 75
                      /\ PointSum(S) + i <= MaxSum(S) + 20
  BY DEF PointsAddUp, Total, MaxSum, PointSum
<1> HIDE DEF S, i
<1>5. MaxSum(S) + 20 = IF HasScope(scored) THEN 100 ELSE 75
  BY <1>1
<1>6. PointSum(S) + i <= MaxSum(S) + 20
  BY <1>2, <1>3
<1>7. QED
  BY <1>4, <1>5, <1>6

\* Two profiles evaluated on one scorecard: a criterion can earn the same on both, and
\* earns the same in the same state.
LEMMA EvaluationsAgree ==
  ASSUME NEW sc \in Scorecard, NEW p, NEW q,
         NEW a \in Evaluation(sc, p), NEW b \in Evaluation(sc, q), a.key = b.key
  PROVE  a.max = b.max /\ (a.state = b.state => a.points = b.points)
<1>1. /\ Allots(EvaluatedRole(sc, p), RoleKeys(sc), 35) /\ Allots(EvaluatedRole(sc, q), RoleKeys(sc), 35)
      /\ Allots(EvaluatedScope(sc, p), ScopeKeys(sc), 25) /\ Allots(EvaluatedScope(sc, q), ScopeKeys(sc), 25)
      /\ Allots(EvaluatedLocation(sc, p), LocationKeys(sc), 10)
      /\ Allots(EvaluatedLocation(sc, q), LocationKeys(sc), 10)
      /\ Allots(EvaluatedRecency(p), RecencyKeys, 10) /\ Allots(EvaluatedRecency(q), RecencyKeys, 10)
  BY EvaluatedByKey
<1>2. /\ RoleKeys(sc) \cap ScopeKeys(sc) = {}
      /\ (RoleKeys(sc) \cup ScopeKeys(sc)) \cap LocationKeys(sc) = {}
      /\ ((RoleKeys(sc) \cup ScopeKeys(sc)) \cup LocationKeys(sc)) \cap RecencyKeys = {}
  BY GroupsAreApart
<1> DEFINE In(x, K, w) == /\ x.key \in K /\ x.max = KeyPoints(x.key, K, w)
                          /\ x.points = IF x.state = "supported" THEN x.max ELSE 0
<1>3. \A E, K, w, x : Allots(E, K, w) /\ x \in E => In(x, K, w)
  BY DEF Allots, Keyed
<1>4. \/ In(a, RoleKeys(sc), 35) \/ In(a, ScopeKeys(sc), 25)
      \/ In(a, LocationKeys(sc), 10) \/ In(a, RecencyKeys, 10)
  <2> HIDE DEF In
  <2>1. QED
    BY <1>1, <1>3, EvaluationIsGroups
<1>5. \/ In(b, RoleKeys(sc), 35) \/ In(b, ScopeKeys(sc), 25)
      \/ In(b, LocationKeys(sc), 10) \/ In(b, RecencyKeys, 10)
  <2> HIDE DEF In
  <2>1. QED
    BY <1>1, <1>3, EvaluationIsGroups
<1>6. QED
  BY <1>2, <1>4, <1>5

\* Learning something changes the points of nothing else (NotRenormalized, of one step).
LEMMA NothingIsRenormalized ==
  ASSUME scored \in Scorecard, UNCHANGED scored
  PROVE  profile' # profile =>
       \A a \in Evaluation(scored, profile) : \A b \in Evaluation(scored', profile') :
         a.key = b.key => a.max = b.max /\ (a.state = b.state => a.points = b.points)
<1>1. scored' = scored
  OBVIOUS
<1>2. \A a \in Evaluation(scored, profile) : \A b \in Evaluation(scored, profile') :
         a.key = b.key => a.max = b.max /\ (a.state = b.state => a.points = b.points)
  BY EvaluationsAgree
<1>3. Evaluation(scored', profile') = Evaluation(scored, profile')
  BY <1>1
<1>4. QED
  BY <1>2, <1>3

-----------------------------------------------------------------------------
(* The profile grows, the plan stays.                                       *)

\* The scorecard is one of those that can be confirmed, the profile is what
\* ingestions have brought.
MatchInv ==
  /\ scored \in Scorecard
  /\ profile \in [skills : SUBSET Skills, eligibility : Eligibilities \cup {"none", "unrecognized"},
                  title : Titles \cup {0}, industries : SUBSET {"exact", "adjacent", "other"},
                  location : {"none", "wanted", "other"}, experiences : Histories \cup {{}}]

\* An empty profile is one.
LEMMA MatchInvInit == MatchInit => MatchInv
BY DEF MatchInit, MatchInv, EmptyProfile

\* No ingestion breaks it.
LEMMA MatchNextKeeps == MatchInv /\ [MatchNext]_matchVars => MatchInv'
<1> SUFFICES ASSUME MatchInv, [MatchNext]_matchVars PROVE MatchInv'
  OBVIOUS
<1>1. CASE UNCHANGED matchVars
  BY <1>1 DEF MatchInv, matchVars
<1>2. CASE profile.skills = {} /\ \E known \in (SUBSET Skills) \ {{}} : Learn([profile EXCEPT !.skills = known])
  BY <1>2 DEF MatchInv, Learn
<1>3. CASE /\ profile.eligibility = "none"
           /\ \E e \in Eligibilities \cup {"unrecognized"} : Learn([profile EXCEPT !.eligibility = e])
  BY <1>3 DEF MatchInv, Learn
<1>4. CASE profile.title = 0 /\ \E t \in Titles : Learn([profile EXCEPT !.title = t])
  BY <1>4 DEF MatchInv, Learn
<1>5. CASE /\ profile.location = "none"
           /\ \E l \in {"wanted", "other"} : Learn([profile EXCEPT !.location = l])
  BY <1>5 DEF MatchInv, Learn
<1>6. CASE /\ profile.industries = {}
           /\ \E i \in {"exact", "adjacent", "other"} : Learn([profile EXCEPT !.industries = {i}])
  BY <1>6 DEF MatchInv, Learn
<1>7. CASE /\ profile.experiences = {}
           /\ \E history \in Histories : Learn([profile EXCEPT !.experiences = history])
  BY <1>7 DEF MatchInv, Learn
<1>8. QED
  BY <1>1, <1>2, <1>3, <1>4, <1>5, <1>6, <1>7 DEF MatchNext

\* A score is sound wherever the invariant holds.
LEMMA MatchInvIsSound == MatchInv => PointsAddUp /\ HardGatesHold /\ YearsCountOnce
<1> SUFFICES ASSUME MatchInv PROVE PointsAddUp /\ HardGatesHold /\ YearsCountOnce
  OBVIOUS
<1>1. scored \in Scorecard /\ profile.experiences \in Histories \cup {{}}
  BY DEF MatchInv
<1>2. QED
  BY <1>1, PointsAddUpHolds, GatesHold, YearsCountOnceHolds

\* Every ingestion leaves the scorecard as it is.
LEMMA ScorecardStays == [MatchNext]_matchVars => UNCHANGED scored
BY DEF MatchNext, Learn, matchVars

\* An ingestion renormalizes nothing.
LEMMA StepRenormalizesNothing ==
  MatchInv /\ [MatchNext]_matchVars =>
    [profile' # profile =>
       \A a \in Evaluation(scored, profile) : \A b \in Evaluation(scored', profile') :
         a.key = b.key => a.max = b.max /\ (a.state = b.state => a.points = b.points)]_matchVars
BY ScorecardStays, NothingIsRenormalized DEF MatchInv

MatchSpec == MatchInit /\ [][MatchNext]_matchVars

\* Every profile that ingestion builds up, scored on any scorecard: no point is lost to
\* rounding (_allocate), only evidence makes a near match (evaluate), jobs held at the
\* same time count once (_years_experience).
THEOREM ScoresStaySound == MatchSpec => [](PointsAddUp /\ HardGatesHold /\ YearsCountOnce)
<1>1. QED
  BY MatchInvInit, MatchNextKeeps, MatchInvIsSound, PTL DEF MatchSpec

\* What an ingestion brings leaves the points of everything else as they were.
THEOREM NothingIsHidden == MatchSpec => NotRenormalized
<1>1. QED
  BY StepRenormalizesNothing, MatchInvInit, MatchNextKeeps, PTL DEF MatchSpec, NotRenormalized

\* Every plan that compile makes covers every title in every industry, that of the job
\* first (QueryPlanner.compile).
THEOREM EveryPlanCovers == PlanInit => PlanCoversInOrder
BY PlanCovers DEF PlanInit
=============================================================================
