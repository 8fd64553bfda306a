---------------------------- MODULE Ranks_proofs -----------------------------
(***************************************************************************)
(* How ranks change when a set of numbers grows at its upper end, and the  *)
(* least-number principle.                                                 *)
(***************************************************************************)
EXTENDS Ranks, FiniteSetTheorems, WellFoundedInduction, TLAPS

\* A set of natural numbers has a least member.
LEMMA LeastNatural ==
    ASSUME NEW T, T \subseteq Nat, T # {}
    PROVE  \E x \in T : \A y \in T : x <= y
<1> DEFINE R == OpToRel(<, Nat)
<1>1. IsWellFoundedOn(R, Nat)
  BY NatLessThanWellFounded
<1>2. \A x, y \in Nat : x < y => <<x, y>> \in R
  BY DEF OpToRel
<1> HIDE DEF R
<1>3. PICK x \in T : \A y \in T : ~(<<y, x>> \in R)
  BY <1>1, WFMin
<1>4. \A y \in T : ~(y < x)
  BY <1>2, <1>3
<1> QED
  BY <1>3, <1>4

\* What is defined by recursion on the numbers up to n exists ...
Computes(f, S, base, op) == f = [k \in S |-> IF k = 0 THEN base ELSE op[<<k, f[k - 1]>>]]

LEMMA FiniteRecursion ==
    ASSUME NEW n \in Nat, NEW V, NEW base \in V, NEW op \in [(Nat \ {0}) \X V -> V]
    PROVE  \E f \in [0..n -> V] : Computes(f, 0..n, base, op)
<1> DEFINE Exists(m) == \E f \in [0..m -> V] : Computes(f, 0..m, base, op)
           T == {m \in Nat : ~Exists(m)}
<1>1. SUFFICES ASSUME T # {} PROVE FALSE
  OBVIOUS
<1>2. PICK m \in T : \A y \in T : m <= y
  <2>1. T \subseteq Nat
    OBVIOUS
  <2> HIDE DEF T
  <2> QED
    BY <1>1, <2>1, LeastNatural
<1>3. m \in Nat /\ ~Exists(m)
  BY <1>2
<1>4. m # 0
  <2> DEFINE g == [k \in 0..0 |-> base]
  <2>1. g \in [0..0 -> V] /\ Computes(g, 0..0, base, op)
    BY DEF Computes
  <2> QED
    BY <1>3, <2>1
<1>5. PICK f \in [0..(m - 1) -> V] : Computes(f, 0..(m - 1), base, op)
  <2>1. m - 1 \in Nat /\ m - 1 \notin T
    BY <1>2, <1>3, <1>4
  <2> QED
    BY <2>1
<1> DEFINE g == [k \in 0..m |-> IF k = m THEN op[<<m, f[m - 1]>>] ELSE f[k]]
<1>6. m - 1 \in 0..(m - 1) /\ m \in Nat \ {0}
  BY <1>3, <1>4
<1>7. g \in [0..m -> V]
  <2>1. op[<<m, f[m - 1]>>] \in V
    <3>1. f[m - 1] \in V /\ <<m, f[m - 1]>> \in (Nat \ {0}) \X V
      BY <1>6
    <3> QED
      BY <3>1
  <2>2. ASSUME NEW k \in 0..m, k # m PROVE f[k] \in V
    <3>1. k \in 0..(m - 1)
      BY <1>3, <2>2
    <3> QED
      BY <3>1
  <2> QED
    BY <2>1, <2>2
<1>8. ASSUME NEW k \in 0..m PROVE g[k] = IF k = 0 THEN base ELSE op[<<k, g[k - 1]>>]
  <2>1. CASE k = m
    <3>1. g[m] = op[<<m, f[m - 1]>>]
      BY <2>1
    <3>2. m - 1 \in 0..m /\ m - 1 # m
      BY <1>6
    <3>3. g[m - 1] = f[m - 1]
      BY <3>2
    <3> QED
      BY <1>4, <2>1, <3>1, <3>3
  <2>2. CASE k # m
    <3>1. k \in 0..(m - 1)
      BY <1>3, <2>2
    <3>2. f[k] = IF k = 0 THEN base ELSE op[<<k, f[k - 1]>>]
      BY <1>5, <3>1 DEF Computes
    <3>3. g[k] = f[k]
      BY <2>2
    <3>4. CASE k # 0
      <4>1. k - 1 \in 0..m /\ k - 1 # m
        BY <3>1, <3>4, <1>3
      <4>2. g[k - 1] = f[k - 1]
        BY <4>1
      <4> QED
        BY <3>2, <3>3, <3>4, <4>2
    <3> QED
      BY <3>2, <3>3, <3>4
  <2> QED
    BY <2>1, <2>2
<1>9. g = [k \in 0..m |-> g[k]]
  OBVIOUS
<1> HIDE DEF g
<1>10. Computes(g, 0..m, base, op)
  BY <1>8, <1>9 DEF Computes
<1> QED
  BY <1>3, <1>7, <1>10

\* ... and so does what is defined by recursion on all natural numbers.
LEMMA NaturalRecursion ==
    ASSUME NEW V, NEW base \in V, NEW op \in [(Nat \ {0}) \X V -> V]
    PROVE  \E f \in [Nat -> V] : Computes(f, Nat, base, op)
<1> DEFINE A(n) == CHOOSE f \in [0..n -> V] : Computes(f, 0..n, base, op)
<1>1. ASSUME NEW n \in Nat
      PROVE  A(n) \in [0..n -> V] /\ Computes(A(n), 0..n, base, op)
  BY FiniteRecursion
<1> HIDE DEF A
<1>2. ASSUME NEW n \in Nat, NEW k \in 0..n
      PROVE  A(n)[k] = IF k = 0 THEN base ELSE op[<<k, A(n)[k - 1]>>]
  BY <1>1 DEF Computes
<1>3. ASSUME NEW n \in Nat \ {0} PROVE A(n)[n - 1] = A(n - 1)[n - 1]
  <2>1. PICK T : T = {k \in 0..(n - 1) : A(n)[k] # A(n - 1)[k]}
    OBVIOUS
  <2>2. SUFFICES ASSUME T # {} PROVE FALSE
    BY <2>1
  <2>3. PICK k \in T : \A y \in T : k <= y
    <3>1. T \subseteq Nat
      BY <2>1
    <3> QED
      BY <2>2, <3>1, LeastNatural
  <2>4. k \in 0..(n - 1) /\ k \in 0..n /\ n - 1 \in Nat /\ A(n)[k] # A(n - 1)[k]
    BY <2>1
  <2>5. /\ A(n)[k] = IF k = 0 THEN base ELSE op[<<k, A(n)[k - 1]>>]
        /\ A(n - 1)[k] = IF k = 0 THEN base ELSE op[<<k, A(n - 1)[k - 1]>>]
    BY <1>2, <2>4
  <2>6. k # 0 /\ A(n)[k - 1] # A(n - 1)[k - 1]
    BY <2>4, <2>5
  <2>7. k - 1 \in T /\ ~(k <= k - 1)
    BY <2>1, <2>4, <2>6
  <2> QED
    BY <2>3, <2>7
<1> DEFINE f == [k \in Nat |-> A(k)[k]]
<1>4. f \in [Nat -> V]
  <2>1. ASSUME NEW k \in Nat PROVE A(k)[k] \in V
    <3>1. k \in 0..k
      OBVIOUS
    <3> QED
      BY <1>1, <3>1
  <2> QED
    BY <2>1
<1>5. ASSUME NEW k \in Nat PROVE f[k] = IF k = 0 THEN base ELSE op[<<k, f[k - 1]>>]
  <2>1. A(k)[k] = IF k = 0 THEN base ELSE op[<<k, A(k)[k - 1]>>]
    <3>1. k \in 0..k
      OBVIOUS
    <3> QED
      BY <1>2, <3>1
  <2>2. CASE k # 0
    <3>1. k - 1 \in Nat /\ f[k - 1] = A(k - 1)[k - 1]
      BY <2>2
    <3>2. A(k)[k - 1] = A(k - 1)[k - 1]
      BY <1>3, <2>2
    <3> QED
      BY <2>1, <2>2, <3>1, <3>2
  <2> QED
    BY <2>1, <2>2
<1>6. f = [k \in Nat |-> f[k]]
  OBVIOUS
<1> HIDE DEF f
<1>7. Computes(f, Nat, base, op)
  BY <1>5, <1>6 DEF Computes
<1> QED
  BY <1>4, <1>7

\* Positions of a list are finitely many.
LEMMA PositionsFinite ==
    ASSUME NEW n \in Nat, NEW S \in SUBSET (1..n)
    PROVE  IsFiniteSet(S) /\ Cardinality(S) \in Nat
<1>1. IsFiniteSet(1..n)
  BY FS_Interval
<1>2. IsFiniteSet(S)
  BY <1>1, FS_Subset
<1> QED
  BY <1>2, FS_CardinalityType

\* The places of the members of S are 1 to the size of S.
LEMMA RankType ==
    ASSUME NEW n \in Nat, NEW S \in SUBSET (1..n), NEW k \in S
    PROVE  Rank(S, k) \in 1..Cardinality(S)
<1> DEFINE T == {j \in S : j <= k}
<1>1. IsFiniteSet(S) /\ Cardinality(S) \in Nat
  BY PositionsFinite
<1>2. IsFiniteSet(T) /\ Cardinality(T) <= Cardinality(S) /\ Cardinality(T) \in Nat
  BY <1>1, FS_Subset, FS_CardinalityType
<1>3. k \in T
  OBVIOUS
<1>4. Cardinality(T) # 0
  BY <1>2, <1>3, FS_EmptySet
<1> QED
  BY <1>1, <1>2, <1>4 DEF Rank

\* A new highest member takes the next place and leaves the others theirs.
LEMMA RankAdd ==
    ASSUME NEW n \in Nat, NEW S \in SUBSET (1..n)
    PROVE  LET T == S \cup {n + 1}
           IN  /\ Cardinality(T) = Cardinality(S) + 1
               /\ Rank(T, n + 1) = Cardinality(S) + 1
               /\ \A k \in S : Rank(T, k) = Rank(S, k)
<1> DEFINE T == S \cup {n + 1}
<1>0. \A k \in S : k \in Int /\ k <= n
  OBVIOUS
<1>1. IsFiniteSet(S) /\ n + 1 \notin S
  BY <1>0, PositionsFinite
<1>2. Cardinality(T) = Cardinality(S) + 1
  BY <1>1, FS_AddElement
<1>3. {j \in T : j <= n + 1} = T
  <2>1. \A j \in T : j <= n + 1
    BY <1>0
  <2> QED
    BY <2>1
<1>4. ASSUME NEW k \in S
      PROVE  Rank(T, k) = Rank(S, k)
  <2>1. {j \in T : j <= k} = {j \in S : j <= k}
    BY <1>0
  <2> QED
    BY <2>1 DEF Rank
<1> QED
  BY <1>2, <1>3, <1>4 DEF Rank

\* Two lists answer each other, place by place: R are the positions of the
\* answers and f what they say, A those of the questions and g what they ask
\* for.
Matching(R, A, f, g) == \A i \in R, k \in A : Rank(R, i) = Rank(A, k) => f[i] = g[k]

\* A question with its answer may be added to both ...
LEMMA MatchAdd ==
    ASSUME NEW n \in Nat, NEW m \in Nat, NEW R \in SUBSET (1..n), NEW A \in SUBSET (1..m),
           NEW f, NEW g,
           Cardinality(R) = Cardinality(A), f[n + 1] = g[m + 1],
           Matching(R, A, f, g)
    PROVE  LET R2 == R \cup {n + 1}  A2 == A \cup {m + 1}
           IN  /\ Cardinality(R2) = Cardinality(A2)
               /\ Matching(R2, A2, f, g)
<1> PICK R2, A2, c : R2 = R \cup {n + 1} /\ A2 = A \cup {m + 1} /\ c = Cardinality(R)
  OBVIOUS
<1>1. c \in Nat /\ c = Cardinality(A)
  BY PositionsFinite
<1>2. /\ Cardinality(R2) = c + 1 /\ Rank(R2, n + 1) = c + 1
      /\ \A i \in R : Rank(R2, i) = Rank(R, i)
  BY RankAdd, Zenon
<1>3. /\ Cardinality(A2) = c + 1 /\ Rank(A2, m + 1) = c + 1
      /\ \A k \in A : Rank(A2, k) = Rank(A, k)
  BY <1>1, RankAdd, Zenon
<1>4. /\ \A i \in R : Rank(R, i) \in 1..c
      /\ \A k \in A : Rank(A, k) \in 1..c
  BY <1>1, RankType
<1>6. c + 1 \notin 1..c
  BY <1>1
<1>5. ASSUME NEW i \in R2, NEW k \in A2, Rank(R2, i) = Rank(A2, k)
      PROVE  f[i] = g[k]
  <2>1. CASE i = n + 1 /\ k = m + 1
    BY <2>1
  <2>2. CASE i = n + 1 /\ k \in A
    BY <1>2, <1>3, <1>4, <1>5, <1>6, <2>2, Zenon
  <2>3. CASE i \in R /\ k = m + 1
    BY <1>2, <1>3, <1>4, <1>5, <1>6, <2>3, Zenon
  <2>4. CASE i \in R /\ k \in A
    BY <1>2, <1>3, <1>5, <2>4 DEF Matching
  <2> QED
    BY <2>1, <2>2, <2>3, <2>4
<1> QED
  BY <1>2, <1>3, <1>5, Zenon DEF Matching

\* ... or a question alone: it has a place that no answer has.
LEMMA MatchAsk ==
    ASSUME NEW n \in Nat, NEW m \in Nat, NEW R \in SUBSET (1..n), NEW A \in SUBSET (1..m),
           NEW f, NEW g,
           Cardinality(R) = Cardinality(A),
           Matching(R, A, f, g)
    PROVE  LET A2 == A \cup {m + 1}
           IN  /\ Cardinality(R) <= Cardinality(A2)
               /\ Matching(R, A2, f, g)
<1> PICK A2, c : A2 = A \cup {m + 1} /\ c = Cardinality(R)
  OBVIOUS
<1>1. c \in Nat /\ c = Cardinality(A)
  BY PositionsFinite
<1>2. /\ Cardinality(A2) = c + 1 /\ Rank(A2, m + 1) = c + 1
      /\ \A k \in A : Rank(A2, k) = Rank(A, k)
  BY <1>1, RankAdd, Zenon
<1>3. \A i \in R : Rank(R, i) \in 1..c
  BY <1>1, RankType
<1>4. ASSUME NEW i \in R, NEW k \in A2, Rank(R, i) = Rank(A2, k)
      PROVE  f[i] = g[k]
  <2>1. k # m + 1
    BY <1>1, <1>2, <1>3, <1>4
  <2> QED
    BY <1>2, <1>4, <2>1 DEF Matching
<1>5. c <= c + 1
  BY <1>1
<1> QED
  BY <1>2, <1>4, <1>5, Zenon DEF Matching
=============================================================================
