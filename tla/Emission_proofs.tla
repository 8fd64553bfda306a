--------------------------- MODULE Emission_proofs ---------------------------
(***************************************************************************)
(* What the loops of Emission add up, for every position of the drops,     *)
(* every base subsidy, every range and every treasury schedule.            *)
(***************************************************************************)
EXTENDS Emission, Ranks_proofs

-----------------------------------------------------------------------------
(* Arithmetic. *)

LEMMA MaxOfTwo ==
    ASSUME NEW a \in Int, NEW b \in Int
    PROVE  Max({a, b}) = IF a >= b THEN a ELSE b
<1> DEFINE m == IF a >= b THEN a ELSE b
<1>1. m \in {a, b} /\ \A y \in {a, b} : m >= y
  OBVIOUS
<1>2. \A x \in {a, b} : (\A y \in {a, b} : x >= y) => x = m
  OBVIOUS
<1> QED
  BY <1>1, <1>2 DEF Max

LEMMA MinOfTwo ==
    ASSUME NEW a \in Int, NEW b \in Int
    PROVE  Min({a, b}) = IF a <= b THEN a ELSE b
<1> DEFINE m == IF a <= b THEN a ELSE b
<1>1. m \in {a, b} /\ \A y \in {a, b} : m <= y
  OBVIOUS
<1>2. \A x \in {a, b} : (\A y \in {a, b} : x <= y) => x = m
  OBVIOUS
<1> QED
  BY <1>1, <1>2 DEF Min

LEMMA Quotient ==
    ASSUME NEW a \in Nat, NEW d \in Nat \ {0}
    PROVE  LET q == a \div d IN q \in Nat /\ q * d <= a /\ a < (q + 1) * d
OBVIOUS

LEMMA QuotientUnique ==
    ASSUME NEW a \in Nat, NEW d \in Nat \ {0}, NEW q \in Int, q * d <= a, a < (q + 1) * d
    PROVE  a \div d = q
OBVIOUS

LEMMA ProductMonotone ==
    ASSUME NEW a \in Nat, NEW b \in Nat, NEW d \in Nat, a <= b
    PROVE  a * d <= b * d /\ a * d \in Nat /\ b * d \in Nat
OBVIOUS

\* The defining equations of ShiftRight.
LEMMA ShiftStep ==
    ASSUME NEW v \in Nat
    PROVE  /\ ShiftRight(v, 0) = v
           /\ \A n \in Nat : ShiftRight(v, n) \in Nat
           /\ \A n \in Nat \ {0} : ShiftRight(v, n) = ShiftRight(v, n - 1) \div 2
<1> DEFINE Def(f) == f = [k \in Nat |-> IF k = 0 THEN v ELSE f[k - 1] \div 2]
           op == [p \in (Nat \ {0}) \X Nat |-> p[2] \div 2]
<1>1. op \in [(Nat \ {0}) \X Nat -> Nat]
  <2>1. \A n \in Nat : n \div 2 \in Nat
    OBVIOUS
  <2> QED
    BY <2>1
<1>2. PICK o : o = op /\ o \in [(Nat \ {0}) \X Nat -> Nat]
  BY <1>1
<1>3. PICK f \in [Nat -> Nat] : Computes(f, Nat, v, o)
  BY <1>2, NaturalRecursion
<1>4. \A k \in Nat \ {0} : o[<<k, f[k - 1]>>] = f[k - 1] \div 2
  BY <1>2
<1>5. Def(f)
  BY <1>3, <1>4 DEF Computes
<1>6. PICK g : g = CHOOSE h : Def(h)
  OBVIOUS
<1>7. Def(g)
  BY <1>5, <1>6
<1>8. \A n : ShiftRight(v, n) = g[n]
  BY <1>6 DEF ShiftRight
<1>9. g[0] = v /\ \A n \in Nat \ {0} : g[n] = g[n - 1] \div 2
  BY <1>7
<1>10. \A n \in Nat : g[n] \in Nat
  <2>1. PICK T : T = {n \in Nat : g[n] \notin Nat}
    OBVIOUS
  <2>2. SUFFICES ASSUME T # {} PROVE FALSE
    BY <2>1
  <2>3. PICK n \in T : \A y \in T : n <= y
    BY <2>1, <2>2, LeastNatural
  <2>4. n # 0 /\ n \in Nat
    BY <1>9, <2>1
  <2>5. n - 1 \in Nat /\ n - 1 \notin T
    BY <2>3, <2>4
  <2>6. g[n - 1] \in Nat
    BY <2>1, <2>5
  <2> QED
    BY <1>9, <2>1, <2>4, <2>6
<1> QED
  BY <1>8, <1>9, <1>10

\* What has been shifted out stays out.
LEMMA ShiftedOut ==
    ASSUME NEW v \in Nat, NEW m \in Nat, NEW n \in Nat, m <= n, ShiftRight(v, m) = 0
    PROVE  ShiftRight(v, n) = 0
<1>1. PICK T : T = {k \in Nat : k >= m /\ ShiftRight(v, k) # 0}
  OBVIOUS
<1>2. SUFFICES ASSUME T # {} PROVE FALSE
  BY <1>1
<1>3. PICK k \in T : \A y \in T : k <= y
  BY <1>1, <1>2, LeastNatural
<1>4. k \in Nat \ {0} /\ k - 1 \in Nat /\ k - 1 >= m /\ ShiftRight(v, k) # 0
  BY <1>1
<1>5. ShiftRight(v, k - 1) = 0
  BY <1>1, <1>3, <1>4
<1> QED
  BY <1>4, <1>5, ShiftStep

-----------------------------------------------------------------------------
(* The subsidy. *)

LEMMA Parameters ==
    /\ FirstDrop \in Nat \ {0} /\ DropCycle \in Nat \ {0}
    /\ Subsidies \subseteq Int /\ Starts \subseteq Int /\ Stops \subseteq Int
BY EmissionAssumption

\* The epoch that the code computes is the number of drops.
LEMMA DropsCounted ==
    ASSUME NEW h \in Nat
    PROVE  /\ h <= FirstDrop => Drops(h) = 0
           /\ h > FirstDrop => Drops(h) = 1 + (h - 1 - FirstDrop) \div DropCycle
<1> PICK d, F : d = DropCycle /\ F = FirstDrop
  OBVIOUS
<1>1. d \in Nat \ {0} /\ F \in Nat
  BY Parameters
<1>2. SUFFICES ASSUME h > F PROVE Drops(h) = 1 + (h - 1 - F) \div d
  BY <1>1 DEF Drops
<1> PICK q : q = (h - 1 - F) \div d
  OBVIOUS
<1>3. q \in Nat /\ q * d <= h - 1 - F /\ h - 1 - F < (q + 1) * d
  BY <1>1, <1>2, Quotient
<1>4. q <= q * d
  BY <1>1, <1>3
<1>5. ASSUME NEW k \in Nat PROVE F + k * d < h <=> k <= q
  <2>1. k * d \in Nat
    BY <1>1
  <2>2. CASE k <= q
    <3>1. k * d <= q * d
      BY <1>1, <1>3, <2>2
    <3>2. q * d \in Nat
      BY <1>1, <1>3
    <3> QED
      BY <1>1, <1>3, <2>1, <2>2, <3>1, <3>2
  <2>3. CASE k > q
    <3>1. (q + 1) * d <= k * d /\ (q + 1) * d \in Nat
      BY <1>1, <1>3, <2>3
    <3> QED
      BY <1>1, <1>3, <2>1, <2>3, <3>1
  <2> QED
    BY <1>3, <2>2, <2>3
<1>6. {k \in 0..h : F + k * d < h} = 0..q
  <2>1. q < h
    BY <1>1, <1>2, <1>3, <1>4
  <2>2. ASSUME NEW k \in Nat PROVE k \in 0..h /\ F + k * d < h <=> k \in 0..q
    BY <1>3, <1>5, <2>1
  <2> QED
    BY <1>3, <2>2
<1>7. Cardinality(0..q) = q + 1
  BY <1>3, FS_Interval
<1>8. Drops(h) = Cardinality({k \in 0..h : F + k * d < h})
  BY <1>1, <1>2 DEF Drops
<1>9. Drops(h) = q + 1
  BY <1>6, <1>7, <1>8, Zenon
<1>10. q + 1 = 1 + q
  BY <1>3
<1> QED
  BY <1>9, <1>10, Zenon

LEMMA SubsidyType ==
    ASSUME NEW h \in Int, NEW base \in Int
    PROVE  Subsidy(h, base) \in Nat
<1>1. CASE h <= 0 \/ base <= 0
  BY <1>1 DEF Subsidy
<1>2. CASE h > 0 /\ base > 0
  <2>1. base \in Nat /\ base \div 2 \in Nat /\ base + base \div 4 \in Nat
    BY <1>2
  <2>2. Drops(h) \in Nat
    <3>1. h \in Nat
      BY <1>2
    <3>2. CASE h <= FirstDrop
      BY <3>1, <3>2, DropsCounted
    <3>3. CASE h > FirstDrop
      <4>1. h - 1 - FirstDrop \in Nat
        BY <3>1, <3>3, Parameters
      <4> QED
        BY <3>1, <3>3, <4>1, DropsCounted, Quotient, Parameters
    <3> QED
      BY <3>1, <3>2, <3>3, Parameters
  <2>3. ShiftRight(base + base \div 4, Drops(h)) \in Nat
    BY <2>1, <2>2, ShiftStep
  <2> QED
    BY <1>2, <2>1, <2>3 DEF Subsidy
<1> QED
  BY <1>1, <1>2

\* The first height behind a segment with this many drops.
SegmentEnd(drops) == FirstDrop + drops * DropCycle + 1

\* A segment ends behind each of its heights, and has no drop but at its end.
LEMMA SegmentBounds ==
    ASSUME NEW h \in Nat \ {0}, NEW e \in Nat, Drops(h) = e
    PROVE  /\ SegmentEnd(e) \in Nat /\ h < SegmentEnd(e)
           /\ \A j \in h..(SegmentEnd(e) - 1) : Drops(j) = e
           /\ \A j \in Nat : j >= h => Drops(j) \in Nat /\ Drops(j) >= e
<1> PICK d, F : d = DropCycle /\ F = FirstDrop
  OBVIOUS
<1>1. d \in Nat \ {0} /\ F \in Nat \ {0}
  BY Parameters
<1>2. /\ \A j \in Nat : j <= F => Drops(j) = 0
      /\ \A j \in Nat : j > F => Drops(j) = 1 + (j - 1 - F) \div d
  BY DropsCounted
<1>3. \A j \in Nat : j > F => Drops(j) \in Nat \ {0}
  <2>1. ASSUME NEW j \in Nat, j > F PROVE (j - 1 - F) \div d \in Nat
    BY <1>1, <2>1, Quotient
  <2> QED
    BY <1>2, <2>1
<1>4. CASE h <= F
  <2>1. e = 0 /\ SegmentEnd(e) = F + 1
    BY <1>1, <1>2, <1>4 DEF SegmentEnd
  <2> QED
    BY <1>1, <1>2, <1>3, <1>4, <2>1
<1>5. CASE h > F
  <2> PICK q : q = e - 1
    OBVIOUS
  <2>1. q \in Nat /\ e = q + 1 /\ q = (h - 1 - F) \div d
    BY <1>1, <1>2, <1>5, Quotient
  <2>2. q * d <= h - 1 - F /\ h - 1 - F < (q + 1) * d
    BY <1>1, <1>5, <2>1, Quotient
  <2>3. SegmentEnd(e) = F + (q + 1) * d + 1 /\ (q + 1) * d \in Nat
    BY <1>1, <2>1 DEF SegmentEnd
  <2>4. ASSUME NEW j \in Nat, j >= h, j <= SegmentEnd(e) - 1
        PROVE  Drops(j) = e
    <3>1. j - 1 - F \in Nat /\ q * d <= j - 1 - F /\ j - 1 - F < (q + 1) * d
      <4>1. q * d \in Nat
        BY <1>1, <2>1
      <4> QED
        BY <1>1, <1>5, <2>2, <2>3, <2>4, <4>1
    <3>2. (j - 1 - F) \div d = q
      BY <1>1, <2>1, <3>1, QuotientUnique
    <3> QED
      BY <1>1, <1>2, <1>5, <2>1, <2>4, <3>2
  <2>5. ASSUME NEW j \in Nat, j >= h
        PROVE  Drops(j) \in Nat /\ Drops(j) >= e
    <3> PICK r : r = (j - 1 - F) \div d
      OBVIOUS
    <3>1. j - 1 - F \in Nat /\ h - 1 - F <= j - 1 - F
      BY <1>1, <1>5, <2>5
    <3>2. r \in Nat /\ j - 1 - F < (r + 1) * d
      BY <1>1, <3>1, Quotient
    <3>3. q * d < (r + 1) * d
      <4>1. q * d \in Nat /\ (r + 1) * d \in Nat
        BY <1>1, <2>1, <3>2
      <4> QED
        BY <1>1, <1>5, <2>2, <3>1, <3>2, <4>1
    <3>4. q < r + 1
      <4>1. SUFFICES ASSUME r + 1 <= q PROVE FALSE
        BY <2>1, <3>2
      <4>2. (r + 1) * d <= q * d
        BY <1>1, <2>1, <3>2, <4>1
      <4> QED
        BY <1>1, <2>1, <3>2, <3>3, <4>2
    <3>5. Drops(j) = 1 + r
      BY <1>1, <1>2, <1>5, <2>5
    <3> QED
      BY <2>1, <3>2, <3>4, <3>5
  <2>6. SegmentEnd(e) \in Nat /\ h < SegmentEnd(e)
    BY <1>1, <1>5, <2>2, <2>3
  <2> QED
    BY <2>4, <2>5, <2>6
<1> QED
  BY <1>1, <1>4, <1>5

\* _emission_segment gives the subsidy at a height; it is the same up to the
\* height it names, and where it is nothing it stays so.
LEMMA SegmentIs ==
    ASSUME NEW h \in Nat \ {0}, NEW base \in Nat \ {0}
    PROVE  LET s == Segment(h, base)
           IN  /\ s.value \in Nat /\ s.value = Subsidy(h, base)
               /\ s.value # 0 =>
                     /\ s.next \in Nat /\ h < s.next
                     /\ \A j \in h..(s.next - 1) : Subsidy(j, base) = s.value
               /\ s.value = 0 => \A j \in Nat : j >= h => Subsidy(j, base) = 0
<1> DEFINE s == Segment(h, base)
           Rate(e) == IF e = 0 THEN base ELSE IF e = 1 THEN base \div 2
                      ELSE ShiftRight(base + base \div 4, e)
<1> PICK e : e = Drops(h)
  OBVIOUS
<1>1. \A j \in Nat \ {0} : Subsidy(j, base) = Rate(Drops(j))
  BY DEF Subsidy
<1>2. e \in Nat /\ (h <= FirstDrop => e = 0)
      /\ (h > FirstDrop => e = 1 + (h - 1 - FirstDrop) \div DropCycle /\ e >= 1)
  <2>1. CASE h <= FirstDrop
    BY <2>1, DropsCounted, Parameters
  <2>2. CASE h > FirstDrop
    <3>1. h - 1 - FirstDrop \in Nat
      BY <2>2, Parameters
    <3> QED
      BY <2>2, <3>1, DropsCounted, Quotient, Parameters
  <2> QED
    BY <2>1, <2>2, Parameters
<1>3. /\ SegmentEnd(e) \in Nat /\ h < SegmentEnd(e)
      /\ \A j \in h..(SegmentEnd(e) - 1) : Drops(j) = e
      /\ \A j \in Nat : j >= h => Drops(j) \in Nat /\ Drops(j) >= e
  BY <1>2, SegmentBounds
<1>4. /\ base \div 2 \in Nat /\ base + base \div 4 \in Nat
      /\ ShiftRight(base, 1) = base \div 2
  <2>1. base \in Nat /\ 1 \in Nat \ {0} /\ 1 - 1 = 0
    OBVIOUS
  <2>2. ShiftRight(base, 0) = base /\ ShiftRight(base, 1) = ShiftRight(base, 1 - 1) \div 2
    BY <2>1, ShiftStep
  <2> QED
    BY <2>1, <2>2
<1>5. \A n \in Nat : Rate(n) \in Nat
  BY <1>4, ShiftStep
<1>6. s.value = Rate(e) /\ (s.value # 0 => s.next = SegmentEnd(e))
  <2>1. CASE h <= FirstDrop
    <3>1. s = [value |-> base, next |-> FirstDrop + 1]
      BY <2>1, Parameters DEF Segment
    <3> QED
      BY <1>2, <2>1, <3>1, Parameters DEF SegmentEnd
  <2>2. CASE h > FirstDrop
    <3> PICK v : v = ShiftRight(IF e >= 2 THEN base + base \div 4 ELSE base, e)
      OBVIOUS
    <3>1. s = [value |-> v, next |-> IF v = 0 THEN h ELSE SegmentEnd(e)]
      BY <1>2, <2>2, Parameters DEF Segment, SegmentEnd
    <3>2. v = Rate(e)
      <4>1. CASE e = 1
        BY <1>4, <4>1
      <4>2. CASE e >= 2
        BY <4>2
      <4> QED
        BY <1>2, <2>2, <4>1, <4>2
    <3> QED
      BY <3>1, <3>2
  <2> QED
    BY <2>1, <2>2, Parameters
<1>7. ASSUME NEW n \in Nat, n >= e, Rate(e) = 0 PROVE Rate(n) = 0
  <2>1. e # 0
    BY <1>7
  <2>2. CASE e = 1
    <3>1. base = 1
      BY <1>7, <2>2
    <3>2. base + base \div 4 = 1 /\ base \div 2 = 0
      BY <3>1
    <3>3. ShiftRight(1, 1) = 0
      BY <1>4, <3>1, <3>2
    <3>4. ShiftRight(1, n) = 0
      BY <1>7, <2>2, <3>3, ShiftedOut
    <3> QED
      BY <1>7, <2>2, <3>2, <3>4
  <2>3. CASE e >= 2
    <3>1. ShiftRight(base + base \div 4, e) = 0
      BY <1>2, <1>7, <2>3
    <3>2. ShiftRight(base + base \div 4, n) = 0
      BY <1>2, <1>4, <1>7, <3>1, ShiftedOut
    <3> QED
      BY <1>2, <1>7, <2>3, <3>2
  <2> QED
    BY <1>2, <2>1, <2>2, <2>3
<1>8. s.value \in Nat /\ s.value = Subsidy(h, base)
  BY <1>1, <1>2, <1>5, <1>6
<1>9. ASSUME s.value # 0
      PROVE  /\ s.next \in Nat /\ h < s.next
             /\ \A j \in h..(s.next - 1) : Subsidy(j, base) = s.value
  <2>1. s.next = SegmentEnd(e)
    BY <1>6, <1>9
  <2>2. ASSUME NEW j \in h..(SegmentEnd(e) - 1) PROVE Subsidy(j, base) = s.value
    <3>1. j \in Nat \ {0} /\ Drops(j) = e
      BY <1>3
    <3> QED
      BY <1>1, <1>6, <3>1
  <2> QED
    BY <1>3, <2>1, <2>2
<1>10. ASSUME s.value = 0, NEW j \in Nat, j >= h PROVE Subsidy(j, base) = 0
  <2>1. Drops(j) \in Nat /\ Drops(j) >= e /\ Rate(e) = 0
    BY <1>3, <1>6, <1>10
  <2>2. Rate(Drops(j)) = 0
    BY <1>7, <2>1
  <2> QED
    BY <1>1, <1>10, <2>2
<1> HIDE DEF s
<1> QED
  BY <1>8, <1>9, <1>10 DEF s

-----------------------------------------------------------------------------
(* Sums of subsidies. *)

\* The defining equations of SubsidyOf.
LEMMA SumStep ==
    ASSUME NEW lo \in Int, NEW base \in Int
    PROVE  /\ \A hi \in Int : SubsidyOf(lo, hi, base) \in Nat
           /\ \A hi \in Int : hi < lo => SubsidyOf(lo, hi, base) = 0
           /\ \A hi \in Int : hi >= lo =>
                  SubsidyOf(lo, hi, base) = SubsidyOf(lo, hi - 1, base) + Subsidy(hi, base)
<1> DEFINE Def(f) == f = [n \in Nat |-> IF n = 0 THEN 0 ELSE f[n - 1] + Subsidy(lo + n - 1, base)]
           op == [p \in (Nat \ {0}) \X Nat |-> p[2] + Subsidy(lo + p[1] - 1, base)]
<1>1. op \in [(Nat \ {0}) \X Nat -> Nat]
  <2>1. ASSUME NEW p \in (Nat \ {0}) \X Nat PROVE p[2] + Subsidy(lo + p[1] - 1, base) \in Nat
    <3>1. p[2] \in Nat /\ lo + p[1] - 1 \in Int
      OBVIOUS
    <3>2. Subsidy(lo + p[1] - 1, base) \in Nat
      BY <3>1, SubsidyType
    <3> QED
      BY <3>1, <3>2
  <2> QED
    BY <2>1
<1>2. PICK o : o = op /\ o \in [(Nat \ {0}) \X Nat -> Nat]
  BY <1>1
<1>3. PICK f \in [Nat -> Nat] : Computes(f, Nat, 0, o)
  BY <1>2, NaturalRecursion
<1>4. \A n \in Nat \ {0} : o[<<n, f[n - 1]>>] = f[n - 1] + Subsidy(lo + n - 1, base)
  BY <1>2
<1>5. Def(f)
  BY <1>3, <1>4 DEF Computes
<1>6. PICK g : g = CHOOSE h : Def(h)
  OBVIOUS
<1>7. Def(g)
  BY <1>5, <1>6
<1>8. \A hi : SubsidyOf(lo, hi, base) = IF hi < lo THEN 0 ELSE g[hi - lo + 1]
  BY <1>6 DEF SubsidyOf
<1>9. g[0] = 0 /\ \A n \in Nat \ {0} : g[n] = g[n - 1] + Subsidy(lo + n - 1, base)
  BY <1>7
<1>10. \A n \in Nat : g[n] \in Nat
  <2>1. PICK T : T = {n \in Nat : g[n] \notin Nat}
    OBVIOUS
  <2>2. SUFFICES ASSUME T # {} PROVE FALSE
    BY <2>1
  <2>3. PICK n \in T : \A y \in T : n <= y
    BY <2>1, <2>2, LeastNatural
  <2>4. n # 0 /\ n \in Nat /\ lo + n - 1 \in Int
    BY <1>9, <2>1
  <2>5. n - 1 \in Nat /\ n - 1 \notin T
    BY <2>3, <2>4
  <2>6. g[n - 1] \in Nat
    BY <2>1, <2>5
  <2>7. Subsidy(lo + n - 1, base) \in Nat
    BY <2>4, SubsidyType
  <2>8. g[n] = g[n - 1] + Subsidy(lo + n - 1, base)
    BY <1>9, <2>4
  <2> QED
    BY <2>1, <2>6, <2>7, <2>8
<1>11. \A hi \in Int : SubsidyOf(lo, hi, base) \in Nat
  <2>1. ASSUME NEW hi \in Int PROVE SubsidyOf(lo, hi, base) \in Nat
    <3>1. hi >= lo => hi - lo + 1 \in Nat
      OBVIOUS
    <3> QED
      BY <1>8, <1>10, <3>1
  <2> QED
    BY <2>1
<1>12. ASSUME NEW hi \in Int, hi >= lo
       PROVE  SubsidyOf(lo, hi, base) = SubsidyOf(lo, hi - 1, base) + Subsidy(hi, base)
  <2> PICK n : n = hi - lo + 1
    OBVIOUS
  <2>1. n \in Nat \ {0} /\ lo + n - 1 = hi /\ n - 1 = (hi - 1) - lo + 1
    BY <1>12
  <2>2. SubsidyOf(lo, hi, base) = g[n - 1] + Subsidy(hi, base)
    BY <1>8, <1>9, <1>12, <2>1
  <2>3. SubsidyOf(lo, hi - 1, base) = g[n - 1]
    <3>1. CASE hi - 1 < lo
      BY <1>8, <1>9, <1>12, <2>1, <3>1
    <3>2. CASE ~(hi - 1 < lo)
      BY <1>8, <2>1, <3>2
    <3> QED
      BY <3>1, <3>2
  <2> QED
    BY <2>2, <2>3
<1> QED
  BY <1>8, <1>11, <1>12

\* Over a stretch in which the subsidy is constant the sum is a product.
LEMMA SumConstant ==
    ASSUME NEW lo \in Int, NEW base \in Int, NEW a \in Int, NEW b \in Int, NEW v \in Nat,
           lo - 1 <= a, a <= b,
           \A j \in (a + 1)..b : Subsidy(j, base) = v
    PROVE  SubsidyOf(lo, b, base) = SubsidyOf(lo, a, base) + v * (b - a)
<1> PICK T, s : /\ s = SubsidyOf(lo, a, base)
                /\ T = {n \in 0..(b - a) : SubsidyOf(lo, a + n, base) # s + v * n}
  OBVIOUS
<1>0. s \in Nat
  BY SumStep
<1>1. T = {}
  <2>1. SUFFICES ASSUME T # {} PROVE FALSE
    OBVIOUS
  <2>2. PICK n \in T : \A y \in T : n <= y
    <3>1. T \subseteq Nat
      OBVIOUS
    <3> QED
      BY <2>1, <3>1, LeastNatural
  <2>3. n \in 0..(b - a) /\ SubsidyOf(lo, a + n, base) # s + v * n
    OBVIOUS
  <2>4. n # 0
    <3>1. v * 0 = 0 /\ a + 0 = a
      OBVIOUS
    <3> QED
      BY <1>0, <2>3, <3>1
  <2>5. n - 1 \in 0..(b - a) /\ n - 1 \notin T
    BY <2>2, <2>3, <2>4
  <2>6. SubsidyOf(lo, a + (n - 1), base) = s + v * (n - 1)
    BY <2>5
  <2> PICK hi : hi = a + n
    OBVIOUS
  <2>7. hi \in Int /\ hi >= lo /\ hi - 1 = a + (n - 1) /\ hi \in (a + 1)..b
    BY <2>3, <2>4
  <2>8. SubsidyOf(lo, hi, base) = SubsidyOf(lo, hi - 1, base) + v
    BY <2>7, SumStep
  <2>9. v * n = v * (n - 1) + v /\ v * (n - 1) \in Nat
    BY <2>3, <2>4
  <2> QED
    BY <1>0, <2>3, <2>6, <2>7, <2>8, <2>9
<1>2. b - a \in 0..(b - a) /\ a + (b - a) = b
  OBVIOUS
<1> QED
  BY <1>1, <1>2

-----------------------------------------------------------------------------
(* The treasury schedule. *)

LEMMA TreasuryIsByPeriods ==
    ASSUME NEW s \in Schedules, NEW h \in Int, h > 0
    PROVE  LET over  == PeriodsOver(h, s)
               early == Min({over, s.firstBursts})
           IN  TreasuryReleased(h, s) = s.step * (early * s.first + (over - early) * s.rest)
<1> DEFINE Due(burst) == burst.value > 0 /\ burst.height <= h
           Add(k) == IF Due(Burst(s, k)) THEN Burst(s, k).value ELSE 0
           Def(f) == f = [k \in Nat |-> IF k = 0 THEN 0 ELSE f[k - 1] + Add(k)]
           op == [p \in (Nat \ {0}) \X Nat |-> p[2] + Add(p[1])]
<1> PICK first, rest, fb, m, step, n :
       /\ first = s.first /\ rest = s.rest /\ fb = s.firstBursts
       /\ m = s.maturity0 /\ step = s.step /\ n = s.bursts
  OBVIOUS
<1>1. /\ first \in Nat /\ rest \in Nat /\ fb \in Nat
      /\ m \in Nat /\ step \in Nat /\ n \in Nat
  BY ScheduleAssumption
<1> DEFINE Rate(k) == IF k - 1 < fb THEN first ELSE rest
<1>2. \A k : Burst(s, k) = [height |-> m + k * step, value |-> Rate(k) * step]
  BY DEF Burst
<1>3. \A k \in Nat : Rate(k) * step \in Nat
  BY <1>1
<1>4. \A k \in Nat : Add(k) = IF Rate(k) * step > 0 /\ m + k * step <= h THEN Rate(k) * step ELSE 0
  BY <1>2
<1>5. \A k \in Nat : Add(k) \in Nat
  BY <1>3, <1>4
<1> HIDE DEF Add
<1>6. op \in [(Nat \ {0}) \X Nat -> Nat]
  BY <1>5
<1>7. PICK o : o = op /\ o \in [(Nat \ {0}) \X Nat -> Nat]
  BY <1>6
<1>8. PICK f \in [Nat -> Nat] : Computes(f, Nat, 0, o)
  BY <1>7, NaturalRecursion
<1>9. \A k \in Nat \ {0} : o[<<k, f[k - 1]>>] = f[k - 1] + Add(k)
  BY <1>7
<1>10. Def(f)
  BY <1>8, <1>9 DEF Computes
<1>11. PICK g : g = CHOOSE x : Def(x)
  OBVIOUS
<1>12. Def(g)
  BY <1>10, <1>11
<1>13. TreasuryReleased(h, s) = g[n]
  BY <1>11 DEF TreasuryReleased, Add
<1>14. g[0] = 0 /\ \A k \in Nat \ {0} : g[k] = g[k - 1] + Add(k)
  BY <1>12
<1> HIDE DEF Def, op
<1> PICK over : over = PeriodsOver(h, s)
  OBVIOUS
<1>15. over \in Nat /\ over <= n
       /\ \A k \in 1..n : Add(k) = IF k <= over THEN Rate(k) * step ELSE 0
  <2>1. CASE step = 0
    <3>1. \A k \in 1..n : Rate(k) * step = 0 /\ Add(k) = 0
      BY <1>1, <1>4, <2>1
    <3>2. over \in {0, n}
      BY <2>1 DEF PeriodsOver
    <3> QED
      BY <1>1, <3>1, <3>2
  <2>2. CASE step # 0 /\ h < m + step
    <3>1. over = 0
      BY <2>2 DEF PeriodsOver
    <3>2. ASSUME NEW k \in 1..n PROVE Add(k) = 0
      <4>1. step <= k * step /\ k * step \in Nat
        BY <1>1
      <4>2. ~(m + k * step <= h)
        BY <1>1, <2>2, <4>1
      <4> QED
        BY <1>4, <4>2
    <3>3. \A k \in 1..n : ~(k <= 0)
      BY <1>1
    <3> QED
      BY <1>1, <3>1, <3>2, <3>3
  <2>3. CASE step # 0 /\ ~(h < m + step)
    <3> PICK q : q = (h - m) \div step
      OBVIOUS
    <3>1. h - m \in Nat /\ step \in Nat \ {0}
      BY <1>1, <2>3
    <3>2. q \in Nat /\ q * step <= h - m /\ h - m < (q + 1) * step
      BY <3>1, Quotient
    <3>3. over = IF n <= q THEN n ELSE q
      <4>1. over = Min({n, q})
        BY <2>3 DEF PeriodsOver
      <4> QED
        BY <1>1, <3>2, <4>1, MinOfTwo
    <3>4. ASSUME NEW k \in 1..n PROVE m + k * step <= h <=> k <= q
      <4>1. k * step \in Nat /\ q * step \in Nat /\ (q + 1) * step \in Nat
        BY <1>1, <3>2
      <4>2. CASE k <= q
        <5>1. k * step <= q * step
          BY <1>1, <3>2, <4>2
        <5> QED
          BY <1>1, <3>2, <4>1, <4>2, <5>1
      <4>3. CASE k > q
        <5>1. (q + 1) * step <= k * step
          <6>1. q + 1 \in Nat /\ k \in Nat /\ q + 1 <= k
            BY <1>1, <3>2, <4>3
          <6> QED
            BY <1>1, <6>1, ProductMonotone
        <5> QED
          BY <1>1, <3>2, <4>1, <4>3, <5>1
      <4> QED
        BY <3>2, <4>2, <4>3
    <3>5. ASSUME NEW k \in 1..n PROVE Add(k) = IF k <= over THEN Rate(k) * step ELSE 0
      <4>1. k <= q <=> k <= over
        BY <1>1, <3>2, <3>3
      <4>2. Add(k) = IF Rate(k) * step > 0 /\ k <= q THEN Rate(k) * step ELSE 0
        BY <1>1, <1>4, <3>4
      <4>3. Rate(k) * step \in Nat
        BY <1>1, <1>3
      <4> QED
        BY <4>1, <4>2, <4>3
    <3> QED
      BY <1>1, <3>2, <3>3, <3>5
  <2> QED
    BY <2>1, <2>2, <2>3
<1> DEFINE O(k) == IF k <= over THEN k ELSE over
           E(k) == IF O(k) <= fb THEN O(k) ELSE fb
           A(k) == E(k) * first + (O(k) - E(k)) * rest
<1>16. ASSUME NEW k \in Nat PROVE A(k) \in Nat
  <2>1. O(k) \in Nat /\ E(k) \in Nat /\ O(k) - E(k) \in Nat
    BY <1>1, <1>15
  <2> HIDE DEF O, E
  <2>2. E(k) * first \in Nat /\ (O(k) - E(k)) * rest \in Nat
    BY <1>1, <2>1
  <2> QED
    BY <2>2
<1>17. ASSUME NEW k \in 1..n PROVE A(k) = A(k - 1) + (IF k <= over THEN Rate(k) ELSE 0)
  <2>1. CASE k <= over
    <3>1. O(k) = k /\ O(k - 1) = k - 1
      BY <1>1, <1>15, <2>1
    <3>2. CASE k - 1 < fb
      <4>1. E(k) = k /\ E(k - 1) = k - 1
        BY <1>1, <3>1, <3>2
      <4>2. A(k) = k * first + 0 * rest /\ A(k - 1) = (k - 1) * first + 0 * rest
        BY <3>1, <4>1, <1>1
      <4>3. k * first = (k - 1) * first + first /\ 0 * rest = 0
        BY <1>1
      <4> QED
        BY <1>1, <2>1, <3>2, <4>2, <4>3
    <3>3. CASE ~(k - 1 < fb)
      <4>1. E(k) = fb /\ E(k - 1) = fb
        BY <1>1, <3>1, <3>3
      <4>2. A(k) = fb * first + (k - fb) * rest /\ A(k - 1) = fb * first + (k - 1 - fb) * rest
        BY <3>1, <4>1
      <4>3. (k - fb) * rest = (k - 1 - fb) * rest + rest /\ fb * first \in Nat
            /\ (k - 1 - fb) * rest \in Int
        BY <1>1
      <4> QED
        BY <1>1, <2>1, <3>3, <4>2, <4>3
    <3> QED
      BY <3>2, <3>3
  <2>2. CASE ~(k <= over)
    <3>1. O(k) = over /\ O(k - 1) = over
      BY <1>1, <1>15, <2>2
    <3>2. E(k) = E(k - 1)
      BY <3>1
    <3>3. A(k) = A(k - 1)
      BY <3>1, <3>2
    <3>4. A(k) \in Nat
      BY <1>1, <1>16
    <3> HIDE DEF A
    <3> QED
      BY <2>2, <3>3, <3>4
  <2> QED
    BY <2>1, <2>2
<1>18. A(0) = 0
  <2>1. O(0) = 0 /\ E(0) = 0
    BY <1>1, <1>15
  <2>2. 0 * first = 0 /\ (0 - 0) * rest = 0
    BY <1>1
  <2> QED
    BY <2>1, <2>2
<1> HIDE DEF A, Rate
<1>19. \A k \in 0..n : g[k] = step * A(k)
  <2>1. PICK T : T = {k \in 0..n : g[k] # step * A(k)}
    OBVIOUS
  <2>2. SUFFICES ASSUME T # {} PROVE FALSE
    BY <2>1
  <2>3. PICK k \in T : \A y \in T : k <= y
    <3>1. T \subseteq Nat
      BY <1>1, <2>1
    <3> QED
      BY <2>2, <3>1, LeastNatural
  <2>4. k \in 0..n /\ g[k] # step * A(k)
    BY <2>1
  <2>5. k # 0
    BY <1>1, <1>14, <1>18, <2>4
  <2>6. k - 1 \in 0..n /\ k - 1 \notin T /\ k \in 1..n /\ k \in Nat \ {0}
    BY <1>1, <2>3, <2>4, <2>5
  <2>7. g[k - 1] = step * A(k - 1)
    BY <2>1, <2>6
  <2>8. g[k] = g[k - 1] + Add(k) /\ Add(k) = IF k <= over THEN Rate(k) * step ELSE 0
    BY <1>14, <1>15, <2>6
  <2>9. Rate(k) \in Nat /\ A(k - 1) \in Nat
    <3>1. Rate(k) \in Nat
      BY <1>1 DEF Rate
    <3>2. A(k - 1) \in Nat
      BY <1>16, <2>6
    <3> QED
      BY <3>1, <3>2
  <2>10. A(k) = A(k - 1) + (IF k <= over THEN Rate(k) ELSE 0)
    BY <1>17, <2>6
  <2>11. step * A(k) = step * A(k - 1) + (IF k <= over THEN Rate(k) * step ELSE 0)
    BY <1>1, <2>9, <2>10
  <2> QED
    BY <2>4, <2>7, <2>8, <2>11
<1>20. TreasuryReleased(h, s) = step * A(n)
  BY <1>1, <1>13, <1>19
<1>21. O(n) = over
  BY <1>1, <1>15
<1>22. Min({over, fb}) = E(n)
  BY <1>1, <1>15, <1>21, MinOfTwo
<1> QED
  BY <1>20, <1>21, <1>22 DEF A

-----------------------------------------------------------------------------
(* The loops. *)

LEMMA Typed ==
    ASSUME TypeOK
    PROVE  /\ call.base \in Int /\ call.start \in Int /\ First \in Nat \ {0} /\ First >= call.start
           /\ height \in Nat \ {0} /\ total \in Int
           /\ Ranged => call.stop \in Int
<1>1. Max({1, call.start}) = IF 1 >= call.start THEN 1 ELSE call.start
  BY MaxOfTwo DEF TypeOK
<1> QED
  BY <1>1 DEF TypeOK, First

LEMMA WithinIs ==
    ASSUME TypeOK, NEW n \in Int
    PROVE  /\ ~Ranged => Within(n) = n
           /\ Ranged => Within(n) = IF call.stop + 1 <= n THEN call.stop + 1 ELSE n
<1>1. CASE Ranged
  <2>1. call.stop + 1 \in Int
    BY <1>1, Typed
  <2> QED
    BY <1>1, <2>1, MinOfTwo DEF Within
<1>2. CASE ~Ranged
  BY <1>2 DEF Within
<1> QED
  BY <1>1, <1>2

LEMMA InitInv == Init => IInv /\ NothingLater
<1> SUFFICES ASSUME Init PROVE IInv /\ NothingLater
  OBVIOUS
<1>1. PICK base \in Subsidies :
        \/ \E start \in Starts, stop \in Stops :
               Begin([name |-> "range", start |-> start, stop |-> stop, base |-> base])
        \/ Begin([name |-> "total", start |-> 1, base |-> base])
        \/ \E stop \in Stops, s \in Schedules :
               Begin([name |-> "circulation", start |-> 1, stop |-> stop, base |-> base,
                      schedule |-> s])
  BY DEF Init
<1>2. /\ call.name \in {"range", "total", "circulation"} /\ call.base \in Int /\ call.start \in Int
      /\ call.name # "total" => call.stop \in Int
      /\ call.name = "circulation" => call.schedule \in Schedules
  <2>1. CASE \E start \in Starts, stop \in Stops :
               Begin([name |-> "range", start |-> start, stop |-> stop, base |-> base])
    BY <2>1, Parameters DEF Begin
  <2>2. CASE Begin([name |-> "total", start |-> 1, base |-> base])
    BY <2>2, Parameters DEF Begin
  <2>3. CASE \E stop \in Stops, s \in Schedules :
               Begin([name |-> "circulation", start |-> 1, stop |-> stop, base |-> base,
                      schedule |-> s])
    BY <2>3, Parameters DEF Begin
  <2> QED
    BY <1>1, <2>1, <2>2, <2>3
<1>3. height = First /\ total = 0 /\ pc = "loop"
  BY <1>1 DEF Begin
<1>4. First \in Nat \ {0}
  <2>1. Max({1, call.start}) = IF 1 >= call.start THEN 1 ELSE call.start
    BY <1>2, MaxOfTwo
  <2> QED
    BY <1>2, <2>1 DEF First
<1>5. TypeOK
  BY <1>2, <1>3, <1>4 DEF TypeOK, Ranged
<1>6. Within(height) - 1 \in Int /\ Within(height) - 1 < First
  <2>1. Within(height) \in Int /\ Within(height) <= height
    BY <1>3, <1>4, <1>5, WithinIs, Typed
  <2> QED
    BY <1>3, <1>4, <2>1
<1>7. SubsidyOf(First, Within(height) - 1, call.base) = 0
  <2>1. First \in Int /\ call.base \in Int
    BY <1>2, <1>4
  <2> QED
    BY <1>6, <2>1, SumStep
<1> QED
  BY <1>3, <1>4, <1>5, <1>7 DEF IInv, SumInv, EmissionIsSum, TreasuryByPeriods, NothingLater

\* Where the call returns a sum that is right up to every height asked for,
\* the invariant holds behind it.
LEMMA ReturnInv ==
    ASSUME TypeOK, NEW value \in Int, Return(value),
           Ranged => value = SubsidyOf(First, call.stop, call.base),
           ~Ranged => \A hi \in Nat : hi >= height - 1 => value = SubsidyOf(First, hi, call.base)
    PROVE  IInv' /\ NothingLater'
<1>1. call' = call /\ height' = height /\ pc' = "returned" /\ total' = value
      /\ released' = IF call.name = "circulation" THEN TreasuryReleased(call.stop, call.schedule) ELSE 0
  BY DEF Return
<1>2. Ranged' = Ranged /\ First' = First
  BY <1>1 DEF Ranged, First
<1>3. TypeOK'
  BY <1>1, <1>2 DEF TypeOK
<1>4. SumInv'
  BY <1>1 DEF SumInv
<1>5. NothingLater'
  BY <1>1, <1>2 DEF NothingLater
<1>6. EmissionIsSum'
  <2>1. CASE Ranged
    BY <1>1, <1>2, <2>1 DEF EmissionIsSum
  <2>2. CASE ~Ranged
    <3>1. height + 4 * DropCycle \in Nat /\ height + 4 * DropCycle >= height - 1
      BY Parameters, Typed
    <3> QED
      BY <1>1, <1>2, <2>2, <3>1 DEF EmissionIsSum
  <2> QED
    BY <2>1, <2>2
<1>7. TreasuryByPeriods'
  <2> SUFFICES ASSUME call.name = "circulation"
               PROVE  LET s     == call.schedule
                          over  == PeriodsOver(call.stop, s)
                          early == Min({over, s.firstBursts})
                      IN  released' = IF call.stop <= 0 THEN 0
                                      ELSE s.step * (early * s.first + (over - early) * s.rest)
    BY <1>1 DEF TreasuryByPeriods
  <2>1. call.schedule \in Schedules /\ call.stop \in Int
    BY DEF TypeOK, Ranged
  <2>2. released' = TreasuryReleased(call.stop, call.schedule)
    BY <1>1
  <2>3. CASE call.stop <= 0
    BY <2>2, <2>3 DEF TreasuryReleased
  <2>4. CASE ~(call.stop <= 0)
    BY <2>1, <2>2, <2>4, TreasuryIsByPeriods
  <2> QED
    BY <2>3, <2>4
<1> QED
  BY <1>3, <1>4, <1>5, <1>6, <1>7 DEF IInv

LEMMA StepInv == IInv /\ NothingLater /\ [Step]_vars => IInv' /\ NothingLater'
<1> SUFFICES ASSUME IInv, NothingLater, [Step]_vars PROVE IInv' /\ NothingLater'
  OBVIOUS
<1>1. CASE UNCHANGED vars
  BY <1>1 DEF vars, IInv, NothingLater, TypeOK, SumInv, EmissionIsSum, TreasuryByPeriods, Ranged,
              First, Within
<1>2. CASE Step
  <2> PICK s, base, lo : s = Segment(height, call.base) /\ base = call.base /\ lo = First
    OBVIOUS
  <2>1. TypeOK /\ pc = "loop"
    BY <1>2 DEF IInv, Step
  <2>2. /\ base \in Int /\ lo \in Nat \ {0} /\ lo \in Int /\ lo >= call.start
        /\ height \in Nat \ {0} /\ total \in Int /\ (Ranged => call.stop \in Int)
    BY <2>1, Typed
  <2>3. height >= lo /\ total = SubsidyOf(lo, Within(height) - 1, base)
    BY <2>1 DEF IInv, SumInv
  <2>4. /\ ~Ranged => Within(height) = height
        /\ Ranged => Within(height) = IF call.stop + 1 <= height THEN call.stop + 1 ELSE height
    BY <2>1, <2>2, WithinIs
  <2>5. CASE Pointless
    <3>1. Return(0)
      BY <1>2, <2>5 DEF Step
    <3>2. ASSUME NEW hi \in Int, base <= 0 PROVE SubsidyOf(lo, hi, base) = 0
      <4>1. CASE hi < lo
        BY <2>2, <4>1, SumStep
      <4>2. CASE ~(hi < lo)
        <5>1. \A j \in (lo - 1 + 1)..hi : Subsidy(j, base) = 0
          BY <3>2 DEF Subsidy
        <5>2. SubsidyOf(lo, hi, base) = SubsidyOf(lo, lo - 1, base) + 0 * (hi - (lo - 1))
          BY <2>2, <4>2, <5>1, SumConstant
        <5>3. lo - 1 \in Int /\ lo - 1 < lo /\ 0 * (hi - (lo - 1)) = 0
          BY <2>2
        <5>4. \A j \in Int : j < lo => SubsidyOf(lo, j, base) = 0
          BY <2>2, SumStep
        <5>5. SubsidyOf(lo, lo - 1, base) = 0
          BY <5>3, <5>4
        <5> QED
          BY <5>2, <5>3, <5>5
      <4> QED
        BY <4>1, <4>2
    <3>3. Ranged => 0 = SubsidyOf(lo, call.stop, base)
      <4>1. CASE base <= 0
        BY <2>2, <3>2, <4>1
      <4>2. CASE Ranged /\ (call.stop < call.start \/ call.stop <= 0)
        <5>1. call.stop < lo
          BY <2>1, <2>2, <4>2 DEF TypeOK
        <5> QED
          BY <2>2, <4>2, <5>1, SumStep
      <4> QED
        BY <2>5, <4>1, <4>2 DEF Pointless
    <3>4. ~Ranged => \A hi \in Nat : hi >= height - 1 => 0 = SubsidyOf(lo, hi, base)
      BY <2>5, <3>2 DEF Pointless
    <3> QED
      BY <2>1, <3>1, <3>3, <3>4, ReturnInv
  <2>6. CASE ~Pointless
    <3>1. base \in Nat \ {0}
      BY <2>2, <2>6 DEF Pointless
    <3>2. /\ s.value \in Nat
          /\ s.value # 0 =>
                /\ s.next \in Nat /\ height < s.next
                /\ \A j \in height..(s.next - 1) : Subsidy(j, base) = s.value
          /\ s.value = 0 => \A j \in Nat : j >= height => Subsidy(j, base) = 0
      BY <2>2, <3>1, SegmentIs
    <3>3. CASE Ranged /\ height > call.stop
      <4>1. Return(total)
        BY <1>2, <2>6, <3>3 DEF Step
      <4>2. Within(height) - 1 = call.stop
        BY <2>2, <2>4, <3>3
      <4> QED
        BY <2>1, <2>2, <2>3, <3>3, <4>1, <4>2, ReturnInv
    <3>4. CASE ~(Ranged /\ height > call.stop) /\ s.value = 0
      <4>1. Return(total)
        BY <1>2, <2>6, <3>4 DEF Step
      <4>2. Within(height) = height
        BY <2>2, <2>4, <3>4
      <4>3. ASSUME NEW hi \in Int, hi >= height - 1
            PROVE  total = SubsidyOf(lo, hi, base)
        <5>1. \A j \in (height - 1 + 1)..hi : Subsidy(j, base) = 0
          BY <2>2, <3>2, <3>4
        <5>2. SubsidyOf(lo, hi, base) = SubsidyOf(lo, height - 1, base) + 0 * (hi - (height - 1))
          BY <2>2, <2>3, <4>3, <5>1, SumConstant
        <5>3. SubsidyOf(lo, height - 1, base) = total /\ 0 * (hi - (height - 1)) = 0
          BY <2>2, <2>3, <4>2
        <5> QED
          BY <2>2, <5>2, <5>3
      <4>4. Ranged => total = SubsidyOf(lo, call.stop, base)
        BY <2>2, <3>4, <4>3
      <4>5. ~Ranged => \A hi \in Nat : hi >= height - 1 => total = SubsidyOf(lo, hi, base)
        BY <4>3
      <4> QED
        BY <2>1, <2>2, <4>1, <4>4, <4>5, ReturnInv
    <3>5. CASE ~(Ranged /\ height > call.stop) /\ s.value # 0
      <4>1. /\ total' = total + s.value * (Within(s.next) - height)
            /\ height' = s.next /\ call' = call /\ pc' = pc
        BY <1>2, <2>6, <3>5 DEF Step
      <4>2. Within(height) = height
        BY <2>2, <2>4, <3>5
      <4>3. s.next \in Nat /\ height < s.next
        BY <3>2, <3>5
      <4> PICK w : w = Within(s.next)
        OBVIOUS
      <4>4. w \in Int /\ height <= w /\ w <= s.next
        BY <2>1, <2>2, <3>5, <4>3, WithinIs
      <4>5. \A j \in (height - 1 + 1)..(w - 1) : Subsidy(j, base) = s.value
        BY <2>2, <3>2, <3>5, <4>3, <4>4
      <4>6. SubsidyOf(lo, w - 1, base) = SubsidyOf(lo, height - 1, base)
                                         + s.value * (w - 1 - (height - 1))
        BY <2>2, <2>3, <3>2, <4>4, <4>5, SumConstant
      <4>7. w - 1 - (height - 1) = w - height
        BY <2>2, <4>4
      <4>8. total' = SubsidyOf(lo, w - 1, base)
        BY <2>3, <4>1, <4>2, <4>6, <4>7
      <4>9. Ranged' = Ranged /\ First' = First /\ Within(s.next)' = w
        BY <4>1 DEF Ranged, First, Within
      <4>10. Within(height)' = w
        BY <4>1 DEF Within, Ranged
      <4>11. SubsidyOf(lo, w - 1, base) \in Int
        <5>1. w - 1 \in Int
          BY <4>4
        <5>2. SubsidyOf(lo, w - 1, base) \in Nat
          BY <2>2, <5>1, SumStep
        <5> QED
          BY <5>2
      <4>12. TypeOK'
        BY <2>1, <4>1, <4>3, <4>8, <4>9, <4>11 DEF TypeOK
      <4>13. SumInv'
        BY <2>2, <2>3, <4>1, <4>3, <4>8, <4>9, <4>10 DEF SumInv
      <4> QED
        BY <2>1, <4>1, <4>12, <4>13 DEF IInv, EmissionIsSum, TreasuryByPeriods, NothingLater
    <3> QED
      BY <3>3, <3>4, <3>5
  <2> QED
    BY <2>5, <2>6
<1> QED
  BY <1>1, <1>2

-----------------------------------------------------------------------------
\* The inductive invariant: the sum so far is that of the blocks so far.
THEOREM Inductive == Spec => [](IInv /\ NothingLater)
BY InitInv, StepInv, PTL DEF Spec

\* emission_for_range and total_emission give the sum of the subsidies of the
\* blocks, wherever the range begins and ends and the drops are.
THEOREM RangeSum == Spec => []EmissionIsSum
<1>1. IInv => EmissionIsSum
  BY DEF IInv
<1> QED
  BY <1>1, Inductive, PTL

\* total_emission stops at a height behind which no block has a subsidy.
THEOREM TotalIsAll == Spec => []NothingLater
BY Inductive, PTL

\* circulation_at_height releases the treasury period by period.
THEOREM ReleasedByPeriods == Spec => []TreasuryByPeriods
<1>1. IInv => TreasuryByPeriods
  BY DEF IInv
<1> QED
  BY <1>1, Inductive, PTL
=============================================================================
