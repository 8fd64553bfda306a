--------------------------- MODULE Formats_proofs ----------------------------
(***************************************************************************)
(* What HeaderPack and CompactIntegers decode: packs of any length, with   *)
(* any table of forks, any widths and any difficulties; and integers of up *)
(* to eight bytes, in messages of any length and cut off anywhere.  What a *)
(* listing of ContractScan has: of any contracts, whatever they store.     *)
(***************************************************************************)
EXTENDS HeaderPack, CompactIntegers, ContractScan, Ranks_proofs

-----------------------------------------------------------------------------
(* Sums. *)

\* A sum that is built up term by term exists.
IsSum(f, n, base, w) == f = [k \in 1..n |-> IF k = 1 THEN base ELSE f[k - 1] + w[k]]

LEMMA SumExists ==
    ASSUME NEW n \in Nat, NEW base, NEW w
    PROVE  \E f : IsSum(f, n, base, w)
<1> DEFINE Sum(f, m) == f = [k \in 1..m |-> IF k = 1 THEN base ELSE f[k - 1] + w[k]]
           T == {m \in Nat : ~\E f : Sum(f, m)}
<1>1. SUFFICES ASSUME T # {} PROVE FALSE
  BY DEF IsSum
<1>2. PICK m \in T : \A y \in T : m <= y
  <2>1. T \subseteq Nat
    OBVIOUS
  <2> HIDE DEF T
  <2> QED
    BY <1>1, <2>1, LeastNatural
<1>3. m # 0
  <2>1. Sum([k \in 1..0 |-> base], 0)
    <3>1. 1..0 = {}
      OBVIOUS
    <3> QED
      BY <3>1
  <2> QED
    BY <1>2, <2>1
<1>4. PICK f : Sum(f, m - 1)
  <2>1. m \in Nat /\ m - 1 \in Nat /\ ~(m <= m - 1)
    BY <1>2, <1>3
  <2>2. m - 1 \notin T
    BY <1>2, <2>1
  <2> QED
    BY <2>1, <2>2
<1> DEFINE g == [k \in 1..m |-> IF k = m THEN IF m = 1 THEN base ELSE f[m - 1] + w[m] ELSE f[k]]
<1>5. Sum(g, m)
  <2>1. ASSUME NEW k \in 1..m
        PROVE  g[k] = IF k = 1 THEN base ELSE g[k - 1] + w[k]
    <3>1. CASE k = m
      <4>1. CASE m = 1
        BY <3>1, <4>1
      <4>2. CASE m # 1
        <5>1. m - 1 \in 1..m /\ m - 1 # m
          BY <1>2, <1>3, <4>2
        <5>2. g[m - 1] = f[m - 1]
          BY <5>1
        <5> QED
          BY <3>1, <4>2, <5>2
      <4> QED
        BY <4>1, <4>2
    <3>2. CASE k # m
      <4>1. k \in 1..(m - 1)
        BY <1>2, <3>2
      <4>2. f[k] = IF k = 1 THEN base ELSE f[k - 1] + w[k]
        BY <1>4, <4>1
      <4>3. g[k] = f[k]
        BY <3>2
      <4>4. CASE k = 1
        BY <4>2, <4>3, <4>4
      <4>5. CASE k # 1
        <5>1. k - 1 \in 1..m /\ k - 1 # m
          BY <1>2, <4>1, <4>5
        <5>2. g[k - 1] = f[k - 1]
          BY <5>1
        <5> QED
          BY <4>2, <4>3, <4>5, <5>2
      <4> QED
        BY <4>4, <4>5
    <3> QED
      BY <3>1, <3>2
  <2>2. g = [k \in 1..m |-> g[k]]
    OBVIOUS
  <2> HIDE DEF g
  <2> QED
    BY <2>1, <2>2
<1>6. \E h : Sum(h, m)
  BY <1>5
<1> QED
  BY <1>2, <1>6

\* The defining equation of TotalWork.
LEMMA TotalWorkStep ==
    ASSUME NEW n \in Nat, DOMAIN chain = 1..n
    PROVE  \A k \in 1..n :
              TotalWork[k] = IF k = 1 THEN lowest.chainwork ELSE TotalWork[k - 1] + Work(chain[k])
<1> DEFINE w == [k \in 1..n |-> Work(chain[k])]
           Sum(f) == f = [k \in 1..n |-> IF k = 1 THEN lowest.chainwork ELSE f[k - 1] + Work(chain[k])]
<1>0. PICK base : base = lowest.chainwork
  OBVIOUS
<1>1. PICK v : v = w
  <2> HIDE DEF w
  <2> QED
    OBVIOUS
<1>2. PICK f : IsSum(f, n, base, v)
  BY SumExists
<1>3. Sum(f)
  <2>1. \A k \in 1..n : v[k] = Work(chain[k])
    BY <1>1
  <2> QED
    BY <1>0, <1>2, <2>1 DEF IsSum
<1>4. TotalWork = CHOOSE h : Sum(h)
  BY DEF TotalWork
<1>5. Sum(TotalWork)
  <2> HIDE DEF Sum
  <2> QED
    BY <1>3, <1>4
<1>6. TotalWork = [k \in 1..n |-> IF k = 1 THEN lowest.chainwork ELSE TotalWork[k - 1] + Work(chain[k])]
  BY ONLY <1>5
<1> QED
  BY <1>6

-----------------------------------------------------------------------------
(* The choice of the rules hash. *)

ForksFrom(h, f) ==
    /\ f \in 1..Forks
    /\ \A j \in 1..f : ForkHeights[j] <= h
    /\ \A j \in (f + 1)..Forks : h < ForkHeights[j]

\* At every height some fork is the last that has begun.
LEMMA LastFork ==
    ASSUME NEW h \in Nat
    PROVE  \E f : ForksFrom(h, f)
<1> DEFINE T == {d \in Nat : Forks - d \in 1..Forks /\ ForkHeights[Forks - d] <= h}
<1>1. Forks \in Nat /\ Forks >= 2 /\ DOMAIN ForkHeights = 1..Forks
      /\ \A j \in 1..Forks : ForkHeights[j] \in Nat
  BY ForkAssumption DEF Forks
<1>2. Forks - 1 \in T
  <2>1. Forks - (Forks - 1) = 1 /\ Forks - 1 \in Nat
    BY <1>1
  <2> QED
    BY <1>1, <2>1, ForkAssumption
<1>3. PICK d \in T : \A y \in T : d <= y
  <2>1. T \subseteq Nat
    OBVIOUS
  <2> HIDE DEF T
  <2> QED
    BY <1>2, <2>1, LeastNatural
<1> DEFINE f == Forks - d
<1>4. f \in 1..Forks /\ ForkHeights[f] <= h
  BY <1>3
<1>5. ASSUME NEW j \in 1..f PROVE ForkHeights[j] <= h
  <2>1. CASE j = f
    BY <1>4, <2>1
  <2>2. CASE j # f
    <3>1. j \in 1..Forks /\ j < f
      BY <1>1, <1>4, <2>2
    <3>2. ForkHeights[j] < ForkHeights[f]
      BY <1>1, <1>4, <3>1, ForkAssumption
    <3> QED
      BY <1>1, <1>4, <3>1, <3>2
  <2> QED
    BY <2>1, <2>2
<1>6. ASSUME NEW j \in (f + 1)..Forks PROVE h < ForkHeights[j]
  <2>1. j \in 1..Forks /\ f < j /\ Forks - j \in Nat /\ Forks - (Forks - j) = j
    BY <1>1, <1>4
  <2>2. Forks - j < d
    BY <1>1, <1>3, <2>1
  <2>3. Forks - j \notin T
    BY <1>1, <1>3, <2>1, <2>2
  <2>4. ~(ForkHeights[j] <= h)
    BY <2>1, <2>3
  <2> QED
    BY <1>1, <2>1, <2>4
<1> QED
  BY <1>4, <1>5, <1>6 DEF ForksFrom

\* ForkIndex counts forks from 0.
LEMMA ForkIndexIs ==
    ASSUME NEW h \in Nat, NEW f, ForksFrom(h, f)
    PROVE  ForkIndex(h) = f - 1
<1> DEFINE Is(i) == /\ i \in 0..(Forks - 1)
                    /\ \A j \in 0..i : h >= ForkHeights[j + 1]
                    /\ i + 1 < Forks => h < ForkHeights[i + 2]
<1>1. Forks \in Nat /\ \A j \in 1..Forks : ForkHeights[j] \in Nat
  BY ForkAssumption DEF Forks
<1>2. f \in 1..Forks /\ (\A j \in 1..f : ForkHeights[j] <= h)
      /\ \A j \in (f + 1)..Forks : h < ForkHeights[j]
  BY DEF ForksFrom
<1>3. Is(f - 1)
  <2>1. f - 1 \in 0..(Forks - 1) /\ f - 1 + 2 = f + 1
    BY <1>1, <1>2
  <2>2. ASSUME NEW j \in 0..(f - 1) PROVE h >= ForkHeights[j + 1]
    <3>1. j + 1 \in 1..f /\ j + 1 \in 1..Forks
      BY <1>1, <1>2
    <3> QED
      BY <1>1, <1>2, <3>1
  <2>3. ASSUME f - 1 + 1 < Forks PROVE h < ForkHeights[f + 1]
    <3>1. f + 1 \in (f + 1)..Forks
      BY <1>1, <1>2, <2>3
    <3> QED
      BY <1>2, <3>1
  <2> QED
    BY <2>1, <2>2, <2>3
<1>4. ASSUME NEW i, Is(i) PROVE i = f - 1
  <2>1. CASE i < f - 1
    <3>1. i + 2 \in 1..f /\ i + 1 < Forks /\ i + 2 \in 1..Forks
      BY <1>1, <1>2, <1>4, <2>1
    <3>2. h < ForkHeights[i + 2] /\ ForkHeights[i + 2] <= h /\ ForkHeights[i + 2] \in Nat
      BY <1>1, <1>2, <1>4, <3>1
    <3> QED
      BY <3>2
  <2>2. CASE i > f - 1
    <3>1. f \in 0..i /\ f + 1 \in (f + 1)..Forks /\ f + 1 \in 1..Forks
      BY <1>1, <1>2, <1>4, <2>2
    <3>2. h >= ForkHeights[f + 1] /\ h < ForkHeights[f + 1] /\ ForkHeights[f + 1] \in Nat
      BY <1>1, <1>2, <1>4, <3>1
    <3> QED
      BY <3>2
  <2> QED
    BY <1>1, <1>2, <1>4, <2>1, <2>2
<1>5. ForkIndex(h) = CHOOSE i : Is(i)
  BY DEF ForkIndex
<1> HIDE DEF Is
<1> QED
  BY <1>3, <1>4, <1>5

\* So does TrueRules, from 1.
LEMMA TrueRulesAre ==
    ASSUME NEW h \in Nat, NEW f, ForksFrom(h, f)
    PROVE  TrueRules(h) = IF f <= 2 THEN NoHash
                          ELSE IF f - 1 >= FirstReported THEN NodeHash(f - 1) ELSE TableHash(f - 1)
<1> DEFINE begun == {i \in 1..Forks : ForkHeights[i] <= h}
           fork  == CHOOSE i \in begun : \A j \in begun : j <= i
<1>1. Forks \in Nat /\ \A j \in 1..Forks : ForkHeights[j] \in Nat
  BY ForkAssumption DEF Forks
<1>2. f \in 1..Forks /\ (\A j \in 1..f : ForkHeights[j] <= h)
      /\ \A j \in (f + 1)..Forks : h < ForkHeights[j]
  BY DEF ForksFrom
<1>3. f \in begun
  BY <1>1, <1>2
<1>4. ASSUME NEW j \in begun PROVE j <= f
  <2>1. CASE j > f
    <3>1. j \in (f + 1)..Forks
      BY <1>1, <1>2, <2>1
    <3> QED
      BY <1>1, <1>2, <3>1
  <2> QED
    BY <1>2, <2>1
<1>5. \A i \in begun : (\A j \in begun : j <= i) => i = f
  BY <1>2, <1>3, <1>4
<1>6. fork = f
  <2> HIDE DEF begun
  <2> QED
    BY <1>3, <1>4, <1>5
<1>7. TrueRules(h) = IF fork <= 2 THEN NoHash
                     ELSE IF fork - 1 >= FirstReported THEN NodeHash(fork - 1)
                     ELSE TableHash(fork - 1)
  BY DEF TrueRules
<1> HIDE DEF fork
<1> QED
  BY <1>6, <1>7

\* The rules hash chosen is that of the rules in force, unless the node knows
\* more forks than the table.
LEMMA RulesHashIsTrue ==
    ASSUME NEW h \in Nat, known \in 0..(Forks + 1)
    PROVE  LET rules == RulesHash(h, PeerForkHashes)
           IN  /\ rules = BadHash => known > Forks
               /\ rules # BadHash => rules = TrueRules(h) /\ (ForkIndex(h) >= 2 => known <= Forks)
<1>1. Forks \in Nat
  BY ForkAssumption DEF Forks
<1>2. PICK f : ForksFrom(h, f)
  BY LastFork
<1>3. f \in 1..Forks /\ ForkIndex(h) = f - 1
  BY <1>2, ForkIndexIs DEF ForksFrom
<1>4. TrueRules(h) = IF f <= 2 THEN NoHash
                     ELSE IF f - 1 >= FirstReported THEN NodeHash(f - 1) ELSE TableHash(f - 1)
  BY <1>2, TrueRulesAre
<1> DEFINE hashes == PeerForkHashes
<1>5. Len(hashes) = known /\ (hashes = <<>> <=> known = 0)
      /\ \A i \in 1..known : hashes[i] = NodeHash(FirstReported + i - 1)
  BY <1>1 DEF PeerForkHashes
<1>6. RulesHash(h, hashes) =
         IF f - 1 < 2 THEN NoHash
         ELSE IF hashes = <<>> THEN TableHash(f - 1)
         ELSE IF Len(hashes) > Forks THEN BadHash
         ELSE IF f - 1 < Forks - Len(hashes) THEN TableHash(f - 1)
         ELSE hashes[f - 1 - (Forks - Len(hashes)) + 1]
  BY <1>3 DEF RulesHash
<1>7. \A i : NoHash # BadHash /\ NodeHash(i) # BadHash /\ TableHash(i) # BadHash
  BY DEF NoHash, BadHash, NodeHash, TableHash
<1> HIDE DEF hashes
<1>8. CASE f <= 2
  <2>1. f - 1 < 2 /\ ~(ForkIndex(h) >= 2)
    BY <1>3, <1>8
  <2> QED
    BY <1>4, <1>6, <1>7, <1>8, <2>1 DEF hashes
<1>9. CASE f > 2 /\ known = 0
  <2>1. ~(f <= 2) /\ ~(f - 1 < 2) /\ ~(f - 1 >= FirstReported) /\ known <= Forks
    BY <1>1, <1>3, <1>9 DEF FirstReported
  <2> QED
    BY <1>4, <1>5, <1>6, <1>7, <1>9, <2>1 DEF hashes
<1>10. CASE f > 2 /\ known # 0 /\ known > Forks
  <2>1. ~(f - 1 < 2)
    BY <1>3, <1>10
  <2> QED
    BY <1>5, <1>6, <1>10, <2>1 DEF hashes
<1>11. CASE f > 2 /\ known # 0 /\ known <= Forks
  <2>1. ~(f <= 2) /\ ~(f - 1 < 2) /\ ~(known > Forks) /\ FirstReported = Forks - known
    BY <1>1, <1>3, <1>11 DEF FirstReported
  <2>2. CASE f - 1 < Forks - known
    <3>1. ~(f - 1 >= FirstReported)
      BY <1>1, <1>3, <2>1, <2>2
    <3> QED
      BY <1>4, <1>5, <1>6, <1>7, <1>11, <2>1, <2>2, <3>1 DEF hashes
  <2>3. CASE f - 1 >= Forks - known
    <3> DEFINE i == f - 1 - (Forks - known) + 1
    <3>1. ~(f - 1 < Forks - known) /\ i \in 1..known /\ FirstReported + i - 1 = f - 1
      BY <1>1, <1>3, <1>11, <2>1, <2>3
    <3>2. hashes[i] = NodeHash(f - 1)
      BY <1>5, <3>1
    <3>3. RulesHash(h, hashes) = NodeHash(f - 1)
      BY <1>5, <1>6, <1>11, <2>1, <3>1, <3>2
    <3> QED
      BY <1>4, <1>7, <1>11, <2>1, <2>3, <3>3 DEF hashes
  <2> QED
    BY <1>1, <1>3, <2>2, <2>3
<1> QED
  BY <1>1, <1>3, <1>8, <1>9, <1>10, <1>11

-----------------------------------------------------------------------------
(* The loop. *)

\* What the two definitions of order, reversal and sum come to.
LEMMA ChainFacts ==
    ASSUME TypeOK
    PROVE  /\ Len(chain) \in Nat /\ DOMAIN chain = 1..Len(chain) /\ Ascending = chain
           /\ \A k \in 1..Len(chain) :
                 TotalWork[k] = IF k = 1 THEN lowest.chainwork
                                ELSE TotalWork[k - 1] + Work(chain[k])
           /\ Len(headers) \in Nat /\ DOMAIN headers = 1..Len(headers)
           /\ Len(headers) <= Len(chain) /\ lowest.height \in Nat
<1> PICK n : n = Len(chain)
  OBVIOUS
<1>1. n \in Nat /\ DOMAIN chain = 1..n /\ chain \in [1..n -> Difficulties]
  BY DEF TypeOK
<1>2. Ascending = chain
  <2>1. Elements = [i \in 1..n |-> chain[(n - i) + 1]]
    BY <1>1 DEF Elements, Reverse
  <2>2. Len(Elements) = n /\ \A i \in 1..n : Elements[i] = chain[(n - i) + 1]
    BY <1>1, <2>1
  <2>3. Ascending = [i \in 1..n |-> Elements[(n - i) + 1]]
    BY <2>2 DEF Ascending, Reverse
  <2>4. ASSUME NEW i \in 1..n PROVE Elements[(n - i) + 1] = chain[i]
    <3>1. (n - i) + 1 \in 1..n /\ (n - ((n - i) + 1)) + 1 = i
      BY <1>1
    <3> QED
      BY <2>2, <3>1
  <2> QED
    BY <1>1, <2>3, <2>4
<1>3. \A k \in 1..n :
         TotalWork[k] = IF k = 1 THEN lowest.chainwork ELSE TotalWork[k - 1] + Work(chain[k])
  BY <1>1, TotalWorkStep
<1>4. Len(headers) \in Nat /\ DOMAIN headers = 1..Len(headers) /\ Len(headers) <= Len(chain)
      /\ lowest.height \in Nat
  <2>1. headers \in Seq(ToSet(headers)) /\ Len(headers) <= Len(chain)
    BY DEF TypeOK
  <2>2. lowest.height \in Heights
    BY DEF TypeOK
  <2> QED
    <3>1. Heights \subseteq Nat
      BY WidthAssumption
    <3>2. Len(headers) \in Nat /\ DOMAIN headers = 1..Len(headers)
      BY <2>1
    <3> QED
      BY <2>1, <2>2, <3>1, <3>2
<1> QED
  BY <1>1, <1>2, <1>3, <1>4

LEMMA InitInv == Init => IInv
<1> SUFFICES ASSUME Init PROVE IInv
  OBVIOUS
<1>1. PICK n \in 0..MaxHeaders : chain \in [1..n -> Difficulties]
  BY DEF Init
<1>2. n \in Nat /\ chain \in Seq(Difficulties) /\ Len(chain) = n /\ n <= MaxHeaders
      /\ (chain = <<>> <=> n = 0)
  BY <1>1, WidthAssumption
<1>3. headers = <<>> /\ Len(headers) = 0 /\ DOMAIN headers = {}
  BY DEF Init
<1>4. cursor = lowest /\ lowest.height \in Heights /\ lowest.chainwork \in Chainworks
      /\ lowest \in [height: Heights, previous: {"first"}, chainwork: Chainworks]
  BY DEF Init
<1>5. TypeOK
  <2>1. headers \in Seq(ToSet(headers))
    BY <1>3
  <2>2. cursor.height \in Nat
    BY <1>4, WidthAssumption
  <2>3. known \in 0..(Forks + 1) /\ pc \in {"build", "done"}
    BY DEF Init
  <2> QED
    BY <1>2, <1>3, <1>4, <2>1, <2>2, <2>3 DEF TypeOK
<1>6. n # 0 => TotalWork[1] = lowest.chainwork
  BY <1>2, <1>5, ChainFacts
<1>7. n # 0 => ~TooMuch(1)
  <2>1. 2^ChainworkBits \in Int
    BY WidthAssumption
  <2>2. lowest.chainwork \in 0..(2^ChainworkBits - 1)
    BY <1>4, WidthAssumption
  <2> QED
    BY <1>6, <2>1, <2>2 DEF TooMuch
<1>8. CursorInv
  <2>1. pc = IF n = 0 THEN "done" ELSE "build"
    BY <1>2 DEF Init
  <2> QED
    <3>1. CASE n = 0
      BY <1>2, <1>3, <2>1, <3>1 DEF CursorInv
    <3>2. CASE n # 0
      <4>0. lowest.height \in Nat
        BY <1>4, WidthAssumption
      <4>1. 0 < n /\ 0 + 1 = 1 /\ lowest.height + 0 = lowest.height
        BY <1>2, <3>2, <4>0
      <4> QED
        BY <1>2, <1>3, <1>4, <1>6, <1>7, <2>1, <3>2, <4>1 DEF CursorInv
    <3> QED
      BY <3>1, <3>2
<1>9. DecodedIsChain /\ HashedUnderTrueRules /\ RefusedForReason
  <2>1. pc # "raised"
    BY DEF Init
  <2> QED
    BY <1>3, <2>1 DEF DecodedIsChain, HashedUnderTrueRules, RefusedForReason
<1> QED
  BY <1>5, <1>8, <1>9 DEF IInv

\* What a step leaves alone.
LEMMA SameChain ==
    ASSUME UNCHANGED <<chain, lowest, known>>
    PROVE  /\ TotalWork' = TotalWork
           /\ \A k : TooMuch(k)' <=> TooMuch(k)
<1>1. TotalWork' = TotalWork
  BY DEF TotalWork
<1> QED
  BY <1>1 DEF TooMuch

LEMMA BuildInv == IInv /\ Build => IInv'
<1> SUFFICES ASSUME IInv, Build PROVE IInv'
  OBVIOUS
<1> USE DEF IInv
<1>1. UNCHANGED <<chain, lowest, known, cursor>> /\ pc = "build"
  BY DEF Build
<1>2. TotalWork' = TotalWork /\ \A k : TooMuch(k)' <=> TooMuch(k)
  BY <1>1, SameChain
<1> PICK n, l : n = Len(chain) /\ l = Len(headers)
  OBVIOUS
<1>3. n \in Nat /\ l \in Nat /\ DOMAIN headers = 1..l /\ Ascending = chain /\ lowest.height \in Nat
  BY ChainFacts
<1>4. /\ l < n
      /\ cursor.height = lowest.height + l
      /\ cursor.chainwork = TotalWork[l + 1] /\ ~TooMuch(l + 1)
      /\ cursor.previous = IF headers = <<>> THEN lowest.previous ELSE headers[l].hash
  BY <1>1 DEF CursorInv
<1> DEFINE rules == RulesHash(cursor.height, PeerForkHashes)
           element == chain[l + 1]
           r == [at |-> cursor, element |-> element, rules |-> rules,
                 hash |-> BlockHash(cursor, element, rules)]
<1>5. /\ rules = BadHash => known > Forks
      /\ rules # BadHash => rules = TrueRules(cursor.height)
                               /\ (ForkIndex(cursor.height) >= 2 => known <= Forks)
  BY RulesHashIsTrue DEF TypeOK
<1>6. \/ rules = BadHash /\ pc' = "raised" /\ UNCHANGED headers
      \/ /\ rules # BadHash /\ headers' = Append(headers, r)
         /\ pc' = IF Len(headers') = n THEN "done" ELSE "advance"
  BY <1>3 DEF Build
<1>7. CASE rules = BadHash /\ pc' = "raised" /\ UNCHANGED headers
  <2>1. TypeOK'
    BY <1>1, <1>7 DEF TypeOK, ToSet
  <2>2. CursorInv'
    BY <1>7 DEF CursorInv
  <2>3. DecodedIsChain'
    BY <1>1, <1>2, <1>7 DEF DecodedIsChain
  <2>4. HashedUnderTrueRules'
    BY <1>1, <1>7 DEF HashedUnderTrueRules, TrueRules, FirstReported
  <2>5. RefusedForReason'
    BY <1>1, <1>2, <1>5, <1>7 DEF RefusedForReason
  <2> QED
    BY <2>1, <2>2, <2>3, <2>4, <2>5
<1>8. CASE /\ rules # BadHash /\ headers' = Append(headers, r)
           /\ pc' = IF Len(headers') = n THEN "done" ELSE "advance"
  <2> HIDE DEF rules
  <2>1. rules = TrueRules(cursor.height) /\ (ForkIndex(cursor.height) >= 2 => known <= Forks)
    BY <1>5, <1>8
  <2>2. /\ r.at = cursor /\ r.element = element /\ r.rules = rules
    OBVIOUS
  <2> HIDE DEF r
  <2>3. headers \in Seq(ToSet(headers))
    BY DEF TypeOK
  <2>4. /\ Len(headers') = l + 1 /\ DOMAIN headers' = 1..(l + 1)
        /\ headers'[l + 1] = r /\ \A k \in 1..l : headers'[k] = headers[k]
    BY <1>3, <1>8, <2>3
  <2>5. headers' \in Seq(ToSet(headers'))
    <3>1. headers' = [k \in 1..(l + 1) |-> headers'[k]]
      <4>1. headers' \in Seq(ToSet(headers) \cup {r})
        BY <1>8, <2>3
      <4> QED
        BY <2>4, <4>1
    <3>2. \A k \in 1..(l + 1) : headers'[k] \in ToSet(headers')
      BY <2>4 DEF ToSet
    <3> QED
      BY <1>3, <3>1, <3>2
  <2>6. pc' = IF l + 1 = n THEN "done" ELSE "advance"
    BY <1>8, <2>4
  <2>7. TypeOK'
    <3>1. l + 1 <= n
      BY <1>3, <1>4
    <3> QED
      BY <1>1, <2>4, <2>5, <2>6, <3>1 DEF TypeOK
  <2>8. CursorInv'
    <3>1. l + 1 # n => l + 1 < n
      BY <1>3, <1>4
    <3>2. headers' # <<>>
      BY <1>3, <2>4
    <3> QED
      BY <1>1, <2>2, <2>4, <2>6, <3>1, <3>2 DEF CursorInv
  <2>9. \A k \in 1..(l + 1) : k # l + 1 => k \in 1..l
    BY <1>3
  <2>10. DecodedIsChain'
    <3>1. ASSUME NEW k \in 1..l
          PROVE  /\ headers'[k].element = chain[k]
                 /\ headers'[k].at.height = lowest.height + k - 1
                 /\ headers'[k].at.chainwork = TotalWork[k]
                 /\ headers'[k].at.previous = IF k = 1 THEN lowest.previous
                                              ELSE headers'[k - 1].hash
      <4>1. k # 1 => k - 1 \in 1..l
        BY <1>3
      <4> QED
        BY <1>3, <2>4, <4>1 DEF DecodedIsChain
    <3>2. /\ headers'[l + 1].element = chain[l + 1]
          /\ headers'[l + 1].at.height = lowest.height + (l + 1) - 1
          /\ headers'[l + 1].at.chainwork = TotalWork[l + 1]
          /\ headers'[l + 1].at.previous = IF l + 1 = 1 THEN lowest.previous
                                           ELSE headers'[l + 1 - 1].hash
      <4>1. lowest.height + (l + 1) - 1 = lowest.height + l /\ l + 1 - 1 = l
        BY <1>3
      <4>2. headers = <<>> <=> l + 1 = 1
        BY <1>3, <2>3
      <4>3. l + 1 # 1 => l \in 1..l
        BY <1>3
      <4> QED
        BY <1>4, <2>2, <2>4, <4>1, <4>2, <4>3
    <3> QED
      BY <1>1, <1>2, <2>4, <2>9, <3>1, <3>2 DEF DecodedIsChain
  <2>11. HashedUnderTrueRules'
    <3>1. \A h : TrueRules(h)' = TrueRules(h)
      BY <1>1 DEF TrueRules, FirstReported
    <3>2. \A k \in 1..(l + 1) : headers'[k].rules = TrueRules(headers'[k].at.height)
      BY <1>3, <2>1, <2>2, <2>4, <2>9 DEF HashedUnderTrueRules
    <3> QED
      BY <1>1, <2>4, <3>2 DEF HashedUnderTrueRules, TrueRules, FirstReported
  <2>12. RefusedForReason'
    <3>1. \A k \in 1..(l + 1) :
             ~TooMuch(k) /\ (ForkIndex(headers'[k].at.height) >= 2 => known <= Forks)
      BY <1>3, <1>4, <2>1, <2>2, <2>4, <2>9 DEF RefusedForReason
    <3> QED
      BY <1>1, <1>2, <2>4, <2>6, <3>1 DEF RefusedForReason
  <2> QED
    BY <2>7, <2>8, <2>10, <2>11, <2>12
<1> QED
  BY <1>6, <1>7, <1>8

LEMMA AdvanceInv == IInv /\ Advance => IInv'
<1> SUFFICES ASSUME IInv, Advance PROVE IInv'
  OBVIOUS
<1> USE DEF IInv
<1>1. UNCHANGED <<chain, lowest, known, headers>> /\ pc = "advance"
  BY DEF Advance
<1>2. TotalWork' = TotalWork /\ \A k : TooMuch(k)' <=> TooMuch(k)
  BY <1>1, SameChain
<1> PICK n, l : n = Len(chain) /\ l = Len(headers)
  OBVIOUS
<1>3. /\ n \in Nat /\ l \in Nat /\ DOMAIN headers = 1..l /\ Ascending = chain
      /\ lowest.height \in Nat
      /\ \A k \in 1..n : TotalWork[k] = IF k = 1 THEN lowest.chainwork
                                        ELSE TotalWork[k - 1] + Work(chain[k])
  BY ChainFacts
<1>4. headers # <<>> /\ l < n /\ cursor = headers[l].at
  BY <1>1 DEF CursorInv
<1>5. l \in 1..l /\ l + 1 \in 1..n /\ l + 1 # 1 /\ l + 1 - 1 = l
  <2>1. l # 0
    BY <1>3, <1>4 DEF TypeOK
  <2> QED
    BY <1>3, <1>4, <2>1
<1>6. cursor.height = lowest.height + l - 1 /\ cursor.chainwork = TotalWork[l]
  BY <1>3, <1>4, <1>5 DEF DecodedIsChain
<1> DEFINE work == cursor.chainwork + Work(chain[l + 1])
<1>7. work = TotalWork[l + 1]
  BY <1>3, <1>5, <1>6
<1>8. Overflows(work) <=> TooMuch(l + 1)
  BY <1>7 DEF Overflows, TooMuch
<1>9. \/ Overflows(work) /\ pc' = "raised" /\ UNCHANGED cursor
      \/ /\ ~Overflows(work) /\ pc' = "build"
         /\ cursor' = [height |-> cursor.height + 1, previous |-> headers[l].hash,
                       chainwork |-> work]
  BY <1>3 DEF Advance
<1> HIDE DEF work
<1>10. DecodedIsChain'
  BY <1>1, <1>2 DEF DecodedIsChain
<1>11. HashedUnderTrueRules'
  BY <1>1 DEF HashedUnderTrueRules, TrueRules, FirstReported
<1>12. RefusedForReason'
  <2>1. \A k \in DOMAIN headers :
           ~TooMuch(k) /\ (ForkIndex(headers[k].at.height) >= 2 => known <= Forks)
    BY DEF RefusedForReason
  <2>2. pc' = "raised" => TooMuch(l + 1)
    BY <1>8, <1>9
  <2> QED
    BY <1>1, <1>2, <2>1, <2>2 DEF RefusedForReason
<1>13. cursor'.height \in Nat
  <2>1. cursor.height \in Nat /\ cursor.height + 1 \in Nat
    BY DEF TypeOK
  <2> QED
    BY <1>9, <2>1
<1>14. TypeOK'
  BY <1>1, <1>9, <1>13 DEF TypeOK, ToSet
<1>15. CursorInv'
  <2>1. CASE pc' = "raised"
    BY <2>1 DEF CursorInv
  <2>2. CASE /\ ~Overflows(work) /\ pc' = "build"
             /\ cursor' = [height |-> cursor.height + 1, previous |-> headers[l].hash,
                           chainwork |-> work]
    <3>1. /\ cursor'.height = lowest.height + l
          /\ cursor'.chainwork = TotalWork[l + 1] /\ ~TooMuch(l + 1)
          /\ cursor'.previous = headers[l].hash
      <4>0. l \in Nat /\ lowest.height \in Nat
        BY <1>3
      <4>1. (lowest.height + l - 1) + 1 = lowest.height + l
        BY <4>0
      <4>2. cursor'.height = cursor.height + 1 /\ cursor'.chainwork = work
            /\ cursor'.previous = headers[l].hash
        BY <2>2
      <4> QED
        BY <1>6, <1>7, <1>8, <2>2, <4>1, <4>2
    <3> QED
      BY <1>1, <1>2, <1>4, <2>2, <3>1 DEF CursorInv
  <2> QED
    BY <1>9, <2>1, <2>2
<1> QED
  BY <1>10, <1>11, <1>12, <1>14, <1>15

LEMMA StutterInv == IInv /\ UNCHANGED vars => IInv'
<1> SUFFICES ASSUME IInv, UNCHANGED vars PROVE IInv'
  OBVIOUS
<1>1. UNCHANGED <<chain, lowest, known, cursor, headers, pc>>
  BY DEF vars
<1>2. TotalWork' = TotalWork /\ \A k : TooMuch(k)' <=> TooMuch(k)
  BY <1>1, SameChain
<1>3. TypeOK' /\ CursorInv'
  BY <1>1, <1>2 DEF IInv, TypeOK, CursorInv, ToSet
<1>4. DecodedIsChain' /\ RefusedForReason'
  BY <1>1, <1>2 DEF IInv, DecodedIsChain, RefusedForReason
<1>5. HashedUnderTrueRules'
  BY <1>1 DEF IInv, HashedUnderTrueRules, TrueRules, FirstReported
<1> QED
  BY <1>3, <1>4, <1>5 DEF IInv

-----------------------------------------------------------------------------
(* The theorems. *)

\* The loop's variables are consistent with each other: _build_block_header
\* is always called with the cursor of the next element.
THEOREM Inductive == Spec => []IInv
<1>1. IInv /\ [Next]_vars => IInv'
  BY BuildInv, AdvanceInv, StutterInv DEF Next
<1> QED
  BY InitInv, <1>1, PTL DEF Spec

\* deserialize_header_pack_payloads reconstructs the node's chain: heights,
\* links and chainwork.
THEOREM ChainDecoded == Spec => []DecodedIsChain
<1>1. IInv => DecodedIsChain
  BY DEF IInv
<1> QED
  BY Inductive, <1>1, PTL

\* _get_rules_hash chooses the rules in force, also in a pack that crosses
\* one fork or several.
THEOREM RulesOfHeight == Spec => []HashedUnderTrueRules
<1>1. IInv => HashedUnderTrueRules
  BY DEF IInv
<1> QED
  BY Inductive, <1>1, PTL

\* A pack is refused only for a chainwork that does not fit, or for a node
\* that knows forks the table does not, and then it is.
THEOREM Refusal == Spec => []RefusedForReason
<1>1. IInv => RefusedForReason
  BY DEF IInv
<1> QED
  BY Inductive, <1>1, PTL

-----------------------------------------------------------------------------
(* Bytes of a number. *)

LEMMA ByteQuotient ==
    ASSUME NEW a \in Nat
    PROVE  /\ a \div 256 \in Nat /\ a % 256 \in 0..255
           /\ a = 256 * (a \div 256) + (a % 256)
           /\ a # 0 => a \div 256 < a
OBVIOUS

\* The defining equations of HighBytes.
LEMMA HighStep ==
    ASSUME NEW v \in Nat
    PROVE  /\ HighBytes(v, 0) = v
           /\ \A n \in Nat : HighBytes(v, n) \in Nat
           /\ \A n \in Nat \ {0} : HighBytes(v, n) = HighBytes(v, n - 1) \div 256
<1> DEFINE Def(f) == f = [k \in Nat |-> IF k = 0 THEN v ELSE f[k - 1] \div 256]
           op == [p \in (Nat \ {0}) \X Nat |-> p[2] \div 256]
<1>1. op \in [(Nat \ {0}) \X Nat -> Nat]
  BY ByteQuotient
<1>2. PICK o : o = op /\ o \in [(Nat \ {0}) \X Nat -> Nat]
  BY <1>1
<1>3. PICK f \in [Nat -> Nat] : Computes(f, Nat, v, o)
  BY <1>2, NaturalRecursion
<1>4. \A k \in Nat \ {0} : o[<<k, f[k - 1]>>] = f[k - 1] \div 256
  BY <1>2
<1>5. Def(f)
  BY <1>3, <1>4 DEF Computes
<1>6. PICK g : g = CHOOSE h : Def(h)
  OBVIOUS
<1>7. Def(g)
  BY <1>5, <1>6
<1>8. \A n : HighBytes(v, n) = g[n]
  BY <1>6 DEF HighBytes
<1>9. g[0] = v /\ \A n \in Nat \ {0} : g[n] = g[n - 1] \div 256
  BY <1>7
<1>10. \A n \in Nat : g[n] \in Nat
  <2>1. PICK T : T = {n \in Nat : g[n] \notin Nat}
    OBVIOUS
  <2>2. SUFFICES ASSUME T # {} PROVE FALSE
    BY <2>1
  <2>3. PICK n \in T : \A y \in T : n <= y
    BY <2>1, <2>2, LeastNatural
  <2>4. n # 0 /\ n \in Nat
    BY <1>9, <2>1
  <2>5. n - 1 \in Nat /\ n - 1 \notin T
    BY <2>3, <2>4
  <2>6. g[n - 1] \in Nat
    BY <2>1, <2>5
  <2>7. g[n] \in Nat
    BY <1>9, <2>4, <2>6, ByteQuotient
  <2> QED
    BY <2>1, <2>7
<1> QED
  BY <1>8, <1>9, <1>10

\* A byte is shifted off the end at each step, until nothing is left.
LEMMA HighVanishes ==
    ASSUME NEW v \in Nat
    PROVE  /\ \A n \in Nat : HighBytes(v, n) <= v
           /\ \A n \in Nat : n > v => HighBytes(v, n) = 0
           /\ \A m, n \in Nat : m <= n /\ HighBytes(v, m) = 0 => HighBytes(v, n) = 0
<1> DEFINE h(n) == HighBytes(v, n)
<1>0. /\ h(0) = v /\ \A n \in Nat : h(n) \in Nat
      /\ \A n \in Nat \ {0} : h(n) = h(n - 1) \div 256
  BY HighStep
<1> HIDE DEF h
<1>1. \A n \in Nat : h(n) <= v /\ (h(n) # 0 => h(n) + n <= v)
  <2>1. PICK T : T = {n \in Nat : ~(h(n) <= v /\ (h(n) # 0 => h(n) + n <= v))}
    OBVIOUS
  <2>2. SUFFICES ASSUME T # {} PROVE FALSE
    BY <2>1
  <2>3. PICK n \in T : \A y \in T : n <= y
    BY <2>1, <2>2, LeastNatural
  <2>4. n # 0 /\ n \in Nat
    BY <1>0, <2>1
  <2>5. n - 1 \in Nat /\ n - 1 \notin T
    BY <2>3, <2>4
  <2>6. h(n - 1) <= v /\ (h(n - 1) # 0 => h(n - 1) + (n - 1) <= v)
    BY <2>1, <2>5
  <2>7. h(n - 1) \in Nat /\ h(n) \in Nat /\ h(n) = h(n - 1) \div 256
    BY <1>0, <2>4, <2>5
  <2>8. h(n - 1) # 0 => h(n) < h(n - 1)
    BY <2>7, ByteQuotient
  <2>9. h(n - 1) = 0 => h(n) = 0
    BY <2>7
  <2>10. h(n) <= v /\ (h(n) # 0 => h(n) + n <= v)
    BY <2>4, <2>6, <2>7, <2>8, <2>9
  <2> QED
    BY <2>1, <2>10
<1>2. ASSUME NEW n \in Nat, n > v PROVE h(n) = 0
  BY <1>0, <1>1, <1>2
<1>3. ASSUME NEW m \in Nat, NEW n \in Nat, m <= n, h(m) = 0 PROVE h(n) = 0
  <2>1. PICK T : T = {k \in Nat : k >= m /\ h(k) # 0}
    OBVIOUS
  <2>2. SUFFICES ASSUME T # {} PROVE FALSE
    BY <1>3, <2>1
  <2>3. PICK k \in T : \A y \in T : k <= y
    BY <2>1, <2>2, LeastNatural
  <2>4. k \in Nat \ {0} /\ k - 1 \in Nat /\ k - 1 >= m /\ h(k) # 0
    BY <1>3, <2>1
  <2>5. h(k - 1) = 0
    BY <2>1, <2>3, <2>4
  <2> QED
    BY <1>0, <2>4, <2>5
<1> QED
  BY <1>1, <1>2, <1>3 DEF h

\* Values are told apart by as many bytes as they have, and by no fewer.
LEMMA ByteCountIs ==
    ASSUME NEW v \in Nat
    PROVE  /\ ByteCount(v) \in Nat \ {0} /\ HighBytes(v, ByteCount(v)) = 0
           /\ \A n \in Nat \ {0} : HighBytes(v, n) = 0 => ByteCount(v) <= n
<1> DEFINE Tight(size) == HighBytes(v, size) = 0 /\ (size > 1 => HighBytes(v, size - 1) # 0)
<1>1. PICK T : T = {n \in Nat \ {0} : HighBytes(v, n) = 0}
  OBVIOUS
<1>2. v + 1 \in T
  BY <1>1, HighVanishes
<1>3. PICK n \in T : \A y \in T : n <= y
  BY <1>1, <1>2, LeastNatural
<1>4. n \in 1..(v + 1) /\ HighBytes(v, n) = 0
  BY <1>1, <1>2, <1>3
<1>5. n > 1 => HighBytes(v, n - 1) # 0
  <2>1. SUFFICES ASSUME n > 1, HighBytes(v, n - 1) = 0 PROVE FALSE
    OBVIOUS
  <2>2. n - 1 \in T
    BY <1>1, <1>4, <2>1
  <2> QED
    BY <1>3, <1>4, <2>2
<1>6. \E size \in 1..(v + 1) : Tight(size)
  BY <1>4, <1>5
<1>7. ByteCount(v) = CHOOSE size \in 1..(v + 1) : Tight(size)
  BY DEF ByteCount
<1> HIDE DEF Tight
<1>8. ByteCount(v) \in 1..(v + 1) /\ Tight(ByteCount(v))
  BY <1>6, <1>7
<1>9. ASSUME NEW m \in Nat \ {0}, HighBytes(v, m) = 0 PROVE ByteCount(v) <= m
  <2>1. SUFFICES ASSUME m < ByteCount(v) PROVE FALSE
    BY <1>8
  <2>2. ByteCount(v) > 1 /\ ByteCount(v) - 1 \in Nat /\ m <= ByteCount(v) - 1
    BY <1>8, <2>1
  <2>3. HighBytes(v, ByteCount(v) - 1) = 0
    BY <1>9, <2>2, HighVanishes
  <2> QED
    BY <1>8, <2>2, <2>3 DEF Tight
<1> QED
  BY <1>8, <1>9 DEF Tight

-----------------------------------------------------------------------------
(* Numbers from bytes. *)

LEMMA HugeIs == Huge \in Nat
BY HugeAssumption

LEMMA ByteIs ==
    /\ \A b \in Byte : b \in Nat /\ b <= 255
    /\ \A b \in Nat : b <= 255 => b \in Byte
BY DEF Byte

LEMMA NextByte ==
    ASSUME NEW a \in Nat, NEW b \in Nat, NEW c \in Nat, NEW d \in Nat,
           c < b, d <= 256 * c + 255, a >= 256 * b
    PROVE  d < a
OBVIOUS

\* The number that bytes stand for can be followed byte by byte.
LEMMA BigEndianIs ==
    ASSUME NEW s \in Seq(Byte), NEW g \in [0..Len(s) -> Nat], g[0] = 0,
           \A k \in 1..Len(s) : g[k] = Saturated(256 * g[k - 1] + s[k])
    PROVE  BigEndian(s) = g[Len(s)]
<1> DEFINE Def(f) == f = [k \in 0..Len(s) |-> IF k = 0 THEN 0 ELSE Saturated(256 * f[k - 1] + s[k])]
<1>0. Len(s) \in Nat
  OBVIOUS
<1>1. Def(g)
  <2>1. ASSUME NEW k \in 0..Len(s)
        PROVE  g[k] = IF k = 0 THEN 0 ELSE Saturated(256 * g[k - 1] + s[k])
    BY <1>0
  <2>2. g = [k \in 0..Len(s) |-> g[k]]
    OBVIOUS
  <2> QED
    BY <2>1, <2>2
<1>2. PICK f : f = CHOOSE h : Def(h)
  OBVIOUS
<1>3. Def(f)
  BY <1>1, <1>2
<1>4. BigEndian(s) = f[Len(s)]
  BY <1>2 DEF BigEndian
<1>5. PICK T : T = {k \in 0..Len(s) : f[k] # g[k]}
  OBVIOUS
<1>6. T = {}
  <2>1. SUFFICES ASSUME T # {} PROVE FALSE
    OBVIOUS
  <2>2. T \subseteq Nat
    BY <1>5
  <2>3. PICK k \in T : \A y \in T : k <= y
    BY <2>1, <2>2, LeastNatural
  <2>4. k \in 0..Len(s) /\ f[k] # g[k]
    BY <1>5
  <2>5. k # 0
    BY <1>3, <2>4
  <2>6. k - 1 \in 0..Len(s) /\ ~(k <= k - 1)
    BY <2>4, <2>5
  <2>7. f[k - 1] = g[k - 1]
    BY <1>5, <2>3, <2>6
  <2>8. f[k] = Saturated(256 * f[k - 1] + s[k])
    BY <1>3, <2>4, <2>5
  <2>9. k \in 1..Len(s)
    BY <2>4, <2>5
  <2> QED
    BY <2>4, <2>7, <2>8, <2>9
<1> QED
  BY <1>0, <1>4, <1>5, <1>6

\* There is such a function.
LEMMA BigEndianSteps ==
    ASSUME NEW s \in Seq(Byte)
    PROVE  \E g \in [0..Len(s) -> Nat] :
               /\ g[0] = 0 /\ g[Len(s)] = BigEndian(s)
               /\ \A k \in 1..Len(s) : g[k] = Saturated(256 * g[k - 1] + s[k])
<1> DEFINE t == [k \in Nat \ {0} |-> IF k \in 1..Len(s) THEN s[k] ELSE 0]
           op == [p \in (Nat \ {0}) \X Nat |-> Saturated(256 * p[2] + t[p[1]])]
<1>0. Len(s) \in Nat
  OBVIOUS
<1>1. ASSUME NEW p \in (Nat \ {0}) \X Nat PROVE Saturated(256 * p[2] + t[p[1]]) \in Nat
  <2>0. p[1] \in Nat \ {0} /\ p[2] \in Nat
    OBVIOUS
  <2>1. t[p[1]] \in Nat /\ p[2] \in Nat
    <3>1. \A k \in 1..Len(s) : s[k] \in Nat
      BY <1>0, ByteIs
    <3>2. \A k \in Nat \ {0} : (IF k \in 1..Len(s) THEN s[k] ELSE 0) \in Nat
      BY <3>1
    <3> QED
      BY <2>0, <3>2
  <2> HIDE DEF t
  <2>2. 256 * p[2] + t[p[1]] \in Nat
    BY <2>1
  <2> QED
    BY <2>2, HugeIs DEF Saturated
<1>2. op \in [(Nat \ {0}) \X Nat -> Nat]
  BY <1>1
<1>3. \A k \in 1..Len(s), n \in Nat : op[<<k, n>>] = Saturated(256 * n + s[k])
  BY <1>0
<1> HIDE DEF op
<1>4. PICK g \in [0..Len(s) -> Nat] : Computes(g, 0..Len(s), 0, op)
  BY <1>0, <1>2, FiniteRecursion
<1>5. g[0] = 0
  BY <1>0, <1>4 DEF Computes
<1>6. ASSUME NEW k \in 1..Len(s) PROVE g[k] = Saturated(256 * g[k - 1] + s[k])
  <2>1. k \in 0..Len(s) /\ k # 0 /\ k - 1 \in 0..Len(s)
    BY <1>0
  <2>2. g[k] = op[<<k, g[k - 1]>>]
    BY <1>4, <2>1 DEF Computes
  <2>3. g[k - 1] \in Nat
    BY <2>1
  <2> QED
    BY <1>3, <2>2, <2>3
<1>7. BigEndian(s) = g[Len(s)]
  BY <1>5, <1>6, BigEndianIs
<1> QED
  BY <1>5, <1>6, <1>7

\* Bytes that are those of a number stand for it ...
LEMMA DigitsRead ==
    ASSUME NEW s \in Seq(Byte), NEW v \in Nat
    PROVE  (/\ v < Huge /\ HighBytes(v, Len(s)) = 0
            /\ \A k \in 1..Len(s) : s[k] = HighBytes(v, Len(s) - k) % 256)
           => BigEndian(s) = v
<1> DEFINE g == [k \in 0..Len(s) |-> HighBytes(v, Len(s) - k)]
<1>0. Len(s) \in Nat
  OBVIOUS
<1>1. SUFFICES ASSUME v < Huge /\ HighBytes(v, Len(s)) = 0,
                      \A k \in 1..Len(s) : s[k] = HighBytes(v, Len(s) - k) % 256
               PROVE  /\ g \in [0..Len(s) -> Nat] /\ g[0] = 0 /\ g[Len(s)] = v
                      /\ \A k \in 1..Len(s) : g[k] = Saturated(256 * g[k - 1] + s[k])
  <2>1. ASSUME /\ g \in [0..Len(s) -> Nat] /\ g[0] = 0 /\ g[Len(s)] = v
               /\ \A k \in 1..Len(s) : g[k] = Saturated(256 * g[k - 1] + s[k])
        PROVE  BigEndian(s) = v
    <3> HIDE DEF g
    <3> QED
      BY <2>1, BigEndianIs
  <2> QED
    BY <2>1
<1>2. g \in [0..Len(s) -> Nat]
  <2>1. \A k \in 0..Len(s) : Len(s) - k \in Nat
    BY <1>0
  <2> QED
    BY <2>1, HighStep
<1>3. g[0] = 0 /\ g[Len(s)] = v
  <2>1. Len(s) - 0 = Len(s) /\ Len(s) - Len(s) = 0 /\ 0 \in 0..Len(s) /\ Len(s) \in 0..Len(s)
    BY <1>0
  <2> QED
    BY <1>1, <2>1, HighStep
<1>4. ASSUME NEW k \in 1..Len(s) PROVE g[k] = Saturated(256 * g[k - 1] + s[k])
  <2> PICK a : a = HighBytes(v, Len(s) - k)
    OBVIOUS
  <2>1. Len(s) - k \in Nat /\ k \in 0..Len(s) /\ k - 1 \in 0..Len(s)
        /\ Len(s) - (k - 1) \in Nat \ {0} /\ Len(s) - (k - 1) - 1 = Len(s) - k
    BY <1>0
  <2>2. a \in Nat /\ a <= v
    BY <2>1, HighStep, HighVanishes
  <2>3. g[k] = a /\ s[k] = a % 256
    BY <1>1, <2>1
  <2>4. g[k - 1] = a \div 256
    <3>1. g[k - 1] = HighBytes(v, Len(s) - (k - 1))
      BY <2>1
    <3> QED
      BY <2>1, <3>1, HighStep
  <2>5. a = 256 * (a \div 256) + (a % 256)
    BY <2>2, ByteQuotient
  <2>6. Saturated(a) = a
    BY <1>1, <2>2, HugeIs DEF Saturated
  <2> QED
    BY <2>3, <2>4, <2>5, <2>6
<1> QED
  BY <1>2, <1>3, <1>4

\* ... from the lowest on as well.
LEMMA LowDigitsRead ==
    ASSUME NEW s \in Seq(Byte), NEW v \in Nat
    PROVE  (/\ v < Huge /\ HighBytes(v, Len(s)) = 0
            /\ \A k \in 1..Len(s) : s[k] = HighBytes(v, k - 1) % 256)
           => LittleEndian(s) = v
<1> PICK r, L : r = Reverse(s) /\ L = Len(s)
  OBVIOUS
<1>0. L \in Nat
  OBVIOUS
<1>1. r = [i \in 1..L |-> s[(L - i) + 1]]
  BY DEF Reverse
<1>2. \A i \in 1..L : (L - i) + 1 \in 1..L /\ (L - i) + 1 - 1 = L - i
  BY <1>0
<1>3. r \in Seq(Byte) /\ Len(r) = L
  BY <1>0, <1>1, <1>2
<1>4. ASSUME v < Huge, HighBytes(v, L) = 0, \A k \in 1..L : s[k] = HighBytes(v, k - 1) % 256
      PROVE  BigEndian(r) = v
  <2>1. \A k \in 1..L : r[k] = HighBytes(v, L - k) % 256
    BY <1>1, <1>2, <1>4
  <2> QED
    BY <1>3, <1>4, <2>1, DigitsRead
<1> QED
  BY <1>4 DEF LittleEndian

\* The numbers told apart fit as many bytes as are needed for Huge.
LEMMA FitsBytes ==
    ASSUME NEW n \in Nat, NEW v \in Nat
    PROVE  BigEndian(Bytes(255, n)) = Huge /\ v < Huge => HighBytes(v, n) = 0
<1> PICK s : s = Bytes(255, n)
  OBVIOUS
<1>0. SUFFICES ASSUME BigEndian(s) = Huge, v < Huge PROVE HighBytes(v, n) = 0
  OBVIOUS
<1>1. s \in Seq(Byte) /\ Len(s) = n /\ \A k \in 1..n : s[k] = 255
  BY ByteIs DEF Bytes
<1>2. PICK f \in [0..n -> Nat] : /\ f[0] = 0 /\ f[n] = Huge
                                 /\ \A k \in 1..n : f[k] = Saturated(256 * f[k - 1] + s[k])
  BY <1>0, <1>1, BigEndianSteps
<1>3. SUFFICES ASSUME HighBytes(v, n) # 0 PROVE FALSE
  OBVIOUS
<1>4. PICK T : T = {k \in 0..n : ~(f[k] < HighBytes(v, n - k))}
  OBVIOUS
<1>5. n \in T
  <2>1. n - n = 0 /\ HighBytes(v, n - n) = v /\ n \in 0..n
    BY <1>0, HighStep
  <2> QED
    BY <1>0, <1>2, <1>4, <2>1, HugeIs
<1>6. PICK k \in T : \A y \in T : k <= y
  <2>1. T \subseteq Nat
    BY <1>4
  <2> QED
    BY <1>5, <2>1, LeastNatural
<1>7. k \in 0..n /\ ~(f[k] < HighBytes(v, n - k))
  BY <1>4
<1>8. k # 0
  <2>1. n - 0 = n /\ HighBytes(v, n) \in Nat
    BY <1>0, HighStep
  <2> QED
    BY <1>2, <1>3, <1>7, <2>1
<1>9. k - 1 \in 0..n /\ k - 1 \notin T /\ k \in 1..n
  BY <1>6, <1>7, <1>8
<1> PICK a, b, c, d : /\ a = HighBytes(v, n - k) /\ b = HighBytes(v, n - (k - 1))
                      /\ c = f[k - 1] /\ d = f[k]
  OBVIOUS
<1>10. c < b
  BY <1>4, <1>9
<1>11. n - k \in Nat /\ n - (k - 1) \in Nat \ {0} /\ n - (k - 1) - 1 = n - k
  BY <1>9
<1>12. a \in Nat /\ b \in Nat /\ b = a \div 256 /\ c \in Nat /\ d \in Nat
  BY <1>0, <1>9, <1>11, HighStep
<1>13. d = Saturated(256 * c + 255)
  <2>1. s[k] = 255 /\ f[k] = Saturated(256 * f[k - 1] + s[k])
    BY <1>1, <1>2, <1>9
  <2> QED
    BY <2>1
<1>14. d <= 256 * c + 255
  BY <1>12, <1>13, HugeIs DEF Saturated
<1>15. a >= 256 * b
  BY <1>12, ByteQuotient
<1>16. d < a
  <2>1. a \in Nat /\ b \in Nat /\ c \in Nat /\ d \in Nat
    BY <1>12
  <2> QED
    BY <1>10, <1>14, <1>15, <2>1, NextByte
<1> QED
  BY <1>7, <1>16

-----------------------------------------------------------------------------
(* Compact integers. *)

\* The bytes of v, the lowest first, as many as w.
LowBytes(v, w) == [i \in 1..w |-> HighBytes(v, i - 1) % 256]

LEMMA LowBytesType ==
    ASSUME NEW v \in Nat, NEW w \in Nat
    PROVE  LowBytes(v, w) \in Seq(Byte) /\ Len(LowBytes(v, w)) = w
<1>1. ASSUME NEW i \in 1..w PROVE HighBytes(v, i - 1) % 256 \in Byte
  <2>1. HighBytes(v, i - 1) \in Nat
    BY HighStep
  <2>2. HighBytes(v, i - 1) % 256 \in 0..255
    BY <2>1, ByteQuotient
  <2> QED
    BY <2>2, ByteIs
<1> QED
  BY <1>1 DEF LowBytes

\* A head, which says how many bytes follow, and these bytes.
Counted(s, head, v, w) ==
    /\ s \in Seq(Byte) /\ Len(s) = w + 1 /\ s[1] = head
    /\ \A i \in 1..w : s[i + 1] = HighBytes(v, i - 1) % 256

LEMMA CountedBytes ==
    ASSUME NEW v \in Nat, NEW w \in Nat, NEW head \in Byte
    PROVE  Counted(<<head>> \o LowBytes(v, w), head, v, w)
<1> PICK t, s : t = LowBytes(v, w) /\ s = <<head>> \o t
  OBVIOUS
<1>1. t \in Seq(Byte) /\ Len(t) = w
  BY LowBytesType
<1>2. \A i \in 1..w : t[i] = HighBytes(v, i - 1) % 256
  BY DEF LowBytes
<1>3. s \in Seq(Byte) /\ Len(s) = w + 1 /\ s[1] = head /\ \A i \in 1..w : s[i + 1] = t[i]
  BY <1>1
<1> QED
  BY <1>2, <1>3 DEF Counted

\* No integer has more than eight bytes.
LEMMA EightBytes ==
    ASSUME NEW v \in Nat, v < Huge
    PROVE  /\ ByteCount(v) \in 1..8 /\ HighBytes(v, ByteCount(v)) = 0
           /\ ToBytes(v) = LowBytes(v, ByteCount(v))
<1>1. HighBytes(v, 8) = 0
  BY HugeAssumption, FitsBytes
<1>2. ByteCount(v) \in Nat \ {0} /\ HighBytes(v, ByteCount(v)) = 0 /\ ByteCount(v) <= 8
  BY <1>1, ByteCountIs
<1> QED
  BY <1>2 DEF ToBytes, LowBytes

\* What the forms of an unsigned integer are.
Unsigned1(s, v) == v < 128 /\ s \in Seq(Byte) /\ Len(s) = 1 /\ s[1] = 128 + v

IsUnsigned(s, v) ==
    \/ s = EncodeUint(v)
    \/ \E width \in 0..127 : HighBytes(v, width) = 0 /\ s = LongForm(v, width)

LEMMA UnsignedForm ==
    ASSUME NEW v \in Nat, v < Huge, NEW s, IsUnsigned(s, v)
    PROVE  Unsigned1(s, v) \/ \E w \in 0..127 : HighBytes(v, w) = 0 /\ Counted(s, w, v, w)
<1>1. ASSUME NEW w \in 0..127 PROVE Counted(<<w>> \o LowBytes(v, w), w, v, w)
  <2>1. w \in Nat /\ w \in Byte
    BY ByteIs
  <2> QED
    BY <2>1, CountedBytes
<1>2. CASE s = EncodeUint(v) /\ v < 128
  <2>1. s = <<128 + v>> /\ 128 + v \in Byte
    BY <1>2, ByteIs DEF EncodeUint
  <2> QED
    BY <1>2, <2>1 DEF Unsigned1
<1>3. CASE s = EncodeUint(v) /\ ~(v < 128)
  <2> PICK w : w = ByteCount(v)
    OBVIOUS
  <2>1. w \in 1..8 /\ HighBytes(v, w) = 0 /\ ToBytes(v) = LowBytes(v, w)
    BY EightBytes
  <2>2. s = <<w>> \o LowBytes(v, w) /\ w \in 0..127
    BY <1>3, <2>1 DEF EncodeUint
  <2> QED
    BY <1>1, <2>1, <2>2
<1>4. ASSUME NEW w \in 0..127 PROVE LongForm(v, w) = <<w>> \o LowBytes(v, w)
  BY DEF LongForm, LowBytes
<1>5. CASE \E width \in 0..127 : HighBytes(v, width) = 0 /\ s = LongForm(v, width)
  <2>1. PICK w \in 0..127 : HighBytes(v, w) = 0 /\ s = LongForm(v, w)
    BY <1>5
  <2>2. Counted(s, w, v, w)
    BY <1>1, <1>4, <2>1
  <2> QED
    BY <2>1, <2>2
<1> QED
  BY <1>2, <1>3, <1>5 DEF IsUnsigned

\* What the forms of a signed one are.
Signed1(s, size, sign) == size < 64 /\ s \in Seq(Byte) /\ Len(s) = 1 /\ s[1] = sign + 64 + size

Size(v) == IF v < 0 THEN -v ELSE v
Sign(v) == IF v < 0 THEN 128 ELSE 0

LEMMA SignedForm ==
    ASSUME NEW v \in Int, -Huge < v, v < Huge
    PROVE  /\ Size(v) \in Nat /\ Size(v) < Huge /\ Sign(v) \in {0, 128}
           /\ \/ Signed1(WriteVarInt(v), Size(v), Sign(v))
              \/ \E w \in 1..8 : /\ HighBytes(Size(v), w) = 0
                                 /\ Counted(WriteVarInt(v), Sign(v) + w, Size(v), w)
<1> PICK size, sign, s : size = Size(v) /\ sign = Sign(v) /\ s = WriteVarInt(v)
  OBVIOUS
<1>0. size \in Nat /\ size < Huge /\ sign \in {0, 128}
  BY HugeIs DEF Size, Sign
<1>1. s = IF size < 64 THEN <<sign + 64 + size>> ELSE <<sign + ByteCount(size)>> \o ToBytes(size)
  BY DEF WriteVarInt, Size, Sign
<1>2. CASE size < 64
  <2>1. s = <<sign + 64 + size>> /\ sign + 64 + size \in Byte
    BY <1>0, <1>1, <1>2, ByteIs
  <2> QED
    BY <1>0, <1>2, <2>1 DEF Signed1
<1>3. CASE ~(size < 64)
  <2> PICK w, head : w = ByteCount(size) /\ head = sign + w
    OBVIOUS
  <2>1. w \in 1..8 /\ HighBytes(size, w) = 0 /\ ToBytes(size) = LowBytes(size, w)
    BY <1>0, EightBytes
  <2>2. s = <<head>> \o LowBytes(size, w)
    BY <1>1, <1>3, <2>1
  <2>3. w \in Nat /\ head \in Byte
    BY <1>0, <2>1, ByteIs
  <2>4. Counted(s, head, size, w)
    BY <1>0, <2>2, <2>3, CountedBytes
  <2> QED
    BY <1>0, <2>1, <2>4
<1> QED
  BY <1>2, <1>3

\* What has been written at a place of a buffer, as far as that goes.
Inside(s, b, from) == \A i \in DOMAIN s : from + i <= Len(b) => b[from + i] = s[i]

\* The bytes behind a head stand for their number.
LEMMA BytesInside ==
    ASSUME NEW b \in Seq(Byte), NEW from \in Nat, NEW w \in Nat, NEW v \in Nat, NEW s, NEW head
    PROVE  v < Huge /\ HighBytes(v, w) = 0 /\ from + 1 + w <= Len(b)
           /\ Counted(s, head, v, w) /\ Inside(s, b, from)
           => LittleEndian(SubSeq(b, from + 1 + 1, from + 1 + w)) = v
<1> PICK t : t = SubSeq(b, from + 1 + 1, from + 1 + w)
  OBVIOUS
<1>1. from + 1 + w <= Len(b) =>
          t \in Seq(Byte) /\ Len(t) = w /\ \A i \in 1..w : t[i] = b[from + 1 + i]
  OBVIOUS
<1>2. ASSUME v < Huge, HighBytes(v, w) = 0, from + 1 + w <= Len(b),
             Counted(s, head, v, w), Inside(s, b, from)
      PROVE  LittleEndian(t) = v
  <2>1. ASSUME NEW i \in 1..w PROVE t[i] = HighBytes(v, i - 1) % 256
    <3>1. i + 1 \in DOMAIN s /\ s[i + 1] = HighBytes(v, i - 1) % 256
      BY <1>2 DEF Counted
    <3>2. from + (i + 1) <= Len(b) /\ from + (i + 1) = from + 1 + i
      BY <1>2
    <3>3. b[from + 1 + i] = s[i + 1]
      BY <1>2, <3>1, <3>2 DEF Inside
    <3> QED
      BY <1>1, <1>2, <3>1, <3>3
  <2> QED
    BY <1>1, <1>2, <2>1, LowDigitsRead
<1> QED
  BY <1>2

\* Reading what is there in full gives the number and the place behind it, and
\* reading what is not fails.
Reads(read, s, b, from, v) ==
    IF from + Len(s) <= Len(b) THEN read = [pos |-> from + Len(s) + 1, value |-> v]
    ELSE read.pos = Failed

LEMMA UnsignedRead ==
    ASSUME NEW v \in Nat, v < Huge, NEW s, IsUnsigned(s, v),
           NEW b \in Seq(Byte), NEW from \in Nat, from <= Len(b), Inside(s, b, from)
    PROVE  Len(s) \in Nat \ {0} /\ Reads(DecodeUint(b, from + 1), s, b, from, v)
<1>0. Len(b) \in Nat
  OBVIOUS
<1>1. CASE from = Len(b)
  <2>1. from + 1 \notin DOMAIN b
    BY <1>0, <1>1
  <2>2. DecodeUint(b, from + 1).pos = Failed
    BY <2>1 DEF DecodeUint
  <2>3. Len(s) \in Nat \ {0}
    <3>1. CASE Unsigned1(s, v)
      BY <3>1 DEF Unsigned1
    <3>2. ASSUME NEW w \in 0..127, Counted(s, w, v, w) PROVE Len(s) \in Nat \ {0}
      BY <3>2 DEF Counted
    <3> QED
      BY <3>1, <3>2, UnsignedForm
  <2>4. ~(from + Len(s) <= Len(b))
    BY <1>0, <1>1, <2>3
  <2> QED
    BY <2>2, <2>3, <2>4 DEF Reads
<1>2. CASE from # Len(b)
  <2>1. from + 1 \in DOMAIN b /\ from + 1 <= Len(b)
    BY <1>0, <1>2
  <2>2. CASE Unsigned1(s, v)
    <3>1. b[from + 1] = 128 + v
      BY <2>1, <2>2 DEF Unsigned1, Inside
    <3>2. DecodeUint(b, from + 1) = [pos |-> from + 1 + 1, value |-> v]
      BY <2>1, <3>1 DEF DecodeUint
    <3> QED
      BY <2>1, <2>2, <3>2 DEF Unsigned1, Reads
  <2>3. ASSUME NEW w \in 0..127, HighBytes(v, w) = 0, Counted(s, w, v, w)
        PROVE  Len(s) \in Nat \ {0} /\ Reads(DecodeUint(b, from + 1), s, b, from, v)
    <3>1. Len(s) = w + 1 /\ s[1] = w /\ 1 \in DOMAIN s
      BY <2>3 DEF Counted
    <3>2. b[from + 1] = w
      BY <2>1, <3>1 DEF Inside
    <3>3. CASE from + 1 + w > Len(b)
      <4>1. DecodeUint(b, from + 1).pos = Failed
        BY <2>1, <3>2, <3>3 DEF DecodeUint
      <4> QED
        BY <1>0, <3>1, <3>3, <4>1 DEF Reads
    <3>4. CASE ~(from + 1 + w > Len(b))
      <4>1. LittleEndian(SubSeq(b, from + 1 + 1, from + 1 + w)) = v
        <5>1. from + 1 + w <= Len(b)
          BY <1>0, <3>4
        <5> QED
          BY <2>3, <5>1, BytesInside
      <4>2. DecodeUint(b, from + 1) = [pos |-> from + 1 + 1 + w, value |-> v]
        BY <2>1, <3>2, <3>4, <4>1 DEF DecodeUint
      <4> QED
        BY <1>0, <3>1, <3>4, <4>2 DEF Reads
    <3> QED
      BY <3>3, <3>4
  <2> QED
    BY <2>2, <2>3, UnsignedForm
<1> QED
  BY <1>1, <1>2

\* What the head of a signed integer says.
HeadSays(head, sign, short, n) ==
    (Bit(head, 128) <=> sign = 128) /\ (Bit(head, 64) <=> short) /\ head % 64 = n

LEMMA HeadBits ==
    ASSUME NEW sign \in {0, 128}, NEW n \in 0..63
    PROVE  HeadSays(sign + n, sign, FALSE, n) /\ HeadSays(sign + 64 + n, sign, TRUE, n)
<1>1. ASSUME NEW m \in 0..63
      PROVE  /\ m \div 128 = 0 /\ (64 + m) \div 128 = 0
             /\ (128 + m) \div 128 = 1 /\ (128 + 64 + m) \div 128 = 1
             /\ m \div 64 = 0 /\ (64 + m) \div 64 = 1
             /\ (128 + m) \div 64 = 2 /\ (128 + 64 + m) \div 64 = 3
             /\ m % 64 = m /\ (64 + m) % 64 = m /\ (128 + m) % 64 = m /\ (128 + 64 + m) % 64 = m
  OBVIOUS
<1>2. 0 % 2 = 0 /\ 1 % 2 = 1 /\ 2 % 2 = 0 /\ 3 % 2 = 1
  OBVIOUS
<1>3. CASE sign = 0
  <2>1. sign + n = n /\ sign + 64 + n = 64 + n
    BY <1>3
  <2> QED
    BY <1>1, <1>2, <1>3, <2>1 DEF Bit, HeadSays
<1>4. CASE sign = 128
  BY <1>1, <1>2, <1>4 DEF Bit, HeadSays
<1> QED
  BY <1>3, <1>4

Value(size, sign) == (IF sign = 128 THEN -1 ELSE 1) * size

LEMMA SignedReadOf ==
    ASSUME NEW size \in Nat, NEW sign \in {0, 128}, size < Huge, NEW s,
           \/ Signed1(s, size, sign)
           \/ \E w \in 1..8 : HighBytes(size, w) = 0 /\ Counted(s, sign + w, size, w),
           NEW b \in Seq(Byte), NEW from \in Nat, from <= Len(b), Inside(s, b, from)
    PROVE  Len(s) \in Nat \ {0} /\ Reads(ReadVarInt(b, from + 1), s, b, from, Value(size, sign))
<1>0. Len(b) \in Nat
  OBVIOUS
<1>3. Len(s) \in Nat \ {0}
  <2>1. CASE Signed1(s, size, sign)
    BY <2>1 DEF Signed1
  <2>2. ASSUME NEW w \in 1..8, Counted(s, sign + w, size, w) PROVE Len(s) \in Nat \ {0}
    BY <2>2 DEF Counted
  <2> QED
    BY <2>1, <2>2
<1>4. CASE from = Len(b)
  <2>1. from + 1 \notin DOMAIN b
    BY <1>0, <1>4
  <2>2. ReadVarInt(b, from + 1).pos = Failed
    BY <2>1 DEF ReadVarInt
  <2>3. ~(from + Len(s) <= Len(b))
    BY <1>0, <1>3, <1>4
  <2> QED
    BY <1>3, <2>2, <2>3 DEF Reads
<1>5. CASE from # Len(b)
  <2>1. from + 1 \in DOMAIN b /\ from + 1 <= Len(b)
    BY <1>0, <1>5
  <2>2. CASE Signed1(s, size, sign)
    <3>1. b[from + 1] = sign + 64 + size /\ size \in 0..63
      <4>1. s[1] = sign + 64 + size /\ 1 \in DOMAIN s /\ size < 64
        BY <2>2 DEF Signed1
      <4>2. b[from + 1] = s[1]
        BY <2>1, <4>1 DEF Inside
      <4>3. size \in 0..63
        BY <4>1
      <4> QED
        BY <4>1, <4>2, <4>3
    <3> PICK head : head = b[from + 1]
      OBVIOUS
    <3>2. HeadSays(head, sign, TRUE, size)
      BY <3>1, HeadBits
    <3>3. ReadVarInt(b, from + 1) =
              [pos |-> from + 1 + 1, value |-> Value(size, sign)]
      BY <2>1, <3>2 DEF ReadVarInt, Value, HeadSays
    <3> QED
      BY <1>3, <2>1, <2>2, <3>3 DEF Signed1, Reads
  <2>3. ASSUME NEW w \in 1..8, HighBytes(size, w) = 0, Counted(s, sign + w, size, w)
        PROVE  Reads(ReadVarInt(b, from + 1), s, b, from, Value(size, sign))
    <3>1. Len(s) = w + 1 /\ s[1] = sign + w /\ 1 \in DOMAIN s
      BY <2>3 DEF Counted
    <3> PICK head : head = b[from + 1]
      OBVIOUS
    <3>2. head = sign + w /\ w \in 0..63
      BY <2>1, <3>1 DEF Inside
    <3>3. HeadSays(head, sign, FALSE, w)
      BY <3>2, HeadBits
    <3>4. CASE from + 1 + w > Len(b)
      <4>1. ReadVarInt(b, from + 1).pos = Failed
        BY <2>1, <3>3, <3>4 DEF ReadVarInt, HeadSays
      <4> QED
        BY <1>0, <3>1, <3>4, <4>1 DEF Reads
    <3>5. CASE ~(from + 1 + w > Len(b))
      <4>1. LittleEndian(SubSeq(b, from + 1 + 1, from + 1 + w)) = size
        <5>1. from + 1 + w <= Len(b) /\ w \in Nat
          BY <1>0, <3>5
        <5> QED
          BY <2>3, <5>1, BytesInside
      <4>2. ReadVarInt(b, from + 1) =
                [pos |-> from + 1 + 1 + w, value |-> Value(size, sign)]
        BY <2>1, <3>3, <3>5, <4>1 DEF ReadVarInt, Value, HeadSays
      <4> QED
        BY <1>0, <3>1, <3>5, <4>2 DEF Reads
    <3> QED
      BY <3>4, <3>5
  <2> QED
    BY <1>3, <2>2, <2>3
<1> QED
  BY <1>4, <1>5

LEMMA SignedRead ==
    ASSUME NEW v \in Int, -Huge < v, v < Huge,
           NEW b \in Seq(Byte), NEW from \in Nat, from <= Len(b), Inside(WriteVarInt(v), b, from)
    PROVE  /\ Len(WriteVarInt(v)) \in Nat \ {0}
           /\ Reads(ReadVarInt(b, from + 1), WriteVarInt(v), b, from, v)
<1>1. v = Value(Size(v), Sign(v))
  BY DEF Value, Size, Sign
<1> PICK size, sign, s : size = Size(v) /\ sign = Sign(v) /\ s = WriteVarInt(v)
  OBVIOUS
<1>2. /\ size \in Nat /\ sign \in {0, 128} /\ size < Huge
      /\ \/ Signed1(s, size, sign)
         \/ \E w \in 1..8 : HighBytes(size, w) = 0 /\ Counted(s, sign + w, size, w)
  BY SignedForm
<1>3. Len(s) \in Nat \ {0} /\ Reads(ReadVarInt(b, from + 1), s, b, from, Value(size, sign))
  BY <1>2, SignedReadOf
<1> QED
  BY <1>1, <1>3

-----------------------------------------------------------------------------
(* Integers in a row. *)

\* What is known of each integer that was sent.
LEMMA FormIs ==
    ASSUME NEW n \in Integer, IsForm(n)
    PROVE  /\ n.signed => /\ n.value \in Int /\ -Huge < n.value /\ n.value < Huge
                          /\ n.bytes = WriteVarInt(n.value)
           /\ ~n.signed => n.value \in Nat /\ n.value < Huge /\ IsUnsigned(n.bytes, n.value)
<1>1. CASE n.signed
  BY <1>1, HugeIs DEF IsForm
<1>2. CASE ~n.signed
  BY <1>2, HugeIs DEF IsForm, IsUnsigned
<1> QED
  BY <1>1, <1>2

\* Reading at the place of an integer reads that integer.
LEMMA ReadsSent ==
    ASSUME buf \in Seq(Byte), NEW n \in Integer, IsForm(n), InPlace(n), n.from <= Len(buf)
    PROVE  /\ Len(n.bytes) \in Nat \ {0}
           /\ Reads(ReadInteger(n.signed, n.from + 1), n.bytes, buf, n.from, n.value)
<1>1. Inside(n.bytes, buf, n.from)
  BY DEF InPlace, Inside
<1>2. n.from \in Nat
  BY DEF Integer
<1>3. CASE n.signed
  BY <1>1, <1>2, <1>3, FormIs, SignedRead DEF ReadInteger
<1>4. CASE ~n.signed
  BY <1>1, <1>2, <1>4, FormIs, UnsignedRead DEF ReadInteger
<1> QED
  BY <1>3, <1>4

\* The forms are bytes.
LEMMA UnsignedBytes ==
    ASSUME NEW v \in Nat, v < Huge, NEW s, IsUnsigned(s, v)
    PROVE  s \in Seq(Byte)
BY UnsignedForm DEF Unsigned1, Counted

LEMMA SignedBytes ==
    ASSUME NEW v \in Int, -Huge < v, v < Huge
    PROVE  WriteVarInt(v) \in Seq(Byte)
BY SignedForm DEF Signed1, Counted

LEMMA IntegersInitial == IntegersInit => IntegersInv
<1> SUFFICES ASSUME IntegersInit PROVE IntegersInv
  OBVIOUS
<1>1. IntegersTypeOK
  BY DEF IntegersInit, IntegersTypeOK
<1>2. EndOf(0) = 0 /\ Len(sent) = 0 /\ Len(buf) = 0 /\ Len(values) = 0 /\ DOMAIN sent = {}
  BY DEF IntegersInit, EndOf
<1> QED
  BY <1>1, <1>2 DEF IntegersInit, LayoutInv, ReaderInv, IntegersReadBack, IntegersInv

LEMMA WriteStep ==
    ASSUME IntegersInv, NEW n \in Integer, IsForm(n), n.from = Len(buf), stage = "write",
           buf' = buf \o n.bytes, sent' = Append(sent, n),
           UNCHANGED <<cut, pos, values, stage>>
    PROVE  IntegersInv'
<1> PICK bytes, L : bytes = n.bytes /\ L = Len(sent)
  OBVIOUS
<1>0. /\ buf \in Seq(Byte) /\ sent \in Seq(Integer) /\ stage = "write" /\ cut = 0 /\ values = <<>>
      /\ pos \in Nat /\ values \in Seq(Int)
      /\ buf' = buf \o bytes /\ sent' = Append(sent, n)
      /\ cut' = cut /\ pos' = pos /\ values' = values /\ stage' = stage
  BY DEF IntegersInv, IntegersTypeOK, ReaderInv
<1>1. n \in Integer /\ n.bytes = bytes /\ n.from = Len(buf) /\ bytes \in Seq(Byte)
  BY <1>0 DEF Integer
<1>2. IntegersTypeOK'
  BY <1>0, <1>1 DEF IntegersTypeOK
<1>3. /\ Len(buf) \in Nat /\ Len(bytes) \in Nat /\ L \in Nat
      /\ Len(buf') = Len(buf) + Len(bytes) /\ Len(sent') = L + 1
      /\ \A i \in 1..Len(buf) : buf'[i] = buf[i]
      /\ \A i \in 1..Len(bytes) : buf'[Len(buf) + i] = bytes[i]
      /\ \A k \in 1..L : sent'[k] = sent[k]
      /\ sent'[L + 1] = n /\ DOMAIN sent = 1..L
  BY <1>0
<1>4. /\ \A k \in 0..L : EndOf(k)' = EndOf(k)
      /\ EndOf(L + 1)' = Len(buf')
  <2>1. ASSUME NEW k \in 0..L PROVE EndOf(k)' = EndOf(k)
    <3>1. k = 0 \/ sent'[k] = sent[k]
      BY <1>3
    <3> QED
      BY <3>1 DEF EndOf
  <2>2. EndOf(L + 1)' = n.from + Len(n.bytes)
    <3> PICK m : m = L + 1 /\ m = Len(sent')
      BY <1>3
    <3>1. m # 0 /\ sent'[m] = n
      BY <1>3
    <3>2. EndOf(L + 1)' = Len(buf) + Len(bytes)
      BY <1>1, <1>3, <3>1 DEF EndOf
    <3> QED
      BY <1>1, <3>2
  <2> QED
    BY <1>1, <1>3, <2>1, <2>2
<1>5. Len(buf) = EndOf(L)
  BY <1>0, <1>3 DEF IntegersInv, LayoutInv
<1>6. \A k \in 1..L :
          /\ IsForm(sent[k]) /\ InPlace(sent[k])
          /\ sent[k].from = EndOf(k - 1) /\ EndOf(k) <= Len(buf)
          /\ Len(sent[k].bytes) \in Nat /\ sent[k].from \in Nat /\ DOMAIN sent[k].bytes = 1..Len(sent[k].bytes)
  <2>1. ASSUME NEW k \in 1..L
        PROVE  Len(sent[k].bytes) \in Nat /\ sent[k].from \in Nat /\ DOMAIN sent[k].bytes = 1..Len(sent[k].bytes)
    <3>1. sent[k] \in Integer
      BY <1>0
    <3> QED
      BY <3>1 DEF Integer
  <2>2. Len(buf) + cut = Len(buf)
    BY <1>0, <1>3
  <2> QED
    BY <1>3, <2>1, <2>2 DEF IntegersInv, LayoutInv
<1>7. ASSUME NEW k \in 1..L
      PROVE  /\ IsForm(sent'[k]) /\ InPlace(sent[k])'
             /\ sent'[k].from = EndOf(k - 1)' /\ EndOf(k)' <= Len(buf')
  <2>1. EndOf(k)' = EndOf(k) /\ EndOf(k - 1)' = EndOf(k - 1) /\ sent'[k] = sent[k]
    <3>1. k \in 0..L /\ k - 1 \in 0..L
      BY <1>3
    <3> QED
      BY <1>3, <1>4, <3>1
  <2>2. EndOf(k) = sent[k].from + Len(sent[k].bytes) /\ EndOf(k) <= Len(buf)
    BY <1>3, <1>6 DEF EndOf
  <2>3. EndOf(k)' <= Len(buf')
    BY <1>3, <1>6, <2>1, <2>2
  <2>4. ASSUME NEW i \in DOMAIN sent[k].bytes PROVE buf'[sent[k].from + i] = sent[k].bytes[i]
    <3>0. i \in 1..Len(sent[k].bytes) /\ Len(sent[k].bytes) \in Nat /\ sent[k].from \in Nat
      BY <1>6
    <3>1. sent[k].from + i \in 1..Len(buf)
      BY <1>3, <2>2, <3>0
    <3> QED
      BY <1>3, <1>6, <3>1 DEF InPlace
  <2> QED
    <3>1. InPlace(sent[k])'
      BY <2>1, <2>4 DEF InPlace
    <3> QED
      BY <1>6, <2>1, <2>3, <3>1
<1>8. /\ IsForm(n) /\ InPlace(n)'
      /\ n.from = EndOf(L)' /\ EndOf(L + 1)' <= Len(buf')
  <2>1. n.from = EndOf(L)'
    BY <1>1, <1>3, <1>4, <1>5
  <2>2. \A i \in DOMAIN n.bytes : buf'[n.from + i] = n.bytes[i]
    <3>1. DOMAIN bytes = 1..Len(bytes)
      BY <1>1
    <3> QED
      BY <1>1, <1>3, <3>1
  <2> QED
    BY <1>3, <1>4, <2>1, <2>2 DEF InPlace
<1>9. LayoutInv'
  <2>1. \A k \in 1..Len(sent') :
            /\ IsForm(sent'[k]) /\ InPlace(sent[k])'
            /\ sent'[k].from = EndOf(k - 1)' /\ EndOf(k)' <= Len(buf')
    <3> TAKE k \in 1..Len(sent')
    <3>1. CASE k \in 1..L
      BY <1>7, <3>1
    <3>2. CASE k \notin 1..L
      <4>1. k = L + 1 /\ k - 1 = L
        BY <1>3, <3>2
      <4> QED
        BY <1>3, <1>8, <4>1
    <3> QED
      BY <3>1, <3>2
  <2>2. Len(buf') + cut' = Len(buf') /\ DOMAIN sent' = 1..Len(sent')
    BY <1>0, <1>1, <1>3
  <2> QED
    BY <1>3, <1>4, <2>1, <2>2 DEF LayoutInv, IsForm
<1>10. ReaderInv' /\ IntegersReadBack'
  <2>1. Len(values) = 0 /\ DOMAIN values = {}
    BY <1>0
  <2>2. EndOf(0)' = EndOf(0) /\ EndOf(0) = 0
    BY <1>3, <1>4 DEF EndOf
  <2>3. pos = 1
    BY <1>0, <2>1, <2>2 DEF IntegersInv, ReaderInv
  <2> QED
    BY <1>0, <1>3, <2>1, <2>2, <2>3 DEF ReaderInv, IntegersReadBack
<1> QED
  BY <1>2, <1>9, <1>10 DEF IntegersInv

LEMMA DeliverStep ==
    ASSUME IntegersInv, NEW missing \in 0..Len(buf), Deliver(missing)
    PROVE  IntegersInv'
<1>0. /\ buf \in Seq(Byte) /\ sent \in Seq(Integer) /\ cut = 0 /\ values = <<>>
      /\ buf' = SubSeq(buf, 1, Len(buf) - missing) /\ cut' = missing
      /\ sent' = sent /\ pos' = pos /\ values' = values /\ stage' = "read"
      /\ stage = "write" /\ pos \in Nat
  BY DEF IntegersInv, IntegersTypeOK, ReaderInv, Deliver
<1>1. /\ Len(buf) \in Nat /\ missing \in Nat /\ missing <= Len(buf) /\ Len(sent) \in Nat
      /\ buf' \in Seq(Byte) /\ Len(buf') = Len(buf) - missing
      /\ \A i \in 1..Len(buf') : buf'[i] = buf[i]
  <2>1. Len(buf) \in Nat /\ missing \in Nat /\ missing <= Len(buf) /\ Len(sent) \in Nat
    BY <1>0
  <2> PICK n : n = Len(buf) - missing
    OBVIOUS
  <2>2. n \in 0..Len(buf)
    BY <2>1
  <2>3. /\ SubSeq(buf, 1, n) \in Seq(Byte) /\ Len(SubSeq(buf, 1, n)) = n
        /\ \A i \in 1..n : SubSeq(buf, 1, n)[i] = buf[i]
    BY <1>0, <2>1, <2>2
  <2> QED
    BY <1>0, <2>1, <2>3
<1>2. IntegersTypeOK'
  BY <1>0, <1>1 DEF IntegersTypeOK
<1>3. \A k : EndOf(k)' = EndOf(k)
  BY <1>0 DEF EndOf
<1>4. ASSUME NEW k \in DOMAIN sent PROVE InPlace(sent[k])'
  <2>1. sent[k].from \in Nat /\ DOMAIN sent[k].bytes \subseteq Nat \ {0}
    <3>1. sent[k] \in Integer
      BY <1>0
    <3> QED
      BY <3>1 DEF Integer
  <2>2. InPlace(sent[k])
    BY DEF IntegersInv, LayoutInv
  <2>3. ASSUME NEW i \in DOMAIN sent[k].bytes, sent[k].from + i <= Len(buf')
        PROVE  buf'[sent[k].from + i] = sent[k].bytes[i]
    <3>1. sent[k].from + i \in 1..Len(buf') /\ sent[k].from + i <= Len(buf)
      BY <1>1, <2>1, <2>3
    <3> QED
      BY <1>1, <2>2, <3>1 DEF InPlace
  <2> QED
    BY <1>0, <2>3 DEF InPlace
<1>5. LayoutInv'
  <2>1. Len(buf') + cut' = Len(buf) + cut
    BY <1>0, <1>1
  <2> QED
    BY <1>0, <1>3, <1>4, <2>1 DEF IntegersInv, LayoutInv, IsForm
<1>6. Len(values) = 0 /\ EndOf(0) = 0 /\ DOMAIN values = {}
  BY <1>0 DEF EndOf
<1>7. ReaderInv' /\ IntegersReadBack'
  <2>1. pos = 1
    BY <1>0, <1>6 DEF IntegersInv, ReaderInv
  <2> QED
    BY <1>0, <1>1, <1>3, <1>6, <2>1 DEF ReaderInv, IntegersReadBack
<1> QED
  BY <1>2, <1>5, <1>7 DEF IntegersInv

LEMMA ReadStep == IntegersInv /\ Read => IntegersInv'
<1> SUFFICES ASSUME IntegersInv, Read PROVE IntegersInv'
  OBVIOUS
<1> PICK j, n : j = Len(values) /\ n = sent[j + 1]
  OBVIOUS
<1> PICK read : read = ReadInteger(n.signed, pos)
  OBVIOUS
<1>0. /\ buf \in Seq(Byte) /\ sent \in Seq(Integer) /\ cut \in Nat /\ values \in Seq(Int)
      /\ stage = "read" /\ j \in Nat /\ j < Len(sent) /\ Len(sent) \in Nat
      /\ buf' = buf /\ sent' = sent /\ cut' = cut
      /\ pos = EndOf(j) + 1 /\ EndOf(j) <= Len(buf)
      /\ Len(buf) \in Nat
  BY DEF IntegersInv, IntegersTypeOK, ReaderInv, Read
<1>1. /\ pos' = read.pos
      /\ IF read.pos = Failed THEN stage' = "raised" /\ values' = values
         ELSE stage' = stage /\ values' = Append(values, read.value)
  BY DEF Read
<1>2. /\ j + 1 \in DOMAIN sent /\ n \in Integer /\ (j + 1) - 1 = j /\ j + 1 # 0
  BY <1>0
<1>3. IsForm(n) /\ InPlace(n) /\ n.from = EndOf(j) /\ EndOf(j + 1) <= Len(buf) + cut
  BY <1>2 DEF IntegersInv, LayoutInv
<1>4. n.from \in Nat /\ n.value \in Int
  BY <1>2 DEF Integer
<1>5. Len(n.bytes) \in Nat \ {0} /\ Reads(read, n.bytes, buf, n.from, n.value)
  BY <1>0, <1>2, <1>3, ReadsSent
<1>6. EndOf(j + 1) = n.from + Len(n.bytes)
  BY <1>2 DEF EndOf
<1>7. \A k : EndOf(k)' = EndOf(k)
  BY <1>0 DEF EndOf
<1>8. LayoutInv'
  <2>1. \A k \in DOMAIN sent : InPlace(sent[k])'
    BY <1>0 DEF IntegersInv, LayoutInv, InPlace
  <2> QED
    BY <1>0, <1>7, <2>1 DEF IntegersInv, LayoutInv, IsForm
<1>9. CASE n.from + Len(n.bytes) <= Len(buf)
  <2>1. read = [pos |-> n.from + Len(n.bytes) + 1, value |-> n.value] /\ n.from + Len(n.bytes) + 1 # 0
    BY <1>4, <1>5, <1>9 DEF Reads
  <2>2. /\ pos' = EndOf(j + 1) + 1 /\ stage' = "read" /\ values' = Append(values, n.value)
        /\ pos' \in Nat
    BY <1>0, <1>1, <1>4, <1>5, <1>6, <2>1 DEF Failed
  <2>3. Len(values') = j + 1 /\ values' \in Seq(Int)
        /\ (\A k \in 1..j : values'[k] = values[k]) /\ values'[j + 1] = n.value
        /\ DOMAIN values' = 1..(j + 1) /\ DOMAIN values = 1..j /\ DOMAIN sent = 1..Len(sent)
    BY <1>0, <1>4, <2>2
  <2>4. IntegersTypeOK'
    BY <1>0, <2>2, <2>3 DEF IntegersTypeOK
  <2>5. ReaderInv'
    BY <1>0, <1>6, <1>7, <1>9, <2>2, <2>3 DEF ReaderInv
  <2>6. IntegersReadBack'
    <3>1. ASSUME NEW k \in 1..(j + 1) PROVE k \in DOMAIN sent /\ values'[k] = sent[k].value
      <4>1. CASE k \in 1..j
        BY <1>0, <2>3, <4>1 DEF IntegersInv, IntegersReadBack
      <4>2. CASE k \notin 1..j
        <5>1. k = j + 1
          BY <1>0, <4>2
        <5> QED
          BY <1>2, <2>3, <5>1
      <4> QED
        BY <4>1, <4>2
    <3> QED
      BY <1>0, <2>2, <2>3, <3>1 DEF IntegersReadBack
  <2> QED
    BY <1>8, <2>4, <2>5, <2>6 DEF IntegersInv
<1>10. CASE ~(n.from + Len(n.bytes) <= Len(buf))
  <2>1. read.pos = Failed
    BY <1>5, <1>10 DEF Reads
  <2>2. pos' = 0 /\ stage' = "raised" /\ values' = values
    BY <1>1, <2>1 DEF Failed
  <2>3. cut > 0
    BY <1>0, <1>3, <1>4, <1>5, <1>6, <1>10
  <2>4. IntegersTypeOK'
    BY <1>0, <2>2 DEF IntegersTypeOK
  <2>5. ReaderInv'
    BY <1>0, <2>2 DEF ReaderInv
  <2>6. IntegersReadBack'
    BY <1>0, <2>2, <2>3 DEF IntegersInv, IntegersReadBack
  <2> QED
    BY <1>8, <2>4, <2>5, <2>6 DEF IntegersInv
<1> QED
  BY <1>9, <1>10

LEMMA FinishStep == IntegersInv /\ Finish => IntegersInv'
<1> SUFFICES ASSUME IntegersInv, Finish PROVE IntegersInv'
  OBVIOUS
<1>0. /\ stage = "read" /\ stage' = "done" /\ Len(values) = Len(sent)
      /\ buf' = buf /\ sent' = sent /\ cut' = cut /\ pos' = pos /\ values' = values
  BY DEF Finish
<1>1. cut \in Nat /\ Len(buf) \in Nat
  BY DEF IntegersInv, IntegersTypeOK
<1>2. Len(buf) + cut = EndOf(Len(sent)) /\ EndOf(Len(sent)) <= Len(buf) /\ pos = EndOf(Len(sent)) + 1
  BY <1>0 DEF IntegersInv, LayoutInv, ReaderInv
<1>3. cut = 0 /\ pos = Len(buf) + 1
  BY <1>1, <1>2
<1>4. \A k : EndOf(k)' = EndOf(k)
  BY <1>0 DEF EndOf
<1>5. LayoutInv'
  <2>1. \A k \in DOMAIN sent : InPlace(sent[k])'
    BY <1>0 DEF IntegersInv, LayoutInv, InPlace
  <2> QED
    BY <1>0, <1>4, <2>1 DEF IntegersInv, LayoutInv, IsForm
<1>6. IntegersTypeOK' /\ IntegersReadBack'
  BY <1>0, <1>3 DEF IntegersInv, IntegersTypeOK, IntegersReadBack
<1>7. ReaderInv'
  BY <1>0, <1>2, <1>4 DEF IntegersInv, ReaderInv
<1> QED
  BY <1>5, <1>6, <1>7 DEF IntegersInv

LEMMA IntegersStutter == IntegersInv /\ UNCHANGED integersVars => IntegersInv'
<1> SUFFICES ASSUME IntegersInv, UNCHANGED integersVars PROVE IntegersInv'
  OBVIOUS
<1>0. /\ buf' = buf /\ sent' = sent /\ cut' = cut /\ pos' = pos /\ values' = values
      /\ stage' = stage
  BY DEF integersVars
<1>1. \A k : EndOf(k)' = EndOf(k)
  BY <1>0 DEF EndOf
<1>2. \A k \in DOMAIN sent : InPlace(sent[k])'
  BY <1>0 DEF IntegersInv, LayoutInv, InPlace
<1> QED
  BY <1>0, <1>1, <1>2
  DEF IntegersInv, IntegersTypeOK, LayoutInv, IsForm, ReaderInv, IntegersReadBack

\* Whatever is written, in whatever form, and wherever the message is cut off.
LEMMA IntegersInductive == IntegersInv /\ [IntegersNext]_integersVars => IntegersInv'
<1> SUFFICES ASSUME IntegersInv, [IntegersNext]_integersVars PROVE IntegersInv'
  OBVIOUS
<1>0. ASSUME NEW n \in Integer, IsForm(n), Write(n.signed, n.value, n.bytes),
             n = [signed |-> n.signed, value |-> n.value, bytes |-> n.bytes, from |-> Len(buf)]
      PROVE  IntegersInv'
  <2>1. n.from = Len(buf)
    BY <1>0
  <2> QED
    BY <1>0, <2>1, WriteStep DEF Write
<1>1. ASSUME NEW value \in Unsigned, NEW bytes, IsUnsigned(bytes, value), Write(FALSE, value, bytes)
      PROVE  IntegersInv'
  <2> PICK n : n = [signed |-> FALSE, value |-> value, bytes |-> bytes, from |-> Len(buf)]
    OBVIOUS
  <2>1. value \in Nat /\ value < Huge /\ value \in 0..(Huge - 1)
    BY IntegersAssumption, HugeIs
  <2>2. bytes \in Seq(Byte) /\ Len(buf) \in Nat
    BY <1>1, <2>1, UnsignedBytes DEF IntegersInv, IntegersTypeOK
  <2>3. n \in Integer /\ n.signed = FALSE /\ n.value = value /\ n.bytes = bytes /\ n.from = Len(buf)
    BY <2>1, <2>2 DEF Integer
  <2>4. IsForm(n)
    BY <1>1, <2>1, <2>3 DEF IsForm, IsUnsigned
  <2>5. Write(n.signed, n.value, n.bytes)
    BY <1>1, <2>3
  <2> QED
    BY <1>0, <2>3, <2>4, <2>5
<1>2. ASSUME NEW value \in Unsigned, WriteUint(value) PROVE IntegersInv'
  BY <1>1, <1>2 DEF WriteUint, IsUnsigned
<1>3. ASSUME NEW value \in Unsigned, NEW width \in 0..MaxWidth, WriteLong(value, width)
      PROVE  IntegersInv'
  <2>1. width \in 0..127
    BY IntegersAssumption
  <2> QED
    BY <1>1, <1>3, <2>1 DEF WriteLong, IsUnsigned
<1>4. ASSUME NEW value \in Signed, WriteInt(value) PROVE IntegersInv'
  <2> PICK n : n = [signed |-> TRUE, value |-> value, bytes |-> WriteVarInt(value), from |-> Len(buf)]
    OBVIOUS
  <2>1. value \in Int /\ -Huge < value /\ value < Huge /\ value \in (1 - Huge)..(Huge - 1)
    BY IntegersAssumption, HugeIs
  <2>2. WriteVarInt(value) \in Seq(Byte) /\ Len(buf) \in Nat
    BY <2>1, SignedBytes DEF IntegersInv, IntegersTypeOK
  <2>3. n \in Integer /\ n.signed = TRUE /\ n.value = value /\ n.bytes = WriteVarInt(value)
        /\ n.from = Len(buf)
    BY <2>1, <2>2 DEF Integer
  <2>4. IsForm(n)
    BY <2>1, <2>3 DEF IsForm
  <2>5. Write(n.signed, n.value, n.bytes)
    BY <1>4, <2>3 DEF WriteInt
  <2> QED
    BY <1>0, <2>3, <2>4, <2>5
<1>5. ASSUME NEW missing \in 0..Len(buf), Deliver(missing) PROVE IntegersInv'
  BY <1>5, DeliverStep
<1> QED
  BY <1>2, <1>3, <1>4, <1>5, ReadStep, FinishStep, IntegersStutter DEF IntegersNext

\* Compact integers are read back as they were written, in every form and one
\* after the other, and a message that is cut off is refused: for all values
\* that fit eight bytes, and messages of any length.
THEOREM ReadBack == IntegersSpec => []IntegersReadBack
<1>1. IntegersInv => IntegersReadBack
  BY DEF IntegersInv
<1> QED
  BY <1>1, IntegersInitial, IntegersInductive, PTL DEF IntegersSpec

-----------------------------------------------------------------------------
(* The order of keys. *)

\* Bytes are numbers.
LEMMA ByteAt ==
    ASSUME NEW s \in Seq(Byte), NEW i \in 1..Len(s)
    PROVE  s[i] \in Int /\ 0 <= s[i] /\ s[i] <= 255
<1>1. s[i] \in Byte
  OBVIOUS
<1>2. \A b \in Byte : b \in Int /\ 0 <= b /\ b <= 255
  BY DEF Byte
<1> QED
  BY <1>1, <1>2

LEMMA SameBytes ==
    ASSUME NEW a \in Seq(Byte), NEW b \in Seq(Byte), Len(a) = Len(b), Agree(a, b, Len(a))
    PROVE  a = b
<1>1. a = [i \in 1..Len(a) |-> a[i]] /\ b = [i \in 1..Len(b) |-> b[i]]
  OBVIOUS
<1> QED
  BY <1>1 DEF Agree

\* The two ways of being at most another.
Begins1(a, b) == Len(a) <= Len(b) /\ Agree(a, b, Len(a))
Less(a, b, i) == i \in 1..Len(a) /\ i \in 1..Len(b) /\ a[i] < b[i] /\ Agree(a, b, i - 1)

LEMMA AtMostIs ==
    ASSUME NEW a \in Seq(Byte), NEW b \in Seq(Byte)
    PROVE  AtMost(a, b) <=> Begins1(a, b) \/ \E i \in Nat : Less(a, b, i)
<1>1. DOMAIN a = 1..Len(a) /\ DOMAIN b = 1..Len(b)
  OBVIOUS
<1> QED
  BY <1>1 DEF AtMost, Begins1, Less

LEMMA OrderReflexive ==
    ASSUME NEW a \in Seq(Byte)
    PROVE  AtMost(a, a)
BY AtMostIs DEF Begins1, Agree

LEMMA OrderTransitive ==
    ASSUME NEW a \in Seq(Byte), NEW b \in Seq(Byte), NEW c \in Seq(Byte),
           AtMost(a, b), AtMost(b, c)
    PROVE  AtMost(a, c)
<1>0. Len(a) \in Nat /\ Len(b) \in Nat /\ Len(c) \in Nat
  OBVIOUS
<1>1. CASE Begins1(a, b) /\ Begins1(b, c)
  <2>1. Begins1(a, c)
    BY <1>0, <1>1 DEF Begins1, Agree
  <2> QED
    BY <2>1, AtMostIs
<1>2. ASSUME NEW j \in Nat, Begins1(a, b), Less(b, c, j) PROVE AtMost(a, c)
  <2>1. CASE j <= Len(a)
    <3>1. Less(a, c, j)
      BY <1>0, <1>2, <2>1 DEF Begins1, Less, Agree
    <3> QED
      BY <3>1, AtMostIs
  <2>2. CASE ~(j <= Len(a))
    <3>1. Begins1(a, c)
      BY <1>0, <1>2, <2>2 DEF Begins1, Less, Agree
    <3> QED
      BY <3>1, AtMostIs
  <2> QED
    BY <2>1, <2>2
<1>3. ASSUME NEW i \in Nat, Less(a, b, i), Begins1(b, c) PROVE AtMost(a, c)
  <2>1. Less(a, c, i)
    BY <1>0, <1>3 DEF Begins1, Less, Agree
  <2> QED
    BY <2>1, AtMostIs
<1>4. ASSUME NEW i \in Nat, NEW j \in Nat, Less(a, b, i), Less(b, c, j) PROVE AtMost(a, c)
  <2>1. a[i] \in Int /\ b[i] \in Int /\ b[j] \in Int /\ c[j] \in Int
    BY <1>4, ByteAt DEF Less
  <2>2. CASE i < j
    <3>1. Less(a, c, i)
      BY <1>0, <1>4, <2>2 DEF Less, Agree
    <3> QED
      BY <3>1, AtMostIs
  <2>3. CASE i = j
    <3>1. a[i] < c[i]
      BY <1>4, <2>1, <2>3 DEF Less
    <3>2. Less(a, c, i)
      BY <1>0, <1>4, <2>3, <3>1 DEF Less, Agree
    <3> QED
      BY <3>2, AtMostIs
  <2>4. CASE j < i
    <3>1. Less(a, c, j)
      BY <1>0, <1>4, <2>4 DEF Less, Agree
    <3> QED
      BY <3>1, AtMostIs
  <2> QED
    BY <2>2, <2>3, <2>4
<1> QED
  BY <1>1, <1>2, <1>3, <1>4, AtMostIs

\* Where two begin to differ.
LEMMA FirstDifference ==
    ASSUME NEW a, NEW b, NEW n \in Nat
    PROVE  Agree(a, b, n) \/ \E i \in 1..n : a[i] # b[i] /\ Agree(a, b, i - 1)
<1> PICK T : T = {i \in 1..n : a[i] # b[i]}
  OBVIOUS
<1>1. CASE T = {}
  BY <1>1 DEF Agree
<1>2. CASE T # {}
  <2>1. T \subseteq Nat
    OBVIOUS
  <2>2. PICK i \in T : \A j \in T : i <= j
    BY <1>2, <2>1, LeastNatural
  <2>3. i \in 1..n /\ a[i] # b[i]
    OBVIOUS
  <2>4. \A j \in 1..(i - 1) : a[j] = b[j]
    <3> TAKE j \in 1..(i - 1)
    <3>1. j \notin T /\ j \in 1..n
      BY <2>2, <2>3
    <3> QED
      BY <3>1
  <2> QED
    BY <2>3, <2>4 DEF Agree
<1> QED
  BY <1>1, <1>2

LEMMA OrderTotal ==
    ASSUME NEW a \in Seq(Byte), NEW b \in Seq(Byte)
    PROVE  AtMost(a, b) \/ AtMost(b, a)
<1> PICK n : n = IF Len(a) <= Len(b) THEN Len(a) ELSE Len(b)
  OBVIOUS
<1>0. Len(a) \in Nat /\ Len(b) \in Nat /\ n \in Nat
      /\ \A i \in 1..n : i \in Nat /\ i \in 1..Len(a) /\ i \in 1..Len(b)
  OBVIOUS
<1>1. CASE Agree(a, b, n)
  <2>1. Begins1(a, b) \/ Begins1(b, a)
    BY <1>0, <1>1 DEF Begins1, Agree
  <2> QED
    BY <2>1, AtMostIs
<1>2. ASSUME NEW i \in 1..n, a[i] # b[i], Agree(a, b, i - 1) PROVE AtMost(a, b) \/ AtMost(b, a)
  <2>1. a[i] \in Int /\ b[i] \in Int
    BY <1>0, ByteAt
  <2>2. Agree(b, a, i - 1)
    BY <1>2 DEF Agree
  <2>3. Less(a, b, i) \/ Less(b, a, i)
    BY <1>0, <1>2, <2>1, <2>2 DEF Less
  <2> QED
    BY <1>0, <2>3, AtMostIs
<1> QED
  BY <1>0, <1>1, <1>2, FirstDifference

LEMMA OrderAntisymmetric ==
    ASSUME NEW a \in Seq(Byte), NEW b \in Seq(Byte), AtMost(a, b), AtMost(b, a)
    PROVE  a = b
<1>0. Len(a) \in Nat /\ Len(b) \in Nat
  OBVIOUS
<1>1. CASE Begins1(a, b) /\ Begins1(b, a)
  <2>1. Len(a) = Len(b) /\ Agree(a, b, Len(a))
    BY <1>0, <1>1 DEF Begins1
  <2> QED
    BY <2>1, SameBytes
<1>2. ASSUME NEW s \in Seq(Byte), NEW t \in Seq(Byte), NEW j \in Nat, Begins1(s, t), Less(t, s, j)
      PROVE  FALSE
  <2>1. s[j] = t[j] /\ t[j] < s[j] /\ j \in 1..Len(s) /\ j \in 1..Len(t)
    BY <1>2 DEF Begins1, Less, Agree
  <2>2. s[j] \in Int
    BY <2>1, ByteAt
  <2> QED
    BY <2>1, <2>2
<1>3. ASSUME NEW i \in Nat, NEW j \in Nat, Less(a, b, i), Less(b, a, j) PROVE FALSE
  <2>1. a[i] \in Int /\ b[i] \in Int /\ a[j] \in Int /\ b[j] \in Int
        /\ a[i] < b[i] /\ b[j] < a[j] /\ i \in 1..Len(a) /\ j \in 1..Len(a)
    BY <1>3, ByteAt DEF Less
  <2>2. i < j => a[i] = b[i]
    BY <1>0, <1>3 DEF Less, Agree
  <2>3. j < i => a[j] = b[j]
    BY <1>0, <1>3 DEF Less, Agree
  <2>4. CASE i < j
    BY <2>1, <2>2, <2>4
  <2>5. CASE j < i
    BY <2>1, <2>3, <2>5
  <2>6. CASE i = j
    BY <2>1, <2>6
  <2> QED
    BY <2>4, <2>5, <2>6
<1> QED
  BY <1>1, <1>2, <1>3, AtMostIs

-----------------------------------------------------------------------------
(* Ranges of keys with a prefix. *)

\* The key p comes before the rest of s.
Prefixed(p, s) == Len(p) <= Len(s) /\ Agree(p, s, Len(p))

\* Between two keys with a prefix are only keys with that prefix.
LEMMA BetweenPrefixed ==
    ASSUME NEW p \in Seq(Byte), NEW k \in Seq(Byte), NEW lo \in Seq(Byte), NEW hi \in Seq(Byte),
           Prefixed(p, lo), Prefixed(p, hi), AtMost(lo, k), AtMost(k, hi)
    PROVE  Prefixed(p, k)
<1>0. Len(p) \in Nat /\ Len(k) \in Nat /\ Len(lo) \in Nat /\ Len(hi) \in Nat
  OBVIOUS
<1>1. CASE Begins1(lo, k)
  BY <1>0, <1>1 DEF Begins1, Prefixed, Agree
<1>2. ASSUME NEW i \in Nat, Less(lo, k, i) PROVE Prefixed(p, k)
  <2>1. CASE i > Len(p)
    BY <1>0, <1>2, <2>1 DEF Less, Prefixed, Agree
  <2>2. CASE ~(i > Len(p))
    <3>1. i \in 1..Len(p) /\ lo[i] = p[i] /\ hi[i] = p[i] /\ p[i] < k[i]
          /\ i \in 1..Len(k) /\ \A m \in 1..(i - 1) : hi[m] = k[m]
      BY <1>0, <1>2, <2>2 DEF Less, Prefixed, Agree
    <3>2. p[i] \in Int /\ k[i] \in Int
      BY <3>1, ByteAt
    <3>3. ~Begins1(k, hi)
      BY <3>1, <3>2 DEF Begins1, Agree
    <3>4. PICK j \in Nat : Less(k, hi, j)
      BY <3>3, AtMostIs
    <3>5. k[j] \in Int /\ hi[j] \in Int /\ k[j] < hi[j] /\ j \in 1..Len(k)
      BY <3>4, ByteAt DEF Less
    <3>6. CASE j > i
      BY <3>1, <3>2, <3>4, <3>6 DEF Less, Agree
    <3>7. CASE j = i
      BY <3>1, <3>2, <3>5, <3>7
    <3>8. CASE j < i
      <4>1. j \in 1..(i - 1)
        BY <3>5, <3>8
      <4> QED
        BY <3>1, <3>5, <4>1
    <3> QED
      BY <3>6, <3>7, <3>8
  <2> QED
    BY <2>1, <2>2
<1> QED
  BY <1>1, <1>2, AtMostIs

\* The first key of a range is the prefix and zeros, ...
LEMMA NotBelowZeros ==
    ASSUME NEW p \in Seq(Byte), NEW k \in Seq(Byte), NEW lo \in Seq(Byte),
           Prefixed(p, lo), Prefixed(p, k), Len(lo) <= Len(k),
           \A i \in (Len(p) + 1)..Len(lo) : lo[i] = 0
    PROVE  AtMost(lo, k)
<1> PICK n : n = Len(lo)
  OBVIOUS
<1>0. Len(p) \in Nat /\ Len(k) \in Nat /\ n \in Nat /\ n <= Len(k)
  OBVIOUS
<1>1. CASE Agree(lo, k, n)
  <2>1. Begins1(lo, k)
    BY <1>1 DEF Begins1
  <2> QED
    BY <2>1, AtMostIs
<1>2. ASSUME NEW i \in 1..n, lo[i] # k[i], Agree(lo, k, i - 1) PROVE AtMost(lo, k)
  <2>1. i \in Nat /\ i \in 1..Len(lo) /\ i \in 1..Len(k)
    BY <1>0
  <2>2. i \in (Len(p) + 1)..Len(lo)
    BY <1>0, <1>2 DEF Prefixed, Agree
  <2>3. lo[i] = 0 /\ k[i] \in Int /\ 0 <= k[i]
    BY <2>1, <2>2, ByteAt
  <2>4. lo[i] < k[i]
    BY <1>2, <2>3
  <2>5. Less(lo, k, i)
    BY <1>2, <2>1, <2>4 DEF Less
  <2> QED
    BY <2>1, <2>5, AtMostIs
<1> QED
  BY <1>0, <1>1, <1>2, FirstDifference

\* ... the last one the prefix and as many 255 as a key has bytes.
LEMMA NotAboveOnes ==
    ASSUME NEW p \in Seq(Byte), NEW k \in Seq(Byte), NEW hi \in Seq(Byte),
           Prefixed(p, hi), Prefixed(p, k), Len(k) <= Len(hi),
           \A i \in (Len(p) + 1)..Len(hi) : hi[i] = 255
    PROVE  AtMost(k, hi)
<1> PICK n : n = Len(k)
  OBVIOUS
<1>0. Len(p) \in Nat /\ Len(hi) \in Nat /\ n \in Nat /\ n <= Len(hi)
  OBVIOUS
<1>1. CASE Agree(k, hi, n)
  <2>1. Begins1(k, hi)
    BY <1>1 DEF Begins1
  <2> QED
    BY <2>1, AtMostIs
<1>2. ASSUME NEW i \in 1..n, k[i] # hi[i], Agree(k, hi, i - 1) PROVE AtMost(k, hi)
  <2>1. i \in Nat /\ i \in 1..Len(hi) /\ i \in 1..Len(k)
    BY <1>0
  <2>2. i \in (Len(p) + 1)..Len(hi)
    BY <1>0, <1>2 DEF Prefixed, Agree
  <2>3. hi[i] = 255 /\ k[i] \in Int /\ k[i] <= 255
    BY <2>1, <2>2, ByteAt
  <2>4. k[i] < hi[i]
    BY <1>2, <2>3
  <2>5. Less(k, hi, i)
    BY <1>2, <2>1, <2>4 DEF Less
  <2> QED
    BY <2>1, <2>5, AtMostIs
<1> QED
  BY <1>0, <1>1, <1>2, FirstDifference

-----------------------------------------------------------------------------
(* Keys and their parts. *)

LEMMA Joined ==
    ASSUME NEW s \in Seq(Byte), NEW t \in Seq(Byte)
    PROVE  /\ s \o t \in Seq(Byte) /\ Len(s \o t) = Len(s) + Len(t)
           /\ \A i \in 1..Len(s) : (s \o t)[i] = s[i]
           /\ \A i \in 1..Len(t) : (s \o t)[Len(s) + i] = t[i]
           /\ Prefixed(s, s \o t)
<1>1. Len(s) \in Nat /\ Len(t) \in Nat
  OBVIOUS
<1> PICK u : u = s \o t
  OBVIOUS
<1>2. /\ u \in Seq(Byte) /\ Len(u) = Len(s) + Len(t)
      /\ \A i \in 1..Len(s) : u[i] = s[i]
      /\ \A i \in 1..Len(t) : u[Len(s) + i] = t[i]
  OBVIOUS
<1>3. Prefixed(s, u)
  BY <1>1, <1>2 DEF Prefixed, Agree
<1> QED
  BY <1>2, <1>3

LEMMA JoinedThree ==
    ASSUME NEW a \in Seq(Byte), NEW b \in Seq(Byte), NEW c \in Seq(Byte)
    PROVE  (a \o b) \o c = a \o (b \o c)
<1> PICK u, v, w, x : u = a \o b /\ v = u \o c /\ w = b \o c /\ x = a \o w
  OBVIOUS
<1>1. /\ u \in Seq(Byte) /\ Len(u) = Len(a) + Len(b)
      /\ \A i \in 1..Len(a) : u[i] = a[i]
      /\ \A i \in 1..Len(b) : u[Len(a) + i] = b[i]
  BY Joined
<1>2. /\ w \in Seq(Byte) /\ Len(w) = Len(b) + Len(c)
      /\ \A i \in 1..Len(b) : w[i] = b[i]
      /\ \A i \in 1..Len(c) : w[Len(b) + i] = c[i]
  BY Joined
<1>3. /\ v \in Seq(Byte) /\ Len(v) = Len(u) + Len(c)
      /\ \A i \in 1..Len(u) : v[i] = u[i]
      /\ \A i \in 1..Len(c) : v[Len(u) + i] = c[i]
  BY <1>1, Joined
<1>4. /\ x \in Seq(Byte) /\ Len(x) = Len(a) + Len(w)
      /\ \A i \in 1..Len(a) : x[i] = a[i]
      /\ \A i \in 1..Len(w) : x[Len(a) + i] = w[i]
  BY <1>2, Joined
<1> PICK l, m, n : l = Len(a) /\ m = Len(b) /\ n = Len(c)
  OBVIOUS
<1>5. l \in Nat /\ m \in Nat /\ n \in Nat /\ Len(v) = l + m + n /\ Len(x) = l + m + n
      /\ Len(u) = l + m /\ Len(w) = m + n
  BY <1>1, <1>2, <1>3, <1>4
<1>6. ASSUME NEW i \in 1..(l + m + n) PROVE v[i] = x[i]
  <2>1. CASE i <= l
    <3>1. i \in 1..l /\ i \in 1..(l + m)
      BY <1>5, <2>1
    <3> QED
      BY <1>1, <1>3, <1>4, <1>5, <3>1
  <2>2. CASE ~(i <= l) /\ i <= l + m
    <3>1. i - l \in 1..m /\ i - l \in 1..(m + n) /\ l + (i - l) = i /\ i \in 1..(l + m)
      BY <1>5, <2>2
    <3>2. v[i] = b[i - l]
      BY <1>1, <1>3, <1>5, <3>1
    <3>3. x[i] = b[i - l]
      BY <1>2, <1>4, <1>5, <3>1
    <3> QED
      BY <3>2, <3>3
  <2>3. CASE ~(i <= l + m)
    <3>1. /\ i - (l + m) \in 1..n /\ (l + m) + (i - (l + m)) = i
          /\ i - l \in 1..(m + n) /\ l + (i - l) = i /\ m + (i - (l + m)) = i - l
      BY <1>5, <2>3
    <3>2. v[i] = c[i - (l + m)]
      BY <1>3, <1>5, <3>1
    <3>3. x[i] = c[i - (l + m)]
      BY <1>2, <1>4, <1>5, <3>1
    <3> QED
      BY <3>2, <3>3
  <2> QED
    BY <1>5, <2>1, <2>2, <2>3
<1>7. v = x
  BY <1>3, <1>4, <1>5, <1>6, SameBytes DEF Agree
<1> QED
  BY <1>7

LEMMA BeginningOf ==
    ASSUME NEW s \in Seq(Byte), NEW n \in Nat, n <= Len(s)
    PROVE  /\ SubSeq(s, 1, n) \in Seq(Byte) /\ Len(SubSeq(s, 1, n)) = n
           /\ \A i \in 1..n : SubSeq(s, 1, n)[i] = s[i]
OBVIOUS

\* The first part of two, and the second, are read where they were written.
LEMMA PartsOf ==
    ASSUME NEW s \in Seq(Byte), NEW t \in Seq(Byte)
    PROVE  Part(s \o t, 0, Len(s)) = s /\ Part(s \o t, Len(s), Len(t)) = t
<1> PICK u, m, n : u = s \o t /\ m = Len(s) /\ n = Len(t)
  OBVIOUS
<1>0. m \in Nat /\ n \in Nat /\ u \in Seq(Byte) /\ Len(u) = m + n
      /\ (\A i \in 1..m : u[i] = s[i]) /\ \A i \in 1..n : u[m + i] = t[i]
  BY Joined
<1>1. SubSeq(u, 1, m) = s
  <2>1. /\ SubSeq(u, 1, m) \in Seq(Byte) /\ Len(SubSeq(u, 1, m)) = m
        /\ \A i \in 1..m : SubSeq(u, 1, m)[i] = u[i]
    BY <1>0
  <2>2. Agree(SubSeq(u, 1, m), s, m) /\ Len(s) = m
    BY <1>0, <2>1 DEF Agree
  <2> QED
    BY <2>1, <2>2, SameBytes
<1>2. SubSeq(u, m + 1, m + n) = t
  <2>1. /\ SubSeq(u, m + 1, m + n) \in Seq(Byte) /\ Len(SubSeq(u, m + 1, m + n)) = n
        /\ \A i \in 1..n : SubSeq(u, m + 1, m + n)[i] = u[m + i]
    BY <1>0
  <2>2. Agree(SubSeq(u, m + 1, m + n), t, n) /\ Len(t) = n
    BY <1>0, <2>1 DEF Agree
  <2> QED
    BY <2>1, <2>2, SameBytes
<1>3. 0 + 1 = 1 /\ 0 + m = m
  BY <1>0
<1> QED
  BY <1>1, <1>2, <1>3 DEF Part

LEMMA RepeatedByte ==
    ASSUME NEW b \in Byte, NEW n \in Nat
    PROVE  Bytes(b, n) \in Seq(Byte) /\ Len(Bytes(b, n)) = n /\ \A i \in 1..n : Bytes(b, n)[i] = b
BY DEF Bytes

\* A prefix and then nothing but one byte.
LEMMA PrefixAndBytes ==
    ASSUME NEW p \in Seq(Byte), NEW b \in Byte, NEW n \in Nat
    PROVE  /\ p \o Bytes(b, n) \in Seq(Byte) /\ Len(p \o Bytes(b, n)) = Len(p) + n
           /\ Prefixed(p, p \o Bytes(b, n))
           /\ \A i \in (Len(p) + 1)..(Len(p) + n) : (p \o Bytes(b, n))[i] = b
<1> PICK u, t : u = p \o Bytes(b, n) /\ t = Bytes(b, n)
  OBVIOUS
<1>1. t \in Seq(Byte) /\ Len(t) = n /\ \A i \in 1..n : t[i] = b
  BY RepeatedByte
<1>2. u \in Seq(Byte) /\ Len(u) = Len(p) + n /\ Prefixed(p, u)
      /\ \A i \in 1..n : u[Len(p) + i] = t[i]
  <2>1. /\ p \o t \in Seq(Byte) /\ Len(p \o t) = Len(p) + Len(t) /\ Prefixed(p, p \o t)
        /\ \A i \in 1..Len(t) : (p \o t)[Len(p) + i] = t[i]
    BY <1>1, Joined
  <2>2. u = p \o t /\ Len(t) = n
    BY <1>1
  <2> QED
    BY <2>1, <2>2
<1>3. ASSUME NEW i \in (Len(p) + 1)..(Len(p) + n) PROVE u[i] = b
  <2>1. i - Len(p) \in 1..n /\ Len(p) + (i - Len(p)) = i
    OBVIOUS
  <2> QED
    BY <1>1, <1>2, <2>1
<1> QED
  BY <1>2, <1>3

Filled(s, p, b, n) ==
    /\ s \in Seq(Byte) /\ Len(s) = Len(p) + n /\ Prefixed(p, s)
    /\ \A i \in (Len(p) + 1)..(Len(p) + n) : s[i] = b

LEMMA FilledKey ==
    ASSUME NEW p \in Seq(Byte), NEW b \in Byte, NEW n \in Nat
    PROVE  Filled(p \o Bytes(b, n), p, b, n)
BY PrefixAndBytes DEF Filled

\* Such a range selects the keys with its prefix.
Spans(range, p, n, m) == Filled(range.min, p, 0, n) /\ Filled(range.max, p, 255, m)

\* A key is in a range.
Within1(range, k) == AtMost(range.min, k) /\ AtMost(k, range.max)

Selects(range, p, n, m, k) ==
    /\ Within1(range, k) => Prefixed(p, k)
    /\ Prefixed(p, k) /\ Len(p) + n <= Len(k) /\ Len(k) <= Len(p) + m => Within1(range, k)
    /\ Len(k) < Len(p) + n /\ Within1(range, k) => Len(p) < Len(k)

LEMMA SpansPrefix ==
    ASSUME NEW p \in Seq(Byte), NEW n \in Nat, NEW m \in Nat, NEW range, Spans(range, p, n, m),
           NEW k \in Seq(Byte)
    PROVE  Selects(range, p, n, m, k)
<1> PICK lo, hi : lo = range.min /\ hi = range.max
  OBVIOUS
<1>0. /\ lo \in Seq(Byte) /\ Len(lo) = Len(p) + n /\ Prefixed(p, lo)
      /\ hi \in Seq(Byte) /\ Len(hi) = Len(p) + m /\ Prefixed(p, hi)
      /\ \A i \in (Len(p) + 1)..(Len(p) + n) : lo[i] = 0
      /\ \A i \in (Len(p) + 1)..(Len(p) + m) : hi[i] = 255
  BY DEF Spans, Filled
<1>1. AtMost(lo, k) /\ AtMost(k, hi) => Prefixed(p, k)
  BY <1>0, BetweenPrefixed
<1>2. Prefixed(p, k) /\ Len(p) + n <= Len(k) /\ Len(k) <= Len(p) + m =>
          AtMost(lo, k) /\ AtMost(k, hi)
  <2> SUFFICES ASSUME Prefixed(p, k), Len(p) + n <= Len(k), Len(k) <= Len(p) + m
               PROVE  AtMost(lo, k) /\ AtMost(k, hi)
    OBVIOUS
  <2>1. AtMost(lo, k)
    <3>1. lo \in Seq(Byte) /\ Prefixed(p, lo) /\ Prefixed(p, k) /\ Len(lo) <= Len(k)
      BY <1>0
    <3>2. \A i \in (Len(p) + 1)..Len(lo) : lo[i] = 0
      BY <1>0
    <3> QED
      BY <3>1, <3>2, NotBelowZeros
  <2>2. AtMost(k, hi)
    <3>1. hi \in Seq(Byte) /\ Prefixed(p, hi) /\ Prefixed(p, k) /\ Len(k) <= Len(hi)
      BY <1>0
    <3>2. \A i \in (Len(p) + 1)..Len(hi) : hi[i] = 255
      BY <1>0
    <3> QED
      BY <3>1, <3>2, NotAboveOnes
  <2> QED
    BY <2>1, <2>2
<1>3. ASSUME Len(k) < Len(p) + n, Prefixed(p, k), Len(k) <= Len(p) PROVE ~AtMost(lo, k)
  <2>1. Len(k) = Len(p) /\ Len(p) \in Nat /\ \A i \in 1..Len(k) : lo[i] = k[i]
    BY <1>0, <1>3 DEF Prefixed, Agree
  <2>2. ~Begins1(lo, k)
    BY <1>0, <1>3 DEF Begins1
  <2>3. ASSUME NEW i \in Nat, Less(lo, k, i) PROVE FALSE
    <3>1. i \in 1..Len(k) /\ lo[i] < k[i]
      BY <2>3 DEF Less
    <3>2. k[i] \in Int /\ lo[i] = k[i]
      BY <2>1, <3>1, ByteAt
    <3> QED
      BY <3>1, <3>2
  <2> QED
    BY <1>0, <2>2, <2>3, AtMostIs
<1>4. Len(k) \in Nat /\ Len(p) \in Nat
  OBVIOUS
<1> QED
  BY <1>1, <1>2, <1>3, <1>4 DEF Selects, Within1

-----------------------------------------------------------------------------
(* The keys and values of what is stored. *)

LEMMA SomeBytes == \A b \in {0, 1, 16, 255} : b \in Byte
BY DEF Byte

LEMMA ZeroId == IsId(ZeroContract)
BY SomeBytes, RepeatedByte DEF ZeroContract, IsId, ContractIdSize

\* A key with the identifier of a contract and a tag.
Tagged(k, id, tag, n) ==
    k \in Seq(Byte) /\ Len(k) = 33 + n /\ Prefixed(id, k) /\ k[33] = tag

\* Such a prefix.
TagPrefix(p, id, tag) ==
    /\ p \in Seq(Byte) /\ Len(p) = 33 /\ id \in Seq(Byte) /\ Len(id) = 32
    /\ (\A i \in 1..32 : p[i] = id[i]) /\ p[33] = tag

LEMMA OneBehindId ==
    ASSUME NEW id, IsId(id), NEW t \in Seq(Byte), Len(t) = 1
    PROVE  TagPrefix(id \o t, id, t[1])
<1> PICK p : p = id \o t
  OBVIOUS
<1>1. id \in Seq(Byte) /\ Len(id) = 32
  BY DEF IsId, ContractIdSize
<1>2. /\ p \in Seq(Byte) /\ Len(p) = Len(id) + Len(t)
      /\ \A i \in 1..Len(id) : p[i] = id[i]
      /\ \A i \in 1..Len(t) : p[Len(id) + i] = t[i]
  BY <1>1, Joined
<1>3. Len(p) = 33 /\ 1 \in 1..Len(t) /\ Len(id) + 1 = 33
  BY <1>1, <1>2
<1>4. p[33] = t[1]
  BY <1>2, <1>3
<1> QED
  BY <1>1, <1>2, <1>3, <1>4 DEF TagPrefix

LEMMA TagBehindId ==
    ASSUME NEW id, IsId(id), NEW tag \in Byte
    PROVE  TagPrefix(id \o <<tag>>, id, tag)
<1>1. <<tag>> \in Seq(Byte) /\ Len(<<tag>>) = 1 /\ <<tag>>[1] = tag
  OBVIOUS
<1> PICK t : t = <<tag>>
  OBVIOUS
<1>2. t \in Seq(Byte) /\ Len(t) = 1 /\ t[1] = tag
  BY <1>1
<1>3. TagPrefix(id \o t, id, t[1])
  BY <1>2, OneBehindId
<1> QED
  BY <1>2, <1>3, Zenon

LEMMA TaggedIs ==
    ASSUME NEW id, NEW tag, NEW p, TagPrefix(p, id, tag), NEW k \in Seq(Byte)
    PROVE  Prefixed(p, k) <=> Prefixed(id, k) /\ 33 <= Len(k) /\ k[33] = tag
<1>1. Len(p) = 33 /\ Len(id) = 32 /\ (\A i \in 1..32 : p[i] = id[i]) /\ p[33] = tag
  BY DEF TagPrefix
<1>2. Len(k) \in Nat
  OBVIOUS
<1>3. Prefixed(p, k) <=> 33 <= Len(k) /\ \A i \in 1..33 : p[i] = k[i]
  BY <1>1 DEF Prefixed, Agree
<1>4. Prefixed(id, k) <=> 32 <= Len(k) /\ \A i \in 1..32 : id[i] = k[i]
  BY <1>1 DEF Prefixed, Agree
<1>5. (\A i \in 1..33 : p[i] = k[i]) <=> (\A i \in 1..32 : p[i] = k[i]) /\ p[33] = k[33]
  <2>1. \A i \in 1..33 : i \in 1..32 \/ i = 33
    OBVIOUS
  <2>2. 33 \in 1..33 /\ \A i \in 1..32 : i \in 1..33
    OBVIOUS
  <2> QED
    BY <2>1, <2>2
<1>6. (\A i \in 1..32 : p[i] = k[i]) <=> (\A i \in 1..32 : id[i] = k[i])
  BY <1>1
<1>7. 33 <= Len(k) => 32 <= Len(k)
  BY <1>2
<1> QED
  BY <1>1, <1>3, <1>4, <1>5, <1>6, <1>7

\* Behind identifier and tag comes the key proper.
TaggedParts(k, id, tag, t) ==
    Tagged(k, id, tag, Len(t)) /\ Part(k, 0, 32) = id /\ Part(k, 33, Len(t)) = t

LEMMA TaggedKeyOf ==
    ASSUME NEW id, NEW tag, NEW p, TagPrefix(p, id, tag), NEW t \in Seq(Byte)
    PROVE  TaggedParts(p \o t, id, tag, t)
<1> PICK k : k = p \o t
  OBVIOUS
<1>1. p \in Seq(Byte) /\ Len(p) = 33 /\ id \in Seq(Byte) /\ Len(id) = 32
  BY DEF TagPrefix
<1>2. k \in Seq(Byte) /\ Len(k) = Len(p) + Len(t) /\ Prefixed(p, k)
  BY <1>1, Joined
<1>3. Prefixed(id, k) /\ k[33] = tag
  BY <1>2, TaggedIs
<1>4. Part(k, 33, Len(t)) = t
  <2>1. Part(p \o t, Len(p), Len(t)) = t
    BY <1>1, PartsOf
  <2> QED
    BY <1>1, <2>1
<1>5. Part(k, 0, 32) = id
  <2> PICK u : u = SubSeq(k, 1, 32)
    OBVIOUS
  <2>1. u \in Seq(Byte) /\ Len(u) = 32 /\ \A i \in 1..32 : u[i] = k[i]
    <3>1. Len(k) \in Nat /\ 32 <= Len(k)
      BY <1>1, <1>2, <1>3 DEF Prefixed
    <3> PICK n : n = 32
      OBVIOUS
    <3>2. n \in Nat /\ n <= Len(k)
      BY <3>1
    <3>3. u = SubSeq(k, 1, n) /\ n = 32
      OBVIOUS
    <3>4. /\ SubSeq(k, 1, n) \in Seq(Byte) /\ Len(SubSeq(k, 1, n)) = n
          /\ \A i \in 1..n : SubSeq(k, 1, n)[i] = k[i]
      BY <1>2, <3>2, BeginningOf
    <3> QED
      BY <3>3, <3>4
  <2>2. Len(u) = Len(id) /\ Agree(u, id, Len(u))
    BY <1>1, <1>3, <2>1 DEF Agree, Prefixed
  <2>3. u = id
    BY <1>1, <2>1, <2>2, SameBytes
  <2>4. 0 + 1 = 1 /\ 0 + 32 = 32
    OBVIOUS
  <2> QED
    BY <2>3, <2>4 DEF Part
<1> QED
  BY <1>1, <1>2, <1>3, <1>4, <1>5 DEF Tagged, TaggedParts

LEMMA TaggedKey ==
    ASSUME NEW id, IsId(id), NEW tag \in Byte, NEW t \in Seq(Byte)
    PROVE  TaggedParts(id \o <<tag>> \o t, id, tag, t)
BY TagBehindId, TaggedKeyOf

\* Identifiers are as long as each other.
LEMMA SameId ==
    ASSUME NEW a, NEW b, IsId(a), IsId(b), NEW k, Prefixed(a, k), Prefixed(b, k)
    PROVE  a = b
BY SameBytes DEF IsId, ContractIdSize, Prefixed, Agree

\* Numbers in a field.
LEMMA PaddedIs ==
    ASSUME NEW n \in Nat, NEW size \in Nat
    PROVE  /\ Padded(n, size) \in Seq(Byte) /\ Len(Padded(n, size)) = size
           /\ Fits(n, size) => BigEndian(Padded(n, size)) = n
<1>1. CASE n = Huge
  <2>1. Padded(n, size) = Bytes(255, size) /\ ~Fits(n, size)
    BY <1>1, HugeIs DEF Padded, Fits
  <2> QED
    BY <2>1, SomeBytes, RepeatedByte
<1>2. CASE n # Huge
  <2> PICK s : s = [i \in 1..size |-> HighBytes(n, size - i) % 256]
    OBVIOUS
  <2>1. Padded(n, size) = s
    BY <1>2 DEF Padded
  <2>2. ASSUME NEW i \in 1..size PROVE HighBytes(n, size - i) % 256 \in Byte
    <3>1. size - i \in Nat
      OBVIOUS
    <3>2. HighBytes(n, size - i) \in Nat
      BY <3>1, HighStep
    <3> QED
      BY <3>2, ByteQuotient DEF Byte
  <2>3. s \in Seq(Byte) /\ Len(s) = size /\ \A i \in 1..size : s[i] = HighBytes(n, size - i) % 256
    BY <2>2
  <2>4. Fits(n, size) => n < Huge /\ HighBytes(n, size) = 0
    BY HugeIs DEF Fits
  <2> QED
    BY <2>1, <2>3, <2>4, DigitsRead
<1> QED
  BY <1>1, <1>2

LEMMA FitsEight ==
    ASSUME NEW n \in Nat, n < Huge
    PROVE  Fits(n, 8)
BY HugeIs, HugeAssumption, FitsBytes DEF Fits

\* What key each kind has.
LEMMA KeyOf ==
    ASSUME NEW item, IsItem(item), NEW k, k = EntryOf(item).key
    PROVE  /\ k \in Seq(Byte) /\ IsId(item.contract)
           /\ \/ item.kind = "shader" /\ k = item.contract
              \/ /\ item.kind = "other"
                 /\ item.tag # 1 /\ (item.tag = 16 => item.contract # ZeroContract)
                 /\ \E n \in 0..256 : Tagged(k, item.contract, item.tag, n)
              \/ item.kind = "funds" /\ Tagged(k, item.contract, 1, 4)
              \/ item.kind = "deployed" /\ Tagged(k, ZeroContract, 16, 64)
<1> PICK id : id = item.contract
  OBVIOUS
<1>0. IsId(id)
  BY DEF IsItem
<1>1. CASE item.kind = "shader"
  <2>1. k = id
    BY <1>1 DEF EntryOf, ShaderEntry
  <2> QED
    BY <1>0, <1>1, <2>1 DEF IsId
<1>2. CASE item.kind = "other"
  <2> PICK t, tag : t = item.key /\ tag = item.tag
    OBVIOUS
  <2>1. /\ tag \in Byte /\ t \in Seq(Byte) /\ Len(t) < 257 /\ tag # 1
        /\ (tag = 16 => id # ZeroContract)
    BY <1>2 DEF IsItem, SuffixMaxSize, LockedAmountTag, SidCidTag
  <2>2. k = id \o <<tag>> \o t
    BY <1>2 DEF EntryOf, OtherEntry
  <2>3. Tagged(k, id, tag, Len(t))
    BY <1>0, <2>1, <2>2, TaggedKey DEF TaggedParts
  <2>4. Len(t) \in 0..256
    <3> PICK m : m = Len(t)
      OBVIOUS
    <3>1. m \in Nat /\ m < 257
      BY <2>1
    <3>2. \A n \in Nat : n < 257 => n \in 0..256
      OBVIOUS
    <3> QED
      BY <3>1, <3>2
  <2> QED
    BY <1>0, <1>2, <2>1, <2>3, <2>4 DEF Tagged
<1>3. CASE item.kind = "funds"
  <2> PICK t : t = Padded(item.asset, 4)
    OBVIOUS
  <2>1. item.asset \in Nat
    BY <1>3, HugeIs DEF IsItem, Fits
  <2>2. t \in Seq(Byte) /\ Len(t) = 4
    BY <2>1, PaddedIs
  <2>3. k = id \o <<1>> \o t
    BY <1>3 DEF EntryOf, LockedFundsEntry, LockedAmountTag, AssetIdSize
  <2>4. Tagged(k, id, 1, 4)
    <3>1. 1 \in Byte
      BY SomeBytes
    <3>2. Tagged(k, id, 1, Len(t))
      BY <1>0, <2>2, <2>3, <3>1, TaggedKey DEF TaggedParts
    <3> QED
      BY <2>2, <3>2
  <2> QED
    BY <1>0, <1>3, <2>4 DEF Tagged
<1>4. CASE item.kind = "deployed"
  <2> PICK t, p : t = item.shader \o id /\ p = ZeroContract \o <<16>>
    OBVIOUS
  <2>1. IsId(item.shader)
    BY <1>4 DEF IsItem
  <2>2. t \in Seq(Byte) /\ Len(t) = 64
    <3>1. id \in Seq(Byte) /\ Len(id) = 32 /\ item.shader \in Seq(Byte) /\ Len(item.shader) = 32
      BY <1>0, <2>1 DEF IsId, ContractIdSize
    <3>2. t \in Seq(Byte) /\ Len(t) = Len(item.shader) + Len(id)
      BY <3>1, Joined
    <3> QED
      BY <3>1, <3>2
  <2>3. k = (p \o item.shader) \o id
    BY <1>4 DEF EntryOf, SidCidEntry, SidCidTag
  <2>4. p \in Seq(Byte)
    BY ZeroId, SomeBytes, TagBehindId DEF TagPrefix
  <2>5. k = p \o t
    BY <1>0, <2>1, <2>3, <2>4, JoinedThree DEF IsId
  <2>6. Tagged(k, ZeroContract, 16, 64)
    <3>1. 16 \in Byte
      BY SomeBytes
    <3>2. TaggedParts(ZeroContract \o <<16>> \o t, ZeroContract, 16, t)
      BY <2>2, <3>1, ZeroId, TaggedKey
    <3>3. Tagged(k, ZeroContract, 16, Len(t))
      BY <2>5, <3>2 DEF TaggedParts
    <3> QED
      BY <2>2, <3>3
  <2> QED
    BY <1>0, <1>4, <2>6 DEF Tagged
<1> QED
  BY <1>1, <1>2, <1>3, <1>4 DEF IsItem

-----------------------------------------------------------------------------
(* What the ranges select. *)

LEMMA StorageSpans ==
    ASSUME NEW id, IsId(id)
    PROVE  Spans(StorageRange(id), id, 1, 257)
<1> PICK zero, one, ones, most : zero = 0 /\ one = 1 /\ ones = 255 /\ most = 257
  OBVIOUS
<1>0. id \in Seq(Byte) /\ zero \in Byte /\ ones \in Byte /\ one \in Nat /\ most \in Nat
  BY SomeBytes DEF IsId
<1>1. Bytes(zero, one) = <<zero>>
  <2> PICK s, t : s = Bytes(zero, one) /\ t = <<zero>>
    OBVIOUS
  <2>1. s \in Seq(Byte) /\ Len(s) = one /\ \A i \in 1..one : s[i] = zero
    <3>1. /\ Bytes(zero, one) \in Seq(Byte) /\ Len(Bytes(zero, one)) = one
          /\ \A i \in 1..one : Bytes(zero, one)[i] = zero
      BY <1>0, RepeatedByte
    <3> QED
      BY <3>1
  <2>2. t \in Seq(Byte) /\ Len(t) = one /\ \A i \in 1..one : t[i] = zero
    BY <1>0
  <2>3. Agree(s, t, Len(s)) /\ Len(s) = Len(t)
    BY <2>1, <2>2 DEF Agree
  <2> QED
    BY <2>1, <2>2, <2>3, SameBytes
<1>2. /\ StorageRange(id).min = id \o Bytes(zero, one)
      /\ StorageRange(id).max = id \o Bytes(ones, most)
  <2>1. SuffixMaxSize = most
    BY DEF SuffixMaxSize
  <2> QED
    BY <1>1, <2>1 DEF StorageRange
<1>3. Filled(id \o Bytes(zero, one), id, zero, one)
  BY <1>0, FilledKey
<1>4. Filled(id \o Bytes(ones, most), id, ones, most)
  BY <1>0, FilledKey
<1> QED
  BY <1>2, <1>3, <1>4 DEF Spans

\* The other two ranges.
LEMMA FieldSpans ==
    ASSUME NEW p \in Seq(Byte), NEW size \in Nat, NEW range,
           range = [min |-> p \o Bytes(0, size), max |-> p \o Bytes(255, size)]
    PROVE  Spans(range, p, size, size)
<1> PICK zero, ones : zero = 0 /\ ones = 255
  OBVIOUS
<1>0. zero \in Byte /\ ones \in Byte
  BY SomeBytes
<1>1. range.min = p \o Bytes(zero, size) /\ range.max = p \o Bytes(ones, size)
  OBVIOUS
<1>2. Filled(p \o Bytes(zero, size), p, zero, size)
  BY <1>0, FilledKey
<1>3. Filled(p \o Bytes(ones, size), p, ones, size)
  BY <1>0, FilledKey
<1> QED
  BY <1>1, <1>2, <1>3 DEF Spans

LEMMA StorageSelects ==
    ASSUME NEW id, IsId(id), NEW item, IsItem(item), NEW k, k = EntryOf(item).key
    PROVE  Within1(StorageRange(id), k) <=>
               \/ item.kind \in {"other", "funds"} /\ item.contract = id
               \/ item.kind = "deployed" /\ id = ZeroContract
<1>0. k \in Seq(Byte) /\ id \in Seq(Byte) /\ Len(id) = 32 /\ Len(k) \in Nat /\ IsId(item.contract)
  BY KeyOf DEF IsId, ContractIdSize
<1>1. /\ Within1(StorageRange(id), k) => Prefixed(id, k) /\ (Len(k) < 33 => 32 < Len(k))
      /\ Prefixed(id, k) /\ 33 <= Len(k) /\ Len(k) <= 289 => Within1(StorageRange(id), k)
  <2> PICK range, n, m : range = StorageRange(id) /\ n = 1 /\ m = 257
    OBVIOUS
  <2>1. Spans(range, id, n, m) /\ n \in Nat /\ m \in Nat
    BY StorageSpans
  <2>2. Selects(range, id, n, m, k)
    BY <1>0, <2>1, SpansPrefix
  <2> QED
    BY <1>0, <2>2 DEF Selects
<1>2. Within1(StorageRange(id), k) => 33 <= Len(k)
  BY <1>0, <1>1
<1>3. CASE item.kind = "shader"
  <2>1. k = item.contract
    BY <1>3, KeyOf
  <2>2. Len(k) = 32
    BY <1>0, <2>1 DEF IsId, ContractIdSize
  <2> QED
    BY <1>2, <1>3, <2>2
<1>4. ASSUME NEW cid, IsId(cid), NEW tag, NEW n \in 0..256, Tagged(k, cid, tag, n)
      PROVE  Within1(StorageRange(id), k) <=> cid = id
  <2>1. Len(k) = 33 + n /\ Prefixed(cid, k)
    BY <1>4 DEF Tagged
  <2>2. 33 <= Len(k) /\ Len(k) <= 289
    BY <2>1
  <2> QED
    BY <1>1, <1>4, <2>1, <2>2, SameId
<1>5. CASE item.kind = "other"
  <2>1. PICK n \in 0..256 : Tagged(k, item.contract, item.tag, n)
    BY <1>5, KeyOf
  <2> QED
    BY <1>0, <1>4, <1>5, <2>1
<1>6. CASE item.kind = "funds"
  <2>1. Tagged(k, item.contract, 1, 4) /\ 4 \in 0..256
    BY <1>6, KeyOf
  <2> QED
    BY <1>0, <1>4, <1>6, <2>1
<1>7. CASE item.kind = "deployed"
  <2>1. Tagged(k, ZeroContract, 16, 64) /\ 64 \in 0..256
    BY <1>7, KeyOf
  <2> QED
    BY <1>4, <1>7, <2>1, ZeroId
<1> QED
  BY <1>3, <1>5, <1>6, <1>7 DEF IsItem

FieldRange(id, tag, size) ==
    [min |-> id \o <<tag>> \o Bytes(0, size), max |-> id \o <<tag>> \o Bytes(255, size)]

SelectsTag(range, id, tag, size, k) ==
    /\ Within1(range, k) => Prefixed(id, k) /\ 33 <= Len(k) /\ k[33] = tag
    /\ Tagged(k, id, tag, size) => Within1(range, k)

LEMMA TagSelects ==
    ASSUME NEW id, IsId(id), NEW tag \in Byte, NEW size \in Nat, NEW k \in Seq(Byte)
    PROVE  SelectsTag(FieldRange(id, tag, size), id, tag, size, k)
<1> PICK range : range = FieldRange(id, tag, size)
  OBVIOUS
<1> PICK p : p = id \o <<tag>>
  OBVIOUS
<1>1. TagPrefix(p, id, tag)
  BY TagBehindId
<1>2. p \in Seq(Byte) /\ Len(p) = 33
  BY <1>1 DEF TagPrefix
<1>3. Spans(range, p, size, size)
  BY <1>2, FieldSpans DEF FieldRange
<1>4. /\ Within1(range, k) => Prefixed(p, k)
      /\ Prefixed(p, k) /\ Len(k) = 33 + size => Within1(range, k)
  <2>1. Selects(range, p, size, size, k)
    BY <1>2, <1>3, SpansPrefix
  <2>2. Len(k) \in Nat
    OBVIOUS
  <2> QED
    BY <1>2, <2>1, <2>2 DEF Selects
<1>5. Prefixed(p, k) <=> Prefixed(id, k) /\ 33 <= Len(k) /\ k[33] = tag
  BY <1>1, TaggedIs
<1>6. ASSUME Tagged(k, id, tag, size) PROVE Within1(range, k)
  <2>1. Len(k) = 33 + size /\ Prefixed(id, k) /\ k[33] = tag
    BY <1>6 DEF Tagged
  <2>2. 33 <= Len(k)
    BY <2>1
  <2> QED
    BY <1>4, <1>5, <2>1, <2>2
<1> QED
  BY <1>4, <1>5, <1>6 DEF SelectsTag

LEMMA FundsSelects ==
    ASSUME NEW id, IsId(id), NEW item, IsItem(item), NEW k, k = EntryOf(item).key
    PROVE  Within1(LockedFundsRange(id), k) <=> item.kind = "funds" /\ item.contract = id
<1> PICK range : range = LockedFundsRange(id)
  OBVIOUS
<1>0. k \in Seq(Byte) /\ Len(k) \in Nat /\ IsId(item.contract)
      /\ 1 \in Byte /\ 4 \in Nat
  BY KeyOf, SomeBytes
<1> PICK tag, size : tag = 1 /\ size = 4
  OBVIOUS
<1>1. range = FieldRange(id, tag, size)
  BY DEF LockedFundsRange, LockedAmountTag, AssetIdSize, FieldRange
<1>2. /\ Within1(range, k) => Prefixed(id, k) /\ 33 <= Len(k) /\ k[33] = tag
      /\ Tagged(k, id, tag, size) => Within1(range, k)
  <2>1. SelectsTag(range, id, tag, size, k)
    BY <1>0, <1>1, TagSelects
  <2> QED
    BY <2>1 DEF SelectsTag
<1>3. CASE item.kind = "shader"
  <2>1. k = item.contract
    BY <1>3, KeyOf
  <2>2. Len(k) = 32
    BY <1>0, <2>1 DEF IsId, ContractIdSize
  <2>3. ~(33 <= Len(k))
    BY <2>2
  <2> QED
    BY <1>2, <1>3, <2>3
<1>4. CASE item.kind = "other"
  <2>1. k[33] # 1
    BY <1>4, KeyOf DEF Tagged
  <2> QED
    BY <1>2, <1>4, <2>1
<1>5. CASE item.kind = "funds"
  <2>1. Tagged(k, item.contract, 1, 4) /\ Prefixed(item.contract, k)
    BY <1>5, KeyOf DEF Tagged
  <2> QED
    BY <1>0, <1>2, <1>5, <2>1, SameId
<1>6. CASE item.kind = "deployed"
  <2>1. k[33] # 1
    BY <1>6, KeyOf DEF Tagged
  <2> QED
    BY <1>2, <1>6, <2>1
<1> QED
  BY <1>3, <1>4, <1>5, <1>6 DEF IsItem

LEMMA DeployedSelects ==
    ASSUME NEW item, IsItem(item), NEW k, k = EntryOf(item).key
    PROVE  Within1(SidCidRange, k) <=> item.kind = "deployed"
<1> PICK range, id : range = SidCidRange /\ id = ZeroContract
  OBVIOUS
<1>0. /\ k \in Seq(Byte) /\ Len(k) \in Nat /\ IsId(item.contract) /\ 16 \in Byte /\ 64 \in Nat
      /\ IsId(id)
  BY KeyOf, SomeBytes, ZeroId
<1> PICK tag, size : tag = 16 /\ size = 64
  OBVIOUS
<1>1. range = FieldRange(id, tag, size)
  <2>1. ShaderIdSize + ContractIdSize = size
    BY DEF ShaderIdSize, ContractIdSize
  <2> QED
    BY <2>1 DEF SidCidRange, SidCidTag, FieldRange
<1>2. /\ Within1(range, k) => Prefixed(id, k) /\ 33 <= Len(k) /\ k[33] = tag
      /\ Tagged(k, id, tag, size) => Within1(range, k)
  <2>1. SelectsTag(range, id, tag, size, k)
    BY <1>0, <1>1, TagSelects
  <2> QED
    BY <2>1 DEF SelectsTag
<1>3. CASE item.kind = "shader"
  <2>1. k = item.contract
    BY <1>3, KeyOf
  <2>2. Len(k) = 32
    BY <1>0, <2>1 DEF IsId, ContractIdSize
  <2>3. ~(33 <= Len(k))
    BY <2>2
  <2> QED
    BY <1>2, <1>3, <2>3
<1>4. CASE item.kind = "other"
  <2>1. Prefixed(item.contract, k) /\ k[33] = item.tag /\ (item.tag = 16 => item.contract # id)
    BY <1>4, KeyOf DEF Tagged
  <2> QED
    BY <1>0, <1>2, <1>4, <2>1, SameId
<1>5. CASE item.kind = "funds"
  <2>1. k[33] # 16
    BY <1>5, KeyOf DEF Tagged
  <2> QED
    BY <1>2, <1>5, <2>1
<1>6. CASE item.kind = "deployed"
  <2>1. Tagged(k, id, 16, 64)
    BY <1>6, KeyOf
  <2> QED
    BY <1>2, <1>6, <2>1
<1> QED
  BY <1>3, <1>4, <1>5, <1>6 DEF IsItem

\* Of all that may be stored, each query selects its own.
LEMMA SelectsOwn ==
    ASSUME NEW query \in Queries, NEW item, IsItem(item)
    PROVE  Within1(KeyRange(query), EntryOf(item).key) <=> Own(query, item)
<1>0. IsId(query.contract)
  BY StoresAssumption DEF Queries
<1>1. CASE query.kind = "storage"
  <2>1. KeyRange(query) = StorageRange(query.contract)
    BY <1>1 DEF KeyRange
  <2> QED
    BY <1>0, <1>1, <2>1, StorageSelects DEF Own
<1>2. CASE query.kind = "funds"
  <2>1. KeyRange(query) = LockedFundsRange(query.contract)
    BY <1>2 DEF KeyRange
  <2> QED
    BY <1>0, <1>2, <2>1, FundsSelects DEF Own
<1>3. CASE query.kind = "deployed"
  <2>1. KeyRange(query) = SidCidRange
    BY <1>3 DEF KeyRange
  <2> QED
    BY <1>0, <1>3, <2>1, DeployedSelects DEF Own
<1> QED
  BY <1>1, <1>2, <1>3 DEF Queries

-----------------------------------------------------------------------------
(* What the parsers read. *)

LEMMA FieldRead ==
    ASSUME NEW n \in Nat, n < Huge
    PROVE  /\ Padded(n, 8) \in Seq(Byte) /\ Len(Padded(n, 8)) = 8
           /\ BigEndian(Padded(n, 8)) = n
<1> PICK size : size = 8
  OBVIOUS
<1>1. size \in Nat /\ Fits(n, size)
  BY FitsEight
<1> QED
  BY <1>1, PaddedIs

LEMMA AssetRead ==
    ASSUME NEW item, IsItem(item), item.kind = "funds"
    PROVE  /\ Padded(item.asset, 4) \in Seq(Byte) /\ Len(Padded(item.asset, 4)) = 4
           /\ BigEndian(Padded(item.asset, 4)) = item.asset
<1> PICK size : size = 4
  OBVIOUS
<1>0. size \in Nat /\ item.asset \in Nat
  BY HugeIs DEF IsItem, Fits
<1>1. Padded(item.asset, size) \in Seq(Byte) /\ Len(Padded(item.asset, size)) = size
      /\ (Fits(item.asset, size) => BigEndian(Padded(item.asset, size)) = item.asset)
  BY <1>0, PaddedIs
<1>2. ~Fits(item.asset, size) => BigEndian(Padded(item.asset, size)) = item.asset
  BY DEF IsItem, Padded, AssetIdSize
<1> QED
  BY <1>1, <1>2

LEMMA FundsKey ==
    ASSUME NEW k, NEW id, NEW t, TaggedParts(k, id, 1, t), Len(t) = 4
    PROVE  Len(k) = 37 /\ k[33] = 1 /\ Part(k, 0, 32) = id /\ Part(k, 33, 4) = t
<1> PICK n : n = Len(t)
  OBVIOUS
<1>1. Len(k) = 33 + n /\ k[33] = 1 /\ Part(k, 0, 32) = id /\ Part(k, 33, n) = t
  BY DEF TaggedParts, Tagged
<1>2. n = 4 /\ 33 + n = 37
  OBVIOUS
<1>3. Part(k, 33, 4) = t
  BY <1>1, <1>2, Zenon
<1>4. Len(k) = 37
  BY <1>1, <1>2, Zenon
<1> QED
  BY <1>1, <1>3, <1>4, Zenon

LEMMA AmountValue ==
    ASSUME NEW v \in Seq(Byte), NEW w \in Seq(Byte), Len(v) = 8, Len(w) = 8
    PROVE  Len(v \o w) = 16 /\ Part(v \o w, 0, 8) = v /\ Part(v \o w, 8, 8) = w
<1> PICK u, m, n : u = v \o w /\ m = Len(v) /\ n = Len(w)
  OBVIOUS
<1>1. Part(u, 0, m) = v /\ Part(u, m, n) = w
  BY PartsOf
<1>2. Len(u) = m + n
  BY Joined
<1>3. m = 8 /\ n = 8 /\ m + n = 16
  OBVIOUS
<1>4. Part(u, 0, 8) = v /\ Part(u, 8, 8) = w
  BY <1>1, <1>3, Zenon
<1>5. Len(u) = 16
  BY <1>2, <1>3, Zenon
<1> QED
  BY <1>4, <1>5, Zenon

LEMMA FundsRead ==
    ASSUME NEW item, IsItem(item), item.kind = "funds", NEW e, e = EntryOf(item)
    PROVE  ParseLockedFunds(e) =
               [ok |-> TRUE, contract |-> item.contract, asset |-> item.asset, amount |-> item.amount]
<1> PICK t, v, w, h, l : /\ t = Padded(item.asset, 4)
                         /\ h = (IF item.amount = Huge THEN 1 ELSE 0)
                         /\ l = (IF item.amount = Huge THEN 0 ELSE item.amount)
                         /\ v = Padded(h, 8) /\ w = Padded(l, 8)
  OBVIOUS
<1>0. h \in Nat /\ l \in Nat /\ h < Huge /\ l < Huge /\ IsId(item.contract) /\ 1 \in Byte
  BY HugeIs, HugeAssumption, SomeBytes DEF IsItem
<1>1. e.key = item.contract \o <<1>> \o t /\ e.value = v \o w
  BY DEF EntryOf, LockedFundsEntry, LockedAmountTag, AssetIdSize, ComponentSize
<1>2. t \in Seq(Byte) /\ Len(t) = 4 /\ BigEndian(t) = item.asset
  BY AssetRead
<1>3. /\ v \in Seq(Byte) /\ Len(v) = 8 /\ BigEndian(v) = h
      /\ w \in Seq(Byte) /\ Len(w) = 8 /\ BigEndian(w) = l
  BY <1>0, FieldRead
<1>4. TaggedParts(e.key, item.contract, 1, t)
  BY <1>0, <1>1, <1>2, TaggedKey
<1>5. Len(e.key) = 37 /\ e.key[33] = 1 /\ Part(e.key, 0, 32) = item.contract
      /\ Part(e.key, 33, 4) = t
  BY <1>2, <1>4, FundsKey
<1>6. Len(e.value) = 16 /\ Part(e.value, 0, 8) = v /\ Part(e.value, 8, 8) = w
  <2>1. Len(v \o w) = 16 /\ Part(v \o w, 0, 8) = v /\ Part(v \o w, 8, 8) = w
    BY <1>3, AmountValue
  <2> QED
    BY <1>1, <2>1, Zenon
<1>7. (IF h > 0 THEN Huge ELSE l) = item.amount
  OBVIOUS
<1>8. ContractIdSize + 1 = 33 /\ ContractIdSize + 1 + AssetIdSize = 37 /\ 2 * ComponentSize = 16
      /\ ContractIdSize = 32 /\ AssetIdSize = 4 /\ ComponentSize = 8 /\ LockedAmountTag = 1
  BY DEF ContractIdSize, AssetIdSize, ComponentSize, LockedAmountTag
<1> QED
  BY <1>2, <1>3, <1>5, <1>6, <1>7, <1>8 DEF ParseLockedFunds

LEMMA DeployedRead ==
    ASSUME NEW item, IsItem(item), item.kind = "deployed", NEW e, e = EntryOf(item)
    PROVE  ParseSidCid(e) = [ok |-> TRUE, shader |-> item.shader,
                             contract |-> item.contract, height |-> item.height]
<1> PICK id, sid, t, v, p : /\ id = item.contract /\ sid = item.shader /\ t = sid \o id
                            /\ v = Padded(item.height, 8) /\ p = ZeroContract \o <<16>>
  OBVIOUS
<1>0. IsId(id) /\ IsId(sid) /\ item.height \in Nat /\ item.height < Huge /\ 16 \in Byte
  BY HugeIs, SomeBytes DEF IsItem
<1>1. id \in Seq(Byte) /\ Len(id) = 32 /\ sid \in Seq(Byte) /\ Len(sid) = 32
  BY <1>0 DEF IsId, ContractIdSize
<1>2. t \in Seq(Byte) /\ Len(t) = 64 /\ Part(t, 0, 32) = sid /\ Part(t, 32, 32) = id
  <2>1. Part(sid \o id, 0, Len(sid)) = sid /\ Part(sid \o id, Len(sid), Len(id)) = id
    BY <1>1, PartsOf
  <2>2. sid \o id \in Seq(Byte) /\ Len(sid \o id) = Len(sid) + Len(id)
    BY <1>1, Joined
  <2> QED
    BY <1>1, <2>1, <2>2
<1>3. v \in Seq(Byte) /\ Len(v) = 8 /\ BigEndian(v) = item.height
  BY <1>0, FieldRead
<1>4. e.key = p \o t /\ e.value = v
  <2>1. p \in Seq(Byte)
    BY ZeroId, SomeBytes, TagBehindId DEF TagPrefix
  <2>2. e.key = (p \o sid) \o id /\ e.value = v
    BY DEF EntryOf, SidCidEntry, SidCidTag, HeightSize
  <2> QED
    BY <1>1, <2>1, <2>2, JoinedThree
<1>5. TaggedParts(e.key, ZeroContract, 16, t)
  <2>1. TaggedParts(ZeroContract \o <<16>> \o t, ZeroContract, 16, t)
    BY <1>0, <1>2, ZeroId, TaggedKey
  <2> QED
    BY <1>4, <2>1
<1>6. Len(e.key) = 97 /\ e.key[33] = 16 /\ Part(e.key, 0, 32) = ZeroContract
      /\ Part(e.key, 33, 64) = t
  <2> PICK k, n : k = e.key /\ n = Len(t)
    OBVIOUS
  <2>1. /\ k \in Seq(Byte) /\ Len(k) = 33 + n /\ k[33] = 16
        /\ Part(k, 0, 32) = ZeroContract /\ Part(k, 33, n) = t
    BY <1>5 DEF TaggedParts, Tagged
  <2>2. n = 64 /\ n \in Nat
    BY <1>2
  <2>3. Part(k, 33, 64) = t
    BY <2>1, <2>2, Zenon
  <2>4. Len(k) = 97
    <3>1. 33 + n = 97
      BY <2>2
    <3> QED
      BY <2>1, <3>1, Zenon
  <2> QED
    BY <2>1, <2>3, <2>4, Zenon
<1>7. Part(e.key, 33, 32) = sid /\ Part(e.key, 65, 32) = id
  <2> PICK k : k = e.key
    OBVIOUS
  <2>1. k \in Seq(Byte) /\ Len(k) = 97 /\ t = SubSeq(k, 34, 97)
    <3>1. k \in Seq(Byte)
      BY <1>5 DEF TaggedParts, Tagged
    <3>2. Part(k, 33, 64) = SubSeq(k, 34, 97)
      BY DEF Part
    <3> QED
      BY <1>6, <3>1, <3>2
  <2>2. SubSeq(t, 1, 32) = SubSeq(k, 34, 65) /\ SubSeq(t, 33, 64) = SubSeq(k, 66, 97)
    BY <2>1
  <2>3. Part(t, 0, 32) = SubSeq(t, 1, 32) /\ Part(t, 32, 32) = SubSeq(t, 33, 64)
        /\ Part(k, 33, 32) = SubSeq(k, 34, 65) /\ Part(k, 65, 32) = SubSeq(k, 66, 97)
    BY DEF Part
  <2> QED
    BY <1>2, <2>2, <2>3
<1>8. ContractIdSize + 1 = 33 /\ ContractIdSize + 1 + ShaderIdSize + ContractIdSize = 97
      /\ ContractIdSize + 1 + ShaderIdSize = 65 /\ ShaderIdSize = 32
      /\ ContractIdSize = 32 /\ HeightSize = 8 /\ SidCidTag = 16
  BY DEF ContractIdSize, ShaderIdSize, HeightSize, SidCidTag
<1> QED
  BY <1>3, <1>4, <1>6, <1>7, <1>8 DEF ParseSidCid

-----------------------------------------------------------------------------
(* The listing. *)

\* What a query selects, its parser accepts.
LEMMA OwnAccepted ==
    ASSUME NEW query \in Queries, NEW item, IsItem(item), Own(query, item)
    PROVE  Accepted(query, EntryOf(item))
<1>1. CASE query.kind = "storage"
  BY <1>1 DEF Accepted
<1>2. CASE query.kind = "funds"
  <2>1. item.kind = "funds" /\ item.contract = query.contract
    BY <1>2 DEF Own
  <2>2. ParseLockedFunds(EntryOf(item)).ok /\ ParseLockedFunds(EntryOf(item)).contract = item.contract
    BY <2>1, FundsRead
  <2> QED
    BY <1>2, <2>1, <2>2 DEF Accepted
<1>3. CASE query.kind = "deployed"
  <2>1. item.kind = "deployed"
    BY <1>3 DEF Own
  <2>2. ParseSidCid(EntryOf(item)).ok
    BY <2>1, DeployedRead
  <2> QED
    BY <1>3, <2>2 DEF Accepted
<1> QED
  BY <1>1, <1>2, <1>3 DEF Queries

\* The ends of a range are keys.
LEMMA RangeBytes ==
    ASSUME NEW query \in Queries
    PROVE  KeyRange(query).min \in Seq(Byte) /\ KeyRange(query).max \in Seq(Byte)
<1> PICK range : range = KeyRange(query)
  OBVIOUS
<1>0. IsId(query.contract)
  BY StoresAssumption DEF Queries
<1>1. ASSUME NEW p, NEW n, NEW m, Spans(range, p, n, m) PROVE range.min \in Seq(Byte) /\ range.max \in Seq(Byte)
  BY <1>1 DEF Spans, Filled
<1>2. ASSUME NEW id, IsId(id), NEW tag \in Byte, NEW size \in Nat, range = FieldRange(id, tag, size)
      PROVE  \E p, n, m : Spans(range, p, n, m)
  <2> PICK p : p = id \o <<tag>>
    OBVIOUS
  <2>1. p \in Seq(Byte)
    BY <1>2, TagBehindId DEF TagPrefix
  <2>2. Spans(range, p, size, size)
    BY <1>2, <2>1, FieldSpans DEF FieldRange
  <2> QED
    BY <2>2
<1>3. CASE query.kind = "storage"
  <2>1. range = StorageRange(query.contract)
    BY <1>3 DEF KeyRange
  <2> QED
    BY <1>0, <1>1, <2>1, StorageSpans
<1>4. CASE query.kind = "funds"
  <2> PICK id, tag, size : id = query.contract /\ tag = 1 /\ size = 4
    OBVIOUS
  <2>1. range = FieldRange(id, tag, size)
    BY <1>4 DEF KeyRange, LockedFundsRange, LockedAmountTag, AssetIdSize, FieldRange
  <2>2. tag \in Byte /\ size \in Nat /\ IsId(id)
    BY <1>0, SomeBytes
  <2> QED
    BY <1>1, <1>2, <2>1, <2>2
<1>5. CASE query.kind = "deployed"
  <2> PICK id, tag, size : id = ZeroContract /\ tag = 16 /\ size = 64
    OBVIOUS
  <2>1. range = FieldRange(id, tag, size)
    <3>1. ShaderIdSize + ContractIdSize = size
      BY DEF ShaderIdSize, ContractIdSize
    <3> QED
      BY <1>5, <3>1 DEF KeyRange, SidCidRange, SidCidTag, FieldRange
  <2>2. tag \in Byte /\ size \in Nat /\ IsId(id)
    BY ZeroId, SomeBytes
  <2> QED
    BY <1>1, <1>2, <2>1, <2>2
<1> QED
  BY <1>3, <1>4, <1>5 DEF Queries

LEMMA StoredItems ==
    ASSUME ScanInv
    PROVE  /\ \A item \in stored : IsItem(item) /\ EntryOf(item).key \in Seq(Byte)
           /\ \A a, b \in stored : EntryOf(a).key = EntryOf(b).key => a = b
           /\ always \subseteq stored /\ stored \subseteq ever
BY KeyOf, StoresAssumption DEF ScanInv, ScanTypeOK, HistoryInv

\* The rest of a listing under way is some of what the query selects.
LEMMA RestOwn ==
    ASSUME ScanInv, scan = "running", NEW e \in Rest
    PROVE  /\ \E item \in stored : e = EntryOf(item) /\ Own(asked, item) /\ IsItem(item)
           /\ e.key \in Seq(Byte) /\ AtMost(keyMin, e.key) /\ (skipMin => e.key # keyMin)
           /\ AtMost(KeyRange(asked).min, e.key)
<1> PICK k, lo, hi : k = e.key /\ lo = KeyRange(asked).min /\ hi = KeyRange(asked).max
  OBVIOUS
<1>1. PICK item \in stored : e = EntryOf(item)
  BY DEF Rest, Enumerated
<1>2. AtMost(keyMin, k) /\ AtMost(k, hi) /\ (skipMin => k # keyMin)
  BY DEF Rest, Enumerated
<1>3. IsItem(item) /\ k \in Seq(Byte) /\ asked \in Queries /\ keyMin \in Seq(Byte) /\ lo \in Seq(Byte)
  BY <1>1, StoredItems, RangeBytes DEF ScanInv, ScanTypeOK
<1>4. AtMost(lo, keyMin)
  BY DEF ScanInv, ProgressInv
<1>5. AtMost(lo, k)
  BY <1>2, <1>3, <1>4, OrderTransitive
<1>6. Within1(KeyRange(asked), EntryOf(item).key)
  BY <1>1, <1>2, <1>5 DEF Within1
<1>7. Own(asked, item)
  BY <1>3, <1>6, SelectsOwn
<1> QED
  BY <1>1, <1>2, <1>3, <1>5, <1>7

\* Of what was there all the time, the query's has been taken, or is in the rest.
LEMMA TakenOrLeft ==
    ASSUME ScanInv, scan = "running", NEW item \in always, Own(asked, item)
    PROVE  EntryOf(item) \in Rest \/ \E p \in DOMAIN pages : EntryOf(item) \in pages[p]
<1> PICK k, lo, hi : /\ k = EntryOf(item).key /\ lo = KeyRange(asked).min
                     /\ hi = KeyRange(asked).max
  OBVIOUS
<1>1. item \in stored /\ IsItem(item) /\ k \in Seq(Byte) /\ asked \in Queries /\ keyMin \in Seq(Byte)
  BY StoredItems DEF ScanInv, ScanTypeOK
<1>2. AtMost(lo, k) /\ AtMost(k, hi)
  <2>1. Within1(KeyRange(asked), EntryOf(item).key)
    BY <1>1, SelectsOwn
  <2> QED
    BY <2>1 DEF Within1
<1>3. AtMost(keyMin, k) /\ (skipMin => k # keyMin) => EntryOf(item) \in Rest
  BY <1>1, <1>2 DEF Rest, Enumerated
<1>4. skipMin /\ AtMost(k, keyMin) => \E p \in DOMAIN pages : EntryOf(item) \in pages[p]
  BY DEF ScanInv, ProgressInv
<1>5. ~skipMin => AtMost(keyMin, k)
  BY <1>2 DEF ScanInv, ProgressInv
<1>6. AtMost(keyMin, k) \/ AtMost(k, keyMin)
  BY <1>1, OrderTotal
<1>7. k = keyMin => AtMost(k, keyMin)
  BY <1>1, OrderReflexive
<1> QED
  BY <1>3, <1>4, <1>5, <1>6, <1>7

LEMMA AppendedPage ==
    ASSUME NEW T, NEW s \in Seq(T), NEW x \in T, NEW t, t = Append(s, x)
    PROVE  /\ t \in Seq(T)
           /\ \A p \in DOMAIN s : p \in DOMAIN t /\ t[p] = s[p]
           /\ \E n \in DOMAIN t : t[n] = x /\ \A p \in DOMAIN t : p = n \/ p \in DOMAIN s
<1> PICK n : n = Len(s) + 1
  OBVIOUS
<1>1. DOMAIN s = 1..Len(s) /\ DOMAIN t = 1..n /\ Len(s) \in Nat /\ t \in Seq(T)
  OBVIOUS
<1>2. t[n] = x /\ \A p \in 1..Len(s) : t[p] = s[p]
  OBVIOUS
<1>3. n \in 1..n /\ (\A p \in 1..Len(s) : p \in 1..n) /\ \A p \in 1..n : p = n \/ p \in 1..Len(s)
  BY <1>1
<1> QED
  BY <1>1, <1>2, <1>3

\* What is said of the entries that have been taken.
TakenWell(e) ==
    \E item \in ever :
        /\ Own(asked, item) /\ e = EntryOf(item)
        /\ asked.kind = "funds" =>
              ParseLockedFunds(e) =
                  [ok |-> TRUE, contract |-> item.contract, asset |-> item.asset, amount |-> item.amount]
        /\ asked.kind = "deployed" =>
              ParseSidCid(e) =
                  [ok |-> TRUE, shader |-> item.shader, contract |-> item.contract, height |-> item.height]

LEMMA OwnWell ==
    ASSUME NEW item \in ever, IsItem(item), Own(asked, item), NEW e, e = EntryOf(item)
    PROVE  TakenWell(e)
<1>1. ASSUME asked.kind = "funds"
      PROVE  ParseLockedFunds(e) =
                 [ok |-> TRUE, contract |-> item.contract, asset |-> item.asset, amount |-> item.amount]
  BY <1>1, FundsRead DEF Own
<1>2. ASSUME asked.kind = "deployed"
      PROVE  ParseSidCid(e) =
                 [ok |-> TRUE, shader |-> item.shader, contract |-> item.contract, height |-> item.height]
  BY <1>2, DeployedRead DEF Own
<1> QED
  BY <1>1, <1>2, Zenon DEF TakenWell

LEMMA RestWell ==
    ASSUME ScanInv, scan = "running", NEW e \in Rest
    PROVE  TakenWell(e) /\ Accepted(asked, e)
<1>1. PICK item \in stored : e = EntryOf(item) /\ Own(asked, item) /\ IsItem(item)
  BY RestOwn
<1>2. item \in ever /\ asked \in Queries
  BY <1>1, StoredItems DEF ScanInv, ScanTypeOK
<1> QED
  BY <1>1, <1>2, OwnAccepted, OwnWell

LEMMA PagesWell ==
    ASSUME ScanInv, NEW p \in DOMAIN pages, NEW e \in pages[p]
    PROVE  TakenWell(e)
<1>1. PICK item \in ever : Own(asked, item) /\ e = EntryOf(item)
  BY DEF ScanInv, RangesSelectOwn
<1>2. IsItem(item)
  BY DEF ScanInv, HistoryInv
<1> QED
  BY <1>1, <1>2, OwnWell

\* Nothing of the rest has been taken, and no key is in it twice.
LEMMA RestNew ==
    ASSUME ScanInv, scan = "running", NEW e \in Rest
    PROVE  /\ \A f \in Rest : e.key = f.key => e = f
           /\ \A p \in DOMAIN pages : \A f \in pages[p] : e.key # f.key
<1>1. ASSUME NEW f \in Rest, e.key = f.key PROVE e = f
  <2>1. PICK a \in stored : e = EntryOf(a)
    BY RestOwn
  <2>2. PICK b \in stored : f = EntryOf(b)
    BY RestOwn
  <2> QED
    BY <1>1, <2>1, <2>2, StoredItems
<1>2. ASSUME NEW p \in DOMAIN pages, NEW f \in pages[p], e.key = f.key PROVE FALSE
  <2>1. skipMin
    BY <1>2 DEF ScanInv, ProgressInv
  <2>2. AtMost(f.key, keyMin) /\ AtMost(keyMin, e.key) /\ e.key # keyMin /\ e.key \in Seq(Byte)
    BY <1>2, <2>1, RestOwn DEF ScanInv, ProgressInv
  <2>3. keyMin \in Seq(Byte) /\ AtMost(e.key, keyMin)
    BY <1>2, <2>2 DEF ScanInv, ScanTypeOK
  <2> QED
    BY <2>2, <2>3, OrderAntisymmetric
<1> QED
  BY <1>1, <1>2

LEMMA NoneRefused ==
    ASSUME ScanInv, scan = "running", NEW last
    PROVE  \A e \in UpTo(last) : Accepted(asked, e)
BY RestWell DEF UpTo

\* What has been taken stays taken well when a page is added.
LEMMA Taking ==
    ASSUME ScanInv, scan = "running", NEW last, pages' = Append(pages, UpTo(last)),
           UNCHANGED <<asked, ever>>
    PROVE  /\ pages' \in Seq(SUBSET {EntryOf(item) : item \in ever'})
           /\ \A p \in DOMAIN pages' : \A e \in pages'[p] : TakenWell(e)
           /\ EachKeyOnce'
<1> PICK x, now, T : x = UpTo(last) /\ now = pages' /\ T = SUBSET {EntryOf(item) : item \in ever}
  OBVIOUS
<1>1. x \subseteq Rest
  BY DEF UpTo
<1>2. \A e \in x : TakenWell(e) /\ Accepted(asked, e)
  BY <1>1, RestWell
<1>3. now = Append(pages, x)
  OBVIOUS
<1>4. x \in T /\ pages \in Seq(T)
  <2>1. \A e \in x : \E item \in ever : e = EntryOf(item)
    BY <1>2 DEF TakenWell
  <2> QED
    BY <2>1 DEF ScanInv, ScanTypeOK
<1>5. /\ now \in Seq(T)
      /\ \A p \in DOMAIN pages : p \in DOMAIN now /\ now[p] = pages[p]
      /\ \E n \in DOMAIN now : now[n] = x /\ \A p \in DOMAIN now : p = n \/ p \in DOMAIN pages
  BY <1>3, <1>4, AppendedPage
<1>6. PICK n \in DOMAIN now : now[n] = x /\ \A p \in DOMAIN now : p = n \/ p \in DOMAIN pages
  BY <1>5
<1>7. \A p \in DOMAIN pages : \A e \in pages[p] : TakenWell(e)
  BY PagesWell
<1>8. \A p \in DOMAIN now : \A e \in now[p] : TakenWell(e)
  BY <1>2, <1>5, <1>6, <1>7
<1>9. \A p, q \in DOMAIN now : \A e \in now[p], f \in now[q] : e.key = f.key => p = q /\ e = f
  <2> TAKE p, q \in DOMAIN now
  <2> TAKE e \in now[p], f \in now[q]
  <2> HAVE e.key = f.key
  <2>1. CASE p = n /\ q = n
    BY <1>1, <1>6, <2>1, RestNew
  <2>2. CASE p = n /\ q # n
    <3>1. e \in Rest /\ q \in DOMAIN pages /\ f \in pages[q]
      BY <1>1, <1>5, <1>6, <2>2
    <3> QED
      BY <3>1, RestNew
  <2>3. CASE p # n /\ q = n
    <3>1. f \in Rest /\ p \in DOMAIN pages /\ e \in pages[p]
      BY <1>1, <1>5, <1>6, <2>3
    <3> QED
      BY <3>1, RestNew
  <2>4. CASE p # n /\ q # n
    <3>1. p \in DOMAIN pages /\ e \in pages[p] /\ q \in DOMAIN pages /\ f \in pages[q]
      BY <1>5, <1>6, <2>4
    <3> QED
      BY <3>1 DEF ScanInv, EachKeyOnce
  <2> QED
    BY <2>1, <2>2, <2>3, <2>4
<1> QED
  BY <1>5, <1>8, <1>9 DEF EachKeyOnce

\* So the properties about what has been taken hold of a state like that.
LEMMA ReadWell ==
    ASSUME \A p \in DOMAIN pages : \A e \in pages[p] : TakenWell(e)
    PROVE  /\ \A p \in DOMAIN pages : \A e \in pages[p] :
                 \E item \in ever : Own(asked, item) /\ e = EntryOf(item)
           /\ ReadAsStored
<1>1. ASSUME NEW p \in DOMAIN pages, NEW e \in pages[p]
      PROVE  \E item \in ever : Own(asked, item) /\ e = EntryOf(item)
  BY DEF TakenWell
<1>2. ReadAsStored
  <2> SUFFICES ASSUME NEW p \in DOMAIN pages, NEW e \in pages[p], TakenWell(e)
               PROVE  \E item \in ever :
        /\ e = EntryOf(item)
        /\ asked.kind = "funds" =>
              ParseLockedFunds(e) =
                  [ok |-> TRUE, contract |-> item.contract, asset |-> item.asset, amount |-> item.amount]
        /\ asked.kind = "deployed" =>
              ParseSidCid(e) =
                  [ok |-> TRUE, shader |-> item.shader, contract |-> item.contract, height |-> item.height]
    BY Zenon DEF ReadAsStored
  <2> QED
    BY Zenon DEF TakenWell
<1> QED
  BY <1>1, <1>2

LEMMA ReadWellNext ==
    ASSUME UNCHANGED <<asked, ever>>,
           \A p \in DOMAIN pages' : \A e \in pages'[p] : TakenWell(e)
    PROVE  /\ \A p \in DOMAIN pages' : \A e \in pages'[p] :
                 \E item \in ever' : Own(asked', item) /\ e = EntryOf(item)
           /\ ReadAsStored'
<1>1. ASSUME NEW p \in DOMAIN pages', NEW e \in pages'[p]
      PROVE  \E item \in ever' : Own(asked', item) /\ e = EntryOf(item)
  <2>1. PICK item \in ever : Own(asked, item) /\ e = EntryOf(item)
    BY DEF TakenWell
  <2> QED
    BY <2>1
<1>2. ReadAsStored'
  <2> SUFFICES ASSUME NEW p \in DOMAIN pages', NEW e \in pages'[p], TakenWell(e)
               PROVE  \E item \in ever :
        /\ e = EntryOf(item)
        /\ asked.kind = "funds" =>
              ParseLockedFunds(e) =
                  [ok |-> TRUE, contract |-> item.contract, asset |-> item.asset, amount |-> item.amount]
        /\ asked.kind = "deployed" =>
              ParseSidCid(e) =
                  [ok |-> TRUE, shader |-> item.shader, contract |-> item.contract, height |-> item.height]
    <3>1. asked' = asked /\ ever' = ever
      OBVIOUS
    <3> QED
      BY <3>1, Zenon DEF ReadAsStored
  <2> QED
    BY Zenon DEF TakenWell
<1> QED
  BY <1>1, <1>2

-----------------------------------------------------------------------------
(* The inductive invariant. *)

LEMMA ScanStarts ==
    ASSUME ScanInit
    PROVE  ScanInv
<1>1. ScanTypeOK
  <2>1. <<>> \in Seq(SUBSET {EntryOf(item) : item \in ever})
    OBVIOUS
  <2> QED
    BY <2>1, RangeBytes DEF ScanInit, ScanTypeOK
<1>2. HistoryInv
  BY StoresAssumption DEF ScanInit, HistoryInv
<1>3. DOMAIN pages = {} /\ scan = "running" /\ skipMin = FALSE /\ more = FALSE /\ pages = <<>>
      /\ keyMin = KeyRange(asked).min
  BY DEF ScanInit
<1>4. ProgressInv
  <2>1. AtMost(KeyRange(asked).min, keyMin)
    BY <1>3, RangeBytes, OrderReflexive DEF ScanInit
  <2> QED
    BY <1>3, <2>1 DEF ProgressInv
<1>5. RangesSelectOwn /\ EachKeyOnce /\ ReadAsStored
  BY <1>3 DEF RangesSelectOwn, EachKeyOnce, ReadAsStored
<1> QED
  BY <1>1, <1>2, <1>4, <1>5 DEF ScanInv

LEMMA Changed ==
    ASSUME ScanInv, NEW items \in Stores, Change(items)
    PROVE  ScanInv'
<1>0. /\ scan = "running" /\ stored' = items /\ always' = always \cap items /\ ever' = ever \cup items
      /\ asked' = asked /\ keyMin' = keyMin /\ skipMin' = skipMin /\ pages' = pages
      /\ more' = more /\ scan' = scan
  BY DEF Change
<1>1. ScanTypeOK'
  <2> PICK S, T : S = {EntryOf(item) : item \in ever} /\ T = {EntryOf(item) : item \in ever'}
    OBVIOUS
  <2>1. SUBSET S \subseteq SUBSET T
    BY <1>0
  <2>2. pages \in Seq(SUBSET S)
    BY DEF ScanInv, ScanTypeOK
  <2>3. pages \in Seq(SUBSET T)
    <3> PICK A, B : A = SUBSET S /\ B = SUBSET T
      OBVIOUS
    <3>1. \A x \in A : x \in B
      BY <2>1
    <3>2. pages \in Seq(A)
      BY <2>2
    <3>3. pages \in Seq(B)
      BY <3>1, <3>2
    <3> QED
      BY <3>3
  <2>4. pages' \in Seq(SUBSET {EntryOf(item) : item \in ever'})
    BY <1>0, <2>3
  <2> QED
    BY <1>0, <2>4 DEF ScanInv, ScanTypeOK
<1>2. HistoryInv'
  BY <1>0, StoresAssumption DEF ScanInv, HistoryInv
<1>3. ProgressInv'
  <2> PICK lo, hi : lo = KeyRange(asked).min /\ hi = KeyRange(asked).max
    OBVIOUS
  <2>1. /\ AtMost(lo, keyMin) /\ ~more /\ (~skipMin => pages = <<>> /\ keyMin = lo)
        /\ \A p \in DOMAIN pages : \A e \in pages[p] : AtMost(e.key, keyMin)
        /\ skipMin => \A item \in always :
              Own(asked, item) /\ AtMost(EntryOf(item).key, keyMin) =>
                  \E p \in DOMAIN pages : EntryOf(item) \in pages[p]
    BY <1>0 DEF ScanInv, ProgressInv
  <2> QED
    BY <1>0, <2>1 DEF ProgressInv
<1>4. RangesSelectOwn'
  <2>1. scan' = "running" /\ \A p \in DOMAIN pages : \A e \in pages[p] :
            \E item \in ever : Own(asked, item) /\ e = EntryOf(item)
    BY <1>0 DEF ScanInv, RangesSelectOwn
  <2> QED
    BY <1>0, <2>1 DEF RangesSelectOwn
<1>5. EachKeyOnce'
  BY <1>0 DEF ScanInv, EachKeyOnce
<1>6. ReadAsStored'
  <2> SUFFICES ASSUME NEW p \in DOMAIN pages, NEW e \in pages[p]
               PROVE  \E item \in ever' :
        /\ e = EntryOf(item)
        /\ asked.kind = "funds" =>
              ParseLockedFunds(e) =
                  [ok |-> TRUE, contract |-> item.contract, asset |-> item.asset, amount |-> item.amount]
        /\ asked.kind = "deployed" =>
              ParseSidCid(e) =
                  [ok |-> TRUE, shader |-> item.shader, contract |-> item.contract, height |-> item.height]
    BY <1>0, Zenon DEF ReadAsStored
  <2>1. TakenWell(e)
    BY PagesWell
  <2>2. \A item \in ever : item \in ever'
    BY <1>0
  <2> QED
    BY <2>1, <2>2, Zenon DEF TakenWell
<1> QED
  BY <1>1, <1>2, <1>3, <1>4, <1>5, <1>6 DEF ScanInv

\* The end, with nothing taken.
LEMMA Ended ==
    ASSUME ScanInv, EmptyPage \/ TakeNone
    PROVE  ScanInv'
<1>0. /\ scan = "running" /\ scan' = "done" /\ pages' = pages /\ asked' = asked
      /\ always' = always /\ ever' = ever /\ stored' = stored /\ keyMin' = keyMin /\ skipMin' = skipMin
  BY DEF EmptyPage, TakeNone
<1>1. more' \in BOOLEAN /\ (~more' => Rest = {})
  BY DEF EmptyPage, TakeNone
<1>2. ScanTypeOK' /\ HistoryInv' /\ ProgressInv'
  BY <1>0, <1>1 DEF ScanInv, ScanTypeOK, HistoryInv, ProgressInv
<1>3. RangesSelectOwn'
  <2>1. ~more' => \A item \in always : Own(asked, item) =>
                      \E p \in DOMAIN pages : EntryOf(item) \in pages[p]
    BY <1>0, <1>1, TakenOrLeft
  <2> QED
    BY <1>0, <2>1 DEF ScanInv, RangesSelectOwn
<1>4. EachKeyOnce' /\ ReadAsStored'
  <2>1. EachKeyOnce'
    BY <1>0 DEF ScanInv, EachKeyOnce
  <2>2. \A p \in DOMAIN pages' : \A e \in pages'[p] : TakenWell(e)
    BY <1>0, PagesWell
  <2> QED
    BY <1>0, <2>1, <2>2, ReadWellNext
<1> QED
  BY <1>2, <1>3, <1>4 DEF ScanInv

LEMMA PageTaken ==
    ASSUME ScanInv, NEW last \in Rest, TakePage(last)
    PROVE  ScanInv'
<1> PICK x : x = UpTo(last)
  OBVIOUS
<1>0. /\ scan = "running" /\ keyMin' = last.key /\ skipMin' = TRUE /\ asked' = asked
      /\ always' = always /\ ever' = ever /\ stored' = stored /\ more' = more
  BY DEF TakePage
<1>a. /\ pages' = Append(pages, UpTo(last))
      /\ scan' = (IF UpTo(last) = Rest THEN "done" ELSE "running")
  BY <1>0, NoneRefused DEF TakePage, Take
<1>1. /\ pages' = Append(pages, x)
      /\ pages' \in Seq(SUBSET {EntryOf(item) : item \in ever'})
      /\ \A p \in DOMAIN pages' : \A e \in pages'[p] : TakenWell(e)
      /\ EachKeyOnce'
  BY <1>0, <1>a, Taking
<1>2. PICK n \in DOMAIN pages' : /\ pages'[n] = x
                                 /\ \A p \in DOMAIN pages' : p = n \/ p \in DOMAIN pages
                                 /\ \A p \in DOMAIN pages : p \in DOMAIN pages' /\ pages'[p] = pages[p]
  <2> PICK T, now : T = SUBSET {EntryOf(item) : item \in ever} /\ now = pages'
    OBVIOUS
  <2>1. \A e \in x : \E item \in ever : e = EntryOf(item)
    BY <1>0, RestWell DEF UpTo, TakenWell
  <2>2. pages \in Seq(T) /\ x \in T /\ now = Append(pages, x)
    BY <1>1, <2>1 DEF ScanInv, ScanTypeOK
  <2>3. /\ \A p \in DOMAIN pages : p \in DOMAIN now /\ now[p] = pages[p]
        /\ \E m \in DOMAIN now : now[m] = x /\ \A p \in DOMAIN now : p = m \/ p \in DOMAIN pages
    BY <2>2, AppendedPage
  <2> QED
    BY <2>3
<1>3. /\ last.key \in Seq(Byte) /\ AtMost(keyMin, last.key) /\ AtMost(KeyRange(asked).min, last.key)
      /\ keyMin \in Seq(Byte)
  BY <1>0, RestOwn DEF ScanInv, ScanTypeOK
<1>4. scan' \in {"running", "done"} /\ ~more /\ (scan' = "done" => x = Rest)
  BY <1>0, <1>a DEF ScanInv, ProgressInv
<1>5. ScanTypeOK' /\ HistoryInv'
  BY <1>0, <1>1, <1>3, <1>4 DEF ScanInv, ScanTypeOK, HistoryInv
<1>6. ASSUME NEW item \in always, Own(asked, item),
             AtMost(EntryOf(item).key, last.key) \/ x = Rest
      PROVE  \E p \in DOMAIN pages' : EntryOf(item) \in pages'[p]
  <2>1. CASE EntryOf(item) \in Rest
    <3>1. EntryOf(item) \in x
      BY <1>6, <2>1 DEF UpTo
    <3> QED
      BY <1>2, <3>1
  <2>2. CASE \E p \in DOMAIN pages : EntryOf(item) \in pages[p]
    BY <1>2, <2>2
  <2>3. EntryOf(item) \in Rest \/ \E p \in DOMAIN pages : EntryOf(item) \in pages[p]
    BY <1>0, <1>6, TakenOrLeft
  <2> QED
    BY <2>1, <2>2, <2>3
<1>7. ProgressInv'
  <2>1. ASSUME NEW p \in DOMAIN pages', NEW e \in pages'[p] PROVE AtMost(e.key, last.key)
    <3>1. CASE p = n
      BY <1>2, <2>1, <3>1 DEF UpTo
    <3>2. CASE p \in DOMAIN pages
      <4>1. e \in pages[p] /\ AtMost(e.key, keyMin)
        BY <1>0, <1>2, <2>1, <3>2 DEF ScanInv, ProgressInv
      <4>2. PICK item \in ever : e = EntryOf(item) /\ IsItem(item)
        BY <3>2, <4>1 DEF ScanInv, RangesSelectOwn, HistoryInv
      <4>3. e.key \in Seq(Byte)
        BY <4>2, KeyOf
      <4> QED
        BY <1>3, <4>1, <4>3, OrderTransitive
    <3> QED
      BY <1>2, <3>1, <3>2
  <2>2. \A item \in always : Own(asked, item) /\ AtMost(EntryOf(item).key, last.key) =>
            \E p \in DOMAIN pages' : EntryOf(item) \in pages'[p]
    BY <1>6
  <2> QED
    BY <1>0, <1>3, <1>4, <2>1, <2>2 DEF ProgressInv
<1>8. /\ \A p \in DOMAIN pages' : \A e \in pages'[p] :
            \E item \in ever' : Own(asked', item) /\ e = EntryOf(item)
      /\ ReadAsStored'
  BY <1>0, <1>1, ReadWellNext
<1>9. RangesSelectOwn'
  BY <1>0, <1>1, <1>4, <1>6, <1>8 DEF RangesSelectOwn
<1> QED
  BY <1>1, <1>5, <1>7, <1>8, <1>9 DEF ScanInv

LEMMA PartTaken ==
    ASSUME ScanInv, NEW last \in Rest, TakePart(last)
    PROVE  ScanInv'
<1>0. /\ scan = "running" /\ more' = TRUE /\ keyMin' = keyMin /\ skipMin' = skipMin /\ asked' = asked
      /\ always' = always /\ ever' = ever /\ stored' = stored
  BY DEF TakePart
<1>a. pages' = Append(pages, UpTo(last)) /\ scan' = "done"
  BY <1>0, NoneRefused DEF TakePart, Take
<1>1. /\ scan' = "done"
      /\ pages' \in Seq(SUBSET {EntryOf(item) : item \in ever'})
      /\ \A p \in DOMAIN pages' : \A e \in pages'[p] : TakenWell(e)
      /\ EachKeyOnce'
  BY <1>0, <1>a, Taking
<1>2. ScanTypeOK' /\ HistoryInv' /\ ProgressInv'
  BY <1>0, <1>1 DEF ScanInv, ScanTypeOK, HistoryInv, ProgressInv
<1>3. /\ \A p \in DOMAIN pages' : \A e \in pages'[p] :
            \E item \in ever' : Own(asked', item) /\ e = EntryOf(item)
      /\ ReadAsStored'
  BY <1>0, <1>1, ReadWellNext
<1>4. RangesSelectOwn'
  BY <1>0, <1>1, <1>3 DEF RangesSelectOwn
<1> QED
  BY <1>1, <1>2, <1>3, <1>4 DEF ScanInv

LEMMA ScanStutters ==
    ASSUME ScanInv, UNCHANGED scanVars
    PROVE  ScanInv'
BY DEF ScanInv, scanVars, ScanTypeOK, HistoryInv, ProgressInv, RangesSelectOwn, EachKeyOnce, ReadAsStored

\* The listing's invariant, inductive.
THEOREM Listed == ScanSpec => []ScanInv
<1>1. ScanInit => ScanInv
  BY ScanStarts
<1>2. ScanInv /\ [ScanNext]_scanVars => ScanInv'
  BY Changed, Ended, PageTaken, PartTaken, ScanStutters DEF ScanNext
<1> QED
  BY <1>1, <1>2, PTL DEF ScanSpec

\* Whatever contracts have stored, and however that changes meanwhile: a listing has
\* only what the query is about, and all of it that was there all the time.
THEOREM OwnSelected == ScanSpec => []RangesSelectOwn
<1>1. ScanInv => RangesSelectOwn
  BY DEF ScanInv
<1> QED
  BY <1>1, Listed, PTL

\* No key is in two pages, nor with two values in one.
THEOREM KeysOnce == ScanSpec => []EachKeyOnce
<1>1. ScanInv => EachKeyOnce
  BY DEF ScanInv
<1> QED
  BY <1>1, Listed, PTL

\* And what is listed is what was stored.
THEOREM StoredRead == ScanSpec => []ReadAsStored
<1>1. ScanInv => ReadAsStored
  BY DEF ScanInv
<1> QED
  BY <1>1, Listed, PTL
=============================================================================
