-------------------------- MODULE BlockFetch_proofs --------------------------
(***************************************************************************)
(* Proofs about BlockFetch, for every set of forks and every bound.        *)
(***************************************************************************)
EXTENDS BlockFetch, FiniteSetTheorems, SequenceTheorems, TLAPS

-----------------------------------------------------------------------------
(* Blocks and ranges of them. *)

LEMMA BlockType ==
    ASSUME NEW block \in Blocks
    PROVE  block \in Seq(Forks) /\ Len(block) \in 1..MaxHeight
<1>1. PICK h \in 1..MaxHeight : block \in [1..h -> Forks]
  BY DEF Blocks
<1> QED
  BY <1>1, BoundAssumption

\* An ancestor is a block, and its ancestors are the block's own.
LEMMA AtType ==
    ASSUME NEW block \in Blocks, NEW h \in 1..Len(block)
    PROVE  /\ At(block, h) \in Blocks /\ Len(At(block, h)) = h
           /\ \A k \in 1..h : At(At(block, h), k) = At(block, k)
<1>1. block \in Seq(Forks) /\ Len(block) \in 1..MaxHeight
  BY BlockType
<1>2. \A i \in 1..h : block[i] \in Forks
  BY <1>1, ElementOfSeq, BoundAssumption
<1>3. At(block, h) \in Seq(Forks) /\ Len(At(block, h)) = h
  BY <1>1, <1>2, SubSeqProperties, BoundAssumption DEF At
<1>4. At(block, h) \in [1..h -> Forks]
  BY <1>3, LenProperties
<1>5. h \in 1..MaxHeight
  BY <1>1, BoundAssumption
<1>6. ASSUME NEW k \in 1..h
      PROVE  SubSeq(SubSeq(block, 1, h), 1, k) = SubSeq(block, 1, k)
  <2>1. 1 \in 1..Len(block) /\ h \in 1..Len(block) /\ 1 \in 1..(h - 1 + 1) /\ k \in 1..(h - 1 + 1)
        /\ 1 + 1 - 1 = 1 /\ 1 + k - 1 = k
    BY <1>1, BoundAssumption
  <2>2. SubSeq(SubSeq(block, 1, h), 1, k) = SubSeq(block, 1 + 1 - 1, 1 + k - 1)
    BY <1>1, <2>1, SubSeqOfSubSeq
  <2> QED
    BY <2>1, <2>2
<1> QED
  BY <1>3, <1>4, <1>5, <1>6 DEF At, Blocks

LEMMA StretchType ==
    ASSUME NEW block \in Blocks, NEW lo \in Nat \ {0}, NEW h \in lo..Len(block)
    PROVE  /\ Stretch(block, lo, h) \in Seq(Blocks)
           /\ Stretch(block, lo, h) # <<>>
           /\ Len(Stretch(block, lo, h)) = h - lo + 1
           /\ DOMAIN Stretch(block, lo, h) = 1..(h - lo + 1)
           /\ \A i \in 1..(h - lo + 1) :
                 /\ Stretch(block, lo, h)[i] = At(block, lo + i - 1)
                 /\ Len(Stretch(block, lo, h)[i]) = lo + i - 1
                 /\ Stretch(block, lo, h)[i] \in Blocks
           /\ Stretch(block, lo, h)[h - lo + 1] = At(block, h)
<1>1. Len(block) \in Nat
  BY BlockType
<1> PICK n \in Nat : n = h - lo + 1 /\ n > 0
  BY <1>1
<1>2. Stretch(block, lo, h) = [i \in 1..n |-> At(block, lo + i - 1)]
  BY DEF Stretch
<1>3. \A i \in 1..n : lo + i - 1 \in 1..Len(block)
  BY <1>1
<1>4. \A i \in 1..n : At(block, lo + i - 1) \in Blocks /\ Len(At(block, lo + i - 1)) = lo + i - 1
  BY <1>3, AtType
<1>5. Stretch(block, lo, h) \in [1..n -> Blocks]
  BY <1>2, <1>4
<1>6. Stretch(block, lo, h) \in Seq(Blocks) /\ Len(Stretch(block, lo, h)) = n
  BY <1>5
<1>7. lo + n - 1 = h /\ n \in 1..n
  BY <1>1
<1> PICK s : s = Stretch(block, lo, h)
  OBVIOUS
<1>8. /\ s \in Seq(Blocks) /\ Len(s) = n /\ DOMAIN s = 1..n /\ s # <<>>
      /\ \A i \in 1..n : s[i] = At(block, lo + i - 1)
  BY <1>2, <1>6
<1>9. /\ \A i \in 1..n : Len(s[i]) = lo + i - 1 /\ s[i] \in Blocks
      /\ s[n] = At(block, h)
  BY <1>4, <1>7, <1>8
<1> QED
  BY <1>8, <1>9

LEMMA StretchEnd ==
    ASSUME NEW block \in Blocks, NEW lo \in Nat \ {0}, NEW h \in lo..Len(block),
           NEW s, s = Stretch(block, lo, h)
    PROVE  /\ s \in Seq(Blocks) /\ s # <<>>
           /\ Len(s) = h - lo + 1 /\ s[Len(s)] = At(block, h)
<1> PICK n : n = h - lo + 1
  OBVIOUS
<1>1. s \in Seq(Blocks) /\ s # <<>> /\ Len(s) = n /\ s[n] = At(block, h)
  BY StretchType, ZenonT(60)
<1> QED
  BY <1>1

\* The blocks below the last of a range are those of the range.
LEMMA StretchOfLast ==
    ASSUME NEW block \in Blocks, NEW lo \in Nat \ {0}, NEW h \in lo..Len(block)
    PROVE  /\ Stretch(At(block, h), lo, h) = Stretch(block, lo, h)
           /\ lo = h => <<At(block, h)>> = Stretch(block, lo, h)
<1>1. Len(block) \in Nat
  BY BlockType
<1>2. h \in 1..Len(block)
  BY <1>1
<1>3. \A i \in 1..(h - lo + 1) : lo + i - 1 \in 1..h
  BY <1>1
<1>4. \A i \in 1..(h - lo + 1) : At(At(block, h), lo + i - 1) = At(block, lo + i - 1)
  BY <1>2, <1>3, AtType
<1>5. ASSUME lo = h PROVE <<At(block, h)>> = Stretch(block, lo, h)
  <2>1. /\ Stretch(block, lo, h) \in Seq(Blocks) /\ Len(Stretch(block, lo, h)) = 1
        /\ Stretch(block, lo, h)[1] = At(block, h)
    <3> PICK s : s = Stretch(block, lo, h)
      OBVIOUS
    <3>1. h - lo + 1 = 1
      BY <1>1, <1>5
    <3>2. s \in Seq(Blocks) /\ Len(s) = h - lo + 1 /\ s[Len(s)] = At(block, h)
      BY StretchEnd
    <3> QED
      BY <3>1, <3>2
  <2>2. At(block, h) \in Blocks
    BY <1>2, AtType
  <2> QED
    BY <2>1, <2>2
<1> QED
  BY <1>4, <1>5 DEF Stretch

\* What a part of one chain looks like.
LEMMA PagesType ==
    ASSUME NEW blocks \in SUBSET Blocks, NEW lo \in Nat \ {0}, NEW hi \in Nat, NEW items,
           Pages(items, blocks, lo, hi)
    PROVE  /\ items \in Seq(Blocks) /\ items # <<>>
           /\ Len(items) \in 1..(hi - lo + 1) /\ DOMAIN items = 1..Len(items)
           /\ \A i \in DOMAIN items : Len(items[i]) = lo + i - 1 /\ lo + i - 1 <= hi
           /\ items[Len(items)] \in Blocks
           /\ Len(items[Len(items)]) = lo + Len(items) - 1
<1>1. PICK block \in blocks : \E h \in lo..hi : h <= Len(block) /\ items = Stretch(block, lo, h)
  BY DEF Pages
<1>2. PICK h \in lo..hi : h <= Len(block) /\ items = Stretch(block, lo, h)
  BY <1>1
<1>3. block \in Blocks /\ h \in lo..Len(block) /\ Len(block) \in Nat
  BY <1>2, BlockType
<1>4. PICK n \in Nat : n = h - lo + 1 /\ n \in 1..(hi - lo + 1)
  BY <1>3
<1>5. /\ items \in Seq(Blocks) /\ items # <<>> /\ Len(items) = n /\ DOMAIN items = 1..n
      /\ \A i \in 1..n : Len(items[i]) = lo + i - 1 /\ items[i] \in Blocks
  <2> PICK s, m : s = Stretch(block, lo, h) /\ m = h - lo + 1
    OBVIOUS
  <2>1. /\ s \in Seq(Blocks) /\ s # <<>> /\ Len(s) = m /\ DOMAIN s = 1..m
        /\ \A i \in 1..m : Len(s[i]) = lo + i - 1 /\ s[i] \in Blocks
    BY <1>3, StretchType, ZenonT(60)
  <2> QED
    BY <1>2, <1>4, <2>1
<1>6. \A i \in 1..n : lo + i - 1 <= hi
  BY <1>4
<1> QED
  BY <1>4, <1>5, <1>6

\* The request for the bodies of a range is one the node can answer.
LEMMA RangeOfPages ==
    ASSUME NEW lo \in 1..MaxHeight, NEW hi \in 1..MaxHeight, NEW items,
           Pages(items, Blocks, lo, hi)
    PROVE  /\ items \in Seq(Blocks) /\ items # <<>> /\ items[Len(items)] \in Blocks
           /\ Len(items) - 1 \in 0..(MaxHeight - 1)
           /\ Len(items) - 1 < Len(items[Len(items)])
<1>1. PICK blocks \in SUBSET Blocks : blocks = Blocks
  OBVIOUS
<1>2. lo \in Nat \ {0} /\ hi \in Nat /\ hi <= MaxHeight /\ MaxHeight \in Nat
  BY BoundAssumption
<1>3. /\ items \in Seq(Blocks) /\ items # <<>> /\ items[Len(items)] \in Blocks
      /\ Len(items) \in Nat \ {0} /\ lo + Len(items) - 1 <= hi
      /\ Len(items[Len(items)]) = lo + Len(items) - 1
  <2>1. lo \in Nat \ {0} /\ hi \in Nat /\ Pages(items, blocks, lo, hi)
    BY <1>1, <1>2
  <2>2. items \in Seq(Blocks) /\ items # <<>>
    BY <2>1, PagesType
  <2>3. \A i \in DOMAIN items : Len(items[i]) = lo + i - 1 /\ lo + i - 1 <= hi
    BY <2>1, PagesType
  <2>4. Len(items) \in Nat \ {0} /\ Len(items) \in DOMAIN items
    BY <2>2
  <2>5. Len(items[Len(items)]) = lo + Len(items) - 1 /\ lo + Len(items) - 1 <= hi
    BY <2>3, <2>4
  <2>6. items[Len(items)] \in Blocks
    BY <2>2, <2>4
  <2> QED
    BY <2>2, <2>4, <2>5, <2>6
<1>4. PICK n, l : n = Len(items) /\ l = Len(items[Len(items)])
  OBVIOUS
<1>5. n \in Nat \ {0} /\ lo + n - 1 <= hi /\ l = lo + n - 1
  BY <1>3, <1>4
<1>6. n - 1 \in 0..(MaxHeight - 1) /\ n - 1 < l
  BY <1>2, <1>5
<1> QED
  BY <1>3, <1>4, <1>6

-----------------------------------------------------------------------------
(* The lists. *)

LEMMA Lists ==
    ASSUME TypeOK
    PROVE  /\ Len(requests) \in Nat /\ DOMAIN requests = 1..Len(requests)
           /\ Len(stream) \in Nat /\ DOMAIN stream = 1..Len(stream)
           /\ Len(calls) \in Nat /\ DOMAIN calls = 1..Len(calls)
           /\ served \in 0..Len(requests) /\ read \in 0..Len(stream)
BY DEF TypeOK

LEMMA RequestType ==
    ASSUME NEW r \in Requests
    PROVE  /\ r.type \in {"ENUM_HDRS", "GET_BODY_PACK", "GET_BODY"}
           /\ r.type = "ENUM_HDRS" => r.lo \in 1..MaxHeight /\ r.hi \in 1..MaxHeight
           /\ r.type = "GET_BODY_PACK" => r.top \in Blocks /\ r.extra \in Nat
BY BoundAssumption DEF Requests

LEMMA CallType ==
    ASSUME TypeOK, NEW c \in DOMAIN calls
    PROVE  /\ calls[c] \in Calls
           /\ calls[c].lo \in 0..MaxHeight /\ calls[c].hi \in 0..MaxHeight
           /\ calls[c].headers \in Seq(Blocks) /\ calls[c].tips \in SUBSET Blocks
<1>1. calls[c] \in Calls
  BY DEF TypeOK
<1> QED
  BY <1>1 DEF Calls

\* What the node has written, with the request it answers.
LEMMA AnswerType ==
    ASSUME TypeOK, StreamInv, NEW m \in DOMAIN stream
    PROVE  /\ stream[m] \in Answers
           /\ stream[m].items \in Seq(Blocks \cup {Treasury})
           /\ m \in DOMAIN requests /\ requests[m] \in Requests
           /\ AnswersRequest(stream[m], requests[m])
<1>1. m \in DOMAIN requests
  BY Lists DEF StreamInv
<1>2. stream[m] \in Answers /\ requests[m] \in Requests
  BY <1>1 DEF TypeOK
<1> QED
  BY <1>1, <1>2 DEF StreamInv, Answers

\* While a call is in progress it is the last one, and has not timed out.
LEMMA BusyFacts ==
    ASSUME TypeOK, Busy
    PROVE  /\ Len(calls) \in DOMAIN calls /\ Current = calls[Len(calls)]
           /\ calls[Len(calls)].result \in Waiting
           /\ TimedOut(Len(calls) + 1) = TimedOut(Len(calls))
<1> PICK n : n = Len(calls)
  OBVIOUS
<1>1. n \in Nat /\ n \in DOMAIN calls /\ DOMAIN calls = 1..n
  BY Lists DEF Busy, TypeOK
<1>2. calls[n].result \in Waiting /\ calls[n].result # "timeout"
  BY DEF Busy, Current, Waiting
<1>3. 1..(n + 1 - 1) = 1..(n - 1) \cup {n}
  BY <1>1
<1>4. TimedOut(n + 1) = TimedOut(n)
  BY <1>1, <1>2, <1>3 DEF TimedOut
<1> QED
  BY <1>1, <1>2, <1>4 DEF Current

\* A new call leaves the others as they are.
LEMMA AppendCall ==
    ASSUME TypeOK, NEW x, calls' = Append(calls, x), x.result # "timeout"
    PROVE  /\ Len(calls') = Len(calls) + 1 /\ DOMAIN calls' = 1..(Len(calls) + 1)
           /\ calls'[Len(calls) + 1] = x
           /\ \A c \in DOMAIN calls : calls'[c] = calls[c]
           /\ \A c \in 1..(Len(calls) + 1) : TimedOut(c)' = TimedOut(c)
           /\ TimedOut(Len(calls) + 1)' = TimedOut(Len(calls) + 1)
<1> PICK n : n = Len(calls)
  OBVIOUS
<1>1. n \in Nat /\ DOMAIN calls = 1..n /\ calls \in Seq(Calls)
  BY Lists DEF TypeOK
<1>2. /\ Len(calls') = n + 1 /\ DOMAIN calls' = 1..(n + 1) /\ calls'[n + 1] = x
      /\ \A c \in 1..n : calls'[c] = calls[c]
  BY <1>1
<1>3. \A c \in 1..(n + 1) : TimedOut(c)' = TimedOut(c)
  <2> SUFFICES ASSUME NEW c \in 1..(n + 1) PROVE TimedOut(c)' = TimedOut(c)
    OBVIOUS
  <2>1. \A d \in 1..(c - 1) : calls'[d] = calls[d]
    BY <1>1, <1>2
  <2> QED
    BY <2>1 DEF TimedOut
<1>4. TimedOut(n + 2)' = TimedOut(n + 1)'
  <2>1. 1..(n + 2 - 1) = 1..(n + 1 - 1) \cup {n + 1}
    BY <1>1
  <2> QED
    BY <1>2, <2>1 DEF TimedOut
<1>5. TimedOut(Len(calls) + 1)' = TimedOut(n + 1)
  <2>1. n + 1 \in 1..(n + 1) /\ Len(calls') + 1 = n + 2
    BY <1>1, <1>2
  <2>2. TimedOut(Len(calls) + 1)' = TimedOut(n + 2)'
    BY <2>1 DEF TimedOut
  <2> QED
    BY <1>3, <1>4, <2>1, <2>2
<1> QED
  BY <1>1, <1>2, <1>3, <1>5

\* A step of the current call.
LEMMA SetCall ==
    ASSUME TypeOK, Busy, NEW x, calls' = [calls EXCEPT ![Len(calls)] = x]
    PROVE  /\ Len(calls') = Len(calls) /\ DOMAIN calls' = DOMAIN calls
           /\ Len(calls) \in DOMAIN calls
           /\ calls'[Len(calls)] = x /\ Current' = x
           /\ \A c \in DOMAIN calls : TimedOut(c)' = TimedOut(c)
           /\ \A c \in DOMAIN calls : c # Len(calls) => calls'[c] = calls[c]
           /\ TimedOut(Len(calls) + 1)' =
                 IF x.result = "timeout" THEN TimedOut(Len(calls)) \cup {Len(calls)}
                 ELSE TimedOut(Len(calls))
<1> PICK n : n = Len(calls)
  OBVIOUS
<1>1. /\ n \in Nat /\ DOMAIN calls = 1..n /\ calls \in Seq(Calls) /\ n \in 1..n
  BY Lists, BusyFacts DEF TypeOK
<1>2. /\ Len(calls') = n /\ DOMAIN calls' = 1..n /\ calls'[n] = x
      /\ \A c \in 1..n : c # n => calls'[c] = calls[c]
  BY <1>1
<1>3. \A c \in 1..n : TimedOut(c)' = TimedOut(c)
  <2> SUFFICES ASSUME NEW c \in 1..n PROVE TimedOut(c)' = TimedOut(c)
    OBVIOUS
  <2>1. \A d \in 1..(c - 1) : calls'[d] = calls[d]
    BY <1>1, <1>2
  <2> QED
    BY <2>1 DEF TimedOut
<1>4. TimedOut(n + 1)' = IF x.result = "timeout" THEN TimedOut(n) \cup {n} ELSE TimedOut(n)
  <2>1. 1..(n + 1 - 1) = 1..(n - 1) \cup {n} /\ \A d \in 1..(n - 1) : d \in 1..n /\ d # n
    BY <1>1
  <2> QED
    BY <1>2, <2>1 DEF TimedOut
<1> QED
  BY <1>1, <1>2, <1>3, <1>4 DEF Current

\* Calls that have timed out are finitely many.
LEMMA TimedOutCount ==
    ASSUME NEW c \in Nat \ {0}
    PROVE  /\ IsFiniteSet(TimedOut(c)) /\ Cardinality(TimedOut(c)) \in Nat
           /\ c \notin TimedOut(c)
           /\ Cardinality(TimedOut(c) \cup {c}) = Cardinality(TimedOut(c)) + 1
           /\ Cardinality(TimedOut(c)) = 0 <=> TimedOut(c) = {}
<1>1. TimedOut(c) \subseteq 1..(c - 1) /\ c \notin 1..(c - 1)
  BY DEF TimedOut
<1>2. IsFiniteSet(1..(c - 1))
  BY FS_Interval
<1>3. IsFiniteSet(TimedOut(c))
  BY <1>1, <1>2, FS_Subset
<1> QED
  BY <1>1, <1>3, FS_CardinalityType, FS_AddElement, FS_EmptySet

-----------------------------------------------------------------------------
(* What holds of each call. *)

CallOK(c) ==
    /\ calls[c] \in Calls
    /\ calls[c].headers # <<>> =>
          Pages(calls[c].headers, IF TimedOut(c) = {} THEN calls[c].tips ELSE Blocks,
                calls[c].lo, calls[c].hi)
    /\ calls[c].result = "bodies" \/ c \in Fetched => calls[c].headers # <<>>
    /\ calls[c].result \in {"headers", "bodies"} => calls[c].lo # 0
    /\ calls[c].headers # <<>> => calls[c].lo # 0
    /\ calls[c].result = "treasury" => calls[c].lo = 0
    /\ calls[c].result \in Waiting => c = Len(calls)
    /\ c \in Fetched /\ Cardinality(TimedOut(c)) < 2 => calls[c].bodies = calls[c].headers
    /\ calls[c].lo = 0 /\ calls[c].result = "done" =>
          TimedOut(c) # {} \/ calls[c].bodies = <<Treasury>>

LEMMA CallOKInv ==
    ASSUME TypeOK, CallsInv, BodiesBelong, TreasuryUndisturbed
    PROVE  \A c \in DOMAIN calls : CallOK(c)
<1> SUFFICES ASSUME NEW c \in DOMAIN calls PROVE CallOK(c)
  OBVIOUS
<1>1. calls[c] \in Calls
  BY CallType
<1>2. ASSUME calls[c].headers # <<>> PROVE calls[c].lo # 0
  <2>1. calls[c].headers \in Seq(Blocks) /\ 1 \in DOMAIN calls[c].headers
    BY <1>2, CallType
  <2>2. Len(calls[c].headers[1]) = calls[c].lo + 1 - 1
    BY <2>1 DEF TypeOK
  <2>3. Len(calls[c].headers[1]) \in 1..MaxHeight
    BY <2>1, BlockType, ElementOfSeq
  <2> QED
    BY <2>2, <2>3, BoundAssumption
<1> QED
  BY <1>1, <1>2 DEF CallOK, CallsInv, BodiesBelong, TreasuryUndisturbed

\* The types and properties follow from what holds of each call.
LEMMA CallsFromOK ==
    ASSUME calls \in Seq(Calls), \A c \in DOMAIN calls : CallOK(c)
    PROVE  /\ CallsInv /\ BodiesBelong /\ TreasuryUndisturbed
           /\ \A c \in DOMAIN calls : \A i \in DOMAIN calls[c].headers :
                 Len(calls[c].headers[i]) = calls[c].lo + i - 1
                 /\ calls[c].lo + i - 1 <= calls[c].hi
<1>1. CallsInv
  BY DEF CallOK, CallsInv
<1>2. BodiesBelong
  BY DEF CallOK, BodiesBelong, Fetched
<1>3. TreasuryUndisturbed
  BY DEF CallOK, TreasuryUndisturbed
<1>4. ASSUME NEW c \in DOMAIN calls, NEW i \in DOMAIN calls[c].headers
      PROVE  /\ Len(calls[c].headers[i]) = calls[c].lo + i - 1
             /\ calls[c].lo + i - 1 <= calls[c].hi
  <2> PICK x : x = calls[c]
    OBVIOUS
  <2>1. x \in Calls /\ x.lo \in 0..MaxHeight /\ x.hi \in 0..MaxHeight
        /\ x.headers \in Seq(Blocks) /\ x.tips \in SUBSET Blocks
    BY DEF CallOK, Calls
  <2>2. x.headers # <<>>
    BY <2>1, <1>4
  <2>3. PICK blocks \in SUBSET Blocks : Pages(x.headers, blocks, x.lo, x.hi) /\ x.lo # 0
    BY <2>1, <2>2 DEF CallOK
  <2>4. x.lo \in Nat \ {0} /\ x.hi \in Nat
    BY <2>1, <2>3, BoundAssumption
  <2>5. \A j \in DOMAIN x.headers : Len(x.headers[j]) = x.lo + j - 1 /\ x.lo + j - 1 <= x.hi
    BY <2>3, <2>4, PagesType
  <2> QED
    BY <1>4, <2>5
<1> QED
  BY <1>1, <1>2, <1>3, <1>4

\* A step that does not touch a call leaves what holds of it.
LEMMA OtherCall ==
    ASSUME NEW c \in DOMAIN calls, CallOK(c), calls'[c] = calls[c], c \in DOMAIN calls',
           TimedOut(c)' = TimedOut(c), calls[c].result \notin Waiting
    PROVE  CallOK(c)'
BY DEF CallOK, Fetched

\* What the new state of the current call has to satisfy.
CallGood(x, timed) ==
    /\ x \in Calls
    /\ x.headers # <<>> =>
          x.lo # 0 /\ Pages(x.headers, IF timed = {} THEN x.tips ELSE Blocks, x.lo, x.hi)
    /\ x.result = "bodies" \/ (x.lo # 0 /\ x.result = "done") => x.headers # <<>>
    /\ x.result \in {"headers", "bodies"} => x.lo # 0
    /\ x.result = "treasury" => x.lo = 0
    /\ x.lo # 0 /\ x.result = "done" /\ Cardinality(timed) < 2 => x.bodies = x.headers
    /\ x.lo = 0 /\ x.result = "done" => timed # {} \/ x.bodies = <<Treasury>>

CallsGood == calls \in Seq(Calls) /\ \A c \in DOMAIN calls : CallOK(c)

LEMMA AppendGood ==
    ASSUME TypeOK, CallsGood, ~Busy, NEW x, CallGood(x, TimedOut(Len(calls) + 1)),
           x.result # "timeout", calls' = Append(calls, x)
    PROVE  CallsGood'
<1> PICK n : n = Len(calls)
  OBVIOUS
<1>1. n \in Nat /\ DOMAIN calls = 1..n /\ calls \in Seq(Calls)
  BY Lists DEF TypeOK
<1>2. /\ Len(calls') = n + 1 /\ DOMAIN calls' = 1..(n + 1) /\ calls'[n + 1] = x
      /\ \A c \in 1..n : calls'[c] = calls[c]
      /\ \A c \in 1..(n + 1) : TimedOut(c)' = TimedOut(c)
  BY <1>1, AppendCall
<1>3. calls' \in Seq(Calls)
  BY <1>1 DEF CallGood
<1>4. ASSUME NEW c \in 1..n PROVE CallOK(c)'
  <2>1. calls[c].result \notin Waiting
    <3>1. CASE c = n
      <4>1. calls # <<>>
        BY <1>1, <3>1
      <4> QED
        BY <3>1, <4>1 DEF Busy, Current
    <3>2. CASE c # n
      BY <1>1, <3>2 DEF CallsGood, CallOK
    <3> QED
      BY <3>1, <3>2
  <2> QED
    BY <1>1, <1>2, <2>1, OtherCall DEF CallsGood
<1>5. CallOK(n + 1)'
  <2>1. n + 1 \in DOMAIN calls' /\ TimedOut(n + 1)' = TimedOut(n + 1)
    BY <1>1, <1>2
  <2> QED
    BY <1>2, <2>1 DEF CallOK, CallGood, Fetched
<1> QED
  BY <1>1, <1>2, <1>3, <1>4, <1>5 DEF CallsGood

LEMMA SetGood ==
    ASSUME TypeOK, CallsGood, Busy, NEW x, CallGood(x, TimedOut(Len(calls))),
           calls' = [calls EXCEPT ![Len(calls)] = x]
    PROVE  CallsGood'
<1> PICK n : n = Len(calls)
  OBVIOUS
<1>1. n \in Nat /\ DOMAIN calls = 1..n /\ calls \in Seq(Calls) /\ n \in 1..n
  BY Lists, BusyFacts DEF TypeOK
<1>2. /\ Len(calls') = n /\ DOMAIN calls' = 1..n /\ calls'[n] = x
      /\ \A c \in 1..n : c # n => calls'[c] = calls[c]
      /\ \A c \in 1..n : TimedOut(c)' = TimedOut(c)
  BY <1>1, SetCall
<1>3. calls' \in Seq(Calls)
  BY <1>1 DEF CallGood
<1>4. ASSUME NEW c \in 1..n, c # n PROVE CallOK(c)'
  <2>1. calls[c].result \notin Waiting
    BY <1>1, <1>4 DEF CallsGood, CallOK
  <2> QED
    BY <1>1, <1>2, <1>4, <2>1, OtherCall DEF CallsGood
<1>5. CallOK(n)'
  BY <1>1, <1>2 DEF CallOK, CallGood, Fetched
<1> QED
  BY <1>1, <1>2, <1>3, <1>4, <1>5 DEF CallsGood

-----------------------------------------------------------------------------
(* What the client reads. *)

LEMMA ReceiveFacts ==
    ASSUME IInv, NEW m, Receive(m)
    PROVE  /\ m \in DOMAIN stream /\ m \in Nat /\ m > read
           /\ m <= Len(requests) /\ served <= Len(requests)
           /\ Len(requests) - read <= Cardinality(TimedOut(Len(calls))) + 1
           /\ TimedOut(Len(calls)) = {} => m = Len(requests) /\ served = m
           /\ UNCHANGED <<tip, moves, served, stream, lossy>> /\ read' = m
<1>0. TypeOK /\ StreamInv /\ PendingInv
  BY DEF IInv
<1> PICK n, s, q, t : /\ n = Len(calls) /\ s = Len(stream) /\ q = Len(requests)
                      /\ t = Cardinality(TimedOut(n))
  OBVIOUS
<1>1. /\ n \in Nat /\ n # 0 /\ s \in Nat /\ q \in Nat /\ read \in 0..s /\ s <= q /\ s = served
      /\ DOMAIN stream = 1..s
  BY <1>0, Lists, BusyFacts DEF Receive, StreamInv
<1>2. TimedOut(n + 1) = TimedOut(n)
  BY <1>0, BusyFacts DEF Receive
<1>3. t \in Nat /\ (t = 0 <=> TimedOut(n) = {})
  BY <1>1, TimedOutCount
<1>4. q - read <= t + 1
  BY <1>0, <1>2 DEF PendingInv, Receive
<1>5. m \in (read + 1)..s
  BY DEF Receive
<1>6. ASSUME TimedOut(n) = {} PROVE m = q /\ served = m
  BY <1>1, <1>3, <1>4, <1>5, <1>6
<1>7. UNCHANGED <<tip, moves, served, stream, lossy>> /\ read' = m
  BY DEF Receive
<1> QED
  BY <1>1, <1>4, <1>5, <1>6, <1>7

\* Headers that are accepted are the range the call asked for, from one chain:
\* the node's, unless they answer a call that has timed out.
LEMMA GoodHeaders ==
    ASSUME IInv, NEW m, Receive(m), Current.result = "headers", stream[m].type = "HDR_PACK",
           HeadersValid(stream[m].items)
    PROVE  /\ Current.lo \in 1..MaxHeight /\ Current.hi \in 1..MaxHeight
           /\ Pages(stream[m].items, Blocks, Current.lo, Current.hi)
           /\ TimedOut(Len(calls)) = {} =>
                 Pages(stream[m].items, Current.tips, Current.lo, Current.hi)
<1>0. TypeOK /\ StreamInv /\ PendingInv /\ CallsInv
  BY DEF IInv
<1> PICK items, r, lo, hi : /\ items = stream[m].items /\ r = requests[m]
                            /\ lo = Current.lo /\ hi = Current.hi
  OBVIOUS
<1>1. lo \in 1..MaxHeight /\ hi \in 0..MaxHeight /\ lo \in Nat \ {0} /\ hi \in Nat
  <2>1. Len(calls) \in DOMAIN calls /\ Current = calls[Len(calls)]
    BY <1>0, BusyFacts DEF Receive
  <2>2. lo # 0
    BY <1>0, <2>1 DEF CallsInv
  <2> QED
    BY <1>0, <2>1, <2>2, CallType, BoundAssumption
<1>2. AnswersRequest(stream[m], r) /\ r \in Requests
  BY <1>0, ReceiveFacts, AnswerType
<1>3. r.type = "ENUM_HDRS" /\ items # <<>> /\ Pages(items, Blocks, r.lo, r.hi)
  BY <1>2 DEF AnswersRequest, HeadersValid
<1>4. r.lo \in Nat \ {0} /\ r.hi \in Nat
  BY <1>2, <1>3, RequestType, BoundAssumption
<1>5. PICK block \in Blocks, h \in r.lo..r.hi :
          h <= Len(block) /\ items = Stretch(block, r.lo, h)
  BY <1>3 DEF Pages
<1>6. h \in r.lo..Len(block) /\ Len(block) \in Nat /\ h \in Nat
  BY <1>4, <1>5, BlockType
<1>7. /\ Len(items) = h - r.lo + 1
      /\ \A i \in 1..(h - r.lo + 1) : Len(items[i]) = r.lo + i - 1
  <2> PICK k : k = r.lo
    OBVIOUS
  <2>1. block \in Blocks /\ k \in Nat \ {0} /\ h \in k..Len(block) /\ items = Stretch(block, k, h)
    BY <1>4, <1>5, <1>6
  <2>2. /\ Len(items) = h - k + 1
        /\ \A i \in 1..(h - k + 1) : Len(items[i]) = k + i - 1
    <3> HIDE DEF Stretch
    <3> QED
      BY ONLY <2>1, StretchType
  <2> QED
    BY <2>2
<1>8. Len(items[1]) = r.lo /\ Len(items[Len(items)]) = h
  <2> PICK l : l = h - r.lo + 1
    OBVIOUS
  <2>1. 1 \in 1..l /\ l \in 1..l /\ r.lo + 1 - 1 = r.lo /\ r.lo + l - 1 = h
    BY <1>4, <1>6
  <2> QED
    BY <1>7, <2>1
<1>9. r.lo = lo /\ h <= hi
  BY <1>8 DEF HeadersValid
<1>10. h \in lo..hi /\ items = Stretch(block, lo, h)
  BY <1>1, <1>5, <1>6, <1>9
<1>11. Pages(items, Blocks, lo, hi)
  BY <1>5, <1>10 DEF Pages
<1>12. hi \in 1..MaxHeight
  BY <1>1, <1>10, BoundAssumption
<1>13. TimedOut(Len(calls)) = {} => Pages(items, Current.tips, lo, hi)
  BY <1>0, <1>3, ReceiveFacts DEF PendingInv, Receive
<1> QED
  BY <1>1, <1>11, <1>12, <1>13

\* Bodies that are paired with the headers are theirs, unless two calls have
\* timed out.
LEMMA GoodBodies ==
    ASSUME IInv, NEW m, Receive(m), Current.result = "bodies",
           stream[m].type \in {"BODY", "BODY_PACK"}, Pairs(m),
           Cardinality(TimedOut(Len(calls))) < 2
    PROVE  stream[m].items = Current.headers
<1>0. TypeOK /\ StreamInv /\ PendingInv /\ CallsInv
  BY DEF IInv
<1> PICK n, q, x, r : n = Len(calls) /\ q = Len(requests) /\ x = Current /\ r = requests[m]
  OBVIOUS
<1>1. /\ n \in DOMAIN calls /\ x = calls[n] /\ TimedOut(n + 1) = TimedOut(n)
      /\ q \in Nat
  BY <1>0, BusyFacts, Lists DEF Receive
<1>2. AnswersRequest(stream[m], r) /\ r \in Requests
  BY <1>0, ReceiveFacts, AnswerType
<1>3. m = q
  <2> SUFFICES ASSUME m # q PROVE FALSE
    OBVIOUS
  <2>1. m \in (read + 1)..(q - 1)
    BY <1>0, <1>1, ReceiveFacts, Lists
  <2>2. r.type = "ENUM_HDRS"
    BY <1>0, <1>1, <2>1 DEF PendingInv, Receive
  <2> QED
    BY <1>2, <2>2 DEF AnswersRequest
<1>4. /\ r.type = "GET_BODY_PACK" /\ r.top = x.headers[Len(x.headers)]
      /\ r.extra = Len(x.headers) - 1
  BY <1>0, <1>3 DEF PendingInv, Receive
<1>5. x.headers # <<>> /\ Pages(x.headers, Blocks, x.lo, x.hi) /\ x.lo \in Nat \ {0} /\ x.hi \in Nat
  <2>1. x.headers # <<>> /\ x.lo # 0
    BY <1>0, <1>1 DEF CallsInv
  <2>2. x.tips \in SUBSET Blocks /\ x.lo \in 0..MaxHeight /\ x.hi \in 0..MaxHeight
    BY <1>0, <1>1, CallType
  <2>3. Pages(x.headers, IF TimedOut(n) = {} THEN x.tips ELSE Blocks, x.lo, x.hi)
    BY <1>0, <1>1, <2>1 DEF CallsInv
  <2> QED
    BY <2>1, <2>2, <2>3, BoundAssumption DEF Pages
<1>6. PICK block \in Blocks, h \in x.lo..x.hi :
          h <= Len(block) /\ x.headers = Stretch(block, x.lo, h)
  BY <1>5 DEF Pages
<1>7. h \in x.lo..Len(block) /\ Len(block) \in Nat /\ h \in Nat
  BY <1>5, <1>6, BlockType
<1>8. Len(x.headers) = h - x.lo + 1 /\ r.top = At(block, h) /\ r.extra = h - x.lo
  <2> PICK s, l : s = Stretch(block, x.lo, h) /\ l = h - x.lo + 1
    OBVIOUS
  <2>1. Len(s) = l /\ s[l] = At(block, h)
    BY <1>5, <1>7, StretchType, ZenonT(60)
  <2> QED
    BY <1>4, <1>5, <1>6, <1>7, <2>1
<1>9. Stretch(r.top, x.lo, h) = x.headers /\ (x.lo = h => <<r.top>> = x.headers)
  BY <1>5, <1>6, <1>7, <1>8, StretchOfLast
<1>10. Len(r.top) = h /\ Len(r.top) - r.extra = x.lo
  <2>1. h \in 1..Len(block)
    BY <1>5, <1>7
  <2>2. Len(r.top) = h
    BY <1>8, <2>1, AtType
  <2> QED
    BY <1>5, <1>7, <1>8, <2>2
<1>11. CASE stream[m].type = "BODY"
  <2>1. r.extra = 0 /\ stream[m].items = <<r.top>>
    BY <1>2, <1>4, <1>11 DEF AnswersRequest
  <2>2. x.lo = h
    BY <1>5, <1>7, <1>8, <2>1
  <2> QED
    BY <1>9, <2>1, <2>2
<1>12. CASE stream[m].type = "BODY_PACK"
  <2>1. Pages(stream[m].items, {r.top}, x.lo, h)
    BY <1>2, <1>4, <1>10, <1>12 DEF AnswersRequest
  <2>2. PICK k \in x.lo..h : k <= Len(r.top) /\ stream[m].items = Stretch(r.top, x.lo, k)
    BY <2>1 DEF Pages
  <2>3. Len(stream[m].items) = Len(x.headers)
    BY <1>12 DEF Pairs
  <2>4. r.top \in Blocks
    BY <1>2, <1>4, RequestType
  <2>5. k \in x.lo..Len(r.top) /\ k \in Nat
    BY <1>5, <1>7, <1>10, <2>2
  <2>6. Len(stream[m].items) = k - x.lo + 1
    <3> PICK s, top, lo : top = r.top /\ lo = x.lo /\ s = Stretch(top, lo, k)
      OBVIOUS
    <3>1. Len(s) = k - lo + 1
      BY <1>5, <2>4, <2>5, StretchType, ZenonT(60)
    <3> QED
      BY <2>2, <3>1
  <2>7. k = h
    BY <1>5, <1>7, <1>8, <2>3, <2>5, <2>6
  <2> QED
    BY <1>9, <2>2, <2>7
<1> QED
  BY <1>11, <1>12

LEMMA GoodTreasury ==
    ASSUME IInv, NEW m, Receive(m), Current.result = "treasury", stream[m].type = "BODY",
           TimedOut(Len(calls)) = {}
    PROVE  stream[m].items = <<Treasury>>
<1>0. TypeOK /\ StreamInv /\ PendingInv
  BY DEF IInv
<1>1. AnswersRequest(stream[m], requests[m])
  BY <1>0, ReceiveFacts, AnswerType
<1>2. m = Len(requests)
  BY ReceiveFacts
<1>3. requests[m].type = "GET_BODY"
  BY <1>0, <1>2 DEF PendingInv, Receive
<1> QED
  BY <1>1, <1>3 DEF AnswersRequest

-----------------------------------------------------------------------------
(* The steps: the parts of the invariant together. *)

LEMMA CallsLater == (CallsGood => /\ CallsInv /\ BodiesBelong /\ TreasuryUndisturbed
           /\ \A c \in DOMAIN calls : \A i \in DOMAIN calls[c].headers :
                 Len(calls[c].headers[i]) = calls[c].lo + i - 1
                 /\ calls[c].lo + i - 1 <= calls[c].hi)'
<1>1. CallsGood => /\ CallsInv /\ BodiesBelong /\ TreasuryUndisturbed
           /\ \A c \in DOMAIN calls : \A i \in DOMAIN calls[c].headers :
                 Len(calls[c].headers[i]) = calls[c].lo + i - 1
                 /\ calls[c].lo + i - 1 <= calls[c].hi
  BY CallsFromOK DEF CallsGood
<1> QED
  BY <1>1, PTL

LEMMA Assemble ==
    ASSUME tip' \in Blocks, moves' \in 0..MaxMoves, requests' \in Seq(Requests),
           served' \in 0..Len(requests'), stream' \in Seq(Answers), read' \in 0..Len(stream'),
           lossy' \in BOOLEAN, CallsGood', StreamInv', PendingInv'
    PROVE  IInv'
<1>1. /\ CallsInv' /\ BodiesBelong' /\ TreasuryUndisturbed'
      /\ \A c \in DOMAIN calls' : \A i \in DOMAIN calls'[c].headers :
            Len(calls'[c].headers[i]) = calls'[c].lo + i - 1
            /\ calls'[c].lo + i - 1 <= calls'[c].hi
  BY CallsLater
<1>2. calls' \in Seq(Calls)
  BY DEF CallsGood
<1>3. TypeOK'
  BY <1>1, <1>2 DEF TypeOK
<1> QED
  BY <1>1, <1>3 DEF IInv

LEMMA Parts ==
    ASSUME IInv
    PROVE  /\ TypeOK /\ StreamInv /\ CallsInv /\ PendingInv /\ CallsGood
           /\ tip \in Blocks /\ moves \in 0..MaxMoves /\ requests \in Seq(Requests)
           /\ served \in 0..Len(requests) /\ stream \in Seq(Answers)
           /\ read \in 0..Len(stream) /\ lossy \in BOOLEAN /\ calls \in Seq(Calls)
BY CallOKInv DEF IInv, TypeOK, CallsGood

\* A new request leaves what has been answered.
LEMMA AppendRequest ==
    ASSUME IInv, NEW r, r \in Requests, r.type = "GET_BODY_PACK" => r.extra < Len(r.top),
           requests' = Append(requests, r), UNCHANGED <<served, stream>>
    PROVE  /\ requests' \in Seq(Requests) /\ Len(requests') = Len(requests) + 1
           /\ requests'[Len(requests) + 1] = r /\ requests' # <<>>
           /\ \A i \in 1..Len(requests) : requests'[i] = requests[i]
           /\ served' \in 0..Len(requests') /\ StreamInv'
<1> PICK q : q = Len(requests)
  OBVIOUS
<1>1. /\ q \in Nat /\ requests \in Seq(Requests) /\ DOMAIN requests = 1..q
      /\ served \in 0..q /\ Len(stream) = served /\ DOMAIN stream = 1..served
  BY Parts, Lists DEF StreamInv
<1>2. /\ requests' \in Seq(Requests) /\ Len(requests') = q + 1 /\ requests'[q + 1] = r
      /\ DOMAIN requests' = 1..(q + 1) /\ requests' # <<>>
      /\ \A i \in 1..q : requests'[i] = requests[i]
  BY <1>1
<1>3. 1..(q + 1) = 1..q \cup {q + 1} /\ 1..served \subseteq 1..q
  BY <1>1
<1>4. StreamInv'
  <2>1. \A i \in DOMAIN stream : AnswersRequest(stream[i], requests'[i])
    BY <1>1, <1>2, <1>3, Parts DEF StreamInv
  <2>2. \A i \in DOMAIN requests' :
           requests'[i].type = "GET_BODY_PACK" => requests'[i].extra < Len(requests'[i].top)
    BY <1>1, <1>2, <1>3, Parts DEF StreamInv
  <2>3. \A a, b : AnswersRequest(a, b)' = AnswersRequest(a, b)
    OBVIOUS
  <2> QED
    BY <1>1, <2>1, <2>2 DEF StreamInv
<1>5. served' \in 0..Len(requests')
  BY <1>1, <1>2
<1> QED
  BY <1>1, <1>2, <1>4, <1>5

-----------------------------------------------------------------------------
(* The steps: a call begins. *)

LEMMA BeginStep ==
    ASSUME IInv, NEW lo \in 0..MaxHeight, NEW hi \in 0..MaxHeight, NEW stage, NEW r,
           Begin(lo, hi, stage), Request(r), r \in Requests,
           \/ stage = "headers" /\ lo # 0 /\ r.type = "ENUM_HDRS" /\ r.lo = lo /\ r.hi = hi
           \/ stage = "treasury" /\ lo = 0 /\ r.type = "GET_BODY",
           UNCHANGED <<tip, moves, served, stream, read, lossy>>
    PROVE  IInv'
<1> PICK x, n, q : /\ x = [lo |-> lo, hi |-> hi, headers |-> <<>>, bodies |-> <<>>,
                           result |-> stage, tips |-> {tip}]
                   /\ n = Len(calls) /\ q = Len(requests)
  OBVIOUS
<1>1. calls' = Append(calls, x) /\ ~Busy /\ requests' = Append(requests, r)
  BY DEF Begin, Request
<1>2. /\ n \in Nat /\ q \in Nat /\ TypeOK /\ CallsGood /\ PendingInv /\ tip \in Blocks
      /\ served \in 0..q
  BY Parts, Lists
<1>3. x \in Calls /\ x.headers = <<>> /\ x.result = stage /\ x.lo = lo /\ x.hi = hi /\ x.tips = {tip}
  BY <1>2 DEF Calls, Waiting
<1>4. CallGood(x, TimedOut(n + 1)) /\ x.result # "timeout"
  BY <1>3 DEF CallGood
<1>5. CallsGood'
  BY <1>1, <1>2, <1>4, AppendGood
<1>6. /\ Len(calls') = n + 1 /\ calls'[n + 1] = x
      /\ TimedOut(Len(calls) + 1)' = TimedOut(n + 1)
  BY <1>1, <1>2, <1>4, AppendCall
<1>7. /\ requests' \in Seq(Requests) /\ Len(requests') = q + 1 /\ requests'[q + 1] = r
      /\ requests' # <<>> /\ served' \in 0..Len(requests') /\ StreamInv'
  BY <1>1, AppendRequest
<1>8. Busy' /\ Current' = x
  <2>1. calls' # <<>>
    BY <1>2, <1>6
  <2> QED
    BY <1>3, <1>6, <2>1 DEF Busy, Current, Waiting
<1>9. PendingInv'
  <2>0. n + 1 \in Nat \ {0} /\ read \in Nat
    BY <1>2, Lists
  <2>2. Cardinality(TimedOut(n + 1)) \in Nat
    BY <2>0, TimedOutCount
  <2>1. q - read <= Cardinality(TimedOut(n + 1))
    BY <1>1, <1>2, <2>0, <2>2 DEF PendingInv
  <2>3. Len(requests') - read' <= Cardinality(TimedOut(Len(calls) + 1)') + 1
    BY <1>2, <1>6, <1>7, <2>0, <2>1, <2>2
  <2>4. lossy' => TimedOut(Len(calls) + 1)' # {}
    BY <1>2, <1>6 DEF PendingInv
  <2>5. served' # Len(requests')
    BY <1>2, <1>7
  <2> QED
    BY <1>2, <1>3, <1>6, <1>7, <1>8, <2>3, <2>4, <2>5 DEF PendingInv
<1> QED
  BY <1>5, <1>7, <1>9, Parts, Assemble

LEMMA FetchBlocksStep ==
    ASSUME IInv, NEW lo \in 1..MaxHeight, NEW hi \in 1..MaxHeight, FetchBlocks(lo, hi)
    PROVE  IInv'
<1> PICK r : r = [type |-> "ENUM_HDRS", lo |-> lo, hi |-> hi]
  OBVIOUS
<1>1. r \in Requests /\ r.type = "ENUM_HDRS" /\ r.lo = lo /\ r.hi = hi
  BY DEF Requests
<1>2. lo \in 0..MaxHeight /\ hi \in 0..MaxHeight /\ lo # 0
  BY BoundAssumption
<1>3. /\ Begin(lo, hi, "headers") /\ Request(r)
      /\ UNCHANGED <<tip, moves, served, stream, read, lossy>>
  BY DEF FetchBlocks
<1> QED
  BY <1>1, <1>2, <1>3, BeginStep

LEMMA GetTreasuryStep ==
    ASSUME IInv, GetTreasury
    PROVE  IInv'
<1> PICK r : r = [type |-> "GET_BODY"]
  OBVIOUS
<1>1. r \in Requests /\ r.type = "GET_BODY" /\ 0 \in 0..MaxHeight
  BY BoundAssumption DEF Requests
<1>2. /\ Begin(0, 0, "treasury") /\ Request(r)
      /\ UNCHANGED <<tip, moves, served, stream, read, lossy>>
  BY DEF GetTreasury
<1> QED
  BY <1>1, <1>2, BeginStep

-----------------------------------------------------------------------------
(* The steps of the node. *)

\* What the node writes for a request.
LEMMA Answer ==
    ASSUME IInv, NodeServe
    PROVE  \E a \in Answers :
              /\ stream' = Append(stream, a)
              /\ served + 1 \in DOMAIN requests
              /\ AnswersRequest(a, requests[served + 1])
              /\ requests[served + 1].type = "ENUM_HDRS" /\ a.type = "HDR_PACK"
                    /\ a.items # <<>> =>
                       Pages(a.items, {tip}, requests[served + 1].lo, requests[served + 1].hi)
<1> PICK r : r = requests[served + 1]
  OBVIOUS
<1>1. served + 1 \in DOMAIN requests /\ r \in Requests /\ tip \in Blocks
  BY Parts, Lists DEF NodeServe
<1>2. \A type \in {"HDR_PACK", "BODY", "BODY_PACK", "DATA_MISSING"},
         items \in Seq(Blocks \cup {Treasury}) : [type |-> type, items |-> items] \in Answers
  BY DEF Answers
<1>3. Seq(Blocks) \subseteq Seq(Blocks \cup {Treasury}) /\ <<>> \in Seq(Blocks \cup {Treasury})
  OBVIOUS
<1>4. CASE Write("DATA_MISSING", <<>>)
  <2> PICK a : a = [type |-> "DATA_MISSING", items |-> <<>>]
    OBVIOUS
  <2>1. a \in Answers /\ stream' = Append(stream, a) /\ a.type = "DATA_MISSING"
    BY <1>2, <1>3, <1>4 DEF Write
  <2> QED
    BY <1>1, <2>1 DEF AnswersRequest
<1>5. CASE r.type = "GET_BODY" /\ Write("BODY", <<Treasury>>)
  <2> PICK a : a = [type |-> "BODY", items |-> <<Treasury>>]
    OBVIOUS
  <2>1. a \in Answers /\ stream' = Append(stream, a) /\ a.type = "BODY" /\ a.items = <<Treasury>>
    <3>1. <<Treasury>> \in Seq(Blocks \cup {Treasury})
      OBVIOUS
    <3> QED
      BY <1>2, <1>5, <3>1 DEF Write
  <2> QED
    BY <1>1, <1>5, <2>1 DEF AnswersRequest
<1>6. CASE r.type = "ENUM_HDRS" /\ ServeHeaders(r)
  <2>0. r.lo \in Nat \ {0} /\ r.hi \in Nat
    BY <1>1, <1>6, RequestType, BoundAssumption
  <2>1. CASE Write("HDR_PACK", <<>>)
    <3> PICK a : a = [type |-> "HDR_PACK", items |-> <<>>]
      OBVIOUS
    <3>1. a \in Answers /\ stream' = Append(stream, a) /\ a.type = "HDR_PACK" /\ a.items = <<>>
      BY <1>2, <1>3, <2>1 DEF Write
    <3> QED
      BY <1>1, <1>6, <3>1 DEF AnswersRequest
  <2>2. ASSUME NEW h \in r.lo..r.hi, h <= Len(tip), Write("HDR_PACK", Stretch(tip, r.lo, h))
        PROVE  \E a \in Answers :
                  /\ stream' = Append(stream, a) /\ AnswersRequest(a, r)
                  /\ Pages(a.items, {tip}, r.lo, r.hi)
    <3> PICK items, a, lo, hi : /\ items = Stretch(tip, lo, h) /\ lo = r.lo /\ hi = r.hi
                                /\ a = [type |-> "HDR_PACK", items |-> items]
      OBVIOUS
    <3>1. items \in Seq(Blocks)
      <4>1. h \in lo..Len(tip) /\ lo \in Nat \ {0}
        BY <1>1, <2>0, <2>2, BlockType
      <4> QED
        BY <1>1, <4>1, StretchType, ZenonT(60)
    <3>2. a \in Answers /\ stream' = Append(stream, a) /\ a.type = "HDR_PACK" /\ a.items = items
      BY <1>2, <1>3, <2>2, <3>1 DEF Write
    <3>3. Pages(items, {tip}, lo, hi) /\ Pages(items, Blocks, lo, hi)
      BY <1>1, <2>2 DEF Pages
    <3> QED
      BY <1>6, <3>2, <3>3 DEF AnswersRequest
  <2> QED
    BY <1>1, <1>6, <2>1, <2>2 DEF ServeHeaders
<1>7. CASE r.type = "GET_BODY_PACK" /\ ServeBodies(r)
  <2> PICK top, extra, lo : top = r.top /\ extra = r.extra /\ lo = Len(top) - extra
    OBVIOUS
  <2>0. /\ top \in Blocks /\ extra \in Nat /\ extra < Len(top) /\ Len(top) \in Nat
        /\ lo \in Nat \ {0}
    BY <1>1, <1>7, RequestType, BlockType, Parts DEF StreamInv
  <2>1. CASE extra = 0 /\ Write("BODY", <<top>>)
    <3> PICK a : a = [type |-> "BODY", items |-> <<top>>]
      OBVIOUS
    <3>1. a \in Answers /\ stream' = Append(stream, a) /\ a.type = "BODY" /\ a.items = <<top>>
      <4>1. <<top>> \in Seq(Blocks \cup {Treasury})
        BY <2>0
      <4> QED
        BY <1>2, <2>1, <4>1 DEF Write
    <3> QED
      BY <1>1, <1>7, <2>1, <3>1 DEF AnswersRequest
  <2>2. ASSUME extra > 0, NEW h \in lo..Len(top), Write("BODY_PACK", Stretch(top, lo, h))
        PROVE  \E a \in Answers : /\ stream' = Append(stream, a) /\ AnswersRequest(a, r)
                                  /\ a.type = "BODY_PACK"
    <3> PICK items, a : /\ items = Stretch(top, lo, h)
                        /\ a = [type |-> "BODY_PACK", items |-> items]
      OBVIOUS
    <3>1. items \in Seq(Blocks)
      BY <2>0, StretchType, ZenonT(60)
    <3>2. /\ a \in Answers /\ stream' = Append(stream, a) /\ a.type = "BODY_PACK"
          /\ a.items = items
      BY <1>2, <1>3, <2>2, <3>1 DEF Write
    <3>3. Pages(items, {top}, lo, Len(top))
      BY <2>0 DEF Pages
    <3> QED
      BY <1>7, <2>2, <3>2, <3>3 DEF AnswersRequest
  <2> QED
    BY <1>1, <1>7, <2>1, <2>2 DEF ServeBodies
<1> QED
  BY <1>4, <1>5, <1>6, <1>7 DEF NodeServe

LEMMA NodeServeStep ==
    ASSUME IInv, NodeServe
    PROVE  IInv'
<1> PICK n, q, s, k : n = Len(calls) /\ q = Len(requests) /\ s = served /\ k = s + 1
  OBVIOUS
<1>1. PICK a \in Answers :
          /\ stream' = Append(stream, a) /\ k \in DOMAIN requests
          /\ AnswersRequest(a, requests[k])
          /\ requests[k].type = "ENUM_HDRS" /\ a.type = "HDR_PACK" /\ a.items # <<>> =>
                Pages(a.items, {tip}, requests[k].lo, requests[k].hi)
  BY Answer
<1>2. /\ served' = k /\ UNCHANGED <<tip, moves, requests, read, lossy, calls>>
      /\ s \in 0..q /\ k \in 1..q /\ q \in Nat /\ n \in Nat /\ DOMAIN requests = 1..q
      /\ Len(stream) = s /\ stream \in Seq(Answers) /\ read \in 0..s
      /\ PendingInv /\ CallsGood /\ StreamInv /\ TypeOK
  BY <1>1, Parts, Lists DEF NodeServe, StreamInv
<1>3. /\ stream' \in Seq(Answers) /\ Len(stream') = k /\ DOMAIN stream' = 1..k
      /\ stream'[k] = a /\ \A i \in 1..s : stream'[i] = stream[i]
  BY <1>1, <1>2
<1>4. StreamInv'
  <2>1. 1..k = 1..s \cup {k} /\ DOMAIN stream = 1..s
    BY <1>2
  <2>2. \A i \in DOMAIN stream' : AnswersRequest(stream'[i], requests[i])
    BY <1>1, <1>2, <1>3, <2>1 DEF StreamInv
  <2> QED
    BY <1>2, <1>3, <2>2 DEF StreamInv
<1>5. CallsGood'
  BY <1>2 DEF CallsGood, CallOK, Fetched, TimedOut
<1>6. Busy' = Busy /\ Current' = Current /\ TimedOut(Len(calls) + 1)' = TimedOut(Len(calls) + 1)
  BY <1>2 DEF Busy, Current, TimedOut
<1>7. ASSUME Busy, Current.result = "headers", served' = Len(requests), a.type = "HDR_PACK",
             a.items # <<>>
      PROVE  Pages(a.items, Current.tips, Current.lo, Current.hi)
  <2>1. /\ requests[q].type = "ENUM_HDRS" /\ requests[q].lo = Current.lo
        /\ requests[q].hi = Current.hi /\ tip \in Current.tips /\ k = q
    BY <1>2, <1>7 DEF PendingInv
  <2>2. Pages(a.items, {tip}, Current.lo, Current.hi)
    BY <1>1, <1>7, <2>1
  <2> QED
    BY <2>1, <2>2 DEF Pages
<1>8. PendingInv'
  BY <1>2, <1>3, <1>6, <1>7 DEF PendingInv
<1>9. served' \in 0..Len(requests') /\ read' \in 0..Len(stream')
  BY <1>2, <1>3
<1> QED
  BY <1>2, <1>3, <1>4, <1>5, <1>8, <1>9, Parts, Assemble

LEMMA NewTipStep ==
    ASSUME IInv, NEW block \in Blocks, NewTip(block)
    PROVE  IInv'
<1>1. /\ TypeOK /\ StreamInv /\ CallsGood /\ PendingInv /\ tip' \in Blocks
      /\ moves' \in 0..MaxMoves /\ UNCHANGED <<requests, served, stream, read, lossy>>
  BY Parts, BoundAssumption DEF NewTip
<1>2. StreamInv'
  BY <1>1 DEF StreamInv
<1>3. CASE ~Busy
  <2>1. UNCHANGED calls
    BY <1>3 DEF NewTip
  <2>2. CallsGood'
    BY <1>1, <2>1 DEF CallsGood, CallOK, Fetched, TimedOut
  <2>3. ~Busy' /\ TimedOut(Len(calls) + 1)' = TimedOut(Len(calls) + 1)
    BY <1>3, <2>1 DEF Busy, Current, TimedOut
  <2>4. PendingInv'
    BY <1>1, <1>3, <2>1, <2>3 DEF PendingInv
  <2> QED
    BY <1>1, <1>2, <2>2, <2>4, Parts, Assemble
<1>4. CASE Busy
  <2> PICK n, y, x : /\ n = Len(calls) /\ y = Current
                     /\ x = [y EXCEPT !.tips = @ \cup {block}]
    OBVIOUS
  <2>1. n \in DOMAIN calls /\ y = calls[n] /\ y \in Calls /\ CallOK(n) /\ y.result \in Waiting
        /\ TimedOut(n + 1) = TimedOut(n)
    BY <1>1, <1>4, BusyFacts, CallType DEF CallsGood
  <2>2. calls' = [calls EXCEPT ![n] = x]
    BY <1>4, <2>1 DEF NewTip
  <2>3. /\ x \in Calls /\ x.lo = y.lo /\ x.hi = y.hi /\ x.headers = y.headers
        /\ x.bodies = y.bodies /\ x.result = y.result /\ x.tips = y.tips \cup {block}
    BY <2>1 DEF Calls
  <2>4. CallGood(x, TimedOut(n))
    <3>1. ASSUME x.headers # <<>>
          PROVE  Pages(x.headers, IF TimedOut(n) = {} THEN x.tips ELSE Blocks, x.lo, x.hi)
      <4>1. Pages(y.headers, IF TimedOut(n) = {} THEN y.tips ELSE Blocks, y.lo, y.hi)
        BY <2>1, <2>3, <3>1 DEF CallOK
      <4> QED
        BY <2>3, <4>1 DEF Pages
    <3> QED
      BY <2>1, <2>3, <3>1 DEF CallGood, CallOK, Waiting
  <2>5. CallsGood'
    BY <1>1, <1>4, <2>2, <2>4, SetGood
  <2>6. /\ Len(calls') = n /\ Current' = x /\ n \in Nat /\ n # 0 /\ calls' \in Seq(Calls)
        /\ TimedOut(Len(calls) + 1)' = TimedOut(Len(calls) + 1)
    <3>1. x.result # "timeout"
      BY <2>1, <2>3 DEF Waiting
    <3>2. n \in Nat /\ n # 0
      BY <1>1, <2>1, Lists
    <3> QED
      BY <1>1, <1>4, <2>1, <2>2, <2>5, <3>1, <3>2, SetCall DEF CallsGood
  <2>7. Busy'
    <3>1. calls' # <<>>
      BY <2>6
    <3> QED
      BY <2>1, <2>3, <2>6, <3>1 DEF Busy
  <2>8. tip' \in x.tips
    BY <2>3 DEF NewTip
  <2>9. \A items, lo, hi : Pages(items, y.tips, lo, hi) => Pages(items, x.tips, lo, hi)
    BY <2>3 DEF Pages
  <2>10. PendingInv'
    <3>1. Len(requests') - read' <= Cardinality(TimedOut(Len(calls) + 1)') + 1
      BY <1>1, <1>4, <2>6 DEF PendingInv
    <3>2. lossy' => TimedOut(Len(calls) + 1)' # {}
      BY <1>1, <2>6 DEF PendingInv
    <3>3. y.result = "headers" =>
             LET last == requests[Len(requests)] IN
             /\ last.type = "ENUM_HDRS" /\ last.lo = y.lo /\ last.hi = y.hi
             /\ served = Len(requests) /\ stream[served].type = "HDR_PACK"
                   /\ stream[served].items # <<>> =>
                      Pages(stream[served].items, x.tips, y.lo, y.hi)
      BY <1>1, <1>4, <2>9 DEF PendingInv
    <3> QED
      BY <1>1, <1>4, <2>3, <2>6, <2>7, <2>8, <3>1, <3>2, <3>3 DEF PendingInv
  <2> QED
    BY <1>1, <1>2, <2>5, <2>10, Parts, Assemble
<1> QED
  BY <1>3, <1>4

-----------------------------------------------------------------------------
(* The steps of recv_until. *)

LEMMA CurrentFacts ==
    ASSUME IInv, Busy
    PROVE  /\ Current \in Calls /\ Current.result \in Waiting
           /\ Current = calls[Len(calls)] /\ CallOK(Len(calls))
           /\ Len(calls) \in Nat \ {0}
           /\ TimedOut(Len(calls) + 1) = TimedOut(Len(calls))
<1>1. TypeOK /\ CallsGood
  BY Parts
<1>2. /\ Len(calls) \in DOMAIN calls /\ Current = calls[Len(calls)]
      /\ calls[Len(calls)].result \in Waiting
      /\ TimedOut(Len(calls) + 1) = TimedOut(Len(calls))
  BY <1>1, BusyFacts
<1>3. Len(calls) \in Nat \ {0}
  BY <1>1, <1>2, Lists
<1> QED
  BY <1>1, <1>2, <1>3, CallType DEF CallsGood

\* The call in progress ends, with or without a result.
LEMMA EndStep ==
    ASSUME IInv, NEW x, Busy, calls' = [calls EXCEPT ![Len(calls)] = x],
           CallGood(x, TimedOut(Len(calls))), x.result \in Outcomes,
           UNCHANGED <<tip, moves, requests, served, stream>>,
           \/ x.result # "timeout" /\ UNCHANGED lossy /\ read' > read
           \/ x.result = "timeout" /\ lossy' \in BOOLEAN /\ read' = read,
           read' \in 0..Len(stream)
    PROVE  IInv'
<1> PICK n, q, t : n = Len(calls) /\ q = Len(requests) /\ t = Cardinality(TimedOut(n))
  OBVIOUS
<1>1. /\ TypeOK /\ StreamInv /\ CallsGood /\ PendingInv /\ n \in Nat \ {0} /\ q \in Nat
      /\ read \in Nat /\ read' \in Nat
  BY Parts, CurrentFacts, Lists
<1>2. /\ t \in Nat /\ Cardinality(TimedOut(n) \cup {n}) = t + 1
      /\ TimedOut(n + 1) = TimedOut(n) /\ q - read <= t + 1
  <2>1. TimedOut(n + 1) = TimedOut(n)
    BY CurrentFacts
  <2> QED
    BY <1>1, <2>1, TimedOutCount DEF PendingInv
<1>3. CallsGood'
  BY <1>1, SetGood
<1>4. /\ Len(calls') = n /\ Current' = x
      /\ TimedOut(Len(calls) + 1)' =
            IF x.result = "timeout" THEN TimedOut(n) \cup {n} ELSE TimedOut(n)
  BY <1>1, SetCall
<1>5. ~Busy'
  BY <1>4 DEF Busy, Outcomes, Waiting
<1>6. StreamInv'
  BY <1>1 DEF StreamInv
<1>7. PendingInv'
  <2>1. CASE x.result = "timeout"
    <3>1. /\ TimedOut(Len(calls) + 1)' = TimedOut(n) \cup {n}
          /\ TimedOut(Len(calls) + 1)' # {}
      BY <1>4, <2>1
    <3>2. Cardinality(TimedOut(Len(calls) + 1)') = t + 1
      BY <1>2, <3>1
    <3>3. Len(requests') - read' <= Cardinality(TimedOut(Len(calls) + 1)') + 0
      BY <1>1, <1>2, <2>1, <3>2
    <3> QED
      BY <1>5, <3>1, <3>3 DEF PendingInv
  <2>2. CASE x.result # "timeout"
    <3>1. TimedOut(Len(calls) + 1)' = TimedOut(n) /\ UNCHANGED lossy /\ read' > read
      BY <1>4, <2>2
    <3>2. q - read' <= t
      BY <1>1, <1>2, <3>1
    <3>3. Len(requests') - read' <= Cardinality(TimedOut(Len(calls) + 1)') + 0
      BY <1>2, <3>1, <3>2
    <3>4. lossy' => TimedOut(Len(calls) + 1)' # {}
      BY <1>1, <1>2, <3>1 DEF PendingInv
    <3> QED
      BY <1>5, <3>3, <3>4 DEF PendingInv
  <2> QED
    BY <2>1, <2>2
<1>8. lossy' \in BOOLEAN
  BY Parts
<1> QED
  BY <1>1, <1>3, <1>6, <1>7, <1>8, Parts, Assemble

LEMMA RecvEnds ==
    ASSUME IInv, NEW m, Receive(m), NEW x, Set(x), UNCHANGED requests,
           CallGood(x, TimedOut(Len(calls))), x.result \in Outcomes \ {"timeout"}
    PROVE  IInv'
<1>1. /\ Busy /\ UNCHANGED <<tip, moves, served, stream, lossy>> /\ read' = m
      /\ m > read /\ m \in 0..Len(stream)
  <2>1. m \in DOMAIN stream /\ m > read
    BY ReceiveFacts
  <2>2. m \in 0..Len(stream)
    BY <2>1, Parts, Lists
  <2> QED
    BY <2>1, <2>2 DEF Receive
<1>2. calls' = [calls EXCEPT ![Len(calls)] = x] /\ x.result # "timeout" /\ x.result \in Outcomes
  BY DEF Set
<1> QED
  BY <1>1, <1>2, EndStep

\* A call that ends without a result.
LEMMA FailedGood ==
    ASSUME IInv, Busy, NEW outcome \in {"invalid", "missing", "timeout"},
           NEW x, x = [Current EXCEPT !.result = outcome]
    PROVE  CallGood(x, TimedOut(Len(calls))) /\ x.result = outcome
<1>1. Current \in Calls /\ CallOK(Len(calls)) /\ Current = calls[Len(calls)]
  BY CurrentFacts
<1>2. /\ x \in Calls /\ x.lo = Current.lo /\ x.hi = Current.hi /\ x.headers = Current.headers
      /\ x.tips = Current.tips /\ x.result = outcome
  BY <1>1 DEF Calls, Outcomes
<1> QED
  BY <1>1, <1>2 DEF CallGood, CallOK

LEMMA RecvTimeoutStep ==
    ASSUME IInv, RecvTimeout
    PROVE  IInv'
<1> PICK x : x = [Current EXCEPT !.result = "timeout"]
  OBVIOUS
<1>1. CallGood(x, TimedOut(Len(calls))) /\ x.result = "timeout"
  BY FailedGood DEF RecvTimeout
<1>2. /\ Busy /\ calls' = [calls EXCEPT ![Len(calls)] = x]
      /\ UNCHANGED <<tip, moves, requests, served, stream, read>>
  BY DEF RecvTimeout, Set
<1>3. lossy' \in BOOLEAN /\ read' \in 0..Len(stream)
  BY Parts DEF RecvTimeout
<1>4. x.result \in Outcomes
  BY <1>1 DEF Outcomes
<1> QED
  BY <1>1, <1>2, <1>3, <1>4, EndStep

LEMMA RecvMissingStep ==
    ASSUME IInv, NEW m, RecvMissing(m)
    PROVE  IInv'
<1> PICK x : x = [Current EXCEPT !.result = "missing"]
  OBVIOUS
<1>1. Receive(m) /\ Busy /\ Set(x) /\ UNCHANGED requests
  BY DEF RecvMissing, Receive
<1>2. CallGood(x, TimedOut(Len(calls))) /\ x.result = "missing"
  BY <1>1, FailedGood
<1>3. x.result \in Outcomes \ {"timeout"}
  BY <1>2 DEF Outcomes
<1> QED
  BY <1>1, <1>2, <1>3, RecvEnds

LEMMA RecvTreasuryStep ==
    ASSUME IInv, NEW m, RecvTreasury(m)
    PROVE  IInv'
<1> PICK x, y, n : /\ y = Current /\ n = Len(calls)
                   /\ x = [y EXCEPT !.bodies = stream[m].items, !.result = "done"]
  OBVIOUS
<1>1. /\ Receive(m) /\ Busy /\ Set(x) /\ UNCHANGED requests
      /\ y.result = "treasury" /\ stream[m].type = "BODY"
  BY DEF RecvTreasury, Receive
<1>2. y \in Calls /\ CallOK(n) /\ y = calls[n] /\ n \in Nat \ {0}
  BY <1>1, CurrentFacts
<1>3. stream[m].items \in Seq(Blocks \cup {Treasury})
  BY <1>1, Parts, ReceiveFacts, AnswerType
<1>4. /\ x \in Calls /\ x.lo = y.lo /\ x.hi = y.hi /\ x.headers = y.headers
      /\ x.tips = y.tips /\ x.result = "done" /\ x.bodies = stream[m].items
  BY <1>2, <1>3 DEF Calls, Outcomes
<1>5. x.lo = 0 /\ x.headers = <<>>
  BY <1>1, <1>2, <1>4 DEF CallOK
<1>6. TimedOut(n) = {} => x.bodies = <<Treasury>>
  BY <1>1, <1>4, GoodTreasury
<1>7. CallGood(x, TimedOut(n))
  BY <1>4, <1>5, <1>6 DEF CallGood
<1>8. x.result \in Outcomes \ {"timeout"}
  BY <1>4 DEF Outcomes
<1> QED
  BY <1>1, <1>7, <1>8, RecvEnds

LEMMA RecvBodiesStep ==
    ASSUME IInv, NEW m, RecvBodies(m)
    PROVE  IInv'
<1>1. /\ Receive(m) /\ Busy /\ UNCHANGED requests /\ Current.result = "bodies"
      /\ stream[m].type \in {"BODY", "BODY_PACK"}
  BY DEF RecvBodies, Receive, Expected
<1>2. CASE Pairs(m) /\ stream[m].items # <<Treasury>>
  <2> PICK x, y, n : /\ y = Current /\ n = Len(calls)
                     /\ x = [y EXCEPT !.bodies = stream[m].items, !.result = "done"]
    OBVIOUS
  <2>1. y \in Calls /\ CallOK(n) /\ y = calls[n] /\ n \in Nat \ {0} /\ Set(x)
    BY <1>1, <1>2, CurrentFacts DEF RecvBodies
  <2>2. stream[m].items \in Seq(Blocks \cup {Treasury})
    BY <1>1, Parts, ReceiveFacts, AnswerType
  <2>3. /\ x \in Calls /\ x.lo = y.lo /\ x.hi = y.hi /\ x.headers = y.headers
        /\ x.tips = y.tips /\ x.result = "done" /\ x.bodies = stream[m].items
    BY <2>1, <2>2 DEF Calls, Outcomes
  <2>4. x.lo # 0 /\ x.headers # <<>>
    BY <1>1, <2>1, <2>3 DEF CallOK
  <2>5. Cardinality(TimedOut(n)) < 2 => x.bodies = x.headers
    BY <1>1, <1>2, <2>3, GoodBodies
  <2>6. CallGood(x, TimedOut(n))
    BY <2>1, <2>3, <2>4, <2>5 DEF CallGood, CallOK
  <2>7. x.result \in Outcomes \ {"timeout"}
    BY <2>3 DEF Outcomes
  <2> QED
    BY <1>1, <2>1, <2>6, <2>7, RecvEnds
<1>3. CASE ~(Pairs(m) /\ stream[m].items # <<Treasury>>)
  <2> PICK x : x = [Current EXCEPT !.result = "invalid"]
    OBVIOUS
  <2>1. Set(x)
    BY <1>3 DEF RecvBodies
  <2>2. CallGood(x, TimedOut(Len(calls))) /\ x.result = "invalid"
    BY <1>1, FailedGood
  <2>3. x.result \in Outcomes \ {"timeout"}
    BY <2>2 DEF Outcomes
  <2> QED
    BY <1>1, <2>1, <2>2, <2>3, RecvEnds
<1> QED
  BY <1>2, <1>3

\* Valid headers: the call now waits for the bodies, and asks for them.
LEMMA RecvValidStep ==
    ASSUME IInv, NEW m, Receive(m), Current.result = "headers", stream[m].type = "HDR_PACK",
           HeadersValid(stream[m].items), NEW items, items = stream[m].items,
           Set([Current EXCEPT !.headers = items, !.result = "bodies"]),
           Request([type |-> "GET_BODY_PACK", top |-> items[Len(items)],
                    extra |-> Len(items) - 1])
    PROVE  IInv'
<1> PICK x, y, n, q, t, r : /\ y = Current /\ n = Len(calls) /\ q = Len(requests)
                            /\ t = Cardinality(TimedOut(n))
                            /\ x = [y EXCEPT !.headers = items, !.result = "bodies"]
                            /\ r = [type |-> "GET_BODY_PACK", top |-> items[Len(items)],
                                    extra |-> Len(items) - 1]
  OBVIOUS
<1>1. /\ Busy /\ UNCHANGED <<tip, moves, served, stream, lossy>> /\ read' = m
      /\ m \in DOMAIN stream /\ m \in Nat /\ m > read /\ read \in Nat
      /\ q - read <= t + 1 /\ q \in Nat /\ served \in 0..q /\ DOMAIN stream = 1..Len(stream)
      /\ Len(stream) \in Nat
  BY ReceiveFacts, Parts, Lists DEF Receive
<1>2. /\ TypeOK /\ CallsGood /\ PendingInv /\ y \in Calls /\ CallOK(n) /\ y = calls[n]
      /\ n \in Nat \ {0} /\ TimedOut(n + 1) = TimedOut(n)
  BY <1>1, Parts, CurrentFacts
<1>3. /\ y.lo \in 1..MaxHeight /\ y.hi \in 1..MaxHeight
      /\ Pages(items, Blocks, y.lo, y.hi)
      /\ TimedOut(n) = {} => Pages(items, y.tips, y.lo, y.hi)
  BY GoodHeaders
<1>4. /\ items \in Seq(Blocks) /\ items # <<>> /\ items[Len(items)] \in Blocks
      /\ Len(items) - 1 \in 0..(MaxHeight - 1)
      /\ Len(items) - 1 < Len(items[Len(items)])
  BY <1>3, RangeOfPages
<1>5. r \in Requests /\ r.type = "GET_BODY_PACK" /\ r.extra < Len(r.top)
      /\ r.top = items[Len(items)] /\ r.extra = Len(items) - 1
  BY <1>4 DEF Requests
<1>6. requests' = Append(requests, r) /\ calls' = [calls EXCEPT ![n] = x]
  BY DEF Request, Set
<1>7. /\ requests' \in Seq(Requests) /\ Len(requests') = q + 1 /\ requests'[q + 1] = r
      /\ requests' # <<>> /\ served' \in 0..Len(requests') /\ StreamInv'
      /\ \A i \in 1..q : requests'[i] = requests[i]
  BY <1>1, <1>5, <1>6, AppendRequest
<1>8. /\ x \in Calls /\ x.lo = y.lo /\ x.hi = y.hi /\ x.headers = items
      /\ x.tips = y.tips /\ x.result = "bodies" /\ x.bodies = y.bodies
  BY <1>2, <1>4 DEF Calls, Waiting
<1>9. CallGood(x, TimedOut(n))
  BY <1>3, <1>4, <1>8 DEF CallGood
<1>10. CallsGood'
  BY <1>1, <1>2, <1>6, <1>9, SetGood
<1>11. /\ Len(calls') = n /\ Current' = x /\ TimedOut(Len(calls) + 1)' = TimedOut(n)
  BY <1>1, <1>2, <1>6, <1>8, SetCall
<1>12. Busy'
  <2>1. calls' # <<>>
    BY <1>2, <1>10, <1>11 DEF CallsGood
  <2> QED
    BY <1>8, <1>11, <2>1 DEF Busy, Waiting
<1>13. requests[q].type = "ENUM_HDRS" /\ y.tips = x.tips /\ tip \in y.tips
  BY <1>1, <1>2, <1>8 DEF PendingInv
<1>14. ASSUME t < 2, NEW i \in (m + 1)..q PROVE requests'[i].type = "ENUM_HDRS"
  <2>1. t \in Nat
    BY <1>2, TimedOutCount
  <2>2. i = q /\ i \in 1..q
    BY <1>1, <1>14, <2>1
  <2> QED
    BY <1>7, <1>13, <2>2
<1>15. PendingInv'
  <2>1. Len(requests') - read' <= Cardinality(TimedOut(Len(calls) + 1)') + 1
    <3>1. t \in Nat
      BY <1>2, TimedOutCount
    <3> QED
      BY <1>1, <1>7, <1>11, <3>1
  <2>2. lossy' => TimedOut(Len(calls) + 1)' # {}
    BY <1>1, <1>2, <1>11 DEF PendingInv
  <2>3. tip' \in x.tips
    BY <1>1, <1>13
  <2>4. Cardinality(TimedOut(Len(calls) + 1)') < 2 =>
           \A i \in (read' + 1)..(Len(requests') - 1) : requests'[i].type = "ENUM_HDRS"
    <3>1. Len(requests') - 1 = q
      BY <1>1, <1>7
    <3> QED
      BY <1>1, <1>11, <1>14, <3>1
  <2> QED
    BY <1>5, <1>7, <1>8, <1>11, <1>12, <2>1, <2>2, <2>3, <2>4 DEF PendingInv
<1>16. read' \in 0..Len(stream')
  BY <1>1
<1> QED
  BY <1>1, <1>7, <1>10, <1>15, <1>16, Parts, Assemble

LEMMA RecvHeadersStep ==
    ASSUME IInv, NEW m, RecvHeaders(m)
    PROVE  IInv'
<1> PICK items : items = stream[m].items
  OBVIOUS
<1>1. Receive(m) /\ Busy /\ Current.result = "headers" /\ stream[m].type = "HDR_PACK"
  BY DEF RecvHeaders, Receive
<1>2. CASE HeadersValid(items)
  <2>1. /\ Set([Current EXCEPT !.headers = items, !.result = "bodies"])
        /\ Request([type |-> "GET_BODY_PACK", top |-> items[Len(items)],
                    extra |-> Len(items) - 1])
    BY <1>2 DEF RecvHeaders
  <2> QED
    BY <1>1, <1>2, <2>1, RecvValidStep
<1>3. CASE ~HeadersValid(items)
  <2> PICK x : x = [Current EXCEPT !.result = "invalid"]
    OBVIOUS
  <2>1. Set(x) /\ UNCHANGED requests
    BY <1>3 DEF RecvHeaders
  <2>2. CallGood(x, TimedOut(Len(calls))) /\ x.result = "invalid"
    BY <1>1, FailedGood
  <2>3. x.result \in Outcomes \ {"timeout"}
    BY <2>2 DEF Outcomes
  <2> QED
    BY <1>1, <2>1, <2>2, <2>3, RecvEnds
<1> QED
  BY <1>2, <1>3

LEMMA RecvIgnoredStep ==
    ASSUME IInv, NEW m, RecvIgnored(m)
    PROVE  IInv'
<1> PICK n, q : n = Len(calls) /\ q = Len(requests)
  OBVIOUS
<1>1. /\ Receive(m) /\ Busy /\ UNCHANGED <<tip, moves, requests, served, stream, lossy, calls>>
      /\ read' = m /\ m > read /\ m \in Nat /\ read \in Nat /\ m \in DOMAIN stream
      /\ DOMAIN stream = 1..Len(stream) /\ q \in Nat /\ Len(stream) \in Nat
  BY ReceiveFacts, Parts, Lists DEF RecvIgnored, Receive
<1>2. StreamInv' /\ CallsGood'
  BY <1>1, Parts DEF StreamInv, CallsGood, CallOK, Fetched, TimedOut
<1>3. Busy' /\ Current' = Current /\ TimedOut(Len(calls) + 1)' = TimedOut(n + 1)
  BY <1>1 DEF Busy, Current, TimedOut
<1>4. PendingInv /\ Cardinality(TimedOut(n + 1)) \in Nat
  <2>1. n + 1 \in Nat \ {0}
    BY <1>1, CurrentFacts
  <2> QED
    BY <2>1, Parts, TimedOutCount
<1>5. PendingInv'
  <2>1. Len(requests') - read' <= Cardinality(TimedOut(Len(calls) + 1)') + 1
    BY <1>1, <1>3, <1>4 DEF PendingInv
  <2>2. \A i \in (read' + 1)..(q - 1) : i \in (read + 1)..(q - 1)
    BY <1>1
  <2> QED
    BY <1>1, <1>3, <1>4, <2>1, <2>2 DEF PendingInv
<1>6. read' \in 0..Len(stream')
  BY <1>1
<1> QED
  BY <1>1, <1>2, <1>5, <1>6, Parts, Assemble

-----------------------------------------------------------------------------
(* The theorems. *)

LEMMA InitInv == Init => IInv
<1> SUFFICES ASSUME Init PROVE IInv
  OBVIOUS
<1>1. /\ Len(stream) = 0 /\ Len(requests) = 0 /\ Len(calls) = 0 /\ DOMAIN stream = {}
      /\ DOMAIN requests = {} /\ DOMAIN calls = {} /\ ~Busy
      /\ stream \in Seq(Answers) /\ requests \in Seq(Requests) /\ calls \in Seq(Calls)
  BY DEF Init, Busy
<1>2. TypeOK
  <2>1. served \in 0..Len(requests) /\ read \in 0..Len(stream) /\ moves \in 0..MaxMoves
    BY <1>1, BoundAssumption DEF Init
  <2>2. tip \in Blocks /\ lossy \in BOOLEAN
    BY DEF Init
  <2>3. \A c \in DOMAIN calls : FALSE
    BY <1>1
  <2> QED
    BY <1>1, <2>1, <2>2, <2>3 DEF TypeOK
<1>3. StreamInv /\ CallsInv /\ BodiesBelong /\ TreasuryUndisturbed
  BY <1>1 DEF Init, StreamInv, CallsInv, BodiesBelong, TreasuryUndisturbed, Fetched
<1>4. PendingInv
  <2>0. Len(calls) + 1 \in Nat \ {0}
    BY <1>1
  <2>1. Cardinality(TimedOut(Len(calls) + 1)) \in Nat
    BY <2>0, TimedOutCount
  <2> QED
    BY <1>1, <2>1 DEF Init, PendingInv
<1> QED
  BY <1>2, <1>3, <1>4 DEF IInv

LEMMA NextInv == IInv /\ [Next]_vars => IInv'
<1> SUFFICES ASSUME IInv, [Next]_vars PROVE IInv'
  OBVIOUS
<1>1. CASE NodeServe
  BY <1>1, NodeServeStep
<1>2. ASSUME NEW block \in Blocks, NewTip(block) PROVE IInv'
  BY <1>2, NewTipStep
<1>3. ASSUME NEW lo \in 1..MaxHeight, NEW hi \in 1..MaxHeight, FetchBlocks(lo, hi) PROVE IInv'
  BY <1>3, FetchBlocksStep
<1>4. CASE GetTreasury
  BY <1>4, GetTreasuryStep
<1>5. ASSUME NEW m \in DOMAIN stream,
             \/ RecvHeaders(m) \/ RecvBodies(m) \/ RecvTreasury(m)
             \/ RecvMissing(m) \/ RecvIgnored(m)
      PROVE  IInv'
  BY <1>5, RecvHeadersStep, RecvBodiesStep, RecvTreasuryStep, RecvMissingStep, RecvIgnoredStep
<1>6. CASE RecvTimeout
  BY <1>6, RecvTimeoutStep
<1>7. CASE UNCHANGED vars
  BY <1>7 DEF vars, IInv, TypeOK, StreamInv, CallsInv, PendingInv, BodiesBelong,
              TreasuryUndisturbed, Fetched, TimedOut, Busy, Current
<1> QED
  BY <1>1, <1>2, <1>3, <1>4, <1>5, <1>6, <1>7 DEF Next

\* The invariant holds in every state: the node's answers lie in the order of
\* the requests, as many of them are unread as calls have timed out, and one
\* more while a call waits.
THEOREM Inductive == Spec => []IInv
BY InitInv, NextInv, PTL DEF Spec

\* Every variable has its type, and the headers a call holds are those of its
\* range (request_headers, fetch_blocks).
THEOREM TypeCorrect == Spec => []TypeOK
<1>1. IInv => TypeOK
  BY DEF IInv
<1> QED
  BY <1>1, Inductive, PTL

\* fetch_blocks pairs every header with its own body, whatever reorganisations
\* happen between its two requests, if fewer than two earlier calls have timed
\* out.
THEOREM BodiesTogether == Spec => []BodiesBelong
<1>1. IInv => BodiesBelong
  BY DEF IInv
<1> QED
  BY <1>1, Inductive, PTL

\* What holds of the calls of get_treasury_payload.
TreasuryOK(c) ==
    calls[c].lo = 0 /\ calls[c].result = "done" =>
        \/ calls[c].bodies = <<Treasury>>
        \/ Cardinality(TimedOut(c)) >= 2
        \/ TimedOut(c) # {} /\ \E d \in 1..(c - 1) : BodyOwed(d)

\* Of a call that a step leaves alone, it still holds.
LEMMA TreasuryKept ==
    ASSUME IInv, TreasuryIsTreasury, NEW k \in 0..Len(calls),
           \A d \in 1..k : /\ calls'[d].lo = calls[d].lo /\ calls'[d].result = calls[d].result
                           /\ calls'[d].headers = calls[d].headers
                           /\ calls'[d].bodies = calls[d].bodies
    PROVE  \A c \in 1..k : TreasuryOK(c)'
<1> SUFFICES ASSUME NEW c \in 1..k PROVE TreasuryOK(c)'
  OBVIOUS
<1>1. c \in DOMAIN calls /\ c \in Nat /\ k \in Nat
  BY Parts, Lists
<1>2. \A d \in 1..(c - 1) : d \in 1..k
  BY <1>1
<1>3. TimedOut(c)' = TimedOut(c)
  BY <1>2 DEF TimedOut
<1>4. \A d \in 1..(c - 1) : BodyOwed(d)' = BodyOwed(d)
  BY <1>2 DEF BodyOwed
<1> QED
  BY <1>1, <1>3, <1>4 DEF TreasuryOK, TreasuryIsTreasury

LEMMA Later ==
    ASSUME NEW a \in Nat, NEW b \in Nat, b >= a, NEW q \in Nat
    PROVE  \A i \in (b + 1)..q : i \in (a + 1)..q
OBVIOUS

\* A step that does not end a call and writes no request.
LEMMA QuietStep ==
    ASSUME IInv, TInv, DOMAIN calls' = DOMAIN calls, Len(calls') = Len(calls),
           \A d \in DOMAIN calls :
              /\ calls'[d].lo = calls[d].lo /\ calls'[d].result = calls[d].result
              /\ calls'[d].headers = calls[d].headers /\ calls'[d].bodies = calls[d].bodies,
           UNCHANGED requests, read' \in Nat, read' >= read,
           Busy' <=> Busy, Busy => Current'.result = Current.result
    PROVE  TInv'
<1>1. Len(calls) \in Nat /\ DOMAIN calls = 1..Len(calls) /\ Len(requests) \in Nat /\ read \in Nat
  BY Parts, Lists
<1>2. TreasuryIsTreasury'
  BY <1>1, TreasuryKept DEF TInv, TreasuryOK, TreasuryIsTreasury
<1>3. TimedOut(Len(calls) + 1)' = TimedOut(Len(calls) + 1)
  BY <1>1 DEF TimedOut
<1>4. \A d \in DOMAIN calls : BodyOwed(d)' = BodyOwed(d)
  BY DEF BodyOwed
<1>5. \A i \in (read' + 1)..Len(requests') : i \in (read + 1)..Len(requests)
  <2>1. Len(requests') = Len(requests)
    OBVIOUS
  <2> QED
    BY <1>1, <2>1, Later
<1>6. \A i : Single(i)' = Single(i)
  BY DEF Single
<1>7. OwedInv'
  BY <1>3, <1>4, <1>5, <1>6 DEF TInv, OwedInv
<1> QED
  BY <1>2, <1>7 DEF TInv

\* A call begins: its request is not for a single body.
LEMMA BeginOwed ==
    ASSUME IInv, TInv, NEW lo, NEW hi, NEW stage \in {"headers", "treasury"}, NEW r,
           Begin(lo, hi, stage), Request(r), r.type # "GET_BODY_PACK", UNCHANGED read
    PROVE  TInv'
<1> PICK n, q, x : /\ n = Len(calls) /\ q = Len(requests)
                   /\ x = [lo |-> lo, hi |-> hi, headers |-> <<>>, bodies |-> <<>>,
                           result |-> stage, tips |-> {tip}]
  OBVIOUS
<1>1. /\ n \in Nat /\ q \in Nat /\ read \in Nat /\ DOMAIN calls = 1..n
      /\ calls \in Seq(Calls) /\ requests \in Seq(Requests)
  BY Parts, Lists
<1>2. /\ calls' = Append(calls, x) /\ requests' = Append(requests, r) /\ ~Busy
      /\ x.result = stage /\ x.headers = <<>>
  BY DEF Begin, Request
<1>3. /\ Len(calls') = n + 1 /\ DOMAIN calls' = 1..(n + 1) /\ calls'[n + 1] = x
      /\ \A d \in 1..n : calls'[d] = calls[d]
      /\ TimedOut(Len(calls) + 1)' = TimedOut(n + 1)
  BY <1>1, <1>2, Parts, AppendCall
<1>4. /\ Len(requests') = q + 1 /\ requests'[q + 1] = r
      /\ \A i \in 1..q : requests'[i] = requests[i]
  BY <1>1, <1>2
<1>5. TreasuryIsTreasury'
  <2>1. n \in 0..Len(calls)
    BY <1>1
  <2>2. \A c \in 1..n : TreasuryOK(c)'
    BY <1>3, <2>1, TreasuryKept DEF TInv
  <2>3. TreasuryOK(n + 1)'
    BY <1>2, <1>3 DEF TreasuryOK
  <2>4. \A c \in 1..(n + 1) : c \in 1..n \/ c = n + 1
    BY <1>1
  <2> QED
    BY <1>3, <2>2, <2>3, <2>4 DEF TreasuryOK, TreasuryIsTreasury
<1>6. ASSUME Cardinality(TimedOut(Len(calls) + 1)') < 2, \A d \in DOMAIN calls' : ~BodyOwed(d)',
             NEW i \in (read' + 1)..Len(requests'), Single(i)'
      PROVE  FALSE
  <2>1. \A d \in DOMAIN calls : ~BodyOwed(d)
    BY <1>1, <1>3, <1>6 DEF BodyOwed
  <2>2. i # q + 1
    BY <1>4, <1>6 DEF Single
  <2>3. i \in (read + 1)..q /\ i \in 1..q
    BY <1>1, <1>4, <2>2
  <2>4. Single(i)
    BY <1>4, <1>6, <2>3 DEF Single
  <2> QED
    BY <1>2, <1>3, <1>6, <2>1, <2>3, <2>4 DEF TInv, OwedInv
<1>7. OwedInv'
  BY <1>6 DEF OwedInv
<1> QED
  BY <1>5, <1>7 DEF TInv

\* The call in progress ends.  If it waited for the body of a single block, it
\* is now owed that body, or it has read up to the answer to its request.
LEMMA EndOwed ==
    ASSUME IInv, TInv, Busy, NEW x, Set(x), UNCHANGED requests, read' \in Nat, read' >= read,
           x.lo = Current.lo, x.headers = Current.headers, x.result \in Outcomes,
           Current.result = "bodies" /\ Cardinality(TimedOut(Len(calls))) < 2
              /\ x.result \notin {"timeout", "missing"} => read' >= Len(requests),
           x.lo = 0 /\ x.result = "done" =>
              \/ x.bodies = <<Treasury>>
              \/ Cardinality(TimedOut(Len(calls))) >= 2
              \/ TimedOut(Len(calls)) # {} /\ \E d \in 1..(Len(calls) - 1) : BodyOwed(d)
    PROVE  TInv'
<1> PICK n, q, y, t : /\ n = Len(calls) /\ q = Len(requests) /\ y = Current
                      /\ t = Cardinality(TimedOut(n))
  OBVIOUS
<1>1. /\ TypeOK /\ PendingInv /\ n \in Nat \ {0} /\ q \in Nat /\ read \in Nat
      /\ y \in Calls /\ y.result \in Waiting /\ y = calls[n]
      /\ DOMAIN calls = 1..n /\ TimedOut(n + 1) = TimedOut(n)
  BY Parts, CurrentFacts, Lists
<1>2. /\ t \in Nat /\ Cardinality(TimedOut(n) \cup {n}) = t + 1
  BY <1>1, TimedOutCount
<1>3. /\ Len(calls') = n /\ DOMAIN calls' = 1..n /\ calls'[n] = x
      /\ \A c \in 1..n : TimedOut(c)' = TimedOut(c)
      /\ \A c \in 1..n : c # n => calls'[c] = calls[c]
      /\ TimedOut(Len(calls) + 1)' =
            IF x.result = "timeout" THEN TimedOut(n) \cup {n} ELSE TimedOut(n)
  BY <1>1, SetCall DEF Set
<1>4. \A d \in 1..(n - 1) : d \in 1..n /\ d # n /\ BodyOwed(d)' = BodyOwed(d)
  BY <1>1, <1>3 DEF BodyOwed
<1>5. TreasuryIsTreasury'
  <2>1. n - 1 \in 0..Len(calls)
    BY <1>1
  <2>2. \A c \in 1..(n - 1) : TreasuryOK(c)'
    BY <1>3, <1>4, <2>1, TreasuryKept DEF TInv
  <2>3. TreasuryOK(n)'
    <3>1. TimedOut(n)' = TimedOut(n)
      BY <1>1, <1>3
    <3>2. (\E d \in 1..(n - 1) : BodyOwed(d)) => \E d \in 1..(n - 1) : BodyOwed(d)'
      BY <1>4
    <3> QED
      BY <1>3, <3>1, <3>2 DEF TreasuryOK
  <2>4. \A c \in 1..n : c \in 1..(n - 1) \/ c = n
    BY <1>1
  <2> QED
    BY <1>3, <2>2, <2>3, <2>4 DEF TreasuryOK, TreasuryIsTreasury
<1>6. ASSUME Cardinality(TimedOut(Len(calls) + 1)') < 2, \A d \in DOMAIN calls' : ~BodyOwed(d)',
             NEW i \in (read' + 1)..Len(requests'), Single(i)'
      PROVE  FALSE
  <2>1. t < 2
    BY <1>2, <1>3, <1>6
  <2>2. \A d \in DOMAIN calls : ~BodyOwed(d)
    <3>1. ~BodyOwed(n)
      BY <1>1 DEF BodyOwed, Waiting
    <3>2. \A d \in 1..n : d \in 1..(n - 1) \/ d = n
      BY <1>1
    <3> QED
      BY <1>1, <1>3, <1>4, <1>6, <3>1, <3>2
  <2>3. i \in (read + 1)..q /\ Single(i) /\ i > read'
    <3>1. Len(requests') = q
      OBVIOUS
    <3>2. i \in (read' + 1)..q
      BY <1>6, <3>1
    <3>3. i \in (read + 1)..q /\ i > read'
      BY <1>1, <3>2
    <3> QED
      BY <1>6, <3>3 DEF Single
  <2>4. y.result = "bodies" /\ i = q
    BY <1>1, <2>1, <2>2, <2>3 DEF TInv, OwedInv
  <2>5. Len(x.headers) = 1
    <3>1. requests[q].extra = Len(y.headers) - 1 /\ requests[q].extra = 0
      BY <1>1, <2>3, <2>4 DEF PendingInv, Single
    <3>2. Len(y.headers) \in Nat /\ x.headers = y.headers
      BY <1>1 DEF Calls
    <3>3. Len(y.headers) = 1
      <4> PICK k : k = Len(y.headers)
        OBVIOUS
      <4>1. k \in Nat /\ k - 1 = 0
        BY <3>1, <3>2
      <4>2. k = 1
        BY <4>1
      <4> QED
        BY <4>2
    <3> QED
      BY <3>2, <3>3
  <2>6. x.result \notin {"timeout", "missing"}
    BY <1>1, <1>3, <1>6, <2>5 DEF BodyOwed
  <2> QED
    BY <1>1, <2>1, <2>3, <2>4, <2>6
<1>7. OwedInv'
  BY <1>6 DEF OwedInv
<1> QED
  BY <1>5, <1>7 DEF TInv

\* A call that ends without a result.
LEMMA FailedOwed ==
    ASSUME IInv, TInv, Busy, NEW outcome \in {"invalid", "missing", "timeout"},
           Set([Current EXCEPT !.result = outcome]), UNCHANGED requests,
           read' \in Nat, read' >= read,
           outcome = "invalid" /\ Current.result = "bodies"
              /\ Cardinality(TimedOut(Len(calls))) < 2 => read' >= Len(requests)
    PROVE  TInv'
<1> PICK x : x = [Current EXCEPT !.result = outcome]
  OBVIOUS
<1>1. Current \in Calls
  BY CurrentFacts
<1>2. /\ x.lo = Current.lo /\ x.headers = Current.headers /\ x.result = outcome
      /\ x.result \in Outcomes /\ x.result # "done"
  BY <1>1 DEF Calls, Outcomes
<1> QED
  BY <1>2, EndOwed

\* The treasury is taken from a late answer at most if that is a body some call
\* is owed.
LEMMA TreasuryOwed ==
    ASSUME IInv, TInv, NEW m, RecvTreasury(m)
    PROVE  TInv'
<1> PICK x, y, n : /\ y = Current /\ n = Len(calls)
                   /\ x = [y EXCEPT !.bodies = stream[m].items, !.result = "done"]
  OBVIOUS
<1>1. /\ Receive(m) /\ Busy /\ Set(x) /\ UNCHANGED requests
      /\ y.result = "treasury" /\ stream[m].type = "BODY"
  BY DEF RecvTreasury, Receive
<1>2. /\ y \in Calls /\ y = calls[n] /\ n \in Nat \ {0} /\ TimedOut(n + 1) = TimedOut(n)
      /\ DOMAIN calls = 1..n
  BY <1>1, Parts, CurrentFacts, Lists
<1>3. /\ m \in DOMAIN stream /\ m \in Nat /\ m > read /\ m <= Len(requests) /\ read' = m
      /\ read \in Nat /\ Len(requests) \in Nat
  BY <1>1, ReceiveFacts, Parts, Lists
<1>4. /\ x.lo = y.lo /\ x.headers = y.headers /\ x.result = "done"
      /\ x.bodies = stream[m].items
  BY <1>2 DEF Calls
<1>5. ASSUME Cardinality(TimedOut(n)) < 2, TimedOut(n) # {} => \A d \in 1..(n - 1) : ~BodyOwed(d)
      PROVE  x.bodies = <<Treasury>>
  <2>1. CASE TimedOut(n) = {}
    BY <1>1, <1>4, <2>1, GoodTreasury
  <2>2. CASE TimedOut(n) # {}
    <3>1. \A d \in DOMAIN calls : ~BodyOwed(d)
      <4>1. ~BodyOwed(n)
        BY <1>1, <1>2 DEF BodyOwed
      <4>2. \A d \in 1..n : d \in 1..(n - 1) \/ d = n
        BY <1>2
      <4> QED
        BY <1>2, <1>5, <2>2, <4>1, <4>2
    <3>2. m \in (read + 1)..Len(requests)
      BY <1>3
    <3>3. ~Single(m)
      BY <1>1, <1>2, <1>5, <3>1, <3>2 DEF TInv, OwedInv
    <3>4. AnswersRequest(stream[m], requests[m])
      BY <1>3, Parts, AnswerType
    <3> QED
      BY <1>1, <1>4, <3>3, <3>4 DEF AnswersRequest, Single
  <2> QED
    BY <2>1, <2>2
<1>6. Cardinality(TimedOut(n)) \in Nat
  BY <1>2, TimedOutCount
<1>7. x.lo = 0 /\ x.result = "done" =>
         \/ x.bodies = <<Treasury>>
         \/ Cardinality(TimedOut(n)) >= 2
         \/ TimedOut(n) # {} /\ \E d \in 1..(n - 1) : BodyOwed(d)
  BY <1>5, <1>6
<1>8. x.result \in Outcomes /\ read' \in Nat /\ read' >= read
  BY <1>3, <1>4 DEF Outcomes
<1> QED
  BY <1>1, <1>4, <1>7, <1>8, EndOwed

\* Bodies: what is read is the answer to the last request, unless two calls
\* have timed out.
LEMMA BodiesOwed ==
    ASSUME IInv, TInv, NEW m, RecvBodies(m)
    PROVE  TInv'
<1> PICK x, y, n, q : /\ y = Current /\ n = Len(calls) /\ q = Len(requests)
                      /\ x = [y EXCEPT !.bodies = stream[m].items, !.result = "done"]
  OBVIOUS
<1>1. /\ Receive(m) /\ Busy /\ UNCHANGED requests /\ y.result = "bodies"
      /\ stream[m].type \in {"BODY", "BODY_PACK"}
  BY DEF RecvBodies, Receive, Expected
<1>2. /\ y \in Calls /\ CallOK(n) /\ n \in Nat \ {0} /\ TimedOut(n + 1) = TimedOut(n)
      /\ PendingInv /\ q \in Nat /\ read \in Nat
  BY <1>1, Parts, CurrentFacts, Lists
<1>3. m \in DOMAIN stream /\ m \in Nat /\ m > read /\ m <= q /\ read' = m
  BY <1>1, ReceiveFacts
<1>4. ASSUME Cardinality(TimedOut(n)) < 2 PROVE m >= q
  <2> SUFFICES ASSUME m < q PROVE FALSE
    BY <1>2, <1>3
  <2>1. m \in (read + 1)..(q - 1)
    BY <1>2, <1>3
  <2>2. requests[m].type = "ENUM_HDRS"
    BY <1>1, <1>2, <1>4, <2>1 DEF PendingInv
  <2>3. AnswersRequest(stream[m], requests[m])
    BY <1>3, Parts, AnswerType
  <2> QED
    BY <1>1, <2>2, <2>3 DEF AnswersRequest
<1>5. read' \in Nat /\ read' >= read /\ (Cardinality(TimedOut(n)) < 2 => read' >= q)
  BY <1>2, <1>3, <1>4
<1>6. CASE Pairs(m) /\ stream[m].items # <<Treasury>>
  <2>1. Set(x)
    BY <1>6 DEF RecvBodies
  <2>2. x.lo = y.lo /\ x.headers = y.headers /\ x.result = "done" /\ x.lo # 0
    BY <1>1, <1>2, CurrentFacts DEF Calls, CallOK
  <2>3. x.result \in Outcomes
    BY <2>2 DEF Outcomes
  <2> QED
    BY <1>1, <1>5, <2>1, <2>2, <2>3, EndOwed
<1>7. CASE ~(Pairs(m) /\ stream[m].items # <<Treasury>>)
  <2>1. Set([Current EXCEPT !.result = "invalid"])
    BY <1>7 DEF RecvBodies
  <2> QED
    BY <1>1, <1>5, <2>1, FailedOwed
<1> QED
  BY <1>6, <1>7

\* Valid headers: the new request is the last, and the call waits for its
\* bodies.
LEMMA ValidOwed ==
    ASSUME IInv, TInv, NEW m, Receive(m), Current.result = "headers",
           NEW items, Set([Current EXCEPT !.headers = items, !.result = "bodies"]),
           NEW r, Request(r)
    PROVE  TInv'
<1> PICK x, y, n, q : /\ y = Current /\ n = Len(calls) /\ q = Len(requests)
                      /\ x = [y EXCEPT !.headers = items, !.result = "bodies"]
  OBVIOUS
<1>1. /\ Busy /\ read' = m /\ m \in Nat /\ m > read /\ read \in Nat /\ q \in Nat
      /\ TypeOK /\ requests \in Seq(Requests)
      /\ y \in Calls /\ y = calls[n] /\ n \in Nat \ {0} /\ TimedOut(n + 1) = TimedOut(n)
      /\ DOMAIN calls = 1..n
  BY ReceiveFacts, Parts, Lists, CurrentFacts DEF Receive
<1>2. x.result = "bodies"
  BY <1>1 DEF Calls
<1>3. /\ Len(calls') = n /\ DOMAIN calls' = 1..n /\ calls'[n] = x /\ Current' = x
      /\ \A c \in 1..n : c # n => calls'[c] = calls[c]
      /\ TimedOut(Len(calls) + 1)' = TimedOut(n)
  BY <1>1, <1>2, SetCall DEF Set
<1>4. /\ Len(requests') = q + 1 /\ \A i \in 1..q : requests'[i] = requests[i]
  BY <1>1 DEF Request
<1>5. Busy'
  <2>1. calls' # <<>>
    BY <1>1, <1>3
  <2> QED
    BY <1>2, <1>3, <2>1 DEF Busy, Waiting
<1>6. \A d \in 1..(n - 1) : d \in 1..n /\ d # n /\ BodyOwed(d)' = BodyOwed(d)
  BY <1>1, <1>3 DEF BodyOwed
<1>7. \A d \in 1..n : d \in 1..(n - 1) \/ d = n
  BY <1>1
<1>8. TreasuryIsTreasury'
  <2>1. n - 1 \in 0..Len(calls)
    BY <1>1
  <2>2. \A c \in 1..(n - 1) : TreasuryOK(c)'
    BY <1>3, <1>6, <2>1, TreasuryKept DEF TInv
  <2>3. TreasuryOK(n)'
    BY <1>2, <1>3 DEF TreasuryOK
  <2> QED
    BY <1>3, <1>7, <2>2, <2>3 DEF TreasuryOK, TreasuryIsTreasury
<1>9. ASSUME Cardinality(TimedOut(Len(calls) + 1)') < 2, \A d \in DOMAIN calls' : ~BodyOwed(d)',
             NEW i \in (read' + 1)..Len(requests'), Single(i)'
      PROVE  i = q + 1
  <2> SUFFICES ASSUME i # q + 1 PROVE FALSE
    OBVIOUS
  <2>1. ~BodyOwed(n)
    BY <1>1 DEF BodyOwed
  <2>2. \A d \in DOMAIN calls : ~BodyOwed(d)
    BY <1>1, <1>3, <1>6, <1>7, <1>9, <2>1
  <2>3. i \in (read + 1)..q /\ i \in 1..q
    BY <1>1, <1>4, <1>9
  <2>4. Single(i)
    BY <1>4, <1>9, <2>3 DEF Single
  <2> QED
    BY <1>1, <1>3, <1>9, <2>2, <2>3, <2>4 DEF TInv, OwedInv
<1>10. OwedInv'
  BY <1>2, <1>3, <1>4, <1>5, <1>9 DEF OwedInv
<1> QED
  BY <1>8, <1>10 DEF TInv

LEMMA TInit == Init => TInv
<1> SUFFICES ASSUME Init PROVE TInv
  OBVIOUS
<1>1. Len(requests) = 0 /\ read = 0 /\ DOMAIN calls = {}
  BY DEF Init
<1>2. OwedInv
  BY <1>1 DEF OwedInv
<1>3. TreasuryIsTreasury
  BY <1>1 DEF TreasuryIsTreasury
<1> QED
  BY <1>2, <1>3 DEF TInv

LEMMA TNext == IInv /\ TInv /\ [Next]_vars => TInv'
<1> SUFFICES ASSUME IInv, TInv, [Next]_vars PROVE TInv'
  OBVIOUS
<1>1. read \in Nat /\ Len(calls) \in Nat /\ DOMAIN calls = 1..Len(calls)
  BY Parts, Lists
<1>2. CASE NodeServe
  BY <1>1, <1>2, QuietStep DEF NodeServe, Busy, Current
<1>3. ASSUME NEW block \in Blocks, NewTip(block) PROVE TInv'
  <2>1. UNCHANGED <<requests, read>>
    BY <1>3 DEF NewTip
  <2>2. CASE Busy
    <3> PICK n, y, x : /\ n = Len(calls) /\ y = Current
                       /\ x = [y EXCEPT !.tips = @ \cup {block}]
      OBVIOUS
    <3>1. y \in Calls /\ y = calls[n] /\ n \in DOMAIN calls /\ TypeOK /\ y.result \in Waiting
      BY <1>1, <2>2, CurrentFacts, Parts, BusyFacts
    <3>2. calls' = [calls EXCEPT ![n] = x]
      BY <1>3, <2>2, <3>1 DEF NewTip
    <3>3. /\ x.lo = y.lo /\ x.result = y.result /\ x.headers = y.headers /\ x.bodies = y.bodies
      BY <3>1 DEF Calls
    <3>4. /\ Len(calls') = n /\ DOMAIN calls' = DOMAIN calls /\ calls'[n] = x /\ Current' = x
          /\ \A c \in DOMAIN calls : c # n => calls'[c] = calls[c]
      BY <2>2, <3>1, <3>2, SetCall
    <3>5. Busy'
      <4>1. calls' # <<>>
        BY <3>1, <3>4
      <4> QED
        BY <3>1, <3>3, <3>4, <4>1 DEF Busy
    <3>6. \A d \in DOMAIN calls :
             /\ calls'[d].lo = calls[d].lo /\ calls'[d].result = calls[d].result
             /\ calls'[d].headers = calls[d].headers /\ calls'[d].bodies = calls[d].bodies
      BY <3>1, <3>3, <3>4
    <3>7. read' = read /\ read' >= read /\ Current'.result = Current.result
      BY <1>1, <2>1, <3>3, <3>4
    <3> QED
      BY <1>1, <2>1, <2>2, <3>4, <3>5, <3>6, <3>7, QuietStep
  <2>3. CASE ~Busy
    <3>1. UNCHANGED calls
      BY <1>3, <2>3 DEF NewTip
    <3> QED
      BY <1>1, <2>1, <3>1, QuietStep DEF Busy, Current
  <2> QED
    BY <2>2, <2>3
<1>4. ASSUME NEW lo \in 1..MaxHeight, NEW hi \in 1..MaxHeight, FetchBlocks(lo, hi) PROVE TInv'
  <2> PICK r : r = [type |-> "ENUM_HDRS", lo |-> lo, hi |-> hi]
    OBVIOUS
  <2>1. /\ Begin(lo, hi, "headers") /\ Request(r) /\ r.type # "GET_BODY_PACK"
        /\ UNCHANGED read
    BY <1>4 DEF FetchBlocks
  <2> QED
    BY <2>1, BeginOwed
<1>5. CASE GetTreasury
  <2> PICK r : r = [type |-> "GET_BODY"]
    OBVIOUS
  <2>1. Begin(0, 0, "treasury") /\ Request(r) /\ r.type # "GET_BODY_PACK" /\ UNCHANGED read
    BY <1>5 DEF GetTreasury
  <2> QED
    BY <2>1, BeginOwed
<1>6. ASSUME NEW m \in DOMAIN stream, RecvHeaders(m) PROVE TInv'
  <2>1. Receive(m) /\ Busy /\ Current.result = "headers"
    BY <1>6 DEF RecvHeaders, Receive
  <2>2. read' \in Nat /\ read' >= read
    BY <1>1, <2>1, ReceiveFacts
  <2> PICK items, r : /\ items = stream[m].items
                      /\ r = [type |-> "GET_BODY_PACK", top |-> items[Len(items)],
                              extra |-> Len(items) - 1]
    OBVIOUS
  <2>3. CASE HeadersValid(items)
    <3>1. /\ Set([Current EXCEPT !.headers = items, !.result = "bodies"])
          /\ Request(r)
      BY <1>6, <2>3 DEF RecvHeaders
    <3> QED
      BY <2>1, <3>1, ValidOwed
  <2>4. CASE ~HeadersValid(items)
    <3>1. Set([Current EXCEPT !.result = "invalid"]) /\ UNCHANGED requests
      BY <1>6, <2>4 DEF RecvHeaders
    <3> QED
      BY <2>1, <2>2, <3>1, FailedOwed
  <2> QED
    BY <2>3, <2>4
<1>7. ASSUME NEW m \in DOMAIN stream, RecvMissing(m) PROVE TInv'
  <2>1. /\ Receive(m) /\ Busy /\ Set([Current EXCEPT !.result = "missing"])
        /\ UNCHANGED requests
    BY <1>7 DEF RecvMissing, Receive
  <2>2. read' \in Nat /\ read' >= read
    BY <1>1, <2>1, ReceiveFacts
  <2> QED
    BY <2>1, <2>2, FailedOwed
<1>8. ASSUME NEW m \in DOMAIN stream, RecvIgnored(m) PROVE TInv'
  <2>1. Receive(m) /\ UNCHANGED <<requests, calls>>
    BY <1>8 DEF RecvIgnored
  <2>2. read' \in Nat /\ read' >= read
    BY <1>1, <2>1, ReceiveFacts
  <2> QED
    BY <1>1, <2>1, <2>2, QuietStep DEF Busy, Current
<1>9. CASE RecvTimeout
  <2>1. /\ Busy /\ Set([Current EXCEPT !.result = "timeout"])
        /\ UNCHANGED requests /\ read' = read
    BY <1>9 DEF RecvTimeout
  <2>2. read' \in Nat /\ read' >= read
    BY <1>1, <2>1
  <2> QED
    BY <2>1, <2>2, FailedOwed
<1>10. CASE UNCHANGED vars
  BY <1>1, <1>10, QuietStep DEF vars, Busy, Current
<1> QED
  BY <1>2, <1>3, <1>4, <1>5, <1>6, <1>7, <1>8, <1>9, <1>10, BodiesOwed, TreasuryOwed DEF Next

\* With one timeout at most and no body owed, the only request for a single body
\* still unanswered is that of the call in progress; and the treasury is the
\* treasury.
THEOREM NoBodyOwed == Spec => []TInv
BY TInit, TNext, Inductive, PTL DEF Spec

\* get_treasury_payload returns the treasury, if no earlier call has timed out;
\* if one has, it does unless an earlier call has been left without the body of
\* a single block.
THEOREM TreasuryApart == Spec => []TreasuryIsTreasury
<1>1. TInv => TreasuryIsTreasury
  BY DEF TInv
<1> QED
  BY <1>1, NoBodyOwed, PTL

\* The blocks fetch_blocks returns were on the active chain during the call, if
\* no earlier call has timed out.
THEOREM FromChain == Spec => []FromActiveChain
<1>1. IInv => FromActiveChain
  <2> SUFFICES ASSUME IInv, NEW c \in Fetched, TimedOut(c) = {}
               PROVE  \E t \in calls[c].tips :
                         LET last == calls[c].headers[Len(calls[c].headers)]
                         IN  Len(last) <= Len(t) /\ At(t, Len(last)) = last
    BY DEF FromActiveChain
  <2> PICK x : x = calls[c]
    OBVIOUS
  <2>1. /\ c \in DOMAIN calls /\ x.lo # 0 /\ x.headers # <<>>
        /\ Pages(x.headers, x.tips, x.lo, x.hi)
    BY Parts DEF Fetched, CallsInv
  <2>2. x.lo \in Nat \ {0} /\ x.hi \in Nat /\ x.tips \in SUBSET Blocks
    BY <2>1, Parts, CallType, BoundAssumption
  <2>3. PICK t \in x.tips, h \in x.lo..x.hi :
            h <= Len(t) /\ x.headers = Stretch(t, x.lo, h)
    BY <2>1 DEF Pages
  <2>4. t \in Blocks /\ h \in x.lo..Len(t) /\ h \in 1..Len(t)
    BY <2>2, <2>3, BlockType
  <2>5. x.headers[Len(x.headers)] = At(t, h)
    <3> PICK k, s : k = x.lo /\ s = Stretch(t, k, h)
      OBVIOUS
    <3>1. t \in Blocks /\ k \in Nat \ {0} /\ h \in k..Len(t)
      BY <2>2, <2>4
    <3>2. s[Len(s)] = At(t, h)
      BY <3>1, StretchEnd
    <3> QED
      BY <2>3, <3>2
  <2>6. Len(At(t, h)) = h
    BY <2>4, AtType
  <2> QED
    BY <2>3, <2>5, <2>6
<1> QED
  BY <1>1, Inductive, PTL
=============================================================================
