--------------------------- MODULE ListPages_proofs ---------------------------
(***************************************************************************)
(* Proofs about ListPages, for every number of entries, every page size    *)
(* and limit, and any number of calls and changes of the list.             *)
(***************************************************************************)
EXTENDS ListPages, SequenceTheorems, Ranks_proofs, TLAPS

-----------------------------------------------------------------------------
(* Ascending sequences. *)

LEMMA AscendingConcat ==
    ASSUME NEW s \in Seq(Int), NEW t \in Seq(Int), Ascending(s), Ascending(t),
           \A i \in ToSet(s), j \in ToSet(t) : i < j
    PROVE  Ascending(s \o t) /\ ToSet(s \o t) = ToSet(s) \cup ToSet(t)
<1> PICK m, n, u : m = Len(s) /\ n = Len(t) /\ u = s \o t
  OBVIOUS
<1>1. /\ m \in Nat /\ n \in Nat /\ DOMAIN s = 1..m /\ DOMAIN t = 1..n
      /\ u \in Seq(Int) /\ Len(u) = m + n /\ DOMAIN u = 1..(m + n)
      /\ \A i \in 1..(m + n) : u[i] = IF i <= m THEN s[i] ELSE t[i - m]
  BY ConcatProperties
<1>2. ToSet(s) = {s[i] : i \in 1..m} /\ ToSet(t) = {t[i] : i \in 1..n}
      /\ ToSet(u) = {u[i] : i \in 1..(m + n)}
  BY <1>1 DEF ToSet
<1>3. /\ \A i \in 1..m : i \in 1..(m + n) /\ u[i] = s[i]
      /\ \A i \in 1..n : i + m \in 1..(m + n) /\ u[i + m] = t[i]
      /\ \A i \in 1..(m + n) : i \in 1..m \/ (i - m \in 1..n /\ u[i] = t[i - m])
  BY <1>1
<1>4. ToSet(u) = ToSet(s) \cup ToSet(t)
  <2>1. ASSUME NEW i \in 1..(m + n) PROVE u[i] \in ToSet(s) \cup ToSet(t)
    BY <1>2, <1>3
  <2>2. ASSUME NEW i \in 1..m PROVE s[i] \in ToSet(u)
    BY <1>2, <1>3
  <2>3. ASSUME NEW i \in 1..n PROVE t[i] \in ToSet(u)
    <3>1. i + m \in 1..(m + n) /\ u[i + m] = t[i]
      BY <1>3
    <3> QED
      BY <1>2, <3>1
  <2>4. ToSet(u) \subseteq ToSet(s) \cup ToSet(t)
    BY <1>2, <2>1
  <2>5. ToSet(s) \subseteq ToSet(u)
    BY <1>2, <2>2
  <2>6. ToSet(t) \subseteq ToSet(u)
    BY <1>2, <2>3
  <2> QED
    BY <2>4, <2>5, <2>6
<1>5. ASSUME NEW i \in 1..(m + n), NEW j \in 1..(m + n), i < j PROVE u[i] < u[j]
  <2>1. CASE j <= m
    <3>1. i \in 1..m /\ j \in 1..m
      BY <1>1, <1>5, <2>1
    <3> QED
      BY <1>1, <1>3, <1>5, <3>1 DEF Ascending
  <2>2. CASE i <= m /\ j > m
    <3>1. i \in 1..m /\ j - m \in 1..n
      BY <1>1, <2>2
    <3>2. u[i] = s[i] /\ u[j] = t[j - m] /\ s[i] \in ToSet(s) /\ t[j - m] \in ToSet(t)
      BY <1>1, <1>2, <1>5, <2>2, <3>1
    <3> QED
      BY <3>2
  <2>3. CASE i > m
    <3>1. i - m \in 1..n /\ j - m \in 1..n /\ i - m < j - m
      BY <1>1, <1>5, <2>3
    <3>2. u[i] = t[i - m] /\ u[j] = t[j - m]
      BY <1>1, <1>5, <2>3
    <3> QED
      BY <1>1, <3>1, <3>2 DEF Ascending
  <2> QED
    BY <1>1, <2>1, <2>2, <2>3
<1> QED
  BY <1>1, <1>4, <1>5 DEF Ascending

LEMMA AscendingAppend ==
    ASSUME NEW s \in Seq(Int), NEW x \in Int, Ascending(s), \A i \in DOMAIN s : s[i] < x
    PROVE  /\ Ascending(Append(s, x)) /\ Append(s, x) # <<>>
           /\ Append(s, x)[Len(Append(s, x))] = x
           /\ DOMAIN Append(s, x) = 1..(Len(s) + 1)
           /\ \A i \in DOMAIN Append(s, x) :
                 (i \in DOMAIN s /\ Append(s, x)[i] = s[i]) \/ Append(s, x)[i] = x
<1> PICK n, u : n = Len(s) /\ u = Append(s, x)
  OBVIOUS
<1>1. /\ n \in Nat /\ DOMAIN s = 1..n /\ u \in Seq(Int) /\ Len(u) = n + 1
      /\ DOMAIN u = 1..(n + 1) /\ u[n + 1] = x /\ \A i \in 1..n : u[i] = s[i]
  OBVIOUS
<1>2. 1..(n + 1) = 1..n \cup {n + 1} /\ \A i \in 1..n : i < n + 1 /\ i \in Int
  BY <1>1
<1>3. ASSUME NEW i \in 1..(n + 1), NEW j \in 1..(n + 1), i < j PROVE u[i] < u[j]
  <2>1. i \in 1..n
    BY <1>1, <1>3
  <2> QED
    BY <1>1, <1>2, <1>3, <2>1 DEF Ascending
<1>4. Ascending(u) /\ u # <<>> /\ u[Len(u)] = x
  BY <1>1, <1>3 DEF Ascending
<1> QED
  BY <1>1, <1>2, <1>4

\* The last of an ascending sequence is the greatest.
LEMMA AscendingLast ==
    ASSUME NEW s \in Seq(Int), Ascending(s), s # <<>>
    PROVE  /\ Len(s) \in DOMAIN s /\ s[Len(s)] \in ToSet(s)
           /\ \A i \in ToSet(s) : i <= s[Len(s)] /\ i \in Int
<1> PICK n : n = Len(s)
  OBVIOUS
<1>1. n \in Nat \ {0} /\ DOMAIN s = 1..n /\ n \in 1..n /\ \A i \in 1..n : s[i] \in Int
  OBVIOUS
<1>2. \A i \in 1..n : i = n \/ i < n
  BY <1>1
<1>3. \A i \in 1..n : s[i] <= s[n]
  BY <1>1, <1>2 DEF Ascending
<1> QED
  BY <1>1, <1>3 DEF ToSet

\* A beginning of an ascending sequence.
LEMMA AscendingPrefix ==
    ASSUME NEW s \in Seq(Int), Ascending(s), NEW n \in Nat, n <= Len(s)
    PROVE  /\ Ascending(SubSeq(s, 1, n)) /\ ToSet(SubSeq(s, 1, n)) \subseteq ToSet(s)
           /\ n < Len(s) => s[n + 1] \in ToSet(s)
                            /\ \A i \in ToSet(SubSeq(s, 1, n)) : i < s[n + 1]
           /\ n = Len(s) => SubSeq(s, 1, n) = s
<1> PICK l, u : l = Len(s) /\ u = SubSeq(s, 1, n)
  OBVIOUS
<1>1. l \in Nat /\ DOMAIN s = 1..l /\ \A i \in 1..l : s[i] \in Int
  OBVIOUS
<1>2. \A i \in 1..n : i \in 1..l /\ s[i] \in Int
  BY <1>1
<1>3. u \in Seq(Int) /\ Len(u) = n /\ DOMAIN u = 1..n /\ \A i \in 1..n : u[i] = s[i]
  <2>1. u = [i \in 1..n |-> s[i]]
    BY <1>1
  <2> QED
    BY <1>2, <2>1
<1>4. Ascending(u) /\ ToSet(u) \subseteq ToSet(s)
  BY <1>1, <1>2, <1>3 DEF Ascending, ToSet
<1>5. ASSUME n < l PROVE s[n + 1] \in ToSet(s) /\ \A i \in ToSet(u) : i < s[n + 1]
  <2>1. n + 1 \in 1..l /\ \A i \in 1..n : i < n + 1
    BY <1>1, <1>5
  <2>2. \A i \in 1..n : s[i] < s[n + 1]
    BY <1>1, <1>2, <2>1 DEF Ascending
  <2> QED
    BY <1>1, <1>3, <2>1, <2>2 DEF ToSet
<1>6. n = l => u = s
  BY <1>1, <1>3
<1> QED
  BY <1>4, <1>5, <1>6

-----------------------------------------------------------------------------
(* The variables. *)

LEMMA Parts ==
    ASSUME IInv
    PROVE  /\ TypeOK /\ LeftoverInv /\ WaitingInv /\ CollectedInv
           /\ ListingComplete /\ MoreIsHonest /\ PagesAdvance
           /\ listed \subseteq Ids /\ changes \in 0..MaxChanges
           /\ queue \in Seq(Requests) /\ Len(queue) \in Nat /\ DOMAIN queue = 1..Len(queue)
           /\ stream \in Seq(Answers) /\ Len(stream) \in Nat
           /\ DOMAIN stream = 1..Len(stream)
           /\ lossy \in BOOLEAN /\ call \in Calls /\ late \subseteq Kinds
           /\ made \in 0..MaxCalls
BY DEF IInv, TypeOK

LEMMA CallType ==
    ASSUME NEW c \in Calls
    PROVE  /\ c.kind \in Kinds /\ c.from \in 0..(MaxId + 1) /\ c.to \in Ids
           /\ c.limit \in Nat /\ c.limit \in 0..MaxLimit /\ c.auto \in BOOLEAN
           /\ c.ids \in Seq(Ids) /\ c.more \in BOOLEAN
           /\ c.asked \in Seq(0..(MaxId + 1)) /\ c.result \in Outcomes
           /\ c.always \in SUBSET Ids /\ c.ever \in SUBSET Ids
BY BoundAssumption DEF Calls

LEMMA IdsInt == Seq(Ids) \subseteq Seq(Int) /\ Ids \subseteq Int
BY BoundAssumption DEF Ids

LEMMA NoCallType == NoCall \in Calls
BY BoundAssumption DEF NoCall, Calls, Ids, Kinds, Outcomes

\* What is read, and what is left to read.
LEMMA ReceiveFacts ==
    ASSUME IInv, NEW m, NEW kind, Receive(m, kind)
    PROVE  /\ Busy /\ m \in 1..Len(stream) /\ m \in DOMAIN stream /\ m \in Nat
           /\ stream[m] \in Answers /\ stream[m].kind = kind
           /\ stream[m].ids \in Seq(Ids) /\ stream[m].more \in BOOLEAN
           /\ stream' \in Seq(Answers) /\ Len(stream') = Len(stream) - m
           /\ \A i \in DOMAIN stream' :
                 /\ i + m \in DOMAIN stream /\ stream'[i] = stream[i + m]
                 /\ i + m = Len(stream) => i = Len(stream')
           /\ UNCHANGED <<listed, changes, lossy, late, made>>
<1> PICK s : s = Len(stream)
  OBVIOUS
<1>1. /\ Busy /\ m \in 1..s /\ s \in Nat /\ DOMAIN stream = 1..s /\ stream \in Seq(Answers)
      /\ stream[m].kind = kind /\ stream' = SubSeq(stream, m + 1, s)
      /\ UNCHANGED <<listed, changes, lossy, late, made>>
  BY Parts DEF Receive
<1>2. m \in Nat /\ m >= 1 /\ m <= s /\ s - (m + 1) + 1 = s - m /\ s - m \in Nat
  BY <1>1
<1>3. \A i \in 1..(s - m) : i + m \in 1..s /\ (m + 1) + i - 1 = i + m
      /\ (i + m = s => i = s - m)
  BY <1>1, <1>2
<1>4. \A i \in (m + 1)..s : stream[i] \in Answers
  <2>1. \A i \in (m + 1)..s : i \in 1..s
    BY <1>1, <1>2
  <2> QED
    BY <1>1, <2>1, ElementOfSeq
<1>5. /\ stream' \in Seq(Answers) /\ Len(stream') = s - m /\ DOMAIN stream' = 1..(s - m)
      /\ \A i \in 1..(s - m) : stream'[i] = stream[i + m]
  <2>1. stream' = [i \in 1..(s - m) |-> stream[i + m]]
    BY <1>1, <1>2, <1>3
  <2>2. \A i \in 1..(s - m) : stream[i + m] \in Answers
    BY <1>1, <1>3, ElementOfSeq
  <2> QED
    BY <1>2, <2>1, <2>2
<1>6. /\ stream[m] \in Answers /\ stream[m].ids \in Seq(Ids) /\ stream[m].more \in BOOLEAN
  <2>1. stream[m] \in Answers
    BY <1>1, ElementOfSeq
  <2> QED
    BY <2>1 DEF Answers
<1> QED
  BY <1>1, <1>2, <1>3, <1>5, <1>6

\* A page of the call's own kind, if none can come late, is the last thing the
\* node has sent or has to send.
LEMMA OwnPage ==
    ASSUME IInv, NEW m, Receive(m, call.kind), Undisturbed
    PROVE  /\ m = Len(stream) /\ stream' = <<>> /\ queue = <<>>
           /\ PageOf(stream[m], Asked)
<1>1. /\ m = Len(stream) /\ queue = <<>> /\ PageOf(stream[m], Asked)
  BY ReceiveFacts, Parts DEF WaitingInv
<1>2. stream' = <<>>
  <2>1. Len(stream') = 0 /\ stream' \in Seq(Answers)
    BY <1>1, ReceiveFacts, Parts
  <2> QED
    BY <2>1, EmptySeq
<1> QED
  BY <1>1, <1>2

-----------------------------------------------------------------------------
(* What is left over when a call ends. *)

LEMMA BusyLeftover ==
    ASSUME Busy
    PROVE  Leftover = late /\ call.result = "waiting"
BY DEF Busy, Leftover

LEMMA EmptyLeftover ==
    ASSUME queue' = <<>>, stream' = <<>>
    PROVE  LeftoverInv'
<1>1. DOMAIN queue' = {} /\ DOMAIN stream' = {} /\ Len(queue') = 0 /\ Len(stream') = 0
  OBVIOUS
<1> QED
  BY <1>1 DEF LeftoverInv

LEMMA TimeoutLeftover ==
    ASSUME IInv, Busy, call'.kind = call.kind, call'.result = "timeout",
           UNCHANGED <<late, queue, stream>>
    PROVE  LeftoverInv'
<1>1. Leftover' = late \cup {call.kind} /\ Leftover = late
  BY BusyLeftover DEF Leftover
<1> QED
  BY <1>1, Parts DEF LeftoverInv

LEMMA MissingLeftover ==
    ASSUME IInv, NEW m, Receive(m, "missing"), call'.kind = call.kind,
           call'.result = "missing", UNCHANGED queue
    PROVE  LeftoverInv'
<1>1. /\ Busy /\ Leftover = late /\ late' = late
      /\ Leftover' = IF late # {} THEN late \cup {call.kind} ELSE late
  BY ReceiveFacts, BusyLeftover DEF Leftover
<1>2. ~Busy'
  BY DEF Busy
<1>3. CASE late = {}
  <2>1. Len(queue) + Len(stream) <= 1
    BY <1>1, <1>3, Parts DEF LeftoverInv
  <2>2. Len(stream') = 0 /\ Len(queue) = 0 /\ stream' \in Seq(Answers) /\ queue \in Seq(Requests)
    BY <2>1, ReceiveFacts, Parts
  <2>3. stream' = <<>> /\ queue' = <<>>
    BY <2>2, EmptySeq
  <2> QED
    BY <2>3, EmptyLeftover
<1>4. CASE late # {}
  <2>1. \A i \in DOMAIN queue' : queue'[i].kind \in Leftover'
    BY <1>1, <1>4, Parts DEF LeftoverInv
  <2>2. ASSUME NEW i \in DOMAIN stream' PROVE stream'[i].kind \in Leftover' \cup {"missing"}
    <3>1. i + m \in DOMAIN stream /\ stream'[i] = stream[i + m]
      BY ReceiveFacts
    <3> QED
      BY <1>1, <1>4, <3>1, Parts DEF LeftoverInv
  <2> QED
    BY <1>1, <1>4, <2>1, <2>2 DEF LeftoverInv
<1> QED
  BY <1>3, <1>4

LEMMA AnsweredLeftover ==
    ASSUME IInv, NEW m, Receive(m, call.kind), call'.kind = call.kind,
           call'.result \in {"done", "stuck"}, UNCHANGED queue
    PROVE  LeftoverInv'
<1>1. /\ Busy /\ Leftover = late /\ late' = late /\ Leftover' = late
  BY ReceiveFacts, BusyLeftover DEF Leftover
<1>2. CASE Undisturbed
  <2>1. stream' = <<>> /\ queue' = <<>>
    BY <1>2, OwnPage
  <2> QED
    BY <2>1, EmptyLeftover
<1>3. CASE ~Undisturbed
  <2>0. call.kind \in late
    BY <1>3 DEF Undisturbed
  <2>1. \A i \in DOMAIN queue' : queue'[i].kind \in Leftover'
    BY <1>1, <2>0, Parts DEF LeftoverInv
  <2>2. ASSUME NEW i \in DOMAIN stream' PROVE stream'[i].kind \in Leftover' \cup {"missing"}
    <3>1. i + m \in DOMAIN stream /\ stream'[i] = stream[i + m]
      BY ReceiveFacts
    <3> QED
      BY <1>1, <2>0, <3>1, Parts DEF LeftoverInv
  <2> QED
    BY <1>1, <2>0, <2>1, <2>2 DEF LeftoverInv
<1> QED
  BY <1>2, <1>3

-----------------------------------------------------------------------------
(* A call ends. *)

\* With an exception: nothing is returned.
LEMMA RaiseEnds ==
    ASSUME IInv, NEW result \in Outcomes \ {"waiting", "done"}, Raise(result),
           LeftoverInv', UNCHANGED <<listed, changes, late, made>>,
           stream' \in Seq(Answers), lossy' \in BOOLEAN
    PROVE  IInv'
<1> PICK x : x = [NoCall EXCEPT !.kind = call.kind, !.result = result]
  OBVIOUS
<1>1. call' = x /\ queue' = queue
  BY DEF Raise
<1>2. /\ x \in Calls /\ x.kind = call.kind /\ x.result = result /\ x.ids = <<>>
      /\ x.asked = <<>>
  <2>1. call.kind \in Kinds
    BY Parts, CallType
  <2> QED
    BY <2>1, NoCallType DEF Calls, NoCall
<1>3. TypeOK'
  BY <1>1, <1>2, Parts DEF TypeOK
<1>4. ~Busy' /\ call'.result # "done"
  BY <1>1, <1>2 DEF Busy
<1>5. Ascending(call.ids)' /\ Ascending(call.asked)'
  BY <1>1, <1>2 DEF Ascending
<1> QED
  BY <1>3, <1>4, <1>5 DEF IInv, WaitingInv, CollectedInv, ListingComplete, MoreIsHonest,
                          PagesAdvance

LEMMA RaiseTypes ==
    ASSUME IInv, NEW result, Raise(result)
    PROVE  call'.kind = call.kind /\ call'.result = result /\ queue' = queue
<1> PICK x : x = [NoCall EXCEPT !.kind = call.kind, !.result = result]
  OBVIOUS
<1>1. x.kind = call.kind /\ x.result = result
  BY NoCallType DEF Calls
<1> QED
  BY <1>1 DEF Raise

LEMMA RecvTimeoutStep ==
    ASSUME IInv, RecvTimeout
    PROVE  IInv'
<1>1. /\ Raise("timeout") /\ Busy /\ UNCHANGED <<listed, changes, stream, late, made>>
      /\ lossy' \in BOOLEAN /\ stream' \in Seq(Answers)
  BY Parts DEF RecvTimeout
<1>2. LeftoverInv'
  BY <1>1, RaiseTypes, TimeoutLeftover
<1>3. "timeout" \in Outcomes \ {"waiting", "done"}
  BY DEF Outcomes
<1> QED
  BY <1>1, <1>2, <1>3, RaiseEnds

LEMMA RecvMissingStep ==
    ASSUME IInv, NEW m, RecvMissing(m)
    PROVE  IInv'
<1>1. Raise("missing") /\ Receive(m, "missing")
  BY DEF RecvMissing
<1>2. /\ UNCHANGED <<listed, changes, late, made>> /\ lossy' \in BOOLEAN
      /\ stream' \in Seq(Answers)
  BY <1>1, ReceiveFacts, Parts
<1>3. LeftoverInv'
  BY <1>1, RaiseTypes, MissingLeftover
<1>4. "missing" \in Outcomes \ {"waiting", "done"}
  BY DEF Outcomes
<1> QED
  BY <1>1, <1>2, <1>3, <1>4, RaiseEnds

LEMMA StuckStep ==
    ASSUME IInv, NEW m, Receive(m, call.kind), Raise("stuck")
    PROVE  IInv'
<1>1. /\ UNCHANGED <<listed, changes, late, made>> /\ lossy' \in BOOLEAN
      /\ stream' \in Seq(Answers)
  BY ReceiveFacts, Parts
<1>2. LeftoverInv'
  BY RaiseTypes, AnsweredLeftover
<1>3. "stuck" \in Outcomes \ {"waiting", "done"}
  BY DEF Outcomes
<1> QED
  BY <1>1, <1>2, <1>3, RaiseEnds

\* What a listing that is returned must satisfy.
Honest(ids, more) ==
    /\ Ascending(ids)
    /\ ToSet(ids) \subseteq InRange(call.ever)
    /\ ~more => InRange(call.always) \subseteq ToSet(ids)
    /\ more => \E i \in InRange(call.ever) : \A j \in ToSet(ids) : j < i

LEMMA ReturnStep ==
    ASSUME IInv, NEW m, Receive(m, call.kind), NEW ids \in Seq(Ids), NEW more \in BOOLEAN,
           Return(ids, more), Undisturbed => Honest(ids, more)
    PROVE  IInv'
<1> PICK x, y : y = call /\ x = [y EXCEPT !.ids = ids, !.more = more, !.result = "done"]
  OBVIOUS
<1>1. /\ y \in Calls /\ call' = x /\ queue' = queue
      /\ UNCHANGED <<listed, changes, lossy, late, made>> /\ stream' \in Seq(Answers)
  BY ReceiveFacts, Parts DEF Return
<1>2. /\ x \in Calls /\ x.kind = y.kind /\ x.from = y.from /\ x.to = y.to /\ x.ids = ids
      /\ x.more = more /\ x.result = "done" /\ x.asked = y.asked /\ x.always = y.always
      /\ x.ever = y.ever
  BY <1>1 DEF Calls, Outcomes
<1>3. TypeOK'
  BY <1>1, <1>2, Parts DEF TypeOK
<1>4. LeftoverInv'
  BY <1>1, <1>2, AnsweredLeftover
<1>5. ~Busy' /\ Undisturbed' = Undisturbed
  BY <1>1, <1>2 DEF Busy, Undisturbed
<1>6. ASSUME Undisturbed PROVE ListingComplete' /\ MoreIsHonest' /\ PagesAdvance'
  <2>1. /\ Ascending(ids) /\ Ascending(y.asked)
        /\ ToSet(ids) \subseteq InRange(y.ever)
        /\ ~more => InRange(y.always) \subseteq ToSet(ids)
        /\ more => \E i \in InRange(y.ever) : \A j \in ToSet(ids) : j < i
    BY <1>6, Parts DEF Honest, PagesAdvance
  <2>2. InRange(call.always)' = InRange(y.always) /\ InRange(call.ever)' = InRange(y.ever)
    BY <1>1, <1>2 DEF InRange
  <2>3. ListingComplete'
    BY <1>1, <1>2, <2>1, <2>2 DEF ListingComplete
  <2>4. MoreIsHonest'
    BY <1>1, <1>2, <2>1, <2>2 DEF MoreIsHonest
  <2>5. PagesAdvance'
    BY <1>1, <1>2, <2>1 DEF PagesAdvance, Ascending
  <2> QED
    BY <2>3, <2>4, <2>5
<1> QED
  BY <1>3, <1>4, <1>5, <1>6
     DEF IInv, WaitingInv, CollectedInv, ListingComplete, MoreIsHonest, PagesAdvance

-----------------------------------------------------------------------------
(* The next page is asked for. *)

\* What has been collected must be the list up to where the next page starts.
Collected(ids, lo) ==
    /\ Ascending(ids) /\ lo > Asked
    /\ ToSet(ids) \subseteq {i \in InRange(call.ever) : i < lo}
    /\ {i \in InRange(call.always) : i < lo} \subseteq ToSet(ids)

LEMMA AskStep ==
    ASSUME IInv, NEW m, Receive(m, call.kind), call.kind # "logs",
           NEW ids \in Seq(Ids), NEW from \in 0..(MaxId + 1), NEW skip \in BOOLEAN,
           NEW lo \in 0..(MaxId + 1), lo = IF skip THEN from + 1 ELSE from,
           Ask([call EXCEPT !.ids = ids], from, skip),
           Undisturbed => Collected(ids, lo)
    PROVE  IInv'
<1> PICK x, y, z, request :
        /\ y = call /\ z = [y EXCEPT !.ids = ids]
        /\ request = [kind |-> y.kind, from |-> from, to |-> y.to, skip |-> skip]
        /\ x = [z EXCEPT !.asked = Append(@, lo)]
  OBVIOUS
<1>1. /\ y \in Calls /\ y.kind \in Kinds /\ y.to \in Ids /\ y.asked \in Seq(0..(MaxId + 1))
      /\ y.result = "waiting" /\ Busy /\ y.always \in SUBSET Ids /\ y.ever \in SUBSET Ids
      /\ y.from \in 0..(MaxId + 1) /\ y.kind # "logs"
  BY ReceiveFacts, Parts, CallType, BusyLeftover
<1>2. /\ z \in Calls /\ z.kind = y.kind /\ z.to = y.to /\ z.asked = y.asked
  BY <1>1 DEF Calls
<1>3. Lower(request) = lo /\ request \in Requests /\ request.kind = y.kind /\ request.to = y.to
  BY <1>1 DEF Lower, Requests
<1>4. queue' = Append(queue, request) /\ call' = x
  BY <1>2, <1>3 DEF Ask
<1>5. /\ x \in Calls /\ x.kind = y.kind /\ x.from = y.from /\ x.to = y.to /\ x.ids = ids
      /\ x.result = "waiting" /\ x.asked = Append(y.asked, lo) /\ x.always = y.always
      /\ x.ever = y.ever /\ x.asked # <<>>
  <2>1. Append(y.asked, lo) \in Seq(0..(MaxId + 1)) /\ Append(y.asked, lo) # <<>>
    BY <1>1
  <2> QED
    BY <1>1, <1>2, <2>1 DEF Calls
<1> PICK q : q = Len(queue)
  OBVIOUS
<1>6. /\ q \in Nat /\ queue' \in Seq(Requests) /\ Len(queue') = q + 1
      /\ DOMAIN queue' = 1..(q + 1) /\ queue'[q + 1] = request /\ DOMAIN queue = 1..q
      /\ \A i \in 1..(q + 1) : i = q + 1 \/ (i \in 1..q /\ queue'[i] = queue[i])
  BY <1>3, <1>4, Parts
<1>7. TypeOK'
  BY <1>4, <1>5, <1>6, ReceiveFacts, Parts DEF TypeOK
<1>8. Busy' /\ Leftover' = late /\ Leftover = late /\ Undisturbed' = Undisturbed
      /\ late' = late /\ UNCHANGED <<listed, changes, lossy, late, made>>
  BY <1>4, <1>5, ReceiveFacts, BusyLeftover DEF Busy, Leftover, Undisturbed
<1>9. LeftoverInv'
  <2>1. \A i \in DOMAIN queue' : queue'[i].kind \in late \/ queue'[i].kind = y.kind
    BY <1>3, <1>6, <1>8, Parts DEF LeftoverInv
  <2>2. ASSUME NEW i \in DOMAIN stream'
        PROVE  stream'[i].kind \in late \cup {"missing"} \/ stream'[i].kind = y.kind
    <3>1. i + m \in DOMAIN stream /\ stream'[i] = stream[i + m]
      BY ReceiveFacts
    <3> QED
      BY <1>8, <3>1, Parts DEF LeftoverInv
  <2>3. ASSUME late = {} PROVE Len(queue') + Len(stream') <= 1
    <3>1. q + Len(stream) <= 1
      BY <1>1, <1>8, <2>3, Parts DEF LeftoverInv
    <3>2. Len(stream') = Len(stream) - m /\ m \in 1..Len(stream) /\ Len(stream) \in Nat
      BY ReceiveFacts, Parts
    <3> QED
      BY <1>6, <3>1, <3>2
  <2> QED
    BY <1>4, <1>5, <1>8, <2>1, <2>2, <2>3 DEF LeftoverInv
<1>10. ASSUME Undisturbed
       PROVE  /\ stream' = <<>> /\ queue' = <<request>> /\ Asked' = lo
              /\ Ascending(call.asked)'
              /\ \A i \in DOMAIN x.asked : y.from <= x.asked[i]
  <2>1. stream' = <<>> /\ queue' = <<request>>
    <3>1. stream' = <<>> /\ queue = <<>>
      BY <1>10, OwnPage
    <3>2. Append(<<>>, request) = <<request>>
      OBVIOUS
    <3> QED
      BY <1>4, <3>1, <3>2
  <2>2. y.asked \in Seq(Int) /\ y.asked # <<>> /\ Ascending(y.asked)
        /\ Asked = y.asked[Len(y.asked)] /\ lo \in Int /\ lo > Asked
        /\ \A i \in DOMAIN y.asked : y.from <= y.asked[i]
    <3>1. y.asked \in Seq(Int) /\ lo \in Int
      BY <1>1, BoundAssumption
    <3>2. y.asked # <<>>
      BY <1>1, Parts DEF WaitingInv
    <3>3. Ascending(y.asked)
      BY <1>10, Parts DEF PagesAdvance
    <3>4. \A i \in DOMAIN y.asked : y.from <= y.asked[i]
      BY <1>1, <1>10, Parts DEF CollectedInv
    <3>5. Asked = y.asked[Len(y.asked)] /\ lo > Asked
      BY <1>10 DEF Asked, Collected
    <3> QED
      BY <3>1, <3>2, <3>3, <3>4, <3>5
  <2>3. \A i \in DOMAIN y.asked : y.asked[i] < lo
    <3>1. \A i \in ToSet(y.asked) : i <= Asked /\ i \in Int
      BY <2>2, AscendingLast
    <3>2. \A i \in DOMAIN y.asked : y.asked[i] \in ToSet(y.asked)
      BY DEF ToSet
    <3>3. Asked \in Int
      <4>1. Asked \in ToSet(y.asked)
        BY <2>2, AscendingLast
      <4> QED
        BY <3>1, <4>1
    <3> QED
      BY <2>2, <3>1, <3>2, <3>3
  <2>4. /\ Ascending(x.asked) /\ x.asked[Len(x.asked)] = lo
        /\ \A i \in DOMAIN x.asked :
              (i \in DOMAIN y.asked /\ x.asked[i] = y.asked[i]) \/ x.asked[i] = lo
    BY <1>5, <2>2, <2>3, AscendingAppend
  <2>5. Asked \in Int /\ y.from <= Asked
    BY <1>1, <2>2
  <2>6. y.from <= lo
    BY <1>1, <2>2, <2>5
  <2> QED
    BY <1>4, <2>1, <2>2, <2>4, <2>6 DEF Asked, Ascending
<1>11. WaitingInv'
  <2>1. ASSUME Undisturbed
        PROVE  /\ \A i \in DOMAIN queue' : queue'[i].kind = y.kind =>
                     i = Len(queue') /\ Lower(queue'[i]) = lo /\ queue'[i].to = y.to
               /\ DOMAIN stream' = {}
    <3>1. DOMAIN queue' = {1} /\ queue'[1] = request /\ Len(queue') = 1 /\ DOMAIN stream' = {}
      BY <1>10, <2>1
    <3> QED
      BY <1>3, <3>1
  <2>2. \A r : Lower(r)' = Lower(r)
    BY DEF Lower
  <2> QED
    BY <1>4, <1>5, <1>8, <1>10, <2>1 DEF WaitingInv, Lower
<1>12. CollectedInv' /\ PagesAdvance'
  <2> SUFFICES ASSUME Undisturbed PROVE CollectedInv' /\ PagesAdvance'
    BY <1>8 DEF CollectedInv, PagesAdvance
  <2>1. /\ y.always \subseteq listed /\ listed \subseteq y.ever
    BY <1>1, Parts DEF CollectedInv
  <2>2. InRange(call.always)' = InRange(y.always) /\ InRange(call.ever)' = InRange(y.ever)
    BY <1>4, <1>5 DEF InRange
  <2>3. /\ ToSet(ids) \subseteq {i \in InRange(y.ever) : i < lo}
        /\ {i \in InRange(y.always) : i < lo} \subseteq ToSet(ids)
        /\ Ascending(ids)
    BY DEF Collected
  <2>4. CollectedInv'
    BY <1>1, <1>4, <1>5, <1>8, <1>10, <2>1, <2>2, <2>3 DEF CollectedInv
  <2>5. PagesAdvance'
    BY <1>4, <1>5, <1>10, <2>3 DEF PagesAdvance, Ascending
  <2> QED
    BY <2>4, <2>5
<1>13. ListingComplete' /\ MoreIsHonest'
  BY <1>4, <1>5 DEF ListingComplete, MoreIsHonest
<1> QED
  BY <1>7, <1>9, <1>11, <1>12, <1>13 DEF IInv

-----------------------------------------------------------------------------
(* The pages of a call. *)

\* A page that answers the call continues what has been collected.
LEMMA PageContinues ==
    ASSUME IInv, NEW m, Receive(m, call.kind), Undisturbed,
           NEW page, page = stream[m], NEW all, all = call.ids \o page.ids
    PROVE  /\ Honest(all, page.more)
           /\ page.ids # <<>> => /\ Collected(all, page.ids[Len(page.ids)] + 1)
                                 /\ page.ids[Len(page.ids)] \in Ids
<1> PICK s, t, lo, from, to, always, ever :
        /\ s = call.ids /\ t = page.ids /\ lo = Asked /\ from = call.from /\ to = call.to
        /\ always = call.always /\ ever = call.ever
  OBVIOUS
<1>1. /\ s \in Seq(Int) /\ t \in Seq(Int) /\ t \in Seq(Ids) /\ from \in Int /\ to \in Int
      /\ always \subseteq Int /\ ever \subseteq Int
  <2>1. page.ids \in Seq(Ids)
    BY ReceiveFacts
  <2>2. call \in Calls
    BY Parts
  <2>3. /\ s \in Seq(Ids) /\ from \in 0..(MaxId + 1) /\ to \in Ids
        /\ always \in SUBSET Ids /\ ever \in SUBSET Ids
    BY <2>2, CallType
  <2> QED
    BY <2>1, <2>3, IdsInt, BoundAssumption
<1>2. lo \in Int /\ from <= lo
  <2>1. /\ call.asked # <<>> /\ call.asked \in Seq(0..(MaxId + 1))
        /\ \A i \in DOMAIN call.asked : from <= call.asked[i]
    BY ReceiveFacts, Parts, CallType DEF WaitingInv, CollectedInv
  <2>2. Len(call.asked) \in DOMAIN call.asked /\ call.asked[Len(call.asked)] \in 0..(MaxId + 1)
    <3>1. PICK q, S : q = call.asked /\ S = 0..(MaxId + 1)
      OBVIOUS
    <3>2. q \in Seq(S) /\ q # <<>>
      BY <2>1, <3>1
    <3>3. Len(q) \in DOMAIN q /\ q[Len(q)] \in S
      BY <3>2
    <3> QED
      BY <3>1, <3>3
  <2> QED
    BY <2>1, <2>2, BoundAssumption DEF Asked
<1>3. /\ ToSet(s) \subseteq {i \in InRange(ever) : i < lo}
      /\ {i \in InRange(always) : i < lo} \subseteq ToSet(s) /\ Ascending(s)
  BY ReceiveFacts, Parts DEF CollectedInv, PagesAdvance
<1>4. /\ Ascending(t)
      /\ ToSet(t) \subseteq {i \in ever : i >= lo /\ i <= to}
      /\ \A i \in ToSet(t), j \in {i \in always : i >= lo /\ i <= to} : j < i => j \in ToSet(t)
      /\ ~page.more => {i \in always : i >= lo /\ i <= to} \subseteq ToSet(t)
      /\ page.more => \E i \in {i \in ever : i >= lo /\ i <= to} : \A j \in ToSet(t) : j < i
  BY OwnPage DEF PageOf
<1>5. \A i \in ToSet(s), j \in ToSet(t) : i < j
  BY <1>1, <1>2, <1>3, <1>4 DEF InRange
<1>6. Ascending(all) /\ ToSet(all) = ToSet(s) \cup ToSet(t)
  BY <1>1, <1>3, <1>4, <1>5, AscendingConcat
<1>7. ToSet(all) \subseteq InRange(ever)
  BY <1>1, <1>2, <1>3, <1>4, <1>6 DEF InRange
<1>8. ASSUME ~page.more PROVE InRange(always) \subseteq ToSet(all)
  BY <1>1, <1>2, <1>3, <1>4, <1>6, <1>8 DEF InRange
<1>9. ASSUME page.more PROVE \E i \in InRange(ever) : \A j \in ToSet(all) : j < i
  <2>1. PICK i \in ever : i >= lo /\ i <= to /\ \A j \in ToSet(t) : j < i
    BY <1>4, <1>9
  <2>2. \A j \in ToSet(s) : j < i
    BY <1>1, <1>2, <1>3, <2>1 DEF InRange
  <2>3. i \in InRange(ever)
    BY <1>1, <1>2, <2>1 DEF InRange
  <2> QED
    BY <1>6, <2>1, <2>2, <2>3
<1>10. Honest(all, page.more)
  BY <1>6, <1>7, <1>8, <1>9 DEF Honest
<1>11. ASSUME t # <<>> PROVE Collected(all, t[Len(t)] + 1) /\ t[Len(t)] \in Ids
  <2> PICK n : n = t[Len(t)]
    OBVIOUS
  <2>1. n \in ToSet(t) /\ (\A i \in ToSet(t) : i <= n /\ i \in Int) /\ n \in Ids
    BY <1>1, <1>4, <1>11, AscendingLast
  <2>2. n + 1 > lo
    BY <1>1, <1>2, <1>4, <2>1
  <2>3. \A i \in ToSet(all) : i < n + 1
    BY <1>1, <1>2, <1>3, <1>4, <1>6, <2>1 DEF InRange
  <2>4. ASSUME NEW i \in InRange(always), i < n + 1 PROVE i \in ToSet(all)
    <3>1. i \in always /\ i \in Int /\ i >= from /\ i <= to
      BY <1>1 DEF InRange
    <3>2. CASE i < lo
      BY <1>3, <1>6, <3>2
    <3>3. CASE i >= lo
      <4>1. i < n \/ i = n
        BY <2>1, <2>4, <3>1
      <4> QED
        BY <1>4, <1>6, <2>1, <3>1, <3>3, <4>1
    <3> QED
      BY <1>2, <3>1, <3>2, <3>3
  <2> QED
    BY <1>6, <1>7, <2>1, <2>2, <2>3, <2>4 DEF Collected
<1> QED
  BY <1>10, <1>11

LEMMA AllType ==
    ASSUME IInv, NEW m, Receive(m, call.kind)
    PROVE  /\ call.ids \in Seq(Ids) /\ stream[m].ids \in Seq(Ids)
           /\ call.ids \o stream[m].ids \in Seq(Ids)
           /\ stream[m].more \in BOOLEAN
<1>1. /\ call.ids \in Seq(Ids) /\ stream[m].ids \in Seq(Ids) /\ stream[m].more \in BOOLEAN
  BY ReceiveFacts, Parts, CallType
<1> QED
  BY <1>1

\* A listing that is cut says that there is more.
LEMMA LimitedFacts ==
    ASSUME IInv, NEW all \in Seq(Ids)
    PROVE  /\ Limited(all) \in Seq(Ids) /\ Truncated(all) \in BOOLEAN
           /\ ~Truncated(all) => Limited(all) = all
           /\ \A more \in BOOLEAN :
                 Truncated(all) /\ Honest(all, more) => Honest(Limited(all), TRUE)
<1> PICK limit, cut : limit = call.limit /\ cut = SubSeq(all, 1, limit)
  OBVIOUS
<1>1. limit \in Nat /\ all \in Seq(Int) /\ Len(all) \in Nat
  BY Parts, CallType, IdsInt
<1>2. Truncated(all) => limit <= Len(all) /\ limit # Len(all) /\ Limited(all) = cut
  BY <1>1 DEF Truncated, Limited
<1>3. Limited(all) \in Seq(Ids)
  <2>1. CASE limit = 0 \/ Len(all) <= limit
    BY <2>1 DEF Limited
  <2>2. CASE ~(limit = 0 \/ Len(all) <= limit)
    <3>1. limit \in Nat /\ limit < Len(all) /\ \A i \in 1..limit : i \in 1..Len(all)
      BY <1>1, <2>2
    <3>2. cut = [i \in 1..limit |-> all[i]] /\ \A i \in 1..limit : all[i] \in Ids
      BY <1>1, <3>1, ElementOfSeq
    <3>3. cut \in Seq(Ids)
      BY <3>1, <3>2
    <3> QED
      BY <2>2, <3>3 DEF Limited
  <2> QED
    BY <2>1, <2>2
<1>4. ASSUME NEW more \in BOOLEAN, Truncated(all), Honest(all, more)
      PROVE  Honest(Limited(all), TRUE)
  <2>1. /\ limit \in Nat /\ limit < Len(all) /\ Limited(all) = cut
    BY <1>1, <1>2, <1>4
  <2>2. Ascending(all) /\ ToSet(all) \subseteq InRange(call.ever)
    BY <1>4 DEF Honest
  <2>3. /\ Ascending(cut) /\ ToSet(cut) \subseteq ToSet(all)
        /\ all[limit + 1] \in ToSet(all) /\ \A i \in ToSet(cut) : i < all[limit + 1]
    BY <1>1, <2>1, <2>2, AscendingPrefix
  <2> QED
    BY <2>1, <2>2, <2>3 DEF Honest
<1> QED
  BY <1>3, <1>4 DEF Truncated

LEMMA RecvAssetsStep ==
    ASSUME IInv, NEW m, RecvAssets(m)
    PROVE  IInv'
<1> PICK page, all : page = stream[m] /\ all = call.ids \o page.ids
  OBVIOUS
<1>1. Receive(m, call.kind) /\ call.kind = "assets"
  BY DEF RecvAssets
<1>2. all \in Seq(Ids) /\ page.ids \in Seq(Ids) /\ page.more \in BOOLEAN
  BY <1>1, AllType
<1>3. Undisturbed => Honest(all, page.more)
  BY <1>1, PageContinues
<1>4. CASE ~call.auto
  <2>1. Return(all, page.more)
    BY <1>4 DEF RecvAssets
  <2> QED
    BY <1>1, <1>2, <1>3, <2>1, ReturnStep
<1>5. CASE call.auto /\ ~page.more
  <2>1. PICK ids, more : ids = Limited(all) /\ more = Truncated(all)
    OBVIOUS
  <2>2. Return(ids, more)
    BY <1>5, <2>1 DEF RecvAssets
  <2>3. ids \in Seq(Ids) /\ more \in BOOLEAN
    BY <1>2, <2>1, LimitedFacts
  <2>4. Undisturbed => Honest(ids, more)
    <3>1. CASE more
      BY <1>2, <1>3, <2>1, <3>1, LimitedFacts
    <3>2. CASE ~more
      <4>1. ids = all /\ page.more = FALSE /\ more = FALSE
        BY <1>2, <1>5, <2>1, <2>3, <3>2, LimitedFacts
      <4> QED
        BY <1>3, <4>1
    <3> QED
      BY <3>1, <3>2
  <2> QED
    BY <1>1, <2>2, <2>3, <2>4, ReturnStep
<1>6. CASE call.auto /\ page.more /\ page.ids = <<>>
  <2>1. Raise("stuck")
    BY <1>6 DEF RecvAssets
  <2> QED
    BY <1>1, <2>1, StuckStep
<1>7. CASE call.auto /\ page.more /\ page.ids # <<>>
  <2> PICK n, lo : n = page.ids[Len(page.ids)] /\ lo = n + 1
    OBVIOUS
  <2>1. Ask([call EXCEPT !.ids = all], lo, FALSE)
    BY <1>7 DEF RecvAssets, NextAssetId
  <2>2. n \in Ids /\ lo \in 0..(MaxId + 1)
    <3>1. n \in Ids
      BY <1>2, <1>7
    <3> QED
      BY <3>1, BoundAssumption DEF Ids
  <2>3. Undisturbed => Collected(all, lo)
    BY <1>1, <1>7, PageContinues
  <2>4. call.kind # "logs" /\ lo = (IF FALSE THEN lo + 1 ELSE lo) /\ FALSE \in BOOLEAN
    BY <1>1
  <2> QED
    BY <1>1, <1>2, <2>1, <2>2, <2>3, <2>4, AskStep
<1> QED
  BY <1>4, <1>5, <1>6, <1>7

LEMMA RecvVarsStep ==
    ASSUME IInv, NEW m, RecvVars(m)
    PROVE  IInv'
<1> PICK page, all : page = stream[m] /\ all = call.ids \o page.ids
  OBVIOUS
<1>1. Receive(m, call.kind) /\ call.kind = "vars"
  BY DEF RecvVars
<1>2. /\ all \in Seq(Ids) /\ page.ids \in Seq(Ids) /\ page.more \in BOOLEAN
      /\ call.ids \in Seq(Ids)
  BY <1>1, AllType
<1>3. Undisturbed => Honest(all, page.more)
  BY <1>1, PageContinues
<1>4. CASE page.ids = <<>>
  <2>1. all = call.ids
    BY <1>2, <1>4
  <2>2. Return(all, page.more)
    BY <1>4, <2>1 DEF RecvVars
  <2> QED
    BY <1>1, <1>2, <1>3, <2>2, ReturnStep
<1>5. CASE page.ids # <<>> /\ Truncated(all)
  <2>1. PICK ids, more : ids = Limited(all) /\ more = TRUE
    OBVIOUS
  <2>2. Return(ids, more)
    BY <1>5, <2>1 DEF RecvVars
  <2>3. ids \in Seq(Ids) /\ more \in BOOLEAN
    BY <1>2, <2>1, LimitedFacts
  <2>4. Undisturbed => Honest(ids, more)
    BY <1>2, <1>3, <1>5, <2>1, LimitedFacts
  <2> QED
    BY <1>1, <2>2, <2>3, <2>4, ReturnStep
<1>6. CASE page.ids # <<>> /\ ~Truncated(all) /\ ~page.more
  <2>1. PICK more : more = FALSE
    OBVIOUS
  <2>2. Return(all, more) /\ page.more = more
    BY <1>2, <1>6, <2>1 DEF RecvVars
  <2> QED
    BY <1>1, <1>2, <1>3, <2>2, ReturnStep
<1>7. CASE page.ids # <<>> /\ ~Truncated(all) /\ page.more
  <2> PICK n, lo : n = page.ids[Len(page.ids)] /\ lo = n + 1
    OBVIOUS
  <2>1. Ask([call EXCEPT !.ids = all], n, TRUE)
    BY <1>7 DEF RecvVars
  <2>2. n \in 0..(MaxId + 1) /\ lo \in 0..(MaxId + 1)
    <3>1. n \in Ids
      BY <1>2, <1>7
    <3> QED
      BY <3>1, BoundAssumption DEF Ids
  <2>3. Undisturbed => Collected(all, lo)
    BY <1>1, <1>7, PageContinues
  <2>4. call.kind # "logs" /\ lo = (IF TRUE THEN n + 1 ELSE n) /\ TRUE \in BOOLEAN
    BY <1>1
  <2> QED
    BY <1>1, <1>2, <2>1, <2>2, <2>3, <2>4, AskStep
<1> QED
  BY <1>4, <1>5, <1>6, <1>7

LEMMA RecvLogsStep ==
    ASSUME IInv, NEW m, RecvLogs(m)
    PROVE  IInv'
<1> PICK page, all, ids, more :
        /\ page = stream[m] /\ all = page.ids
        /\ ids = Limited(all) /\ more = (page.more \/ Truncated(all))
  OBVIOUS
<1>1. Receive(m, call.kind) /\ call.kind = "logs" /\ Return(ids, more)
  BY DEF RecvLogs
<1>2. all \in Seq(Ids) /\ page.more \in BOOLEAN
  BY <1>1, AllType
<1>3. ids \in Seq(Ids) /\ more \in BOOLEAN
  BY <1>2, LimitedFacts
<1>4. ASSUME Undisturbed PROVE Honest(ids, more)
  <2>1. call.ids = <<>>
    BY <1>1, <1>4, ReceiveFacts, Parts DEF CollectedInv
  <2>2. all = call.ids \o page.ids
    BY <1>2, <2>1
  <2>3. Honest(all, page.more)
    BY <1>1, <1>4, <2>2, PageContinues
  <2>4. CASE Truncated(all)
    BY <1>2, <2>3, <2>4, LimitedFacts
  <2>5. CASE ~Truncated(all)
    <3>1. ids = all /\ more = page.more
      BY <1>2, <2>5, LimitedFacts
    <3> QED
      BY <2>3, <3>1
  <2> QED
    BY <2>4, <2>5
<1> QED
  BY <1>1, <1>3, <1>4, ReturnStep

\* A page of another kind, or of an earlier call, changes nothing else.
LEMMA RecvIgnoredStep ==
    ASSUME IInv, NEW m, RecvIgnored(m)
    PROVE  IInv'
<1>1. PICK kind \in Kinds \ {call.kind} : Receive(m, kind)
  BY DEF RecvIgnored
<1>2. UNCHANGED <<call, queue, listed, changes, lossy, late, made>>
  BY <1>1, ReceiveFacts DEF RecvIgnored
<1>3. /\ stream' \in Seq(Answers) /\ Len(stream') = Len(stream) - m /\ m \in 1..Len(stream)
      /\ Len(stream) \in Nat /\ Len(queue) \in Nat
      /\ \A i \in DOMAIN stream' :
            /\ i + m \in DOMAIN stream /\ stream'[i] = stream[i + m]
            /\ i + m = Len(stream) => i = Len(stream')
  BY <1>1, ReceiveFacts, Parts
<1>4. Busy' = Busy /\ Leftover' = Leftover /\ Undisturbed' = Undisturbed /\ Asked' = Asked
  BY <1>2 DEF Busy, Leftover, Undisturbed, Asked
<1>5. TypeOK'
  BY <1>2, <1>3, Parts DEF TypeOK
<1>6. LeftoverInv'
  <2>1. Len(queue) + Len(stream') <= Len(queue) + Len(stream)
    BY <1>3
  <2>2. \A i \in DOMAIN stream' :
           stream'[i].kind \in Leftover \cup {"missing"} \/ (Busy /\ stream'[i].kind = call.kind)
    BY <1>3, Parts DEF LeftoverInv
  <2>3. Leftover = {} => Len(queue) + Len(stream') <= IF Busy THEN 1 ELSE 0
    <3>1. Leftover = {} => Len(queue) + Len(stream) <= IF Busy THEN 1 ELSE 0
      BY Parts DEF LeftoverInv
    <3> QED
      BY <1>3, <2>1, <3>1
  <2> QED
    BY <1>2, <1>4, <2>2, <2>3, Parts DEF LeftoverInv
<1>7. WaitingInv'
  <2>1. ASSUME Busy, Undisturbed, NEW i \in DOMAIN stream', stream'[i].kind = call.kind
        PROVE  i = Len(stream') /\ queue = <<>> /\ PageOf(stream'[i], Asked)
    <3>1. i + m \in DOMAIN stream /\ stream[i + m].kind = call.kind
      BY <1>3, <2>1
    <3>2. i + m = Len(stream) /\ queue = <<>> /\ PageOf(stream[i + m], Asked)
      BY <2>1, <3>1, Parts DEF WaitingInv
    <3> QED
      BY <1>3, <2>1, <3>2
  <2>2. WaitingInv
    BY Parts
  <2> QED
    BY <1>2, <1>4, <2>1, <2>2 DEF WaitingInv, PageOf, Lower
<1>8. CollectedInv' /\ ListingComplete' /\ MoreIsHonest' /\ PagesAdvance'
  <2>1. CollectedInv /\ ListingComplete /\ MoreIsHonest /\ PagesAdvance
    BY Parts
  <2> QED
    BY <1>2, <1>4, <2>1
       DEF CollectedInv, ListingComplete, MoreIsHonest, PagesAdvance, InRange, Ascending
<1> QED
  BY <1>5, <1>6, <1>7, <1>8 DEF IInv

-----------------------------------------------------------------------------
(* The node, and new calls. *)

\* What the node sends for a request; a page is a part of the list.
LEMMA Answer ==
    ASSUME IInv, NodeServe
    PROVE  /\ queue # <<>> /\ queue' = Tail(queue)
           /\ \E a \in Answers :
                 /\ stream' = Append(stream, a)
                 /\ a.kind = Head(queue).kind \/ a.kind = "missing"
                 /\ a.kind = "missing" \/ call.to # Head(queue).to
                    \/ ~(call.always \subseteq listed) \/ ~(listed \subseteq call.ever)
                    \/ PageOf(a, Lower(Head(queue)))
<1> PICK r, rest : /\ r = Head(queue)
                   /\ rest = {i \in listed : i >= Lower(r) /\ i <= r.to}
  OBVIOUS
<1>1. queue # <<>> /\ queue' = Tail(queue) /\ r \in Requests /\ r.kind \in Kinds
  <2>1. queue # <<>> /\ queue' = Tail(queue) /\ queue \in Seq(Requests)
    BY Parts DEF NodeServe
  <2>2. r \in Requests
    BY <2>1
  <2> QED
    BY <2>1, <2>2 DEF Requests
<1>2. CASE stream' = Append(stream, [kind |-> "missing", ids |-> <<>>, more |-> FALSE])
  <2> PICK a : a = [kind |-> "missing", ids |-> <<>>, more |-> FALSE]
    OBVIOUS
  <2>1. a \in Answers /\ a.kind = "missing" /\ stream' = Append(stream, a)
    BY <1>2 DEF Answers
  <2> QED
    BY <1>1, <2>1
<1>3. ASSUME NEW n \in 0..PageSize, NEW ids \in [1..n -> rest], Begins(ids, rest),
             stream' = Append(stream, [kind |-> r.kind, ids |-> ids,
                                       more |-> ToSet(ids) # rest])
      PROVE  \E a \in Answers :
                /\ stream' = Append(stream, a) /\ a.kind = r.kind
                /\ call.to # r.to \/ ~(call.always \subseteq listed)
                   \/ ~(listed \subseteq call.ever) \/ PageOf(a, Lower(r))
  <2> PICK more, a : /\ more = (ToSet(ids) # rest)
                     /\ a = [kind |-> r.kind, ids |-> ids, more |-> more]
    OBVIOUS
  <2>1. rest \subseteq listed /\ rest \subseteq Ids
    BY Parts
  <2>2. n \in Nat /\ ids \in Seq(Ids)
    BY <2>1, BoundAssumption
  <2>3. more \in BOOLEAN
    BY Zenon
  <2>4. a \in Answers /\ a.kind = r.kind /\ a.ids = ids /\ a.more = more
    BY <1>1, <2>2, <2>3 DEF Answers
  <2>5. stream' = Append(stream, a)
    BY <1>3
  <2>6. ASSUME call.to = r.to, call.always \subseteq listed, listed \subseteq call.ever
        PROVE  PageOf(a, Lower(r))
    <3>1. ToSet(ids) \subseteq rest
      BY DEF ToSet
    <3>2. ToSet(ids) # rest => \E i \in rest : \A j \in ToSet(ids) : j < i
      <4> SUFFICES ASSUME ToSet(ids) # rest
                   PROVE  \E i \in rest : \A j \in ToSet(ids) : j < i
        OBVIOUS
      <4>1. PICK i \in rest : i \notin ToSet(ids)
        BY <3>1
      <4>2. \A j \in ToSet(ids) : j # i /\ ~(i < j) /\ j \in Int /\ i \in Int
        BY <1>3, <2>1, <3>1, <4>1, IdsInt DEF Begins
      <4>3. \A j \in ToSet(ids) : j < i
        BY <4>2
      <4> QED
        BY <4>1, <4>3
    <3>3. Ascending(ids) /\ \A i \in ToSet(ids), j \in rest : j < i => j \in ToSet(ids)
      BY <1>3 DEF Begins
    <3>4. /\ {i \in call.always : i >= Lower(r) /\ i <= call.to} \subseteq rest
          /\ rest \subseteq {i \in call.ever : i >= Lower(r) /\ i <= call.to}
      BY <2>6
    <3>5. ~more => rest \subseteq ToSet(ids)
      OBVIOUS
    <3>6. more => \E i \in rest : \A j \in ToSet(ids) : j < i
      BY <3>2
    <3> QED
      BY <2>4, <3>1, <3>3, <3>4, <3>5, <3>6 DEF PageOf
  <2> QED
    BY <2>4, <2>5, <2>6
<1>4. \/ stream' = Append(stream, [kind |-> "missing", ids |-> <<>>, more |-> FALSE])
      \/ \E n \in 0..PageSize : \E ids \in [1..n -> rest] :
            /\ Begins(ids, rest)
            /\ stream' = Append(stream, [kind |-> r.kind, ids |-> ids,
                                         more |-> ToSet(ids) # rest])
  BY DEF NodeServe
<1> QED
  BY <1>1, <1>2, <1>3, <1>4

LEMMA NodeServeStep ==
    ASSUME IInv, NodeServe
    PROVE  IInv'
<1> PICK q, s, h : q = Len(queue) /\ s = Len(stream) /\ h = Head(queue)
  OBVIOUS
<1>1. PICK a \in Answers :
          /\ stream' = Append(stream, a) /\ (a.kind = h.kind \/ a.kind = "missing")
          /\ a.kind = "missing" \/ call.to # h.to
             \/ ~(call.always \subseteq listed) \/ ~(listed \subseteq call.ever)
             \/ PageOf(a, Lower(h))
  BY Answer
<1>2. /\ q \in Nat \ {0} /\ s \in Nat /\ queue \in Seq(Requests) /\ queue # <<>>
      /\ DOMAIN queue = 1..q /\ DOMAIN stream = 1..s /\ stream \in Seq(Answers)
      /\ queue' = Tail(queue) /\ UNCHANGED <<listed, changes, lossy, call, late, made>>
  BY Answer, Parts DEF NodeServe
<1>3. /\ queue' \in Seq(Requests) /\ Len(queue') = q - 1 /\ h = queue[1]
      /\ \A i \in DOMAIN queue' : /\ i + 1 \in DOMAIN queue /\ queue'[i] = queue[i + 1]
                                  /\ i + 1 = q => i = Len(queue')
  BY <1>2
<1>4. /\ stream' \in Seq(Answers) /\ Len(stream') = s + 1 /\ stream'[s + 1] = a
      /\ DOMAIN stream' = 1..(s + 1)
      /\ \A i \in DOMAIN stream' : i = s + 1 \/ (i \in DOMAIN stream /\ stream'[i] = stream[i])
  BY <1>1, <1>2
<1>5. TypeOK'
  BY <1>2, <1>3, <1>4, Parts DEF TypeOK
<1>6. Busy' = Busy /\ Leftover' = Leftover /\ Undisturbed' = Undisturbed /\ Asked' = Asked
  BY <1>2 DEF Busy, Leftover, Undisturbed, Asked
<1>7. 1 \in DOMAIN queue
  BY <1>2
<1>8. LeftoverInv'
  <2>1. Len(queue') + Len(stream') = Len(queue) + Len(stream)
    BY <1>2, <1>3, <1>4
  <2>2. a.kind \in Leftover \cup {"missing"} \/ (Busy /\ a.kind = call.kind)
    BY <1>1, <1>3, <1>7, Parts DEF LeftoverInv
  <2>3. \A i \in DOMAIN stream' :
           stream'[i].kind \in Leftover \cup {"missing"} \/ (Busy /\ stream'[i].kind = call.kind)
    BY <1>4, <2>2, Parts DEF LeftoverInv
  <2>4. \A i \in DOMAIN queue' :
           queue'[i].kind \in Leftover \/ (Busy /\ queue'[i].kind = call.kind)
    BY <1>3, Parts DEF LeftoverInv
  <2> QED
    BY <1>2, <1>6, <2>1, <2>3, <2>4, Parts DEF LeftoverInv
<1>9. WaitingInv'
  <2>1. WaitingInv /\ CollectedInv
    BY Parts
  <2>2. ASSUME Busy, Undisturbed, NEW i \in DOMAIN queue', queue'[i].kind = call.kind
        PROVE  i = Len(queue') /\ Lower(queue'[i]) = Asked /\ queue'[i].to = call.to
    <3>1. i + 1 \in DOMAIN queue /\ queue'[i] = queue[i + 1]
      BY <1>3, <2>2
    <3> QED
      BY <1>3, <2>1, <2>2, <3>1 DEF WaitingInv
  <2>3. ASSUME Busy, Undisturbed, NEW i \in DOMAIN stream', stream'[i].kind = call.kind
        PROVE  i = Len(stream') /\ queue' = <<>> /\ PageOf(stream'[i], Asked)
    <3>1. i = s + 1 /\ stream'[i] = a
      BY <1>2, <1>4, <2>1, <2>3 DEF WaitingInv
    <3>2. a.kind # "missing"
      BY <2>3, <3>1, Parts, CallType DEF Kinds
    <3>3. 1 = q /\ Lower(h) = Asked /\ h.to = call.to
      BY <1>1, <1>3, <1>7, <2>1, <2>3, <3>1, <3>2 DEF WaitingInv
    <3>4. call.always \subseteq listed /\ listed \subseteq call.ever
      BY <2>1, <2>3 DEF CollectedInv
    <3>5. PageOf(a, Asked)
      BY <1>1, <3>2, <3>3, <3>4
    <3>6. queue' = <<>>
      <4>1. Len(queue') = 0 /\ queue' \in Seq(Requests)
        <5>1. queue' \in Seq(Requests) /\ Len(queue') = q - 1
          BY <1>3
        <5>2. q - 1 = 0
          BY <1>2, <3>3
        <5> QED
          BY <5>1, <5>2
      <4> QED
        BY <4>1, EmptySeq
    <3> QED
      BY <1>4, <3>1, <3>5, <3>6
  <2> QED
    BY <1>2, <1>6, <2>1, <2>2, <2>3 DEF WaitingInv, PageOf, Lower
<1>10. CollectedInv' /\ ListingComplete' /\ MoreIsHonest' /\ PagesAdvance'
  <2>1. CollectedInv /\ ListingComplete /\ MoreIsHonest /\ PagesAdvance
    BY Parts
  <2> QED
    BY <1>2, <1>6, <2>1
       DEF CollectedInv, ListingComplete, MoreIsHonest, PagesAdvance, InRange, Ascending
<1> QED
  BY <1>5, <1>8, <1>9, <1>10 DEF IInv

\* A page stays a part of what was listed throughout the call.
LEMMA ChangeStep ==
    ASSUME IInv, NEW list \in SUBSET Ids, Change(list)
    PROVE  IInv'
<1>1. /\ listed' = list /\ changes' \in 0..MaxChanges
      /\ UNCHANGED <<queue, stream, lossy, late, made>>
  BY Parts, BoundAssumption DEF Change
<1>2. CASE ~Busy
  <2>1. UNCHANGED call
    BY <1>2 DEF Change
  <2>2. Busy' = Busy /\ Leftover' = Leftover
    BY <1>1, <2>1 DEF Busy, Leftover
  <2>3. TypeOK'
    BY <1>1, <2>1, Parts DEF TypeOK
  <2>4. LeftoverInv' /\ WaitingInv' /\ CollectedInv'
    BY <1>1, <1>2, <2>1, <2>2, Parts DEF LeftoverInv, WaitingInv, CollectedInv
  <2>5. ListingComplete' /\ MoreIsHonest' /\ PagesAdvance'
    <3>1. ListingComplete /\ MoreIsHonest /\ PagesAdvance
      BY Parts
    <3> QED
      BY <1>1, <2>1, <3>1
         DEF ListingComplete, MoreIsHonest, PagesAdvance, InRange, Ascending, Undisturbed
  <2> QED
    BY <2>3, <2>4, <2>5 DEF IInv
<1>3. CASE Busy
  <2> PICK x, y : /\ y = call
                  /\ x = [y EXCEPT !.always = @ \cap list, !.ever = @ \cup list]
    OBVIOUS
  <2>1. call' = x /\ y \in Calls /\ y.result = "waiting"
    BY <1>3, Parts DEF Change, Busy
  <2>2. /\ x \in Calls /\ x.kind = y.kind /\ x.from = y.from /\ x.to = y.to /\ x.ids = y.ids
        /\ x.asked = y.asked /\ x.result = y.result
        /\ x.always = y.always \cap list /\ x.ever = y.ever \cup list
    BY <2>1 DEF Calls
  <2>3. TypeOK'
    BY <1>1, <2>1, <2>2, Parts DEF TypeOK
  <2>4. Busy' /\ Leftover' = Leftover /\ Undisturbed' = Undisturbed /\ Asked' = Asked
    BY <1>1, <2>1, <2>2 DEF Busy, Leftover, Undisturbed, Asked
  <2>5. LeftoverInv'
    BY <1>1, <1>3, <2>1, <2>2, <2>4, Parts DEF LeftoverInv
  <2>6. \A p, lo : PageOf(p, lo) => PageOf(p, lo)'
    BY <2>1, <2>2 DEF PageOf, Ascending
  <2>7. WaitingInv'
    <3>1. ASSUME Undisturbed, NEW m \in DOMAIN stream, stream[m].kind = y.kind
          PROVE  m = Len(stream) /\ queue = <<>> /\ PageOf(stream[m], Asked)'
      <4>1. PICK p, lo : p = stream[m] /\ lo = Asked
        OBVIOUS
      <4>2. m = Len(stream) /\ queue = <<>> /\ PageOf(p, lo)
        BY <1>3, <3>1, <4>1, Parts DEF WaitingInv
      <4>3. PageOf(p, lo)'
        BY <2>6, <4>2
      <4> QED
        BY <1>1, <2>4, <4>1, <4>2, <4>3 DEF PageOf
    <3> QED
      BY <1>1, <1>3, <2>1, <2>2, <2>4, <3>1, Parts DEF WaitingInv, Lower
  <2>8. CollectedInv' /\ PagesAdvance'
    BY <1>1, <1>3, <2>1, <2>2, <2>4, Parts
       DEF CollectedInv, PagesAdvance, InRange, Ascending
  <2>9. ListingComplete' /\ MoreIsHonest'
    BY <2>1, <2>2 DEF ListingComplete, MoreIsHonest
  <2> QED
    BY <2>3, <2>5, <2>7, <2>8, <2>9 DEF IInv
<1> QED
  BY <1>2, <1>3

\* No page of the call's kind is on its way when the call begins, unless one was
\* left over.
LEMMA BeginStep ==
    ASSUME IInv, NEW kind \in Kinds, NEW from \in 0..MaxId, NEW to \in Ids,
           NEW limit \in 0..MaxLimit, NEW auto \in BOOLEAN, Begin(kind, from, to, limit, auto)
    PROVE  IInv'
<1> PICK z, x, request, q :
        /\ z = [NoCall EXCEPT !.kind = kind, !.from = from, !.to = to, !.limit = limit,
                              !.auto = auto, !.result = "waiting", !.always = listed,
                              !.ever = listed]
        /\ request = [kind |-> kind, from |-> from, to |-> to, skip |-> FALSE]
        /\ x = [z EXCEPT !.asked = Append(@, from)]
        /\ q = Len(queue)
  OBVIOUS
<1>1. from \in 0..(MaxId + 1) /\ from \in Int
  BY BoundAssumption
<1>2. /\ z \in Calls /\ z.kind = kind /\ z.from = from /\ z.to = to /\ z.ids = <<>>
      /\ z.asked = <<>> /\ z.result = "waiting" /\ z.always = listed /\ z.ever = listed
  BY <1>1, NoCallType, Parts DEF Calls, NoCall, Outcomes
<1>3. /\ Lower(request) = from /\ request \in Requests /\ request.kind = kind
      /\ request.to = to
  BY <1>1 DEF Lower, Requests
<1>4. /\ queue' = Append(queue, request) /\ call' = x /\ late' = Leftover /\ ~Busy
      /\ made' \in 0..MaxCalls /\ UNCHANGED <<listed, changes, stream, lossy>>
  <2>1. /\ Ask(z, from, FALSE) /\ late' = Leftover /\ ~Busy /\ made' = made + 1
        /\ made < MaxCalls /\ UNCHANGED <<listed, changes, stream, lossy>>
    BY DEF Begin
  <2>2. made' \in 0..MaxCalls
    BY <2>1, Parts, BoundAssumption
  <2> QED
    BY <1>2, <1>3, <2>1, <2>2 DEF Ask
<1>5. /\ x \in Calls /\ x.kind = kind /\ x.from = from /\ x.to = to /\ x.ids = <<>>
      /\ x.asked = <<from>> /\ x.result = "waiting" /\ x.always = listed /\ x.ever = listed
  <2>1. <<from>> \in Seq(0..(MaxId + 1)) /\ Append(<<>>, from) = <<from>>
    BY <1>1
  <2> QED
    <3>1. x = [z EXCEPT !.asked = <<from>>]
      BY <1>2, <2>1
    <3> QED
      BY <1>2, <2>1, <3>1 DEF Calls
<1>6. /\ q \in Nat /\ queue' \in Seq(Requests) /\ Len(queue') = q + 1
      /\ DOMAIN queue' = 1..(q + 1) /\ queue'[q + 1] = request /\ DOMAIN queue = 1..q
      /\ \A i \in 1..(q + 1) : i = q + 1 \/ (i \in 1..q /\ queue'[i] = queue[i])
  BY <1>3, <1>4, Parts
<1>7. Leftover \subseteq Kinds
  BY Parts, CallType DEF Leftover
<1>8. TypeOK'
  BY <1>4, <1>5, <1>6, <1>7, Parts DEF TypeOK
<1>9. Busy' /\ Leftover' = Leftover
  BY <1>4, <1>5 DEF Busy, Leftover
<1>10. /\ \A i \in DOMAIN queue : queue[i].kind \in Leftover
       /\ \A m \in DOMAIN stream : stream[m].kind \in Leftover \cup {"missing"}
       /\ Leftover = {} => q + Len(stream) <= 0
  BY <1>4, Parts DEF LeftoverInv
<1>11. LeftoverInv'
  <2>1. \A i \in DOMAIN queue' : queue'[i].kind \in Leftover \/ queue'[i].kind = kind
    BY <1>3, <1>6, <1>10
  <2>2. Leftover = {} => Len(queue') + Len(stream') <= 1
    BY <1>4, <1>6, <1>10, Parts
  <2> QED
    BY <1>4, <1>5, <1>9, <1>10, <2>1, <2>2 DEF LeftoverInv
<1>12. Asked' = from /\ call'.asked # <<>> /\ (Undisturbed' <=> kind \notin Leftover)
  <2>1. Len(<<from>>) = 1 /\ <<from>>[1] = from /\ <<from>> # <<>>
    OBVIOUS
  <2>2. Asked' = from /\ call'.asked # <<>>
    BY <1>4, <1>5, <2>1 DEF Asked
  <2>3. Undisturbed' <=> kind \notin Leftover
    BY <1>4, <1>5 DEF Undisturbed
  <2> QED
    BY <2>2, <2>3
<1>13. WaitingInv'
  <2>1. ASSUME kind \notin Leftover
        PROVE  /\ \A i \in DOMAIN queue' : queue'[i].kind = kind =>
                     i = Len(queue') /\ Lower(queue'[i]) = from /\ queue'[i].to = to
               /\ \A m \in DOMAIN stream' : stream'[m].kind # kind
    <3>1. kind # "missing"
      BY DEF Kinds
    <3> QED
      BY <1>3, <1>4, <1>6, <1>10, <2>1, <3>1
  <2> QED
    BY <1>4, <1>5, <1>9, <1>12, <2>1 DEF WaitingInv, Lower
<1>14. DOMAIN x.asked = {1} /\ x.asked[1] = from /\ DOMAIN x.ids = {} /\ ToSet(x.ids) = {}
  BY <1>5 DEF ToSet
<1>15. CollectedInv'
  <2>1. \A i \in DOMAIN x.asked : from <= x.asked[i]
    BY <1>1, <1>14
  <2>2. {i \in InRange(call.always)' : i < from} = {}
    <3>1. InRange(call.always)' = {i \in listed : i >= from /\ i <= to}
      BY <1>4, <1>5 DEF InRange
    <3>2. \A i \in listed : i \in Int
      BY Parts, IdsInt
    <3> QED
      BY <1>1, <3>1, <3>2
  <2> QED
    BY <1>4, <1>5, <1>12, <1>14, <2>1, <2>2 DEF CollectedInv
<1>16. PagesAdvance' /\ ListingComplete' /\ MoreIsHonest'
  <2>1. Ascending(call.ids)' /\ Ascending(call.asked)'
    BY <1>4, <1>14 DEF Ascending
  <2> QED
    BY <1>4, <1>5, <2>1 DEF PagesAdvance, ListingComplete, MoreIsHonest
<1> QED
  BY <1>8, <1>11, <1>13, <1>15, <1>16 DEF IInv

-----------------------------------------------------------------------------
(* The theorems. *)

LEMMA InitInv == Init => IInv
<1> SUFFICES ASSUME Init PROVE IInv
  OBVIOUS
<1>1. /\ Len(queue) = 0 /\ Len(stream) = 0 /\ DOMAIN queue = {} /\ DOMAIN stream = {}
      /\ queue \in Seq(Requests) /\ stream \in Seq(Answers)
  BY DEF Init
<1>2. NoCall.result = "missing" /\ NoCall.ids = <<>> /\ NoCall.asked = <<>>
  BY DEF NoCall
<1>3. TypeOK
  <2>1. changes \in 0..MaxChanges /\ made \in 0..MaxCalls
    BY BoundAssumption DEF Init
  <2> QED
    BY <1>1, <2>1, NoCallType DEF Init, TypeOK
<1>4. ~Busy /\ call.result # "done"
  BY <1>2 DEF Init, Busy
<1>5. LeftoverInv
  BY <1>1, <1>4 DEF LeftoverInv
<1>6. PagesAdvance
  BY <1>2 DEF Init, PagesAdvance, Ascending
<1> QED
  BY <1>3, <1>4, <1>5, <1>6 DEF IInv, WaitingInv, CollectedInv, ListingComplete, MoreIsHonest

LEMMA NextInv == IInv /\ [Next]_vars => IInv'
<1> SUFFICES ASSUME IInv, [Next]_vars PROVE IInv'
  OBVIOUS
<1>1. CASE NodeServe
  BY <1>1, NodeServeStep
<1>2. ASSUME NEW list \in SUBSET Ids, Change(list) PROVE IInv'
  BY <1>2, ChangeStep
<1>3. ASSUME NEW from \in 0..MaxId, NEW limit \in 0..MaxLimit, NEW auto \in BOOLEAN,
             GetAssets(from, limit, auto)
      PROVE  IInv'
  <2>1. Begin("assets", from, MaxId, limit, auto) /\ "assets" \in Kinds /\ MaxId \in Ids
    BY <1>3, BoundAssumption DEF GetAssets, Kinds, Ids
  <2> QED
    BY <2>1, BeginStep
<1>4. ASSUME NEW from \in Ids, NEW to \in Ids, NEW limit \in 0..MaxLimit,
             CollectVars(from, to, limit) \/ CollectLogs(from, to, limit)
      PROVE  IInv'
  <2>1. /\ Begin("vars", from, to, limit, TRUE) \/ Begin("logs", from, to, limit, FALSE)
        /\ "vars" \in Kinds /\ "logs" \in Kinds /\ TRUE \in BOOLEAN /\ FALSE \in BOOLEAN
        /\ from \in 0..MaxId
    <3>1. "vars" \in Kinds /\ "logs" \in Kinds /\ from \in 0..MaxId
      BY BoundAssumption DEF Kinds, Ids
    <3>2. Begin("vars", from, to, limit, TRUE) \/ Begin("logs", from, to, limit, FALSE)
      BY <1>4 DEF CollectVars, CollectLogs
    <3> QED
      BY <3>1, <3>2
  <2> QED
    BY <2>1, BeginStep
<1>5. ASSUME NEW m \in DOMAIN stream,
             RecvAssets(m) \/ RecvVars(m) \/ RecvLogs(m) \/ RecvMissing(m) \/ RecvIgnored(m)
      PROVE  IInv'
  BY <1>5, RecvAssetsStep, RecvVarsStep, RecvLogsStep, RecvMissingStep, RecvIgnoredStep
<1>6. CASE RecvTimeout
  BY <1>6, RecvTimeoutStep
<1>7. CASE UNCHANGED vars
  <2>1. /\ TypeOK /\ LeftoverInv /\ WaitingInv /\ CollectedInv
        /\ ListingComplete /\ MoreIsHonest /\ PagesAdvance
    BY Parts
  <2> QED
    BY <1>7, <2>1
       DEF vars, IInv, TypeOK, LeftoverInv, Leftover, WaitingInv, CollectedInv, ListingComplete,
           MoreIsHonest, PagesAdvance, Busy, Asked, Undisturbed, InRange, PageOf
<1> QED
  BY <1>1, <1>2, <1>3, <1>4, <1>5, <1>6, <1>7 DEF Next

\* The invariant holds in every state: what the node sends or has to send is
\* left over from earlier calls or is the one answer to the latest, and what a
\* call has collected is the list up to where its next page starts.
THEOREM Inductive == Spec => []IInv
BY InitInv, NextInv, PTL DEF Spec

\* Every variable has its type.
THEOREM TypeCorrect == Spec => []TypeOK
<1>1. IInv => TypeOK
  BY DEF IInv
<1> QED
  BY <1>1, Inductive, PTL

\* A listing that does not say that there is more misses no entry that was
\* listed throughout the call, and has none that never was (get_assets_list_at,
\* and the loops of the examples).
THEOREM Complete == Spec => []ListingComplete
<1>1. IInv => ListingComplete
  BY DEF IInv
<1> QED
  BY <1>1, Inductive, PTL

\* A listing says that there is more only if there is an entry behind its last.
THEOREM Honesty == Spec => []MoreIsHonest
<1>1. IInv => MoreIsHonest
  BY DEF IInv
<1> QED
  BY <1>1, Inductive, PTL

\* Pages never overlap, and each page asked for starts behind the one before.
THEOREM Advance == Spec => []PagesAdvance
<1>1. IInv => PagesAdvance
  BY DEF IInv
<1> QED
  BY <1>1, Inductive, PTL

\* An ascending sequence of natural numbers outruns its positions.
LEMMA AscendingBound ==
    ASSUME NEW s \in Seq(Nat), Ascending(s)
    PROVE  \A i \in DOMAIN s : i <= s[i] + 1
<1>1. Len(s) \in Nat /\ DOMAIN s = 1..Len(s) /\ \A i \in DOMAIN s : s[i] \in Nat
  OBVIOUS
<1> SUFFICES ASSUME {i \in DOMAIN s : ~(i <= s[i] + 1)} # {} PROVE FALSE
  OBVIOUS
<1> PICK T : T = {i \in DOMAIN s : ~(i <= s[i] + 1)}
  OBVIOUS
<1>2. PICK i \in T : \A j \in T : i <= j
  <2>1. T # {} /\ T \subseteq Nat
    BY <1>1
  <2> QED
    BY <2>1, LeastNatural
<1>3. i \in 1..Len(s) /\ s[i] \in Nat /\ i > s[i] + 1
  BY <1>1
<1>4. i - 1 \in 1..Len(s) /\ i - 1 < i
  BY <1>1, <1>3
<1>5. s[i - 1] < s[i] /\ s[i - 1] \in Nat
  BY <1>1, <1>3, <1>4 DEF Ascending
<1>6. i - 1 \in T
  BY <1>1, <1>3, <1>4, <1>5
<1> QED
  BY <1>2, <1>3, <1>4, <1>6

\* A call asks for a bounded number of pages, since each starts behind the one
\* before (the paging loops of get_assets_list_at and of the examples).
THEOREM PagesBounded == Spec => []FewPages
<1>1. ASSUME IInv PROVE FewPages
  <2> SUFFICES ASSUME Undisturbed PROVE Len(call.asked) <= MaxId + 2
    BY DEF FewPages
  <2> PICK s : s = call.asked
    OBVIOUS
  <2>1. MaxId \in Nat
    BY BoundAssumption
  <2>2. s \in Seq(0..(MaxId + 1)) /\ Ascending(s)
    BY <1>1 DEF IInv, TypeOK, Calls, PagesAdvance
  <2>3. s \in Seq(Nat) /\ Len(s) \in Nat /\ DOMAIN s = 1..Len(s)
        /\ \A i \in DOMAIN s : s[i] \in Nat /\ s[i] <= MaxId + 1
    BY <2>1, <2>2
  <2>4. CASE s = <<>>
    BY <2>1, <2>4
  <2>5. CASE s # <<>>
    <3>1. Len(s) \in DOMAIN s
      BY <2>3, <2>5
    <3>2. Len(s) <= s[Len(s)] + 1
      BY <2>2, <2>3, <3>1, AscendingBound
    <3> QED
      BY <2>1, <2>3, <3>1, <3>2
  <2> QED
    BY <2>4, <2>5
<1> QED
  BY <1>1, Inductive, PTL
=============================================================================
