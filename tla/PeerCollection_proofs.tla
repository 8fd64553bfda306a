------------------------ MODULE PeerCollection_proofs ------------------------
(***************************************************************************)
(* Proofs about PeerCollection, for every set of identities, addresses and *)
(* message types, every timeout and every bound.                           *)
(***************************************************************************)
EXTENDS PeerCollection, Ranks_proofs

LEMMA MessageFields ==
    ASSUME NEW m \in Messages
    PROVE  /\ m.ok \in BOOLEAN
           /\ m.type = "PEER_INFO" => m.addr \in Addresses /\ m.id \in PeerIds
BY ClockAssumption DEF Messages

LEMMA ReplyType == \A t \in DOMAIN Reply : Reply[t] \in {"PONG", "TIME"}
BY DEF Reply

\* What taking a message does, whatever the message.
LEMMA TakeFacts ==
    ASSUME TypeOK, Take
    PROVE  /\ read \in Nat /\ read + 1 \in 1..Len(stream) /\ Message \in Messages
           /\ read' = read + 1 /\ read' \in 0..Len(stream)
           /\ late' \in 0..read'
           /\ stream' = stream /\ now' = now /\ nodeUp' = nodeUp
<1>1. stream \in Seq(Messages) /\ Len(stream) \in Nat /\ read \in 0..Len(stream)
      /\ queued \in 0..Len(stream) /\ late \in 0..read
  BY DEF TypeOK
<1>2. read < Len(stream)
  BY <1>1 DEF Take
<1>3. Message \in Messages
  BY <1>1, <1>2 DEF Message
<1>4. late' \in 0..(read + 1)
  BY <1>1 DEF Take
<1> QED
  BY <1>1, <1>2, <1>3, <1>4 DEF Take

LEMMA TakeType ==
    ASSUME TypeOK, Take, pc' \in {"check", "returned", "raised"},
           DOMAIN peers' \subseteq Crawlable, \A a \in DOMAIN peers' : peers'[a] \in PeerIds,
           answered' \in Seq({"PONG", "TIME"})
    PROVE  TypeOK'
BY TakeFacts DEF TypeOK, Take

-----------------------------------------------------------------------------
(* Types. *)

LEMMA InitType == Init => TypeOK
<1> SUFFICES ASSUME Init PROVE TypeOK
  OBVIOUS
<1>1. stream \in Seq(Messages) /\ answered \in Seq({"PONG", "TIME"}) /\ Len(stream) = 0
  BY DEF Init
<1>2. nodeUp \in BOOLEAN
  BY Zenon DEF Init
<1>3. DOMAIN peers \subseteq Crawlable /\ \A a \in DOMAIN peers : peers[a] \in PeerIds
  BY DEF Init
<1> QED
  BY <1>1, <1>2, <1>3, ClockAssumption DEF Init, TypeOK

LEMMA TakePeerType == ASSUME TypeOK, TakePeer PROVE TypeOK'
<1>1. DOMAIN peers' \subseteq Crawlable /\ \A a \in DOMAIN peers' : peers'[a] \in PeerIds
  BY TakeFacts, MessageFields DEF TakePeer, TypeOK
<1> QED
  BY <1>1, TakeType DEF TakePeer, TypeOK

LEMMA TakeKeepAliveType == ASSUME TypeOK, TakeKeepAlive PROVE TypeOK'
<1>1. answered' \in Seq({"PONG", "TIME"})
  BY ReplyType DEF TakeKeepAlive, TypeOK
<1> QED
  BY <1>1, TakeType DEF TakeKeepAlive, TypeOK

LEMMA LoopType == ASSUME TypeOK, LoopStep PROVE TypeOK'
<1>1. CASE Check
  BY <1>1 DEF Check, TypeOK
<1>2. CASE RecvMessage
  BY <1>2 DEF RecvMessage, TypeOK
<1>3. CASE TakeBye
  BY <1>3, TakeType DEF TakeBye, TypeOK
<1>4. CASE TakeOther
  BY <1>4, TakeType DEF TakeOther, TypeOK
<1>5. CASE RecvFails
  BY <1>5 DEF RecvFails, TypeOK
<1> QED
  BY <1>1, <1>2, <1>3, <1>4, <1>5, TakePeerType, TakeKeepAliveType DEF LoopStep

LEMMA NextType == TypeOK /\ [Next]_vars => TypeOK'
<1> SUFFICES ASSUME TypeOK, [Next]_vars PROVE TypeOK'
  OBVIOUS
<1>1. ASSUME NEW m \in Messages, NodeSend(m) PROVE TypeOK'
  <2>1. stream' \in Seq(Messages) /\ Len(stream') = Len(stream) + 1 /\ Len(stream) \in Nat
    BY <1>1 DEF NodeSend, TypeOK
  <2> QED
    BY <1>1, <2>1 DEF NodeSend, TypeOK
<1>2. CASE NodeClose
  <2>1. nodeUp' \in BOOLEAN
    BY <1>2, Zenon DEF NodeClose
  <2> QED
    BY <1>2, <2>1 DEF NodeClose, TypeOK
<1>3. CASE Tick
  BY <1>3, ClockAssumption DEF Tick, TypeOK
<1>4. CASE Start
  BY <1>4 DEF Start, TypeOK
<1>5. CASE UNCHANGED vars
  BY <1>5 DEF vars, TypeOK
<1> QED
  BY <1>1, <1>2, <1>3, <1>4, <1>5, LoopType DEF Next

\* Every variable keeps its type; in particular no more messages are processed
\* than have been written.
THEOREM TypeCorrect == Spec => []TypeOK
<1>1. Init => TypeOK
  BY InitType
<1>2. TypeOK /\ [Next]_vars => TypeOK'
  BY NextType
<1> QED
  BY <1>1, <1>2, PTL DEF Spec
-----------------------------------------------------------------------------
(* The deadline. *)

LEMMA LateStep ==
    ASSUME TypeOK, LateInv, [Next]_vars
    PROVE  LateInv'
<1> USE DEF LateInv, AtMostOneLate
<1>0. now \in Nat /\ late \in Nat /\ Timeout \in Nat
  BY ClockAssumption DEF TypeOK
<1>1. CASE Tick
  BY <1>0, <1>1 DEF Tick
<1>2. CASE Check
  BY <1>0, <1>2 DEF Check
<1>3. ASSUME Take, pc' \in {"check", "returned", "raised"} PROVE LateInv'
  <2>1. late # 1
    BY <1>3 DEF Take
  <2>2. late = 0
    BY <1>0, <2>1
  <2> QED
    BY <1>0, <1>3, <2>2 DEF Take
<1>4. CASE TakePeer \/ TakeKeepAlive \/ TakeBye \/ TakeOther
  BY <1>3, <1>4 DEF TakePeer, TakeKeepAlive, TakeBye, TakeOther
<1>5. CASE RecvMessage \/ RecvFails \/ Start \/ NodeClose \/ UNCHANGED vars
  BY <1>0, <1>5 DEF RecvMessage, RecvFails, Start, NodeClose, vars
<1>6. ASSUME NEW m, NodeSend(m) PROVE LateInv'
  BY <1>6 DEF NodeSend
<1> QED
  BY <1>1, <1>2, <1>4, <1>5, <1>6 DEF Next, LoopStep

-----------------------------------------------------------------------------
(* The dictionary. *)

\* Writing a message changes nothing about those read.
LEMMA SeenSame ==
    ASSUME TypeOK, TypeOK', read' = read, NEW a,
           \/ stream' = stream
           \/ \E m \in Messages : stream' = Append(stream, m)
    PROVE  Seen(a)' = Seen(a) /\ \A i \in 1..read : stream'[i] = stream[i]
<1>1. \A i \in 1..read : stream'[i] = stream[i]
  BY DEF TypeOK
<1> QED
  BY <1>1 DEF Seen

LEMMA KeptSame ==
    ASSUME TypeOK, TypeOK', FirstAdvertisementKept, read' = read, peers' = peers,
           \/ stream' = stream
           \/ \E m \in Messages : stream' = Append(stream, m)
    PROVE  FirstAdvertisementKept'
<1>1. \A a : Seen(a)' = Seen(a)
  BY SeenSame
<1>2. \A i \in 1..read : stream'[i] = stream[i]
  BY SeenSame
<1>3. \A a : Seen(a) \subseteq 1..read
  BY DEF Seen
<1> QED
  BY <1>1, <1>2, <1>3 DEF FirstAdvertisementKept

\* A message read adds to what has been seen only if it is an advertisement.
LEMMA SeenTake ==
    ASSUME TypeOK, Take, NEW a
    PROVE  Seen(a)' = IF Message.type = "PEER_INFO" /\ Message.ok /\ Message.addr = a
                      THEN Seen(a) \cup {read + 1} ELSE Seen(a)
<1>1. read \in Nat /\ read' = read + 1 /\ stream' = stream
  BY TakeFacts
<1>2. 1..(read + 1) = (1..read) \cup {read + 1}
  BY <1>1
<1> QED
  BY <1>1, <1>2 DEF Seen, Message

LEMMA KeptOther ==
    ASSUME TypeOK, FirstAdvertisementKept, Take, peers' = peers, Message.type # "PEER_INFO"
    PROVE  FirstAdvertisementKept'
<1>1. \A a : Seen(a)' = Seen(a)
  BY SeenTake
<1>2. stream' = stream
  BY TakeFacts
<1> QED
  BY <1>1, <1>2 DEF FirstAdvertisementKept

LEMMA KeptPeer ==
    ASSUME TypeOK, FirstAdvertisementKept, TakePeer
    PROVE  FirstAdvertisementKept'
<1> PICK n, b : n = read + 1 /\ b = Message.addr
  OBVIOUS
<1>1. /\ Take /\ read \in Nat /\ stream' = stream
      /\ Message.type = "PEER_INFO" /\ Message = stream[n]
  BY TakeFacts DEF TakePeer, Message
<1>2. \A a : Seen(a) \subseteq 1..read
  BY DEF Seen
<1>3. CASE ~(Message.ok /\ b \in Crawlable)
  <2>1. \A a \in Crawlable : Seen(a)' = Seen(a)
    BY <1>1, <1>3, SeenTake
  <2>2. peers' = peers
    BY <1>3 DEF TakePeer
  <2>3. DOMAIN peers \subseteq Crawlable
    BY DEF TypeOK
  <2> QED
    BY <1>1, <2>1, <2>2, <2>3 DEF FirstAdvertisementKept
<1>4. CASE Message.ok /\ b \in Crawlable
  <2>1. Seen(b)' = Seen(b) \cup {n} /\ \A a : a # b => Seen(a)' = Seen(a)
    <3>1. Seen(b)' = Seen(b) \cup {n}
      BY <1>1, <1>4, SeenTake
    <3>2. ASSUME NEW a, a # b PROVE Seen(a)' = Seen(a)
      BY <1>1, <3>2, SeenTake
    <3> QED
      BY <3>1, <3>2
  <2>0. \A a : Seen(a)' # {} <=> Seen(a) # {} \/ a = b
    BY <2>1
  <2>2. \A i \in Seen(b) : i <= n /\ i \in Int
    BY <1>1, <1>2
  <2>3. CASE b \in DOMAIN peers
    <3>1. peers' = peers
      BY <1>4, <2>3 DEF TakePeer
    <3>2. PICK i \in Seen(b) : (\A j \in Seen(b) : i <= j) /\ peers[b] = stream[i].id
      BY <2>3 DEF FirstAdvertisementKept
    <3>3. i \in Seen(b)' /\ \A j \in Seen(b)' : i <= j
      BY <2>1, <2>2, <3>2
    <3>4. DOMAIN peers' = {a \in Crawlable : Seen(a)' # {}}
      <4>1. DOMAIN peers = {a \in Crawlable : Seen(a) # {}}
        BY DEF FirstAdvertisementKept
      <4> QED
        BY <2>0, <2>3, <3>1, <4>1
    <3>5. ASSUME NEW a \in DOMAIN peers'
          PROVE  \E k \in Seen(a)' : (\A j \in Seen(a)' : k <= j) /\ peers'[a] = stream'[k].id
      <4>1. CASE a = b
        <5>1. peers'[b] = stream'[i].id
          BY <1>1, <3>1, <3>2
        <5> QED
          BY <3>3, <4>1, <5>1
      <4>2. CASE a # b
        BY <1>1, <2>1, <3>1, <3>5, <4>2 DEF FirstAdvertisementKept
      <4> QED
        BY <4>1, <4>2
    <3> QED
      BY <3>4, <3>5 DEF FirstAdvertisementKept
  <2>4. CASE b \notin DOMAIN peers
    <3>1. peers' = [a \in DOMAIN peers \cup {b} |-> IF a = b THEN Message.id ELSE peers[a]]
      BY <1>4, <2>4 DEF TakePeer
    <3>2. Seen(b) = {}
      BY <1>4, <2>4 DEF FirstAdvertisementKept
    <3>3. Seen(b)' = {n}
      BY <2>1, <3>2
    <3>4. DOMAIN peers' = {a \in Crawlable : Seen(a)' # {}}
      <4>1. DOMAIN peers = {a \in Crawlable : Seen(a) # {}}
        BY DEF FirstAdvertisementKept
      <4>2. DOMAIN peers' = DOMAIN peers \cup {b}
        BY <3>1
      <4> QED
        BY <1>4, <2>0, <4>1, <4>2
    <3>5. ASSUME NEW a \in DOMAIN peers'
          PROVE  \E k \in Seen(a)' : (\A j \in Seen(a)' : k <= j) /\ peers'[a] = stream'[k].id
      <4>1. CASE a = b
        <5>1. peers'[b] = stream'[n].id /\ n \in Int
          BY <1>1, <3>1
        <5> QED
          BY <3>3, <4>1, <5>1
      <4>2. CASE a # b
        BY <1>1, <2>1, <3>1, <3>5, <4>2 DEF FirstAdvertisementKept
      <4> QED
        BY <4>1, <4>2
    <3> QED
      BY <3>4, <3>5 DEF FirstAdvertisementKept
  <2> QED
    BY <2>3, <2>4
<1> QED
  BY <1>3, <1>4

LEMMA KeptStep ==
    ASSUME TypeOK, FirstAdvertisementKept, [Next]_vars
    PROVE  FirstAdvertisementKept'
<1>0. TypeOK'
  BY NextType
<1>1. ASSUME NEW m \in Messages, NodeSend(m) PROVE FirstAdvertisementKept'
  BY <1>0, <1>1, KeptSame DEF NodeSend
<1>2. CASE NodeClose \/ Tick \/ Start \/ Check \/ RecvMessage \/ RecvFails \/ UNCHANGED vars
  BY <1>0, <1>2, KeptSame DEF NodeClose, Tick, Start, Check, RecvMessage, RecvFails, vars
<1>3. CASE TakeKeepAlive \/ TakeBye \/ TakeOther
  BY <1>3, KeptOther DEF TakeKeepAlive, TakeBye, TakeOther, Reply
<1> QED
  BY <1>1, <1>2, <1>3, KeptPeer DEF Next, LoopStep

-----------------------------------------------------------------------------
(* Keep-alives. *)

LEMMA AnsweredSame ==
    ASSUME TypeOK, KeepAliveAnswered, UNCHANGED <<read, answered>>, nodeUp' => nodeUp,
           \A i \in 1..read : stream'[i] = stream[i]
    PROVE  KeepAliveAnswered'
<1>1. Asked' = Asked /\ Asked \subseteq 1..read
  BY DEF Asked
<1>2. \A i \in Asked : Rank(Asked, i)' = Rank(Asked, i)
  BY <1>1 DEF Rank
<1> QED
  BY <1>1, <1>2 DEF KeepAliveAnswered

LEMMA AnsweredTake ==
    ASSUME TypeOK, KeepAliveAnswered, Take,
           IF Message.type \in DOMAIN Reply
           THEN nodeUp => answered' = Append(answered, Reply[Message.type])
           ELSE answered' = answered
    PROVE  KeepAliveAnswered'
<1> DEFINE n == read + 1
<1>1. read \in Nat /\ read' = n /\ stream' = stream /\ nodeUp' = nodeUp /\ Message = stream[n]
  BY TakeFacts DEF Message
<1>2. 1..n = (1..read) \cup {n}
  BY <1>1
<1>3. Asked \in SUBSET (1..read)
  BY DEF Asked
<1> SUFFICES ASSUME nodeUp PROVE KeepAliveAnswered'
  BY <1>1 DEF KeepAliveAnswered
<1>4. CASE Message.type \notin DOMAIN Reply
  <2>1. Asked' = Asked
    BY <1>1, <1>2, <1>4 DEF Asked
  <2> QED
    BY <1>1, <1>4, <2>1 DEF KeepAliveAnswered, Rank
<1>5. CASE Message.type \in DOMAIN Reply
  <2>1. Asked' = Asked \cup {n}
    BY <1>1, <1>2, <1>5 DEF Asked
  <2>2. /\ Cardinality(Asked') = Cardinality(Asked) + 1
        /\ Rank(Asked', n) = Cardinality(Asked) + 1
        /\ \A k \in Asked : Rank(Asked', k) = Rank(Asked, k)
    BY <1>1, <1>3, <2>1, RankAdd
  <2>3. \A k \in Asked : Rank(Asked, k) \in 1..Cardinality(Asked)
    BY <1>1, <1>3, RankType
  <2>4. Len(answered) = Cardinality(Asked) /\ answered \in Seq({"PONG", "TIME"})
    BY DEF KeepAliveAnswered, TypeOK
  <2>5. answered' = Append(answered, Reply[stream[n].type])
        /\ Reply[stream[n].type] \in {"PONG", "TIME"}
    BY <1>1, <1>5, ReplyType
  <2>6. /\ Len(answered') = Len(answered) + 1
        /\ answered'[Len(answered) + 1] = Reply[stream[n].type]
        /\ \A k \in 1..Len(answered) : answered'[k] = answered[k]
    BY <2>4, <2>5
  <2>7. ASSUME NEW i \in Asked'
        PROVE  answered'[Rank(Asked', i)] = Reply[stream'[i].type]
    <3>1. CASE i = n
      BY <1>1, <2>2, <2>4, <2>6, <3>1
    <3>2. CASE i \in Asked
      BY <1>1, <2>2, <2>3, <2>4, <2>6, <3>2 DEF KeepAliveAnswered
    <3> QED
      BY <2>1, <3>1, <3>2
  <2> QED
    BY <2>2, <2>4, <2>6, <2>7 DEF KeepAliveAnswered, Rank
<1> QED
  BY <1>4, <1>5

LEMMA AnsweredStep ==
    ASSUME TypeOK, KeepAliveAnswered, [Next]_vars
    PROVE  KeepAliveAnswered'
<1>1. ASSUME NEW m \in Messages, NodeSend(m) PROVE KeepAliveAnswered'
  <2>1. \A i \in 1..read : stream'[i] = stream[i]
    BY <1>1 DEF NodeSend, TypeOK
  <2> QED
    BY <1>1, <2>1, AnsweredSame DEF NodeSend
<1>2. CASE NodeClose \/ Tick \/ Start \/ Check \/ RecvMessage \/ RecvFails \/ UNCHANGED vars
  BY <1>2, AnsweredSame DEF NodeClose, Tick, Start, Check, RecvMessage, RecvFails, vars
<1>3. CASE TakePeer
  BY <1>3, AnsweredTake DEF TakePeer, Reply
<1>4. CASE TakeKeepAlive
  BY <1>4, AnsweredTake DEF TakeKeepAlive
<1>5. CASE TakeBye
  BY <1>5, AnsweredTake DEF TakeBye, Reply
<1>6. CASE TakeOther
  BY <1>6, AnsweredTake DEF TakeOther
<1> QED
  BY <1>1, <1>2, <1>3, <1>4, <1>5, <1>6 DEF Next, LoopStep

-----------------------------------------------------------------------------

LEMMA InitInv == Init => IInv
<1> SUFFICES ASSUME Init PROVE IInv
  OBVIOUS
<1>1. LateInv
  BY DEF Init, LateInv, AtMostOneLate
<1>2. FirstAdvertisementKept
  BY DEF Init, FirstAdvertisementKept, Seen
<1>3. KeepAliveAnswered
  <2>1. Asked = {} /\ Len(answered) = 0
    BY DEF Init, Asked
  <2> QED
    BY <2>1, FS_EmptySet DEF KeepAliveAnswered
<1> QED
  BY <1>1, <1>2, <1>3, InitType DEF IInv

THEOREM Inductive == Spec => []IInv
<1>1. Init => IInv
  BY InitInv
<1>2. IInv /\ [Next]_vars => IInv'
  BY NextType, LateStep, KeptStep, AnsweredStep DEF IInv
<1> QED
  BY <1>1, <1>2, PTL DEF Spec

\* However many messages wait, at most one is processed after the deadline.
THEOREM OneLateMessage == Spec => []AtMostOneLate
<1>1. IInv => AtMostOneLate
  BY DEF IInv, LateInv
<1> QED
  BY <1>1, Inductive, PTL

\* The dictionary has every crawlable address advertised, under the identity
\* it was first advertised with.
THEOREM FirstOneWins == Spec => []FirstAdvertisementKept
<1>1. IInv => FirstAdvertisementKept
  BY DEF IInv
<1> QED
  BY <1>1, Inductive, PTL

\* Pings and time requests are answered in kind and in order.
THEOREM KeptAlive == Spec => []KeepAliveAnswered
<1>1. IInv => KeepAliveAnswered
  BY DEF IInv
<1> QED
  BY <1>1, Inductive, PTL
=============================================================================
