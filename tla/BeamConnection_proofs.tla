----------------------- MODULE BeamConnection_proofs ------------------------
(***************************************************************************)
(* Proofs about BeamConnection, for every header size, MAC size, frame     *)
(* limit, set of payload sizes and bound.                                  *)
(***************************************************************************)
EXTENDS BeamConnection, Ranks_proofs, SequenceTheorems

\* A recorded frame ends at a natural offset, not before it starts.
LEMMA EndType ==
    ASSUME TypeOK, NEW i \in DOMAIN sent
    PROVE  End(i) \in Nat /\ sent[i] \in Frames /\ sent[i].start + HeaderSize <= End(i)
<1>1. sent \in Seq(Frames)
  BY DEF TypeOK
<1>2. sent[i] \in Frames
  BY <1>1
<1>3. sent[i].start \in Nat /\ sent[i].size \in Nat
  BY <1>2 DEF Frames
<1> QED
  BY <1>2, <1>3, SizeAssumption DEF End

LEMMA SentBytesType == TypeOK => SentBytes \in Nat
<1> SUFFICES ASSUME TypeOK, sent # <<>> PROVE End(Len(sent)) \in Nat
  BY DEF SentBytes
<1>1. Len(sent) \in DOMAIN sent
  BY DEF TypeOK
<1> QED
  BY <1>1, EndType

\* Writing a frame leaves the frames before it where they are.
LEMMA AppendFrame ==
    ASSUME TypeOK, NEW f \in Frames, f.start = SentBytes, sent' = Append(sent, f)
    PROVE  /\ sent' \in Seq(Frames)
           /\ DOMAIN sent' = 1..(Len(sent) + 1)
           /\ Len(sent') = Len(sent) + 1
           /\ \A i \in DOMAIN sent : sent'[i] = sent[i] /\ End(i)' = End(i)
           /\ sent'[Len(sent) + 1] = f
           /\ SentBytes' = SentBytes + HeaderSize + f.size
           /\ SentBytes <= SentBytes'
<1>1. sent \in Seq(Frames) /\ Len(sent) \in Nat /\ DOMAIN sent = 1..Len(sent)
  BY DEF TypeOK
<1>2. sent' # <<>> /\ Len(sent') = Len(sent) + 1 /\ sent' \in Seq(Frames)
  BY <1>1
<1>3. sent'[Len(sent) + 1] = f /\ \A i \in DOMAIN sent : sent'[i] = sent[i]
  BY <1>1
<1>4. SentBytes' = SentBytes + HeaderSize + f.size
  BY <1>2, <1>3 DEF SentBytes, End
<1>5. SentBytes \in Nat /\ f.size \in Nat
  BY SentBytesType DEF Frames
<1> QED
  BY <1>1, <1>2, <1>3, <1>4, <1>5, SizeAssumption DEF End

-----------------------------------------------------------------------------
(* Types. *)

LEMMA InitType == Init => TypeOK
<1> SUFFICES ASSUME Init PROVE TypeOK
  OBVIOUS
<1>1. sent \in Seq(Frames) /\ pending \in Seq(Nat) /\ out \in Seq(Sends)
      /\ accepted \in Seq(Nat) /\ delivered \in Seq(Nat)
  BY DEF Init
<1>2. SentBytes = 0
  BY DEF Init, SentBytes
<1>3. nodeUp \in BOOLEAN /\ eof \in BOOLEAN /\ in_on \in BOOLEAN /\ out_on \in BOOLEAN
      /\ faulted \in BOOLEAN
  BY Zenon DEF Init
<1>4. base \in Nat \cup {-1} /\ arrived \in 0..0 /\ consumed \in 0..arrived /\ dec \in Nat
      /\ hdr \in [idx: Nat, size: Nat]
  BY DEF Init
<1>5. sockTimeout \in {"finite", "none"} /\ phase \in Phases
      /\ rx \in {"idle", "header", "body"} /\ raised \in Outcomes
  BY DEF Init, Phases, Outcomes
<1> QED
  BY <1>1, <1>2, <1>3, <1>4, <1>5, Zenon DEF TypeOK

LEMMA NodeSendType ==
    ASSUME TypeOK, NEW type \in NodeTypes, NEW n \in PayloadSizes, NEW ok \in BOOLEAN,
           NodeSend(type, n, ok)
    PROVE  TypeOK'
<1> DEFINE f == [type |-> type, start |-> SentBytes, secure |-> base # -1, ok |-> ok,
                 size |-> IF base = -1 THEN n ELSE n + MacSize]
<1>1. SentBytes \in Nat
  BY SentBytesType
<1>2. f \in Frames /\ f.start = SentBytes /\ sent' = Append(sent, f)
  BY <1>1, SizeAssumption, NodeAssumption DEF NodeSend, Frames
<1>3. sent' \in Seq(Frames) /\ SentBytes <= SentBytes' /\ SentBytes' \in Nat
  <2> HIDE DEF f
  <2>1. f.size \in Nat
    BY <1>2 DEF Frames
  <2> QED
    BY <1>1, <1>2, <2>1, AppendFrame, SizeAssumption
<1>4. base' \in Nat \cup {-1}
  BY <1>1, SizeAssumption DEF NodeSend, TypeOK
<1> QED
  BY <1>1, <1>3, <1>4 DEF NodeSend, TypeOK, sock, switches, stream, app, call

\* Taking bytes out of _buf that are there.
LEMMA ConsumeType ==
    ASSUME TypeOK, NEW n \in Nat, n <= arrived - consumed, Consume(n)
    PROVE  consumed' \in 0..arrived /\ dec' \in Nat
BY SentBytesType DEF TypeOK, Consume

LEMMA RaiseType ==
    ASSUME TypeOK, NEW e \in Outcomes, Raise(e)
    PROVE  /\ rx' \in {"idle", "header", "body"}
           /\ hdr' \in [idx: Nat, size: Nat]
           /\ raised' \in Outcomes
           /\ phase' \in Phases
BY DEF TypeOK, Raise, Phases

LEMMA NextRecvType ==
    ASSUME TypeOK, NextRecv
    PROVE  /\ rx' \in {"idle", "header", "body"}
           /\ hdr' \in [idx: Nat, size: Nat]
           /\ raised' \in Outcomes
BY DEF TypeOK, NextRecv

LEMMA RecvBodyType ==
    ASSUME TypeOK, RecvBody
    PROVE  consumed' \in 0..arrived' /\ dec' \in Nat
<1>1. hdr.size \in Nat /\ hdr.size <= arrived - consumed
  BY SentBytesType DEF TypeOK, RecvBody, Short, Needed
<1>2. arrived' = arrived /\ Consume(hdr.size)
  BY DEF RecvBody, sock
<1> QED
  BY <1>1, <1>2, ConsumeType

LEMMA MessageType ==
    ASSUME TypeOK, Message
    PROVE  /\ consumed' \in 0..arrived' /\ dec' \in Nat
           /\ accepted' \in Seq(Nat)
           /\ hdr.idx \in Nat
BY RecvBodyType DEF TypeOK, Message

LEMMA ReadHeaderType ==
    ASSUME TypeOK, rx = "header", ~Short, Consume(HeaderSize)
    PROVE  consumed' \in 0..arrived /\ dec' \in Nat
<1>1. HeaderSize <= arrived - consumed
  BY SentBytesType, SizeAssumption DEF TypeOK, Short, Needed
<1> QED
  BY <1>1, ConsumeType, SizeAssumption

LEMMA SendType ==
    ASSUME TypeOK, NEW type \in MessageTypes
    PROVE  Append(out, Encode(type)) \in Seq(Sends)
<1>1. Encode(type) \in Sends
  BY DEF TypeOK, Encode, Sends
<1> QED
  BY <1>1 DEF TypeOK

LEMMA SwitchSendsType ==
    /\ SwitchSends \in Seq(Sends)
    /\ \A k \in 0..2 : SubSeq(SwitchSends, 1, k) \in Seq(Sends)
<1>1. SwitchSends \in Seq(Sends) /\ Len(SwitchSends) = 3
  BY DEF SwitchSends, Sends, MessageTypes
<1> QED
  BY <1>1

LEMMA SameSent ==
    ASSUME TypeOK, UNCHANGED sent
    PROVE  SentBytes' = SentBytes /\ \A i \in DOMAIN sent : End(i)' = End(i)
BY DEF SentBytes, End

\* The parts of the state that steps leave alone in the same combinations.
USE DEF node, sock, switches, stream, app, call

LEMMA WaitType ==
    ASSUME TypeOK, WaitStep
    PROVE  TypeOK'
<1>1. ASSUME NEW n \in 1..(SentBytes - arrived), Arrive(n)
      PROVE  TypeOK'
  <2>1. arrived' \in 0..SentBytes' /\ consumed' \in 0..arrived'
    BY <1>1, SentBytesType, SameSent DEF Arrive, TypeOK
  <2> QED
    BY <1>1, <2>1 DEF Arrive, TypeOK
<1>2. ASSUME NEW e \in Outcomes, Abandon(e), eof' \in BOOLEAN
      PROVE  TypeOK'
  <2>1. faulted' \in BOOLEAN
    BY <1>2 DEF Abandon
  <2>2. SentBytes' = SentBytes
    BY <1>2, SameSent DEF Abandon
  <2> QED
    BY <1>2, <2>1, <2>2, RaiseType DEF Abandon, TypeOK
<1>3. CASE RecvTimeout
  <2>1. eof' \in BOOLEAN
    BY <1>3 DEF RecvTimeout, TypeOK
  <2> QED
    BY <1>2, <1>3, <2>1 DEF RecvTimeout, Outcomes
<1>4. CASE RecvEOF
  <2>1. eof' \in BOOLEAN
    BY <1>4, Zenon DEF RecvEOF
  <2> QED
    BY <1>2, <1>4, <2>1 DEF RecvEOF, Outcomes
<1> QED
  BY <1>1, <1>3, <1>4 DEF WaitStep

LEMMA CallType ==
    ASSUME TypeOK, CallStep
    PROVE  TypeOK'
<1>1. CASE RecvHeader
  <2>1. consumed' \in 0..arrived' /\ dec' \in Nat
    BY <1>1, ReadHeaderType DEF RecvHeader
  <2>2. hdr' \in [idx: Nat, size: Nat]
    <3>1. ASSUME NEW i \in DOMAIN sent, hdr' = [idx |-> i, size |-> sent[i].size]
          PROVE  hdr' \in [idx: Nat, size: Nat]
      <4>1. sent[i].size \in Nat /\ i \in Nat
        <5>1. sent \in Seq(Frames)
          BY DEF TypeOK
        <5>2. sent[i] \in Frames
          BY EndType
        <5> QED
          BY <5>1, <5>2 DEF Frames
      <4> QED
        BY <3>1, <4>1
    <3> QED
      BY <1>1, <3>1, SizeAssumption DEF RecvHeader
  <2>3. SentBytes' = SentBytes
    BY <1>1, SameSent DEF RecvHeader
  <2> QED
    BY <1>1, <2>1, <2>2, <2>3 DEF RecvHeader, TypeOK
<1>2. CASE BadHeader
  <2>1. consumed' \in 0..arrived' /\ dec' \in Nat
    BY <1>2, ReadHeaderType DEF BadHeader
  <2>2. SentBytes' = SentBytes
    BY <1>2, SameSent DEF BadHeader
  <2>3. faulted' \in BOOLEAN
    BY <1>2, Zenon DEF BadHeader, TypeOK
  <2> QED
    BY <1>2, <2>1, <2>2, <2>3, RaiseType DEF BadHeader, TypeOK, Outcomes
<1>3. CASE BadBody
  <2>1. SentBytes' = SentBytes
    BY <1>3, SameSent DEF BadBody, RecvBody
  <2> QED
    BY <1>3, <2>1, RecvBodyType, RaiseType DEF BadBody, RecvBody, TypeOK, Outcomes
<1>4. ASSUME Message,
             out_on' \in BOOLEAN, in_on' \in BOOLEAN, faulted' \in BOOLEAN,
             out' \in Seq(Sends), phase' \in Phases, pending' \in Seq(Nat),
             delivered' \in Seq(Nat),
             Raise("runtime") \/ Raise("closed") \/ NextRecv
             \/ (rx' = "idle" /\ hdr' = [idx |-> 0, size |-> 0] /\ raised' = "none")
      PROVE  TypeOK'
  <2>1. SentBytes' = SentBytes
    BY <1>4, SameSent DEF Message, RecvBody
  <2>2. rx' \in {"idle", "header", "body"} /\ hdr' \in [idx: Nat, size: Nat]
        /\ raised' \in Outcomes
    BY <1>4, RaiseType, NextRecvType DEF Outcomes
  <2>3. consumed' \in 0..arrived' /\ dec' \in Nat /\ accepted' \in Seq(Nat)
    BY <1>4, MessageType
  <2> QED
    BY <1>4, <2>1, <2>2, <2>3 DEF Message, RecvBody, TypeOK
<1>5. CASE RecvInit
  <2>1. phase' \in Phases
    BY <1>5, RaiseType DEF RecvInit, Phases, Handshaking, Outcomes
  <2>2. out' \in Seq(Sends)
    <3>1. out \in Seq(Sends) /\ \A s \in Seq(Sends) : out \o s \in Seq(Sends)
      BY DEF TypeOK
    <3>2. \/ out' = out \o SwitchSends
          \/ \E k \in 0..2 : out' = out \o SubSeq(SwitchSends, 1, k)
          \/ out' = out
      BY <1>5 DEF RecvInit
    <3> QED
      BY <3>1, <3>2, SwitchSendsType
  <2>3. out_on' \in BOOLEAN
    BY <1>5, Zenon DEF RecvInit, TypeOK
  <2>4. in_on' \in BOOLEAN /\ faulted' \in BOOLEAN
        /\ pending' \in Seq(Nat) /\ delivered' \in Seq(Nat)
    BY <1>5 DEF RecvInit, TypeOK
  <2> QED
    BY <1>4, <1>5, <2>1, <2>2, <2>3, <2>4 DEF RecvInit
<1>6. CASE RecvReady
  <2>1. phase' \in Phases
    BY <1>6, RaiseType DEF RecvReady, Phases, Handshaking, Outcomes
  <2>2. in_on' \in BOOLEAN
    BY <1>6, Zenon DEF RecvReady, TypeOK
  <2>3. out_on' \in BOOLEAN /\ faulted' \in BOOLEAN /\ out' \in Seq(Sends)
        /\ pending' \in Seq(Nat) /\ delivered' \in Seq(Nat)
    BY <1>6 DEF RecvReady, TypeOK
  <2> QED
    BY <1>4, <1>6, <2>1, <2>2, <2>3 DEF RecvReady
<1>7. CASE LoginAnswer
  <2>1. out' \in Seq(Sends)
    <3>1. \A t \in DOMAIN LoginReply : LoginReply[t] \in MessageTypes
      BY DEF LoginReply, MessageTypes
    <3>2. CASE out' = Append(out, Encode(LoginReply[Received.type]))
      BY <1>7, <3>1, <3>2, SendType DEF LoginAnswer
    <3>3. CASE out' = out
      BY <3>3 DEF TypeOK
    <3> QED
      BY <1>7, <3>2, <3>3 DEF LoginAnswer
  <2>2. phase' \in Phases
    BY <1>7, RaiseType DEF LoginAnswer, TypeOK, Outcomes
  <2>3. out_on' \in BOOLEAN /\ in_on' \in BOOLEAN /\ faulted' \in BOOLEAN
        /\ pending' \in Seq(Nat) /\ delivered' \in Seq(Nat)
    BY <1>7 DEF LoginAnswer, TypeOK
  <2> QED
    BY <1>4, <1>7, <2>1, <2>2, <2>3 DEF LoginAnswer
<1>8. CASE LoginSkip
  BY <1>4, <1>8 DEF LoginSkip, TypeOK
<1>9. CASE LoginRefused
  BY <1>4, <1>9, RaiseType DEF LoginRefused, TypeOK, Outcomes
<1>10. CASE LoginDone
  BY <1>4, <1>10 DEF LoginDone, TypeOK, Phases
<1>11. CASE LoginQueue
  BY <1>4, <1>11, MessageType DEF LoginQueue, TypeOK
<1>12. CASE RecvMessageReturn
  BY <1>4, <1>12, MessageType DEF RecvMessageReturn, TypeOK
<1> QED
  BY <1>1, <1>2, <1>3, <1>5, <1>6, <1>7, <1>8, <1>9, <1>10, <1>11, <1>12 DEF CallStep

LEMMA UserType ==
    ASSUME TypeOK, UserStep
    PROVE  TypeOK'
<1>1. SentBytes' = SentBytes
  BY SameSent DEF UserStep, Connect, Handshake, RecvMessagePending, RecvMessageExpired,
                  RecvMessage, Send, Close
<1>2. CASE Connect
  BY <1>1, <1>2 DEF Connect, TypeOK, Phases
<1>3. CASE Handshake
  <2>1. out' \in Seq(Sends)
    BY <1>3, SendType DEF Handshake, TypeOK, MessageTypes
  <2>2. /\ rx' \in {"idle", "header", "body"}
        /\ hdr' \in [idx: Nat, size: Nat]
        /\ raised' \in Outcomes
        /\ phase' \in Phases
    BY <1>3, RaiseType, NextRecvType DEF Handshake, Phases, Handshaking, Outcomes
  <2> QED
    BY <1>1, <1>3, <2>1, <2>2 DEF Handshake, TypeOK
<1>4. CASE RecvMessagePending
  <2>1. Head(pending) \in Nat /\ Tail(pending) \in Seq(Nat)
    BY <1>4 DEF RecvMessagePending, TypeOK
  <2> QED
    BY <1>1, <1>4, <2>1 DEF RecvMessagePending, TypeOK, Outcomes
<1>5. CASE RecvMessageExpired
  BY <1>1, <1>5 DEF RecvMessageExpired, TypeOK, Outcomes
<1>6. ASSUME NEW t \in {"finite", "none"}, RecvMessage(t)
      PROVE  TypeOK'
  BY <1>1, <1>6 DEF RecvMessage, TypeOK
<1>7. CASE Send
  <2>1. out' \in Seq(Sends)
    BY <1>7, SendType DEF Send, TypeOK, MessageTypes
  <2>2. raised' \in Outcomes
    BY <1>7 DEF Send, Outcomes
  <2> QED
    BY <1>1, <1>7, <2>1, <2>2 DEF Send, TypeOK
<1>8. CASE Close
  <2>1. out' \in Seq(Sends)
    BY <1>8, SendType DEF Close, TypeOK, MessageTypes
  <2> QED
    BY <1>1, <1>8, <2>1 DEF Close, TypeOK, Phases
<1> QED
  BY <1>2, <1>3, <1>4, <1>5, <1>6, <1>7, <1>8 DEF UserStep

LEMMA NodeType ==
    ASSUME TypeOK, NodeStep
    PROVE  TypeOK'
<1>1. CASE NodeClose
  <2>1. SentBytes' = SentBytes
    BY <1>1, SameSent DEF NodeClose
  <2>2. nodeUp' \in BOOLEAN
    BY <1>1, Zenon DEF NodeClose
  <2> QED
    BY <1>1, <2>1, <2>2 DEF NodeClose, TypeOK
<1> QED
  BY <1>1, NodeSendType DEF NodeStep

LEMMA StutterType ==
    ASSUME TypeOK, UNCHANGED vars
    PROVE  TypeOK'
<1>1. SentBytes' = SentBytes
  BY SameSent DEF vars
<1> QED
  BY <1>1 DEF vars, TypeOK

LEMMA NextType == TypeOK /\ [Next]_vars => TypeOK'
BY NodeType, CallType, WaitType, UserType, StutterType DEF Next

\* Every variable keeps its type, and _buf never holds fewer than zero bytes
\* or bytes the node has not written.
THEOREM TypeCorrect == Spec => []TypeOK
<1>1. Init => TypeOK
  BY InitType
<1>2. TypeOK /\ [Next]_vars => TypeOK'
  BY NextType
<1> QED
  BY <1>1, <1>2, PTL DEF Spec

-----------------------------------------------------------------------------
(* The inductive invariant. *)

LEMMA InitInv == Init => IInv
<1> SUFFICES ASSUME Init PROVE IInv
  OBVIOUS
<1>1. TypeOK
  BY InitType
<1>2. StreamLayout
  BY DEF Init, StreamLayout
<1>3. PhaseInv
  BY DEF Init, PhaseInv, Handshaking
<1>4. PositionInv /\ AcceptedInOrder /\ NoSilentLoss
  BY DEF Init, PositionInv, AcceptedInOrder, NoSilentLoss
<1>5. KeystreamInSync
  BY DEF Init, KeystreamInSync
<1> QED
  BY <1>1, <1>2, <1>3, <1>4, <1>5 DEF IInv

\* Facts about frames that the steps below use.
LEMMA SentDomain == TypeOK => Len(sent) \in Nat /\ DOMAIN sent = 1..Len(sent)
BY DEF TypeOK

LEMMA FrameType ==
    ASSUME TypeOK, NEW i \in DOMAIN sent
    PROVE  /\ i \in Nat
           /\ sent[i].start \in Nat /\ sent[i].size \in Nat /\ sent[i].secure \in BOOLEAN
           /\ End(i) = sent[i].start + HeaderSize + sent[i].size
           /\ End(i) \in Nat
           /\ sent[i].start < End(i)
BY EndType, SentDomain, SizeAssumption DEF Frames, End

\* Nothing written lies beyond SentBytes.
LEMMA EndBound ==
    ASSUME TypeOK, StreamLayout, NEW i \in DOMAIN sent
    PROVE  End(i) <= SentBytes
<1>1. Len(sent) \in DOMAIN sent /\ i <= Len(sent) /\ SentBytes = End(Len(sent))
  BY SentDomain DEF SentBytes
<1>2. CASE i = Len(sent)
  BY <1>1, <1>2, FrameType
<1>3. CASE i < Len(sent)
  BY <1>1, <1>3, FrameType DEF StreamLayout
<1> QED
  BY <1>1, <1>2, <1>3, SentDomain

\* Two frames do not start at the same offset, and a frame that starts where
\* another ends is the next one.
LEMMA FrameAt ==
    ASSUME TypeOK, StreamLayout, NEW i \in DOMAIN sent, NEW j \in DOMAIN sent
    PROVE  /\ sent[i].start = sent[j].start => i = j
           /\ End(i) <= sent[j].start => i < j
           /\ End(i) = sent[j].start => j = i + 1
           /\ sent[j].start = 0 => j = 1
<1>1. \A a, b \in DOMAIN sent : sent[a].start = sent[b].start => a = b
  BY SentDomain, FrameType DEF StreamLayout
<1>2. ASSUME End(i) <= sent[j].start PROVE i < j
  <2>1. sent[i].start < End(i) /\ sent[j].start < End(j)
    BY FrameType
  <2>2. j < i => End(j) <= sent[i].start
    BY DEF StreamLayout
  <2>3. i \in Nat /\ j \in Nat /\ sent[i].start \in Nat /\ sent[j].start \in Nat
        /\ End(i) \in Nat /\ End(j) \in Nat
    BY FrameType
  <2> QED
    BY <1>2, <2>1, <2>2, <2>3
<1>3. ASSUME End(i) = sent[j].start PROVE j = i + 1
  <2>1. i + 1 \in DOMAIN sent
    BY <1>2, <1>3, SentDomain, FrameType
  <2>2. sent[i + 1].start = sent[j].start
    BY <1>3, <2>1 DEF StreamLayout
  <2> QED
    BY <1>1, <2>1, <2>2
<1>4. ASSUME sent[j].start = 0 PROVE j = 1
  <2>1. 1 \in DOMAIN sent /\ sent # <<>>
    BY SentDomain
  <2> QED
    BY <1>1, <1>4, <2>1 DEF StreamLayout
<1> QED
  BY <1>1, <1>2, <1>3, <1>4

LEMMA SameLayout ==
    ASSUME TypeOK, StreamLayout, UNCHANGED <<sent, base>>
    PROVE  StreamLayout'
BY DEF StreamLayout, End

LEMMA NodeSendInv ==
    ASSUME IInv, NEW type \in NodeTypes, NEW n \in PayloadSizes, NEW ok \in BOOLEAN,
           NodeSend(type, n, ok)
    PROVE  IInv'
<1> USE DEF IInv
<1> DEFINE f == [type |-> type, start |-> SentBytes, secure |-> base # -1, ok |-> ok,
                 size |-> IF base = -1 THEN n ELSE n + MacSize]
<1>0. PICK new \in Nat : new = Len(sent) + 1
  BY SentDomain
<1>1. f \in Frames /\ f.start = SentBytes /\ sent' = Append(sent, f)
  BY SentBytesType, SizeAssumption, NodeAssumption DEF NodeSend, Frames
<1>2. /\ DOMAIN sent' = 1..new /\ Len(sent') = new /\ sent' # <<>>
      /\ \A i \in DOMAIN sent : sent'[i] = sent[i] /\ End(i)' = End(i)
      /\ sent'[new] = f
  <2> HIDE DEF f
  <2> QED
    BY <1>0, <1>1, AppendFrame, SentDomain
<1>3. DOMAIN sent' = DOMAIN sent \cup {new} /\ new \notin DOMAIN sent
  BY <1>0, <1>2, SentDomain
<1>4. SentBytes \in Nat /\ n \in Nat /\ HeaderSize \in Nat /\ MacSize \in Nat
      /\ base \in Nat \cup {-1}
  BY SentBytesType, SizeAssumption DEF TypeOK
<1>5. /\ base' = (IF type = "SCHANNEL_READY" THEN SentBytes + HeaderSize + n ELSE base)
      /\ type = "SCHANNEL_READY" => base = -1
  BY DEF NodeSend
<1>6. End(new)' = SentBytes + HeaderSize + f.size
  BY <1>2 DEF End
<1>7. UNCHANGED <<arrived, phase, in_on, consumed, dec, rx, hdr, raised, accepted, faulted,
                  pending>>
  BY DEF NodeSend
<1>8. \A i \in DOMAIN sent : sent[i].start < SentBytes /\ sent[i].start \in Nat
                              /\ End(i) <= SentBytes /\ End(i) \in Nat
  BY <1>4, EndBound, FrameType
<1>9. StreamLayout'
  <2>1. sent'[1].start = 0
    <3>1. CASE sent = <<>>
      BY <1>1, <1>2, <3>1 DEF SentBytes
    <3>2. CASE sent # <<>>
      BY <1>2, <3>2, SentDomain DEF StreamLayout
    <3> QED
      BY <3>1, <3>2
  <2>2. ASSUME NEW i \in DOMAIN sent', i + 1 \in DOMAIN sent'
        PROVE  sent'[i + 1].start = End(i)'
    <3>1. i \in DOMAIN sent
      BY <1>0, <1>2, <2>2, SentDomain
    <3>2. CASE i + 1 \in DOMAIN sent
      BY <1>2, <3>1, <3>2 DEF StreamLayout
    <3>3. CASE i + 1 = new
      <4>1. i = Len(sent) /\ sent # <<>> /\ SentBytes = End(i)
        BY <1>0, <3>1, <3>3, SentDomain DEF SentBytes
      <4> QED
        BY <1>1, <1>2, <3>1, <3>3, <4>1
    <3> QED
      BY <1>3, <2>2, <3>2, <3>3
  <2>3. ASSUME NEW i \in DOMAIN sent', NEW j \in DOMAIN sent', i < j
        PROVE  End(i)' <= sent'[j].start
    <3>1. i \in DOMAIN sent
      BY <1>0, <1>2, <2>3, SentDomain
    <3>2. CASE j \in DOMAIN sent
      BY <1>2, <2>3, <3>1, <3>2 DEF StreamLayout
    <3>3. CASE j = new
      BY <1>1, <1>2, <1>8, <3>1, <3>3
    <3> QED
      BY <1>3, <3>2, <3>3
  <2>4. ASSUME NEW i \in DOMAIN sent'
        PROVE  /\ sent'[i].secure <=> base' # -1 /\ sent'[i].start >= base'
               /\ sent'[i].secure => sent'[i].size >= MacSize
               /\ sent'[i].type = "SCHANNEL_READY" => ~sent'[i].secure /\ base' = End(i)'
    <3>1. CASE i \in DOMAIN sent
      <4>1. /\ sent[i].secure <=> base # -1 /\ sent[i].start >= base
            /\ sent[i].secure => sent[i].size >= MacSize
            /\ sent[i].type = "SCHANNEL_READY" => ~sent[i].secure /\ base = End(i)
        BY <3>1 DEF StreamLayout
      <4>2. sent'[i] = sent[i] /\ End(i)' = End(i)
        BY <1>2, <3>1
      <4>3. CASE type = "SCHANNEL_READY"
        BY <1>4, <1>5, <1>8, <3>1, <4>1, <4>2, <4>3
      <4>4. CASE type # "SCHANNEL_READY"
        BY <1>5, <4>1, <4>2, <4>4
      <4> QED
        BY <4>3, <4>4
    <3>2. CASE i = new
      <4>1. base # -1 => base <= SentBytes
        BY <1>8, SentDomain DEF StreamLayout
      <4>2. sent'[i] = f /\ sent'[i].start = SentBytes /\ (sent'[i].secure <=> base # -1)
            /\ sent'[i].type = type /\ sent'[i].size = (IF base = -1 THEN n ELSE n + MacSize)
        <5>1. f.start = SentBytes /\ f.type = type
              /\ f.size = (IF base = -1 THEN n ELSE n + MacSize)
          OBVIOUS
        <5>2. f.secure <=> base # -1
          BY Zenon
        <5> QED
          BY <1>2, <3>2, <5>1, <5>2
      <4>3. CASE type = "SCHANNEL_READY"
        <5>1. base = -1 /\ base' = SentBytes + HeaderSize + n /\ HeaderSize > 0
          BY <1>5, <4>3, SizeAssumption
        <5>2. base' # -1 /\ ~(SentBytes >= base')
          BY <1>4, <5>1
        <5>3. End(i)' = base'
          BY <1>6, <3>2, <5>1
        <5> QED
          BY <4>2, <5>1, <5>2, <5>3
      <4>4. CASE type # "SCHANNEL_READY"
        <5>1. base' = base /\ (base # -1 => SentBytes >= base)
          BY <1>4, <1>5, <4>1, <4>4
        <5>2. base # -1 => n + MacSize >= MacSize
          BY <1>4
        <5> QED
          BY <4>2, <4>4, <5>1, <5>2
      <4> QED
        BY <4>3, <4>4
    <3> QED
      BY <1>3, <3>1, <3>2
  <2>5. base' # -1 => \E i \in DOMAIN sent' : sent'[i].type = "SCHANNEL_READY"
    <3>1. CASE type = "SCHANNEL_READY"
      BY <1>2, <1>3, <3>1
    <3>2. CASE type # "SCHANNEL_READY"
      BY <1>2, <1>3, <1>5, <3>2 DEF StreamLayout
    <3> QED
      BY <3>1, <3>2
  <2> QED
    BY <2>1, <2>2, <2>3, <2>4, <2>5 DEF StreamLayout
<1>10. \A k \in DOMAIN accepted : accepted[k] \in DOMAIN sent
  BY DEF PositionInv
<1>11. PositionInv'
  BY <1>2, <1>3, <1>7, <1>10 DEF PositionInv
<1>12. phase = "wait_ready" => 1 \in DOMAIN sent
  <2> HAVE phase = "wait_ready"
  <2>1. accepted[1] \in DOMAIN sent
    BY <1>10 DEF PhaseInv
  <2> QED
    BY <2>1, SentDomain
<1>13. PhaseInv'
  BY <1>2, <1>7, <1>12 DEF PhaseInv
<1>14. KeystreamInSync' /\ AcceptedInOrder'
  BY <1>5, <1>7 DEF KeystreamInSync, AcceptedInOrder
<1>15. NoSilentLoss'
  <2> SUFFICES ASSUME ~faulted PROVE NoSilentLoss'
    BY <1>7 DEF NoSilentLoss
  <2>1. rx = "body" => hdr.idx \in DOMAIN sent
    BY DEF NoSilentLoss, PositionInv, TypeOK
  <2>2. accepted # <<>> => Len(accepted) \in DOMAIN sent
    BY <1>10 DEF NoSilentLoss, TypeOK
  <2> QED
    BY <1>2, <1>7, <2>1, <2>2 DEF NoSilentLoss
<1>16. TypeOK'
  BY NodeSendType
<1> QED
  BY <1>9, <1>11, <1>13, <1>14, <1>15, <1>16

\* What the receive side of IInv says, and the variables it speaks of.
ReceiveInv == PositionInv /\ KeystreamInSync /\ AcceptedInOrder /\ NoSilentLoss

LEMMA SameReceive ==
    ASSUME IInv,
           UNCHANGED <<sent, base, in_on, consumed, dec, rx, hdr, accepted, faulted>>
    PROVE  StreamLayout' /\ ReceiveInv'
<1>1. StreamLayout'
  BY SameLayout DEF IInv
<1> QED
  BY <1>1 DEF IInv, ReceiveInv, PositionInv, KeystreamInSync, AcceptedInOrder,
              NoSilentLoss, End

LEMMA ConnectInv == ASSUME IInv, Connect PROVE IInv'
<1>1. TypeOK'
  BY UserType DEF IInv, UserStep
<1>2. StreamLayout' /\ ReceiveInv'
  BY SameReceive DEF Connect
<1>3. PhaseInv'
  BY DEF Connect, IInv, PhaseInv, Handshaking
<1> QED
  BY <1>1, <1>2, <1>3 DEF IInv, ReceiveInv

LEMMA NodeCloseInv == ASSUME IInv, NodeClose PROVE IInv'
<1>1. TypeOK'
  BY NodeType DEF IInv, NodeStep
<1>2. StreamLayout' /\ ReceiveInv'
  BY SameReceive DEF NodeClose
<1>3. PhaseInv'
  BY DEF NodeClose, IInv, PhaseInv
<1> QED
  BY <1>1, <1>2, <1>3 DEF IInv, ReceiveInv

LEMMA RecvMessagePendingInv == ASSUME IInv, RecvMessagePending PROVE IInv'
<1>1. TypeOK'
  BY UserType DEF IInv, UserStep
<1>2. StreamLayout' /\ ReceiveInv'
  BY SameReceive DEF RecvMessagePending
<1>3. PhaseInv'
  BY DEF RecvMessagePending, IInv, PhaseInv, Handshaking
<1> QED
  BY <1>1, <1>2, <1>3 DEF IInv, ReceiveInv

LEMMA RecvMessageExpiredInv == ASSUME IInv, RecvMessageExpired PROVE IInv'
<1>1. TypeOK'
  BY UserType DEF IInv, UserStep
<1>2. StreamLayout' /\ ReceiveInv'
  BY SameReceive DEF RecvMessageExpired
<1>3. PhaseInv'
  BY DEF RecvMessageExpired, IInv, PhaseInv
<1> QED
  BY <1>1, <1>2, <1>3 DEF IInv, ReceiveInv

LEMMA SendInv == ASSUME IInv, Send PROVE IInv'
<1>1. TypeOK'
  BY UserType DEF IInv, UserStep
<1>2. StreamLayout' /\ ReceiveInv'
  BY SameReceive DEF Send
<1>3. PhaseInv'
  BY DEF Send, IInv, PhaseInv
<1> QED
  BY <1>1, <1>2, <1>3 DEF IInv, ReceiveInv

LEMMA CloseInv == ASSUME IInv, Close PROVE IInv'
<1>1. TypeOK'
  BY UserType DEF IInv, UserStep
<1>2. StreamLayout' /\ ReceiveInv'
  BY SameReceive DEF Close
<1>3. PhaseInv'
  BY DEF Close, IInv, PhaseInv, Handshaking
<1> QED
  BY <1>1, <1>2, <1>3 DEF IInv, ReceiveInv

LEMMA ArriveInv ==
    ASSUME IInv, NEW n \in 1..(SentBytes - arrived), Arrive(n) PROVE IInv'
<1>1. TypeOK'
  BY WaitType DEF IInv, WaitStep
<1>2. StreamLayout' /\ ReceiveInv'
  BY SameReceive DEF Arrive
<1>3. PhaseInv'
  BY DEF Arrive, IInv, PhaseInv
<1> QED
  BY <1>1, <1>2, <1>3 DEF IInv, ReceiveInv

\* A recv() that has not read anything yet is as good as none.
LEMMA StartRecv ==
    ASSUME IInv, rx = "idle", rx' = "header",
           UNCHANGED <<sent, base, in_on, consumed, dec, accepted, faulted>>
    PROVE  StreamLayout' /\ ReceiveInv'
<1>1. StreamLayout'
  BY SameLayout DEF IInv
<1> QED
  BY <1>1 DEF IInv, ReceiveInv, PositionInv, KeystreamInSync, AcceptedInOrder,
              NoSilentLoss, End

LEMMA RecvMessageInv ==
    ASSUME IInv, NEW t \in {"finite", "none"}, RecvMessage(t) PROVE IInv'
<1>1. TypeOK'
  BY UserType DEF IInv, UserStep
<1>2. StreamLayout' /\ ReceiveInv'
  BY StartRecv DEF RecvMessage
<1>3. PhaseInv'
  BY DEF RecvMessage, IInv, PhaseInv, Handshaking
<1> QED
  BY <1>1, <1>2, <1>3 DEF IInv, ReceiveInv

LEMMA HandshakeInv == ASSUME IInv, Handshake PROVE IInv'
<1>1. TypeOK'
  BY UserType DEF IInv, UserStep
<1>2. rx = "idle"
  BY DEF Handshake, IInv, PhaseInv, Handshaking
<1>3. CASE NextRecv /\ phase' = "wait_init"
  <2>1. StreamLayout' /\ ReceiveInv'
    BY <1>2, <1>3, StartRecv DEF Handshake, NextRecv
  <2>2. PhaseInv'
    BY <1>3 DEF Handshake, NextRecv, IInv, PhaseInv, Handshaking
  <2> QED
    BY <1>1, <2>1, <2>2 DEF IInv, ReceiveInv
<1>4. CASE Raise("closed")
  <2>1. StreamLayout' /\ ReceiveInv'
    <3>1. StreamLayout'
      BY SameLayout DEF IInv, Handshake
    <3> QED
      BY <1>2, <1>4, <3>1 DEF Handshake, Raise, IInv, ReceiveInv, PositionInv,
         KeystreamInSync, AcceptedInOrder, NoSilentLoss, End
  <2>2. PhaseInv'
    BY <1>4 DEF Handshake, Raise, IInv, PhaseInv, Handshaking
  <2> QED
    BY <1>1, <2>1, <2>2 DEF IInv, ReceiveInv
<1> QED
  BY <1>3, <1>4 DEF Handshake

LEMMA AbandonInv ==
    ASSUME IInv, TypeOK', NEW e \in Outcomes \ {"value"}, Abandon(e)
    PROVE  IInv'
<1>1. StreamLayout'
  BY SameLayout DEF IInv, Abandon
<1>2. PositionInv' /\ KeystreamInSync' /\ AcceptedInOrder'
  BY DEF IInv, Abandon, Raise, PositionInv, KeystreamInSync, AcceptedInOrder, End
<1>3. NoSilentLoss'
  <2>1. faulted' <=> (faulted \/ rx = "body")
    BY DEF Abandon
  <2> QED
    BY <2>1 DEF IInv, Abandon, Raise, NoSilentLoss, End
<1>4. PhaseInv'
  BY DEF IInv, Abandon, Raise, PhaseInv, Handshaking
<1> QED
  BY <1>1, <1>2, <1>3, <1>4 DEF IInv

\* On a connection without faults the frame after the last accepted one is
\* what a header is read from, as soon as enough bytes are there.
LEMMA NextFrameReadable ==
    ASSUME IInv, ~faulted, rx = "header", ~Short
    PROVE  Len(accepted) + 1 \in DOMAIN sent /\ Readable(Len(accepted) + 1)
<1> USE DEF IInv
<1>1. PICK n \in Nat : n = Len(accepted)
  BY DEF TypeOK
<1>2. \A k \in DOMAIN accepted : accepted[k] = k /\ k \in DOMAIN sent
  BY DEF NoSilentLoss, PositionInv
<1>3. accepted # <<>> => n \in DOMAIN accepted /\ n \in DOMAIN sent /\ consumed = End(n)
  BY <1>1, <1>2 DEF TypeOK, NoSilentLoss
<1>4. accepted = <<>> => n = 0 /\ consumed = 0
  BY <1>1 DEF NoSilentLoss
<1>5. consumed < SentBytes /\ consumed \in Nat
  BY SizeAssumption, SentBytesType DEF TypeOK, Short, Needed
<1>6. n + 1 \in DOMAIN sent
  <2>1. n # Len(sent)
    <3> SUFFICES ASSUME n = Len(sent) PROVE consumed = SentBytes
      BY <1>5, SentBytesType DEF TypeOK
    <3>1. CASE accepted = <<>>
      BY <1>4, <3>1, SentDomain DEF SentBytes, TypeOK
    <3>2. CASE accepted # <<>>
      BY <1>3, <3>2, SentDomain DEF SentBytes
    <3> QED
      BY <3>1, <3>2
  <2>2. PICK m \in Nat : m = Len(sent) /\ DOMAIN sent = 1..m
    BY SentDomain
  <2>3. n \in Nat /\ n <= m
    BY <1>1, <1>3, <1>4, <2>2
  <2>4. n # m
    BY <2>1, <2>2
  <2> QED
    BY <2>2, <2>3, <2>4
<1>7. sent[n + 1].start = consumed
  BY <1>3, <1>4, <1>6, SentDomain DEF StreamLayout
<1>8. sent[n + 1].secure = in_on
  <2>1. sent[n + 1].secure <=> base # -1 /\ consumed >= base
    BY <1>6, <1>7 DEF StreamLayout
  <2>2. CASE in_on
    <3>1. base # -1 /\ dec = consumed - base /\ dec \in Nat /\ base \in Nat
      BY <2>2 DEF KeystreamInSync, TypeOK
    <3>2. consumed >= base
      BY <1>5, <3>1
    <3>3. sent[n + 1].secure \in BOOLEAN /\ in_on \in BOOLEAN
      BY <1>6, FrameType DEF TypeOK
    <3> QED
      BY <2>1, <2>2, <3>1, <3>2, <3>3, Zenon
  <2>3. CASE ~in_on
    <3>1. phase \in {"wait_init", "wait_ready"}
      BY <2>3 DEF PhaseInv, Handshaking
    <3>2. ASSUME base # -1, consumed >= base PROVE FALSE
      <4>1. PICK r \in DOMAIN sent : sent[r].type = "SCHANNEL_READY" /\ base = End(r)
        BY <3>2 DEF StreamLayout
      <4>2. End(r) <= consumed
        BY <3>2, <4>1
      <4>3. r < n + 1
        BY <1>6, <1>7, <4>2, FrameAt
      <4>4. CASE phase = "wait_init"
        BY <1>4, <4>3, <4>4, SentDomain DEF PhaseInv
      <4>5. CASE phase = "wait_ready"
        <5>1. n = 1 /\ sent[1].type = "SCHANNEL_INIT"
          BY <1>1, <4>5 DEF PhaseInv
        <5>2. r = 1
          BY <4>3, <5>1, SentDomain
        <5> QED
          BY <4>1, <5>1, <5>2
      <4> QED
        BY <3>1, <4>4, <4>5
    <3>3. sent[n + 1].secure \in BOOLEAN /\ in_on \in BOOLEAN
      BY <1>6, FrameType DEF TypeOK
    <3> QED
      BY <2>1, <2>3, <3>2, <3>3, Zenon
  <2> QED
    BY <2>2, <2>3
<1>9. InSync
  BY DEF KeystreamInSync, InSync
<1> QED
  BY <1>1, <1>6, <1>7, <1>8, <1>9 DEF Readable

LEMMA ConsumeSync ==
    ASSUME IInv, NEW n \in Nat, Consume(n), UNCHANGED <<in_on, base>>
    PROVE  KeystreamInSync'
BY DEF IInv, TypeOK, KeystreamInSync, Consume

LEMMA RecvHeaderInv == ASSUME IInv, RecvHeader PROVE IInv'
<1> USE DEF IInv
<1>1. TypeOK'
  BY CallType DEF CallStep
<1>2. UNCHANGED <<sent, base, in_on, accepted, faulted, phase, pending, raised>>
  BY DEF RecvHeader
<1>3. consumed' = consumed + HeaderSize /\ HeaderSize \in Nat /\ consumed \in Nat
  BY SizeAssumption, SentBytesType DEF RecvHeader, Consume, TypeOK
<1>4. StreamLayout'
  BY <1>2, SameLayout
<1>5. KeystreamInSync'
  BY <1>2, <1>3, ConsumeSync DEF RecvHeader
<1>6. AcceptedInOrder'
  BY <1>2 DEF AcceptedInOrder
<1>7. \A i \in DOMAIN sent : End(i)' = End(i)
  BY <1>2, SameSent
<1>8. \A k \in DOMAIN accepted : accepted[k] \in DOMAIN sent /\ End(accepted[k]) <= consumed
  BY DEF PositionInv
<1>9. hdr'.idx # 0 =>
         /\ hdr'.idx \in DOMAIN sent /\ Readable(hdr'.idx)
         /\ hdr'.size = sent[hdr'.idx].size
  BY DEF RecvHeader
<1>10. PositionInv'
  <2>1. \A k \in DOMAIN accepted : End(accepted[k]) <= consumed'
    BY <1>3, <1>8, FrameType
  <2>2. hdr'.idx # 0 =>
           /\ consumed' = sent[hdr'.idx].start + HeaderSize
           /\ sent[hdr'.idx].secure = in_on
           /\ \A k \in DOMAIN accepted : End(accepted[k]) <= sent[hdr'.idx].start
    BY <1>3, <1>8, <1>9 DEF Readable
  <2> QED
    BY <1>2, <1>7, <1>8, <1>9, <2>1, <2>2 DEF PositionInv
<1>11. NoSilentLoss'
  <2> SUFFICES ASSUME ~faulted PROVE NoSilentLoss'
    BY <1>2 DEF NoSilentLoss
  <2>1. Len(accepted) + 1 \in DOMAIN sent /\ Readable(Len(accepted) + 1)
    BY NextFrameReadable DEF RecvHeader
  <2>2. hdr'.idx # 0
    BY <2>1, SentDomain DEF RecvHeader, NoFrameHere
  <2>3. hdr'.idx = Len(accepted) + 1
    BY <1>9, <2>1, <2>2, FrameAt DEF Readable
  <2>4. consumed' = sent[hdr'.idx].start + HeaderSize
    BY <1>3, <2>1, <2>3 DEF Readable
  <2>5. rx' = "body" /\ \A k \in DOMAIN accepted : accepted[k] = k
    BY DEF RecvHeader, NoSilentLoss
  <2> QED
    BY <1>2, <2>3, <2>4, <2>5 DEF NoSilentLoss
<1>12. PhaseInv'
  <2>1. dec' = 0 \/ in_on
    BY DEF RecvHeader, Consume, PhaseInv
  <2> QED
    BY <1>2, <2>1 DEF PhaseInv, RecvHeader
<1> QED
  BY <1>1, <1>4, <1>5, <1>6, <1>10, <1>11, <1>12

LEMMA BadHeaderInv == ASSUME IInv, BadHeader PROVE IInv'
<1> USE DEF IInv
<1>1. TypeOK'
  BY CallType DEF CallStep
<1>2. UNCHANGED <<sent, base, in_on, accepted, pending>>
  BY DEF BadHeader
<1>3. consumed' = consumed + HeaderSize /\ HeaderSize \in Nat /\ consumed \in Nat
  BY SizeAssumption, SentBytesType DEF BadHeader, Consume, TypeOK
<1>4. StreamLayout'
  BY <1>2, SameLayout
<1>5. KeystreamInSync'
  BY <1>2, <1>3, ConsumeSync DEF BadHeader
<1>6. faulted'
  <2>1. CASE faulted
    BY <2>1 DEF BadHeader
  <2>2. CASE ~faulted
    BY <2>2, NextFrameReadable DEF BadHeader, NoFrameHere
  <2> QED
    BY <2>1, <2>2
<1>7. rx' = "idle"
  BY DEF BadHeader, Raise
<1>8. PositionInv'
  <2>1. \A i \in DOMAIN sent : End(i)' = End(i)
    BY <1>2, SameSent
  <2>2. \A k \in DOMAIN accepted : accepted[k] \in DOMAIN sent /\ End(accepted[k]) <= consumed
    BY DEF PositionInv
  <2>3. \A k \in DOMAIN accepted : End(accepted[k]) <= consumed'
    BY <1>3, <2>2, FrameType
  <2> QED
    BY <1>2, <1>7, <2>1, <2>2, <2>3 DEF PositionInv
<1>9. AcceptedInOrder' /\ NoSilentLoss'
  BY <1>2, <1>6 DEF AcceptedInOrder, NoSilentLoss
<1>10. PhaseInv'
  <2>1. dec' = 0 \/ in_on
    BY DEF BadHeader, Consume, PhaseInv
  <2> QED
    BY <1>2, <1>7, <2>1 DEF PhaseInv, BadHeader, Raise, Handshaking
<1> QED
  BY <1>1, <1>4, <1>5, <1>6, <1>8, <1>9, <1>10

LEMMA RecvBodyFacts ==
    ASSUME IInv, RecvBody
    PROVE  /\ UNCHANGED <<sent, base>>
           /\ consumed \in Nat /\ hdr.size \in Nat /\ hdr.idx \in Nat
           /\ consumed' = consumed + hdr.size
           /\ dec' = IF in_on THEN dec + hdr.size ELSE dec
           /\ StreamLayout'
           /\ \A i \in DOMAIN sent : End(i)' = End(i)
<1>1. UNCHANGED <<sent, base>>
  BY DEF RecvBody
<1>2. consumed \in Nat /\ hdr.size \in Nat /\ hdr.idx \in Nat
  BY SentBytesType DEF IInv, TypeOK
<1>3. StreamLayout' /\ \A i \in DOMAIN sent : End(i)' = End(i)
  BY <1>1, SameLayout, SameSent DEF IInv
<1> QED
  BY <1>1, <1>2, <1>3 DEF RecvBody, Consume

\* Only a stream that is already out of step fails the size check or the HMAC.
LEMMA BadBodyFaulted == ASSUME IInv, BadBody PROVE faulted
<1> SUFFICES ASSUME ~faulted PROVE Authentic
  BY DEF BadBody
<1> USE DEF IInv
<1>1. RecvBody
  BY DEF BadBody
<1>2. hdr.idx = Len(accepted) + 1
  BY <1>1 DEF NoSilentLoss, RecvBody
<1>3. hdr.idx # 0
  BY <1>2 DEF TypeOK
<1>4. in_on => hdr.size >= MacSize
  BY <1>1, <1>3 DEF PositionInv, StreamLayout, RecvBody
<1> QED
  BY <1>3, <1>4 DEF Authentic, InSync, KeystreamInSync

LEMMA BadBodyInv == ASSUME IInv, BadBody PROVE IInv'
<1> USE DEF IInv
<1>1. TypeOK'
  BY CallType DEF CallStep
<1>2. RecvBody /\ UNCHANGED <<in_on, accepted, faulted, pending>>
  BY DEF BadBody
<1>3. StreamLayout'
  BY <1>2, RecvBodyFacts
<1>4. KeystreamInSync'
  BY <1>2, RecvBodyFacts, ConsumeSync DEF RecvBody
<1>5. faulted'
  BY <1>2, BadBodyFaulted
<1>6. rx' = "idle"
  BY DEF BadBody, Raise
<1>7. PositionInv'
  <2>1. \A k \in DOMAIN accepted : accepted[k] \in DOMAIN sent /\ End(accepted[k]) <= consumed
    BY DEF PositionInv
  <2>2. \A k \in DOMAIN accepted : End(accepted[k]) <= consumed'
    BY <1>2, <2>1, RecvBodyFacts, FrameType
  <2> QED
    BY <1>2, <1>6, <2>1, <2>2, RecvBodyFacts DEF PositionInv
<1>8. AcceptedInOrder' /\ NoSilentLoss'
  BY <1>2, <1>5 DEF AcceptedInOrder, NoSilentLoss
<1>9. PhaseInv'
  <2>1. dec' = 0 \/ in_on
    BY <1>2, RecvBodyFacts DEF PhaseInv
  <2> QED
    BY <1>2, <1>6, <2>1 DEF PhaseInv, BadBody, Raise, Handshaking
<1> QED
  BY <1>1, <1>3, <1>4, <1>5, <1>7, <1>8, <1>9

\* What recv() returning a frame does to the receive side, whatever the
\* caller makes of the message.
LEMMA MessageFacts ==
    ASSUME IInv, Message
    PROVE  /\ hdr.idx \in DOMAIN sent
           /\ consumed' = End(hdr.idx)
           /\ \A k \in DOMAIN accepted : accepted[k] < hdr.idx
           /\ accepted' = Append(accepted, hdr.idx)
           /\ DOMAIN accepted' = 1..(Len(accepted) + 1)
           /\ DOMAIN accepted = 1..Len(accepted)
           /\ Len(accepted) \in Nat
           /\ \A k \in DOMAIN accepted : accepted'[k] = accepted[k]
           /\ accepted'[Len(accepted) + 1] = hdr.idx
           /\ ~faulted => hdr.idx = Len(accepted) + 1
<1> USE DEF IInv
<1>1. RecvBody /\ rx = "body" /\ hdr.idx # 0
  BY DEF Message, RecvBody, Authentic
<1>2. /\ hdr.idx \in DOMAIN sent
      /\ hdr.size = sent[hdr.idx].size
      /\ consumed = sent[hdr.idx].start + HeaderSize
      /\ \A k \in DOMAIN accepted : End(accepted[k]) <= sent[hdr.idx].start
  BY <1>1 DEF PositionInv
<1>3. consumed' = End(hdr.idx)
  BY <1>1, <1>2, RecvBodyFacts, FrameType
<1>4. \A k \in DOMAIN accepted : accepted[k] < hdr.idx
  <2> TAKE k \in DOMAIN accepted
  <2>1. accepted[k] \in DOMAIN sent
    BY DEF PositionInv
  <2> QED
    BY <1>2, <2>1, FrameAt
<1>5. accepted' = Append(accepted, hdr.idx) /\ accepted \in Seq(Nat)
  BY DEF Message, TypeOK
<1>6. ~faulted => hdr.idx = Len(accepted) + 1
  BY <1>1 DEF NoSilentLoss
<1> QED
  BY <1>2, <1>3, <1>4, <1>5, <1>6

LEMMA MessageInv ==
    ASSUME IInv, Message, UNCHANGED faulted, rx' \in {"idle", "header"}
    PROVE  StreamLayout' /\ PositionInv' /\ AcceptedInOrder' /\ NoSilentLoss'
<1> USE DEF IInv
<1>1. RecvBody
  BY DEF Message
<1>2. PICK n \in Nat : n = Len(accepted)
  BY MessageFacts
<1>3. DOMAIN accepted' = DOMAIN accepted \cup {n + 1} /\ DOMAIN accepted = 1..n
  BY <1>2, MessageFacts
<1>4. PositionInv'
  <2>1. \A k \in DOMAIN accepted : accepted[k] \in DOMAIN sent /\ End(accepted[k]) <= consumed
    BY DEF PositionInv
  <2>2. \A k \in DOMAIN accepted : End(accepted[k]) <= consumed'
    BY <1>1, <2>1, RecvBodyFacts, FrameType
  <2>3. End(hdr.idx) <= consumed'
    BY MessageFacts, FrameType
  <2>4. \A k \in DOMAIN accepted' :
            accepted'[k] \in DOMAIN sent' /\ End(accepted[k])' <= consumed'
    <3> TAKE k \in DOMAIN accepted'
    <3>0. sent' = sent /\ End(accepted[k])' = End(accepted'[k])
      BY <1>1, RecvBodyFacts DEF End
    <3>1. CASE k \in DOMAIN accepted
      BY <2>1, <2>2, <3>0, <3>1, MessageFacts
    <3>2. CASE k = n + 1
      BY <1>2, <2>3, <3>0, <3>2, MessageFacts
    <3> QED
      BY <1>3, <3>1, <3>2
  <2>5. rx' # "body"
    OBVIOUS
  <2> QED
    BY <2>4, <2>5 DEF PositionInv
<1>5. AcceptedInOrder'
  <2> SUFFICES ASSUME NEW j \in DOMAIN accepted', NEW k \in DOMAIN accepted', j < k
               PROVE  accepted'[j] < accepted'[k]
    BY DEF AcceptedInOrder
  <2>1. j \in DOMAIN accepted /\ accepted'[j] = accepted[j]
    BY <1>2, <1>3, MessageFacts
  <2>2. CASE k \in DOMAIN accepted
    BY <2>1, <2>2, MessageFacts DEF AcceptedInOrder
  <2>3. CASE k = n + 1
    BY <1>2, <2>1, <2>3, MessageFacts
  <2> QED
    BY <1>3, <2>2, <2>3
<1>6. NoSilentLoss'
  <2> SUFFICES ASSUME ~faulted PROVE NoSilentLoss'
    BY DEF NoSilentLoss
  <2>1. hdr.idx = n + 1 /\ \A k \in DOMAIN accepted : accepted[k] = k
    BY <1>2, MessageFacts DEF NoSilentLoss
  <2>2. \A k \in DOMAIN accepted' : accepted'[k] = k
    BY <1>2, <1>3, <2>1, MessageFacts
  <2>3. Len(accepted') = n + 1 /\ accepted' # <<>>
    BY <1>2, MessageFacts, CallType DEF TypeOK
  <2>4. consumed' = End(n + 1)'
    BY <1>1, <2>1, MessageFacts, RecvBodyFacts
  <2> QED
    BY <2>2, <2>3, <2>4 DEF NoSilentLoss
<1> QED
  BY <1>1, <1>4, <1>5, <1>6, RecvBodyFacts

\* A message that does not change the incoming switch.
LEMMA MessageSameSwitch ==
    ASSUME IInv, TypeOK', Message, UNCHANGED <<in_on, faulted>>, rx' \in {"idle", "header"},
           PhaseInv'
    PROVE  IInv'
<1>1. StreamLayout' /\ PositionInv' /\ AcceptedInOrder' /\ NoSilentLoss'
  BY MessageInv
<1>2. KeystreamInSync'
  BY RecvBodyFacts, ConsumeSync DEF Message, RecvBody
<1> QED
  BY <1>1, <1>2 DEF IInv

LEMMA DecSame == ASSUME IInv, Message, ~in_on PROVE dec' = 0
BY RecvBodyFacts DEF Message, IInv, PhaseInv

LEMMA RecvInitInv == ASSUME IInv, RecvInit PROVE IInv'
<1>1. TypeOK'
  BY CallType DEF CallStep, IInv
<1>2. Message /\ phase = "wait_init" /\ UNCHANGED <<in_on, faulted, pending>>
  BY DEF RecvInit
<1>3. ~in_on /\ ~faulted /\ accepted = <<>> /\ dec' = 0
  BY <1>2, DecSame DEF IInv, PhaseInv, Handshaking
<1>4. CASE phase' = "wait_ready" /\ NextRecv /\ Received.type = "SCHANNEL_INIT"
  <2>1. hdr.idx = 1 /\ Len(accepted') = 1 /\ sent' = sent
    BY <1>2, <1>3, MessageFacts, RecvBodyFacts DEF Message
  <2>2. PhaseInv'
    BY <1>2, <1>3, <1>4, <2>1 DEF PhaseInv, Handshaking, NextRecv, Received
  <2> QED
    BY <1>1, <1>2, <1>4, <2>2, MessageSameSwitch DEF NextRecv
<1>5. ASSUME NEW e \in {"runtime", "closed"}, Raise(e)
      PROVE  IInv'
  <2>1. PhaseInv'
    BY <1>2, <1>3, <1>5 DEF PhaseInv, Handshaking, Raise
  <2> QED
    BY <1>1, <1>2, <1>5, <2>1, MessageSameSwitch DEF Raise
<1> QED
  BY <1>4, <1>5 DEF RecvInit

LEMMA RecvReadyInv == ASSUME IInv, RecvReady PROVE IInv'
<1>1. TypeOK'
  BY CallType DEF CallStep, IInv
<1>2. Message /\ phase = "wait_ready" /\ UNCHANGED <<faulted, pending>>
  BY DEF RecvReady
<1>3. ~in_on /\ ~faulted /\ dec' = 0
  BY <1>2, DecSame DEF IInv, PhaseInv, Handshaking
<1>4. CASE in_on' = TRUE /\ phase' = "login" /\ NextRecv /\ Received.type = "SCHANNEL_READY"
  <2>1. PhaseInv'
    BY <1>2, <1>3, <1>4 DEF PhaseInv, Handshaking, NextRecv
  <2>2. StreamLayout' /\ PositionInv' /\ AcceptedInOrder' /\ NoSilentLoss'
    BY <1>2, <1>4, MessageInv DEF NextRecv
  <2>3. KeystreamInSync'
    <3>1. base = End(hdr.idx) /\ consumed' = base /\ base' = base
      BY <1>2, <1>4, MessageFacts, RecvBodyFacts DEF IInv, StreamLayout, Received, Message
    <3>2. base \in Nat
      BY <1>2, <3>1, MessageFacts, FrameType DEF IInv
    <3> QED
      BY <1>3, <3>1, <3>2 DEF KeystreamInSync
  <2> QED
    BY <1>1, <2>1, <2>2, <2>3 DEF IInv
<1>5. CASE Raise("runtime") /\ UNCHANGED in_on
  <2>1. PhaseInv'
    BY <1>2, <1>3, <1>5 DEF PhaseInv, Handshaking, Raise
  <2> QED
    BY <1>1, <1>2, <1>5, <2>1, MessageSameSwitch DEF Raise
<1> QED
  BY <1>4, <1>5 DEF RecvReady

\* The login loop reads on, ...
LEMMA LoginNextInv ==
    ASSUME IInv, TypeOK', Message, phase = "login", UNCHANGED <<phase, in_on, faulted>>, NextRecv
    PROVE  IInv'
<1>1. PhaseInv'
  BY DEF IInv, PhaseInv, Handshaking, NextRecv
<1> QED
  BY <1>1, MessageSameSwitch DEF NextRecv

\* ... fails ...
LEMMA LoginFailInv ==
    ASSUME IInv, TypeOK', Message, phase = "login", UNCHANGED <<in_on, faulted>>,
           NEW e \in {"runtime", "closed"}, Raise(e)
    PROVE  IInv'
<1>1. PhaseInv'
  BY DEF IInv, PhaseInv, Handshaking, Raise
<1> QED
  BY <1>1, MessageSameSwitch DEF Raise

\* ... or is done.
LEMMA LoginDoneInv == ASSUME IInv, LoginDone PROVE IInv'
<1>1. TypeOK'
  BY CallType DEF CallStep, IInv
<1>2. PhaseInv'
  BY DEF LoginDone, IInv, PhaseInv, Handshaking
<1> QED
  BY <1>1, <1>2, MessageSameSwitch DEF LoginDone

LEMMA RecvMessageReturnInv == ASSUME IInv, RecvMessageReturn PROVE IInv'
<1>1. TypeOK'
  BY CallType DEF CallStep, IInv
<1>2. PhaseInv'
  BY DEF RecvMessageReturn, IInv, PhaseInv, Handshaking
<1> QED
  BY <1>1, <1>2, MessageSameSwitch DEF RecvMessageReturn

LEMMA CallInv == ASSUME IInv, CallStep PROVE IInv'
<1>1. TypeOK'
  BY CallType DEF IInv
<1>2. CASE LoginAnswer
  BY <1>1, <1>2, LoginNextInv, LoginFailInv DEF LoginAnswer
<1>3. CASE LoginSkip
  BY <1>1, <1>3, LoginNextInv DEF LoginSkip
<1>4. CASE LoginRefused
  BY <1>1, <1>4, LoginFailInv DEF LoginRefused
<1>5. CASE LoginQueue
  BY <1>1, <1>5, LoginNextInv DEF LoginQueue
<1> QED
  BY <1>2, <1>3, <1>4, <1>5, RecvHeaderInv, BadHeaderInv, BadBodyInv, RecvInitInv,
     RecvReadyInv, LoginDoneInv, RecvMessageReturnInv DEF CallStep

LEMMA WaitInv == ASSUME IInv, WaitStep PROVE IInv'
<1>1. TypeOK'
  BY WaitType DEF IInv
<1>2. CASE RecvTimeout \/ RecvEOF
  BY <1>1, <1>2, AbandonInv DEF RecvTimeout, RecvEOF, Outcomes
<1> QED
  BY <1>2, ArriveInv DEF WaitStep

LEMMA NextInv == IInv /\ [Next]_vars => IInv'
<1> SUFFICES ASSUME IInv, [Next]_vars PROVE IInv'
  OBVIOUS
<1>1. CASE NodeStep
  BY <1>1, NodeSendInv, NodeCloseInv DEF NodeStep
<1>2. CASE UserStep
  BY <1>2, ConnectInv, HandshakeInv, RecvMessagePendingInv, RecvMessageExpiredInv,
     RecvMessageInv, SendInv, CloseInv DEF UserStep
<1>3. CASE UNCHANGED vars
  <2>1. TypeOK'
    BY <1>3, StutterType DEF IInv
  <2>2. StreamLayout' /\ ReceiveInv'
    BY <1>3, SameReceive DEF vars
  <2>3. PhaseInv'
    BY <1>3 DEF vars, IInv, PhaseInv
  <2> QED
    BY <2>1, <2>2, <2>3 DEF IInv, ReceiveInv
<1> QED
  BY <1>1, <1>2, <1>3, CallInv, WaitInv DEF Next

THEOREM Inductive == Spec => []IInv
<1>1. Init => IInv
  BY InitInv
<1>2. IInv /\ [Next]_vars => IInv'
  BY NextInv
<1> QED
  BY <1>1, <1>2, PTL DEF Spec

\* The decryptor's key stream keeps step with the node's, through read-ahead
\* before the switch, time-outs and rejected frames.
THEOREM KeystreamStaysInSync == Spec => []KeystreamInSync
<1>1. IInv => KeystreamInSync
  BY DEF IInv
<1> QED
  BY <1>1, Inductive, PTL

\* No frame is accepted twice or out of order.
THEOREM FramesInOrder == Spec => []AcceptedInOrder
<1>1. IInv => AcceptedInOrder
  BY DEF IInv
<1> QED
  BY <1>1, Inductive, PTL

\* A connection that has not reported a fault has lost nothing.
THEOREM NothingLostSilently == Spec => []NoSilentLoss
<1>1. IInv => NoSilentLoss
  BY DEF IInv
<1> QED
  BY <1>1, Inductive, PTL

\* On a connection that has not given up a frame, the header that cannot be
\* used is the next frame's own.
LEMMA BadHeaderIsNext ==
    ASSUME IInv, BadHeader, ~faulted
    PROVE  LET next == Len(accepted) + 1
           IN  next \in DOMAIN sent /\ sent[next].start = consumed /\ ~Supported(next)
<1> DEFINE next == Len(accepted) + 1
<1>1. next \in DOMAIN sent /\ Readable(next)
  BY NextFrameReadable DEF BadHeader
<1>2. PICK i \in DOMAIN sent : Readable(i) /\ ~Supported(i)
  BY <1>1 DEF BadHeader, NoFrameHere
<1>3. i = next
  <2>1. sent[i].start = consumed /\ sent[next].start = consumed
    BY <1>1, <1>2 DEF Readable
  <2> QED
    BY <1>1, <1>2, <2>1, FrameAt DEF IInv
<1> QED
  BY <1>1, <1>2, <1>3 DEF Readable

\* No other step of a call in progress ends it with ValueError, ...
LEMMA MessageNoValue ==
    ASSUME IInv, ~faulted, CallStep, ~BadHeader
    PROVE  ~Refuses
<1>1. CASE BadBody
  BY <1>1, BadBodyFaulted
<1>2. CASE RecvHeader
  BY <1>2 DEF RecvHeader, Refuses
<1>3. CASE RecvInit
  BY <1>3 DEF RecvInit, NextRecv, Raise, Refuses
<1>4. CASE RecvReady
  BY <1>4 DEF RecvReady, NextRecv, Raise, Refuses
<1>5. CASE LoginAnswer \/ LoginSkip \/ LoginRefused \/ LoginDone \/ LoginQueue
  BY <1>5 DEF LoginAnswer, LoginSkip, LoginRefused, LoginDone, LoginQueue,
              NextRecv, Raise, Refuses
<1>6. CASE RecvMessageReturn
  BY <1>6 DEF RecvMessageReturn, Refuses
<1> QED
  BY <1>1, <1>2, <1>3, <1>4, <1>5, <1>6 DEF CallStep

\* ... nor does anything else.
LEMMA OthersNoValue ==
    ASSUME IInv, NodeStep \/ WaitStep \/ UserStep \/ UNCHANGED vars
    PROVE  ~Refuses
<1>1. CASE NodeStep
  BY <1>1 DEF NodeStep, NodeSend, NodeClose, call, Refuses
<1>2. CASE WaitStep
  BY <1>2 DEF WaitStep, Arrive, RecvTimeout, RecvEOF, Abandon, Raise, call, Refuses
<1>3. CASE UserStep
  BY <1>3 DEF UserStep, Connect, Handshake, NextRecv, Raise, RecvMessagePending,
              RecvMessageExpired, RecvMessage, Send, Close, call, Refuses
<1>4. CASE UNCHANGED vars
  BY <1>4 DEF vars, call, Refuses
<1> QED
  BY <1>1, <1>2, <1>3, <1>4

\* As long as no call has given up a frame, only the next frame's own header
\* makes recv raise ValueError.
THEOREM ErrorsFollowFaults == Spec => ErrorsExplained
<1> DEFINE Explained ==
      Refuses /\ ~faulted =>
          LET next == Len(accepted) + 1
          IN  /\ rx = "header" /\ next \in DOMAIN sent /\ sent[next].start = consumed
              /\ ~Supported(next)
<1>1. IInv /\ [Next]_vars => Explained
  <2> SUFFICES ASSUME IInv, [Next]_vars, Refuses, ~faulted
               PROVE  LET next == Len(accepted) + 1
                      IN  /\ rx = "header" /\ next \in DOMAIN sent
                          /\ sent[next].start = consumed /\ ~Supported(next)
    OBVIOUS
  <2>1. BadHeader
    BY MessageNoValue, OthersNoValue DEF Next
  <2>2. rx = "header"
    BY <2>1 DEF BadHeader
  <2> QED
    BY <2>1, <2>2, BadHeaderIsNext
<1>2. IInv /\ [Next]_vars => [Explained]_vars
  BY <1>1
<1> QED
  BY <1>2, Inductive, PTL DEF Spec, ErrorsExplained

-----------------------------------------------------------------------------
(* BeamConnection implements MessageChannel. *)

LEMMA InitImplements == Init => Channel!Init
BY DEF Init, Channel!Init

\* Accepting a frame is the channel taking the message.
LEMMA MessageTakes ==
    ASSUME IInv, Message, UNCHANGED faulted
    PROVE  hdr.idx \in 1..Len(sent) /\ Channel!Take(hdr.idx)
<1>1. hdr.idx \in 1..Len(sent) /\ sent' = sent
  BY MessageFacts, SentDomain, RecvBodyFacts DEF IInv, Message
<1>2. Channel!IsNext(hdr.idx)
  BY <1>1, MessageFacts DEF Channel!IsNext
<1> QED
  BY <1>1, <1>2, MessageFacts DEF Channel!Take

LEMMA HandleStep ==
    ASSUME IInv, Message, UNCHANGED <<faulted, pending, delivered>>
    PROVE  Channel!Next
BY MessageTakes DEF Channel!Next, Channel!Handle

LEMMA CallImplements ==
    ASSUME IInv, CallStep
    PROVE  Channel!Next \/ UNCHANGED Channel!vars
<1>1. CASE RecvHeader
  BY <1>1 DEF RecvHeader, Channel!vars
<1>2. CASE BadHeader
  BY <1>2 DEF BadHeader, Channel!vars, Channel!Next, Channel!Fault
<1>3. CASE BadBody
  BY <1>3 DEF BadBody, RecvBody, Channel!vars
<1>4. CASE RecvInit
  BY <1>4, HandleStep DEF RecvInit
<1>5. CASE RecvReady
  BY <1>5, HandleStep DEF RecvReady
<1>6. CASE LoginAnswer \/ LoginSkip \/ LoginRefused \/ LoginDone
  BY <1>6, HandleStep DEF LoginAnswer, LoginSkip, LoginRefused, LoginDone
<1>7. CASE LoginQueue
  BY <1>7, MessageTakes DEF LoginQueue, Channel!Next, Channel!Keep
<1>8. CASE RecvMessageReturn
  <2>1. pending = <<>>
    BY <1>8 DEF RecvMessageReturn, Message, RecvBody, IInv, PhaseInv
  <2> QED
    BY <1>8, <2>1, MessageTakes DEF RecvMessageReturn, Channel!Next, Channel!Return
<1> QED
  BY <1>1, <1>2, <1>3, <1>4, <1>5, <1>6, <1>7, <1>8 DEF CallStep

LEMMA AbandonImplements ==
    ASSUME TypeOK, NEW e, Abandon(e)
    PROVE  Channel!Next \/ UNCHANGED Channel!vars
<1>1. CASE rx = "body"
  <2>1. faulted' = TRUE
    BY <1>1, Zenon DEF Abandon
  <2> QED
    BY <2>1 DEF Abandon, Channel!Next, Channel!Fault
<1>2. CASE rx # "body"
  <2>1. faulted' = faulted
    BY <1>2, Zenon DEF Abandon, TypeOK
  <2> QED
    BY <2>1 DEF Abandon, Channel!vars
<1> QED
  BY <1>1, <1>2

LEMMA NextImplements == IInv /\ [Next]_vars => [Channel!Next]_Channel!vars
<1> SUFFICES ASSUME IInv, [Next]_vars
             PROVE  Channel!Next \/ UNCHANGED Channel!vars
  OBVIOUS
<1>1. CASE NodeStep
  <2>1. ASSUME NEW type, NEW n, NEW ok, NodeSend(type, n, ok)
        PROVE  Channel!Next
    <3>1. Len(sent') = Len(sent) + 1
      BY <2>1 DEF NodeSend, IInv, TypeOK
    <3> QED
      BY <2>1, <3>1 DEF NodeSend, Channel!Next, Channel!Write
  <2>2. CASE NodeClose
    BY <2>2 DEF NodeClose, Channel!vars
  <2> QED
    BY <1>1, <2>1, <2>2 DEF NodeStep
<1>2. CASE WaitStep
  <2>1. ASSUME NEW n, Arrive(n)
        PROVE  UNCHANGED Channel!vars
    BY <2>1 DEF Arrive, Channel!vars
  <2>2. CASE RecvTimeout \/ RecvEOF
    BY <2>2, AbandonImplements DEF RecvTimeout, RecvEOF, IInv
  <2> QED
    BY <1>2, <2>1, <2>2 DEF WaitStep
<1>3. CASE UserStep
  <2>1. CASE RecvMessagePending
    BY <2>1 DEF RecvMessagePending, Channel!Next, Channel!Dequeue
  <2>2. CASE Connect \/ Handshake \/ RecvMessageExpired \/ Send \/ Close
    BY <2>2 DEF Connect, Handshake, RecvMessageExpired, Send, Close, Channel!vars
  <2>3. ASSUME NEW t, RecvMessage(t)
        PROVE  UNCHANGED Channel!vars
    BY <2>3 DEF RecvMessage, Channel!vars
  <2> QED
    BY <1>3, <2>1, <2>2, <2>3 DEF UserStep
<1>4. CASE UNCHANGED vars
  BY <1>4 DEF vars, Channel!vars
<1> QED
  BY <1>1, <1>2, <1>3, <1>4, CallImplements DEF Next

\* Seen from the application, the connection is a lossless FIFO channel until
\* it reports a fault, and an order-preserving one after it.
THEOREM Refinement == Spec => ImplementsChannel
<1>1. Init => Channel!Init
  BY InitImplements
<1>2. IInv /\ [Next]_vars => [Channel!Next]_Channel!vars
  BY NextImplements
<1> QED
  BY <1>1, <1>2, Inductive, PTL DEF Spec, ImplementsChannel, Channel!Spec

-----------------------------------------------------------------------------
(***************************************************************************)
(* The handshake: what is sent in clear and what encrypted, which messages *)
(* the login loop answers, and which it leaves to the application.         *)
(***************************************************************************)

USE DEF node, sock, switches, stream, app, call

ReadySent == [type |-> "SCHANNEL_READY", secure |-> FALSE]

-----------------------------------------------------------------------------
(* The outgoing switch. *)

\* How the caller's progress may change without a message being sent or a
\* switch being thrown.
PhaseStep ==
    \/ phase' = phase
    \/ phase' \in {"failed", "closed"}
    \/ phase = "new" /\ phase' = "connected"
    \/ phase = "login" /\ phase' = "open"

LEMMA RaisePhase == ASSUME NEW e, Raise(e) PROVE PhaseStep
BY DEF Raise, PhaseStep

LEMMA OutSame ==
    ASSUME OutInv, UNCHANGED <<in_on, out_on, out>>, PhaseStep
    PROVE  OutInv'
BY DEF OutInv, PhaseStep

LEMMA OutType ==
    ASSUME TypeOK
    PROVE  Len(out) \in Nat /\ DOMAIN out = 1..Len(out) /\ out \in Seq(Sends)
BY DEF TypeOK

\* A message sent on its own: anything but SCHANNEL_READY.
LEMMA OutAppend ==
    ASSUME TypeOK, OutInv, NEW type, out' = Append(out, Encode(type)), UNCHANGED <<in_on, out_on>>,
           type # "SCHANNEL_READY",
           \/ out_on /\ PhaseStep
           \/ type = "BYE" /\ PhaseStep
           \/ type = "SCHANNEL_INIT" /\ phase = "connected" /\ phase' \in {"wait_init", "failed"}
    PROVE  OutInv'
<1> PICK n, x : n = Len(out) /\ x = Encode(type)
  OBVIOUS
<1>1. /\ n \in Nat /\ DOMAIN out = 1..n /\ DOMAIN out' = 1..(n + 1)
      /\ out'[n + 1] = x /\ \A i \in 1..n : out'[i] = out[i]
  BY OutType
<1>2. x.type = type /\ x.secure = out_on
  BY DEF Encode
<1>3. (in_on' \/ phase' \in {"wait_ready", "login", "open"}) => out_on'
  BY DEF OutInv, PhaseStep
<1>4. phase' \in {"new", "connected", "wait_init"} =>
          ~out_on' /\ \A i \in DOMAIN out' : out'[i].type \notin {"SCHANNEL_READY", "TIME", "PONG"}
  <2> SUFFICES ASSUME phase' \in {"new", "connected", "wait_init"}
               PROVE  ~out_on /\ \A i \in DOMAIN out' :
                          out'[i].type \notin {"SCHANNEL_READY", "TIME", "PONG"}
    OBVIOUS
  <2>1. phase \in {"new", "connected", "wait_init"}
    BY DEF PhaseStep
  <2>2. ~out_on /\ type \in {"BYE", "SCHANNEL_INIT"}
    BY <2>1 DEF OutInv
  <2> QED
    BY <1>1, <1>2, <2>1, <2>2 DEF OutInv
<1>5. out_on' => \E j \in DOMAIN out' : out'[j] = ReadySent
  BY <1>1 DEF OutInv, ReadySent
<1>6. ASSUME NEW i \in DOMAIN out', out'[i].secure
      PROVE  \E j \in 1..(i - 1) : out'[j] = ReadySent
  <2>1. CASE i \in 1..n
    <3>1. PICK j \in 1..(i - 1) : out[j] = ReadySent
      BY <1>1, <1>6, <2>1 DEF OutInv, ReadySent
    <3> QED
      BY <1>1, <2>1, <3>1
  <2>2. CASE i = n + 1
    <3>1. out_on
      BY <1>1, <1>2, <1>6, <2>2
    <3>2. PICK j \in 1..n : out[j] = ReadySent
      BY <1>1, <3>1 DEF OutInv, ReadySent
    <3> QED
      BY <1>1, <2>2, <3>2
  <2> QED
    BY <1>1, <2>1, <2>2
<1>7. ASSUME NEW i \in DOMAIN out', ~out'[i].secure,
             NEW j \in 1..(i - 1), out'[j].type = "SCHANNEL_READY"
      PROVE  out'[i].type = "BYE" /\ ~out_on
  <2>1. CASE i \in 1..n
    BY <1>1, <1>7, <2>1 DEF OutInv
  <2>2. CASE i = n + 1
    <3>1. ~out_on
      BY <1>1, <1>2, <1>7, <2>2
    <3>2. type # "BYE" => phase = "connected"
      BY <3>1
    <3>3. out[j].type = "SCHANNEL_READY" /\ j \in DOMAIN out
      BY <1>1, <1>7, <2>2
    <3>4. type = "BYE"
      BY <3>2, <3>3 DEF OutInv
    <3> QED
      BY <1>1, <1>2, <2>2, <3>1, <3>4
  <2> QED
    BY <1>1, <2>1, <2>2
<1> QED
  BY <1>3, <1>4, <1>5, <1>6, <1>7 DEF OutInv, ReadySent

\* The switch: some of the messages of SwitchSends, the first in clear.
LEMMA OutSwitch ==
    ASSUME TypeOK, OutInv, phase = "wait_init", UNCHANGED in_on, ~in_on,
           NEW k \in 0..3, out' = out \o SubSeq(SwitchSends, 1, k),
           k >= 1 \/ ~out_on', k >= 2 => out_on',
           phase' = "failed" \/ (phase' = "wait_ready" /\ out_on')
    PROVE  OutInv'
<1> PICK n : n = Len(out)
  OBVIOUS
<1>1. /\ SwitchSends \in Seq(Sends) /\ Len(SwitchSends) = 3
      /\ SwitchSends[1] = ReadySent
      /\ \A i \in 2..3 : SwitchSends[i].secure /\ SwitchSends[i].type # "SCHANNEL_READY"
  BY SwitchSendsType DEF SwitchSends, ReadySent
<1>2. /\ Len(SubSeq(SwitchSends, 1, k)) = k /\ SubSeq(SwitchSends, 1, k) \in Seq(Sends)
      /\ \A i \in 1..k : SubSeq(SwitchSends, 1, k)[i] = SwitchSends[i]
  <2> PICK s : s = SwitchSends
    OBVIOUS
  <2>1. s \in Seq(Sends) /\ Len(s) = 3 /\ k \in Nat /\ k <= Len(s)
    BY <1>1
  <2>2. /\ Len(SubSeq(s, 1, k)) = k
        /\ \A i \in 1..k : SubSeq(s, 1, k)[i] = s[i]
    BY <2>1
  <2>3. SubSeq(s, 1, k) \in Seq(Sends)
    <3>1. \A i \in 1..3 : s[i] \in Sends
      BY <2>1, ElementOfSeq
    <3> QED
      <4>1. \A i \in 1..k : s[i] \in Sends
        BY <2>1, <3>1
      <4>2. 1 \in Int /\ k \in Int
        OBVIOUS
      <4> QED
        BY <4>1, <4>2, SubSeqProperties
  <2> QED
    BY <2>2, <2>3
<1>3. /\ n \in Nat /\ DOMAIN out = 1..n /\ DOMAIN out' = 1..(n + k)
      /\ \A i \in 1..n : out'[i] = out[i]
      /\ \A i \in 1..k : out'[n + i] = SwitchSends[i]
  BY <1>2, OutType
<1>4. /\ ~out_on
      /\ \A i \in 1..n : out'[i].type # "SCHANNEL_READY" /\ ~out'[i].secure
  <2>1. ~out_on /\ \A i \in 1..n : out[i].type # "SCHANNEL_READY"
    BY <1>3 DEF OutInv
  <2>2. \A i \in 1..n : ~out[i].secure
    <3> SUFFICES ASSUME NEW i \in 1..n, out[i].secure PROVE FALSE
      OBVIOUS
    <3>1. PICK j \in 1..(i - 1) : out[j] = ReadySent
      BY <1>3 DEF OutInv, ReadySent
    <3> QED
      BY <1>3, <2>1, <3>1 DEF ReadySent
  <2> QED
    BY <1>3, <2>1, <2>2
<1>5. k >= 1 => n + 1 \in DOMAIN out' /\ out'[n + 1] = ReadySent
  BY <1>1, <1>3
<1>6. out_on' => \E j \in DOMAIN out' : out'[j] = ReadySent
  BY <1>5
<1>7. ASSUME NEW i \in DOMAIN out', out'[i].secure
      PROVE  \E j \in 1..(i - 1) : out'[j] = ReadySent
  <2>1. i > n
    BY <1>3, <1>4, <1>7
  <2>2. i # n + 1
    BY <1>1, <1>3, <1>7, <2>1 DEF ReadySent
  <2> QED
    BY <1>3, <1>5, <2>1, <2>2
<1>8. ASSUME NEW i \in DOMAIN out', ~out'[i].secure,
             NEW j \in 1..(i - 1), out'[j].type = "SCHANNEL_READY"
      PROVE  FALSE
  <2>1. j > n
    BY <1>3, <1>4, <1>8
  <2>2. PICK h \in 2..3 : i = n + h /\ h <= k
    <3>1. i - n \in 2..3 /\ i = n + (i - n) /\ i - n <= k
      BY <1>3, <2>1
    <3> QED
      BY <3>1
  <2>3. out'[i] = SwitchSends[h]
    BY <1>3, <2>2
  <2> QED
    BY <1>1, <1>8, <2>3
<1> QED
  BY <1>4, <1>6, <1>7, <1>8 DEF OutInv, ReadySent

LEMMA OutStep ==
    ASSUME IInv, OutInv, [Next]_vars
    PROVE  OutInv'
<1>0. TypeOK /\ PhaseInv
  BY DEF IInv
<1>1. CASE NodeStep
  BY <1>1, OutSame DEF NodeStep, NodeSend, NodeClose, PhaseStep
<1>2. CASE WaitStep
  BY <1>2, OutSame, RaisePhase DEF WaitStep, Arrive, RecvTimeout, RecvEOF, Abandon, PhaseStep
<1>3. CASE RecvHeader \/ BadHeader \/ BadBody
  BY <1>3, OutSame, RaisePhase DEF RecvHeader, BadHeader, BadBody, PhaseStep
<1>4. CASE LoginSkip \/ LoginRefused \/ LoginDone \/ LoginQueue \/ RecvMessageReturn
  BY <1>4, OutSame, RaisePhase
     DEF LoginSkip, LoginRefused, LoginDone, LoginQueue, RecvMessageReturn, PhaseStep
<1>5. CASE LoginAnswer
  <2>1. out_on /\ \A t \in DOMAIN LoginReply : LoginReply[t] # "SCHANNEL_READY"
    BY <1>5 DEF LoginAnswer, OutInv, LoginReply
  <2>2. CASE out' = Append(out, Encode(LoginReply[Received.type])) /\ UNCHANGED phase
    <3> PICK t : t = LoginReply[Received.type]
      OBVIOUS
    <3>1. out' = Append(out, Encode(t)) /\ t # "SCHANNEL_READY" /\ PhaseStep
      BY <1>5, <2>1, <2>2 DEF LoginAnswer, PhaseStep
    <3> QED
      BY <1>0, <1>5, <2>1, <3>1, OutAppend DEF LoginAnswer
  <2>3. CASE Raise("closed") /\ UNCHANGED out
    BY <1>5, <2>3, OutSame, RaisePhase DEF LoginAnswer
  <2> QED
    BY <1>5, <2>2, <2>3 DEF LoginAnswer
<1>6. CASE RecvReady
  <2>1. /\ phase = "wait_ready" /\ UNCHANGED <<out_on, out>> /\ out_on
        /\ phase' \in {"login", "failed"}
    BY <1>6 DEF RecvReady, OutInv, Raise
  <2> QED
    BY <2>1 DEF OutInv
<1>7. CASE RecvInit
  <2>1. phase = "wait_init" /\ UNCHANGED in_on /\ ~in_on
    BY <1>0, <1>7 DEF RecvInit, PhaseInv
  <2>2. SwitchSends = SubSeq(SwitchSends, 1, 3)
    BY DEF SwitchSends
  <2>3. CASE out' = out \o SwitchSends /\ out_on' = TRUE /\ phase' = "wait_ready"
    <3>1. 3 \in 0..3 /\ 3 >= 1 /\ out' = out \o SubSeq(SwitchSends, 1, 3)
      <4>1. out' = out \o SubSeq(SwitchSends, 1, 3)
        BY <2>2, <2>3, Zenon
      <4> QED
        BY <4>1
    <3> QED
      BY <1>0, <2>1, <2>3, <3>1, OutSwitch
  <2>4. CASE out' = out \o SubSeq(SwitchSends, 1, 1) /\ UNCHANGED out_on /\ Raise("runtime")
    <3>1. phase' = "failed" /\ 1 \in 0..3 /\ 1 >= 1
      BY <2>1, <2>4 DEF Raise
    <3> QED
      BY <1>0, <2>1, <2>4, <3>1, OutSwitch
  <2>5. ASSUME NEW k \in 0..2, out' = out \o SubSeq(SwitchSends, 1, k), out_on' = (k # 0),
               Raise("closed")
        PROVE  OutInv'
    <3>1. phase' = "failed"
      BY <2>1, <2>5 DEF Raise
    <3>2. k # 0 => out_on'
      BY <2>5, Zenon
    <3>3. k = 0 => ~out_on'
      BY <2>5, Zenon
    <3>4. k \in 0..3 /\ (k >= 1 \/ ~out_on') /\ (k >= 2 => out_on')
      BY <3>2, <3>3
    <3> QED
      BY <1>0, <2>1, <2>5, <3>1, <3>4, OutSwitch
  <2>6. CASE Raise("runtime") /\ UNCHANGED <<out, out_on>>
    BY <2>1, <2>6, OutSame, RaisePhase
  <2> QED
    BY <1>7, <2>3, <2>4, <2>5, <2>6 DEF RecvInit
<1>8. CASE Handshake
  <2>1. CASE out' = Append(out, Encode("SCHANNEL_INIT")) /\ phase' = "wait_init"
    BY <1>0, <1>8, <2>1, OutAppend DEF Handshake
  <2>2. CASE Raise("closed") /\ UNCHANGED out
    BY <1>8, <2>2, OutSame, RaisePhase DEF Handshake
  <2> QED
    BY <1>8, <2>1, <2>2 DEF Handshake
<1>9. CASE Send
  <2>1. out_on /\ PhaseStep
    BY <1>9 DEF Send, OutInv, PhaseStep
  <2>2. CASE out' = Append(out, Encode("OTHER"))
    BY <1>0, <1>9, <2>1, <2>2, OutAppend DEF Send
  <2>3. CASE UNCHANGED out
    BY <1>9, <2>1, <2>3, OutSame DEF Send
  <2> QED
    BY <1>9, <2>2, <2>3 DEF Send
<1>10. CASE Close
  <2>1. PhaseStep
    BY <1>10 DEF Close, PhaseStep
  <2>2. CASE out' = Append(out, Encode("BYE"))
    BY <1>0, <1>10, <2>1, <2>2, OutAppend DEF Close
  <2>3. CASE UNCHANGED out
    BY <1>10, <2>1, <2>3, OutSame DEF Close
  <2> QED
    BY <1>10, <2>2, <2>3 DEF Close
<1>11. CASE Connect \/ RecvMessagePending \/ RecvMessageExpired
            \/ \E t \in {"finite", "none"} : RecvMessage(t)
  BY <1>11, OutSame DEF Connect, RecvMessagePending, RecvMessageExpired, RecvMessage, PhaseStep
<1>12. CASE UNCHANGED vars
  BY <1>12, OutSame DEF vars, PhaseStep
<1> QED
  BY <1>1, <1>2, <1>3, <1>4, <1>5, <1>6, <1>7, <1>8, <1>9, <1>10, <1>11, <1>12
     DEF Next, CallStep, UserStep

-----------------------------------------------------------------------------
(* The frames accepted during the handshake. *)

\* A new frame leaves the others as they are; in clear it is one of three types.
LEMMA NodeSendFrames ==
    ASSUME IInv, NEW type \in NodeTypes, NEW n \in PayloadSizes, NEW ok \in BOOLEAN,
           NodeSend(type, n, ok)
    PROVE  /\ Len(sent) \in Nat
           /\ DOMAIN sent = 1..Len(sent) /\ DOMAIN sent' = 1..(Len(sent) + 1)
           /\ \A i \in DOMAIN sent : sent'[i] = sent[i]
           /\ sent'[Len(sent) + 1].type = type
           /\ ~sent'[Len(sent) + 1].secure =>
                 type \in {"SCHANNEL_INIT", "SCHANNEL_READY", "BYE"}
<1> DEFINE f == [type |-> type, start |-> SentBytes, secure |-> base # -1, ok |-> ok,
                 size |-> IF base = -1 THEN n ELSE n + MacSize]
<1>0. TypeOK
  BY DEF IInv
<1>1. f \in Frames /\ f.start = SentBytes /\ sent' = Append(sent, f)
  BY <1>0, SentBytesType, SizeAssumption, NodeAssumption DEF NodeSend, Frames
<1>2. f.type = type
  OBVIOUS
<1>3. ~f.secure => base = -1
  <2>1. f.secure = (base # -1)
    BY Zenon
  <2> QED
    BY <2>1, Zenon
<1>4. base = -1 => type \in {"SCHANNEL_INIT", "SCHANNEL_READY", "BYE"}
  BY DEF NodeSend
<1> HIDE DEF f
<1> QED
  BY <1>0, <1>1, <1>2, <1>3, <1>4, AppendFrame, SentDomain

\* A frame that is accepted is one the node has written.
LEMMA AcceptedWritten ==
    ASSUME IInv
    PROVE  \A k \in DOMAIN accepted : accepted[k] \in DOMAIN sent
BY DEF IInv, PositionInv

LEMMA LoginSame ==
    ASSUME LoginInv, UNCHANGED <<sent, accepted>>,
           phase' = phase \/ phase' \notin {"login", "open"}
    PROVE  LoginInv'
BY DEF LoginInv

LEMMA LoginNodeSend ==
    ASSUME IInv, LoginInv, NEW type \in NodeTypes, NEW n \in PayloadSizes, NEW ok \in BOOLEAN,
           NodeSend(type, n, ok)
    PROVE  LoginInv'
<1>1. UNCHANGED <<phase, accepted>>
  BY DEF NodeSend
<1>2. PICK m : m = Len(sent) + 1
  OBVIOUS
<1>3. /\ DOMAIN sent' = DOMAIN sent \cup {m}
      /\ \A i \in DOMAIN sent : sent'[i] = sent[i]
      /\ ~sent'[m].secure => sent'[m].type \in {"SCHANNEL_INIT", "SCHANNEL_READY", "BYE"}
  <2>1. PICK l \in Nat : l = Len(sent)
    BY NodeSendFrames
  <2>2. /\ m = l + 1 /\ DOMAIN sent = 1..l /\ DOMAIN sent' = 1..m
        /\ \A i \in DOMAIN sent : sent'[i] = sent[i]
        /\ ~sent'[m].secure => sent'[m].type \in {"SCHANNEL_INIT", "SCHANNEL_READY", "BYE"}
    BY <1>2, <2>1, NodeSendFrames
  <2>3. 1..m = 1..l \cup {m}
    BY <2>1, <2>2
  <2> QED
    BY <2>2, <2>3
<1>4. \A k \in DOMAIN accepted : sent'[accepted[k]] = sent[accepted[k]]
  BY <1>3, AcceptedWritten
<1>5. \A i \in DOMAIN sent' :
          ~sent'[i].secure => sent'[i].type \in {"SCHANNEL_INIT", "SCHANNEL_READY", "BYE"}
  BY <1>3 DEF LoginInv
<1> QED
  BY <1>1, <1>4, <1>5 DEF LoginInv

\* A step that accepts a frame and leaves the phase, or ends up elsewhere.
LEMMA LoginMessage ==
    ASSUME IInv, LoginInv, Message,
           \/ phase' \notin {"login", "open"}
           \/ phase' = "login" /\ phase = "login" /\ Received.type # "LOGIN"
           \/ phase' = "open" /\ phase = "open"
    PROVE  LoginInv'
<1>1. sent' = sent
  BY DEF Message, RecvBody
<1>2. PICK m \in Nat : m = Len(accepted)
  BY MessageFacts
<1>3. /\ DOMAIN accepted = 1..m /\ DOMAIN accepted' = 1..(m + 1)
      /\ \A k \in 1..m : accepted'[k] = accepted[k]
      /\ accepted'[m + 1] = hdr.idx
  BY <1>2, MessageFacts
<1>4. Len(accepted') = m + 1
  <2>1. accepted' = Append(accepted, hdr.idx) /\ accepted \in Seq(Nat)
    BY MessageFacts DEF IInv, TypeOK
  <2> QED
    BY <1>2, <2>1
<1>5. CASE phase' \notin {"login", "open"}
  BY <1>1, <1>5 DEF LoginInv
<1>6. CASE phase' = "login" /\ phase = "login" /\ Received.type # "LOGIN"
  BY <1>1, <1>2, <1>3, <1>4, <1>6 DEF LoginInv, Received
<1>7. CASE phase' = "open" /\ phase = "open"
  BY <1>1, <1>3, <1>7 DEF LoginInv
<1> QED
  BY <1>5, <1>6, <1>7

\* How many frames have been accepted in each part of the handshake.
LEMMA HandshakeCount ==
    ASSUME IInv, Message
    PROVE  /\ phase = "wait_init" => hdr.idx = 1
           /\ phase = "wait_ready" => hdr.idx = 2 /\ accepted[1] = 1 /\ Len(accepted) = 1
           /\ phase = "login" => hdr.idx = Len(accepted) + 1
<1>1. phase \in Handshaking => ~faulted /\ hdr.idx = Len(accepted) + 1
  BY MessageFacts DEF IInv, PhaseInv
<1>2. phase = "wait_init" => Len(accepted) = 0
  BY DEF IInv, PhaseInv
<1>3. phase = "wait_ready" => Len(accepted) = 1 /\ accepted[1] = 1
  BY <1>1, MessageFacts DEF IInv, PhaseInv, NoSilentLoss, Handshaking
<1>0. PICK m \in Nat : m = Len(accepted)
  BY MessageFacts
<1>4. phase = "wait_init" => hdr.idx = 1
  <2>1. phase = "wait_init" => m = 0 /\ hdr.idx = m + 1
    BY <1>0, <1>1, <1>2 DEF Handshaking
  <2> QED
    BY <1>0, <2>1
<1>5. phase = "wait_ready" => hdr.idx = 2
  <2>1. phase = "wait_ready" => m = 1 /\ hdr.idx = m + 1
    BY <1>0, <1>1, <1>3 DEF Handshaking
  <2> QED
    BY <1>0, <2>1
<1> QED
  BY <1>1, <1>3, <1>4, <1>5 DEF Handshaking

LEMMA LoginStep ==
    ASSUME IInv, LoginInv, [Next]_vars
    PROVE  LoginInv'
<1>1. CASE NodeStep
  BY <1>1, LoginNodeSend, LoginSame DEF NodeStep, NodeClose
<1>2. CASE WaitStep
  BY <1>2, LoginSame DEF WaitStep, Arrive, RecvTimeout, RecvEOF, Abandon, Raise
<1>3. CASE RecvHeader \/ BadHeader \/ BadBody
  BY <1>3, LoginSame DEF RecvHeader, BadHeader, BadBody, RecvBody, Raise
<1>4. CASE RecvInit
  <2>1. phase' \notin {"login", "open"}
    BY <1>4 DEF RecvInit, Raise
  <2> QED
    BY <1>4, <2>1, LoginMessage DEF RecvInit
<1>5. CASE RecvReady
  <2>1. CASE phase' = "login" /\ Received.type = "SCHANNEL_READY"
    <3>1. /\ sent' = sent /\ hdr.idx = 2 /\ accepted[1] = 1 /\ Len(accepted) = 1
          /\ sent[1].type = "SCHANNEL_INIT"
      BY <1>5, HandshakeCount DEF RecvReady, Message, RecvBody, IInv, PhaseInv
    <3>2. /\ DOMAIN accepted' = 1..2 /\ accepted'[1] = 1 /\ accepted'[2] = 2
          /\ Len(accepted') = 2
      <4>1. PICK m, x : m = Len(accepted) /\ x = hdr.idx
        OBVIOUS
      <4>2. /\ m = 1 /\ x = 2
            /\ accepted' = Append(accepted, x) /\ DOMAIN accepted' = 1..(m + 1)
            /\ \A k \in 1..m : accepted'[k] = accepted[k]
            /\ accepted'[m + 1] = x
        BY <1>5, <3>1, <4>1, MessageFacts DEF RecvReady
      <4>3. accepted' \in Seq(Nat)
        BY <1>5, NextInv DEF IInv, TypeOK, Next, CallStep
      <4>4. Len(accepted') = 2
        BY <4>2, <4>3
      <4> QED
        BY <3>1, <4>2, <4>4
    <3>3. \A k \in DOMAIN accepted' : sent[accepted'[k]].type # "LOGIN"
      BY <2>1, <3>1, <3>2 DEF Received
    <3> QED
      BY <2>1, <3>1, <3>2, <3>3 DEF LoginInv
  <2>2. CASE phase' = "failed"
    BY <1>5, <2>2, LoginMessage DEF RecvReady
  <2> QED
    BY <1>5, <2>1, <2>2 DEF RecvReady, Raise
<1>6. CASE LoginAnswer
  <2>1. Received.type # "LOGIN"
    BY <1>6 DEF LoginAnswer, LoginReply
  <2>2. (phase' = "login" /\ phase = "login") \/ phase' = "failed"
    BY <1>6 DEF LoginAnswer, Raise
  <2> QED
    BY <1>6, <2>1, <2>2, LoginMessage DEF LoginAnswer
<1>7. CASE LoginSkip \/ LoginQueue
  <2>1. Message /\ phase' = "login" /\ phase = "login" /\ Received.type # "LOGIN"
    BY <1>7 DEF LoginSkip, LoginQueue, LoginTypes
  <2> QED
    BY <2>1, LoginMessage
<1>8. CASE LoginRefused
  BY <1>8, LoginMessage DEF LoginRefused, Raise
<1>9. CASE LoginDone
  <2>1. PICK m \in Nat : m = Len(accepted)
    BY <1>9, MessageFacts DEF LoginDone
  <2>2. /\ sent' = sent /\ m >= 2 /\ hdr.idx = m + 1
        /\ sent[hdr.idx].type = "LOGIN" /\ phase' = "open"
    BY <1>9, <2>1, HandshakeCount DEF LoginDone, Message, RecvBody, LoginInv, Received
  <2>3. m + 1 \in DOMAIN accepted' /\ accepted'[m + 1] = hdr.idx /\ hdr.idx > 2
    BY <1>9, <2>1, <2>2, MessageFacts DEF LoginDone
  <2> QED
    BY <2>2, <2>3 DEF LoginInv
<1>10. CASE RecvMessageReturn
  BY <1>10, LoginMessage DEF RecvMessageReturn
<1>11. CASE UserStep
  BY <1>11, LoginSame DEF UserStep, Connect, Handshake, RecvMessagePending,
     RecvMessageExpired, RecvMessage, Send, Close, Raise
<1>12. CASE UNCHANGED vars
  BY <1>12, LoginSame DEF vars
<1> QED
  BY <1>1, <1>2, <1>3, <1>4, <1>5, <1>6, <1>7, <1>8, <1>9, <1>10, <1>11, <1>12
     DEF Next, CallStep

-----------------------------------------------------------------------------
(* What becomes of an accepted frame. *)

\* The frames accepted for the application.
ForRecvMessage == {accepted[k] : k \in {n \in DOMAIN accepted : ForApplication(accepted[n])}}

\* Whether a frame is for the application does not depend on later frames.
LEMMA KindSame ==
    ASSUME IInv, Message
    PROVE  \A i \in DOMAIN sent : i <= hdr.idx => (ForApplication(i)' <=> ForApplication(i))
<1> SUFFICES ASSUME NEW i \in DOMAIN sent, i <= hdr.idx
             PROVE  ForApplication(i)' <=> ForApplication(i)
  OBVIOUS
<1>0. sent' = sent /\ i \in Nat /\ hdr.idx \in Nat
  BY RecvBodyFacts, SentDomain DEF Message, IInv
<1>1. PICK m \in Nat : m = Len(accepted)
  BY MessageFacts
<1>2. /\ DOMAIN accepted = 1..m /\ DOMAIN accepted' = 1..(m + 1)
      /\ \A k \in 1..m : accepted'[k] = accepted[k]
      /\ accepted'[m + 1] = hdr.idx
  BY <1>1, MessageFacts
<1>3. (\E k \in DOMAIN accepted' : accepted'[k] < i /\ sent[accepted'[k]].type = "LOGIN")
      <=> (\E k \in DOMAIN accepted : accepted[k] < i /\ sent[accepted[k]].type = "LOGIN")
  <2>1. ASSUME NEW k \in DOMAIN accepted', accepted'[k] < i
        PROVE  k \in DOMAIN accepted
    BY <1>0, <1>1, <1>2, <2>1
  <2> QED
    BY <1>1, <1>2, <2>1
<1> QED
  BY <1>0, <1>3 DEF ForApplication

\* The frame just read is for the application if login leaves its type alone
\* or is over; before that nothing asks for a reply.
LEMMA KindNow ==
    ASSUME IInv, LoginInv, Message
    PROVE  /\ phase \in {"wait_init", "wait_ready", "login", "open"}
           /\ phase \in {"wait_init", "wait_ready"} =>
                 ~ForApplication(hdr.idx) /\ Received.type \notin DOMAIN LoginReply
           /\ phase = "login" => (ForApplication(hdr.idx) <=> Received.type \notin LoginTypes)
           /\ phase = "open" => ForApplication(hdr.idx)
<1>0. rx = "body" /\ hdr.idx # 0 /\ hdr.idx \in Nat
  BY RecvBodyFacts DEF Message, RecvBody, Authentic
<1>1. phase \in {"wait_init", "wait_ready", "login", "open"}
  BY <1>0 DEF IInv, PhaseInv, Handshaking
<1>2. ASSUME phase \in {"wait_init", "wait_ready"}
      PROVE  ~ForApplication(hdr.idx) /\ Received.type \notin DOMAIN LoginReply
  <2>1. hdr.idx \in {1, 2}
    BY <1>2, HandshakeCount
  <2>2. ~sent[hdr.idx].secure
    BY <1>0, <1>2 DEF IInv, PhaseInv, PositionInv
  <2>3. Received.type \in {"SCHANNEL_INIT", "SCHANNEL_READY", "BYE"}
    BY <2>2, MessageFacts DEF LoginInv, Received
  <2> QED
    BY <2>1, <2>3 DEF ForApplication, LoginReply
<1>3. ASSUME phase = "login"
      PROVE  ForApplication(hdr.idx) <=> Received.type \notin LoginTypes
  <2>1. PICK m \in Nat : m = Len(accepted)
    BY MessageFacts
  <2>2. m >= 2 /\ hdr.idx = m + 1 /\ \A k \in DOMAIN accepted : sent[accepted[k]].type # "LOGIN"
    BY <1>3, <2>1, HandshakeCount DEF LoginInv
  <2>3. hdr.idx > 2
    BY <2>1, <2>2
  <2> QED
    BY <2>2, <2>3 DEF ForApplication, Received
<1>4. ASSUME phase = "open" PROVE ForApplication(hdr.idx)
  <2>1. PICK k \in DOMAIN accepted : accepted[k] > 2 /\ sent[accepted[k]].type = "LOGIN"
    BY <1>4 DEF LoginInv
  <2>2. accepted[k] < hdr.idx /\ accepted[k] \in Nat
    BY <2>1, AcceptedWritten, MessageFacts, SentDomain DEF IInv
  <2>3. hdr.idx > 2
    BY <1>0, <2>1, <2>2
  <2> QED
    BY <2>1, <2>2, <2>3 DEF ForApplication
<1> QED
  BY <1>1, <1>2, <1>3, <1>4

\* A step that accepts nothing leaves what was accepted as it was.
LEMMA HandledSame ==
    ASSUME IInv, accepted' = accepted, \A i \in DOMAIN sent : sent'[i] = sent[i]
    PROVE  /\ ForRecvMessage' = ForRecvMessage
           /\ AskedInLogin' = AskedInLogin
           /\ \A k \in DOMAIN accepted : sent'[accepted[k]] = sent[accepted[k]]
<1>1. \A k \in DOMAIN accepted : sent'[accepted[k]] = sent[accepted[k]]
  BY AcceptedWritten
<1>2. \A k \in DOMAIN accepted : ForApplication(accepted[k])' <=> ForApplication(accepted[k])
  BY <1>1 DEF ForApplication
<1>3. ForRecvMessage' = ForRecvMessage
  BY <1>2 DEF ForRecvMessage
<1>4. AskedInLogin' = AskedInLogin
  BY <1>1, <1>2 DEF AskedInLogin
<1> QED
  BY <1>1, <1>3, <1>4

\* A frame that is read joins the one set, or the other, or neither.
LEMMA HandledMessage ==
    ASSUME IInv, LoginInv, Message
    PROVE  /\ ForRecvMessage' =
                 IF ForApplication(hdr.idx) THEN ForRecvMessage \cup {hdr.idx} ELSE ForRecvMessage
           /\ AskedInLogin' =
                 IF ~ForApplication(hdr.idx) /\ Received.type \in DOMAIN LoginReply
                 THEN AskedInLogin \cup {Len(accepted) + 1} ELSE AskedInLogin
<1>0. sent' = sent
  BY DEF Message, RecvBody
<1>1. PICK m, x : m = Len(accepted) /\ x = hdr.idx
  OBVIOUS
<1>2. /\ m \in Nat /\ DOMAIN accepted = 1..m /\ DOMAIN accepted' = 1..(m + 1)
      /\ \A k \in 1..m : accepted'[k] = accepted[k] /\ accepted[k] < x
      /\ accepted'[m + 1] = x /\ x \in DOMAIN sent
  BY <1>1, MessageFacts
<1>3. ForApplication(x)' <=> ForApplication(x)
  BY <1>1, <1>2, KindSame, SentDomain DEF IInv
<1>4. \A k \in 1..m : ForApplication(accepted[k])' <=> ForApplication(accepted[k])
  <2> SUFFICES ASSUME NEW k \in 1..m
               PROVE  ForApplication(accepted[k])' <=> ForApplication(accepted[k])
    OBVIOUS
  <2>1. PICK i : i = accepted[k]
    OBVIOUS
  <2>2. i \in DOMAIN sent /\ i <= hdr.idx
    BY <1>1, <1>2, <2>1, AcceptedWritten, SentDomain DEF IInv
  <2>3. ForApplication(i)' <=> ForApplication(i)
    BY <2>2, KindSame
  <2>4. accepted'[k] = i
    BY <1>2, <2>1
  <2> QED
    BY <2>1, <2>3, <2>4 DEF ForApplication
<1>5. 1..(m + 1) = 1..m \cup {m + 1} /\ m + 1 \notin 1..m
  BY <1>2
<1>6. ForApplication(accepted[m + 1])' <=> ForApplication(x)
  BY <1>2, <1>3 DEF ForApplication
<1>7. ForRecvMessage' =
         IF ForApplication(x) THEN ForRecvMessage \cup {x} ELSE ForRecvMessage
  <2>1. ForRecvMessage = {accepted[k] : k \in {n \in 1..m : ForApplication(accepted[n])}}
    BY <1>2 DEF ForRecvMessage
  <2>2. ForRecvMessage' =
           {accepted'[k] : k \in {n \in 1..m \cup {m + 1} : ForApplication(accepted[n])'}}
    BY <1>2, <1>5 DEF ForRecvMessage
  <2> QED
    BY <1>2, <1>4, <1>6, <2>1, <2>2
<1>8. AskedInLogin' =
         IF ~ForApplication(x) /\ Received.type \in DOMAIN LoginReply
         THEN AskedInLogin \cup {m + 1} ELSE AskedInLogin
  <2>1. AskedInLogin = {k \in 1..m : ~ForApplication(accepted[k])
                                      /\ sent[accepted[k]].type \in DOMAIN LoginReply}
    BY <1>2 DEF AskedInLogin
  <2>2. AskedInLogin' = {k \in 1..m \cup {m + 1} :
            ~ForApplication(accepted[k])' /\ sent[accepted'[k]].type \in DOMAIN LoginReply}
    BY <1>0, <1>2, <1>5 DEF AskedInLogin, LoginReply
  <2>3. Received = sent[accepted'[m + 1]]
    BY <1>1, <1>2 DEF Received
  <2> QED
    BY <1>2, <1>4, <1>6, <2>1, <2>2, <2>3
<1> QED
  BY <1>1, <1>7, <1>8

-----------------------------------------------------------------------------
(* What recv_message() returns. *)

Kept == delivered \o pending

LEMMA AppendToTail ==
    ASSUME NEW s \in Seq(Nat), NEW t \in Seq(Nat), NEW x \in Nat
    PROVE  s \o Append(t, x) = Append(s \o t, x)
OBVIOUS

LEMMA AppendToFront ==
    ASSUME NEW s \in Seq(Nat), NEW x \in Nat
    PROVE  Append(s, x) \o <<>> = Append(s \o <<>>, x)
OBVIOUS

LEMMA MoveHead ==
    ASSUME NEW s \in Seq(Nat), NEW t \in Seq(Nat), t # <<>>
    PROVE  Append(s, Head(t)) \o Tail(t) = s \o t
OBVIOUS

LEMMA FaithfulMeans ==
    DeliveredFaithfully <=>
        /\ \A j, k \in DOMAIN Kept : j < k => Kept[j] < Kept[k]
        /\ {Kept[k] : k \in DOMAIN Kept} = ForRecvMessage
BY DEF DeliveredFaithfully, Kept, ForRecvMessage

LEMMA KeptSame ==
    ASSUME DeliveredFaithfully, Kept' = Kept, ForRecvMessage' = ForRecvMessage
    PROVE  DeliveredFaithfully'
<1>1. /\ \A j, k \in DOMAIN Kept' : j < k => Kept'[j] < Kept'[k]
      /\ {Kept'[k] : k \in DOMAIN Kept'} = ForRecvMessage'
  BY FaithfulMeans
<1> QED
  BY <1>1 DEF DeliveredFaithfully, Kept, ForRecvMessage

LEMMA KeptAdd ==
    ASSUME IInv, LoginInv, DeliveredFaithfully, Message, ForApplication(hdr.idx),
           Kept' = Append(Kept, hdr.idx)
    PROVE  DeliveredFaithfully'
<1>1. PICK x : x = hdr.idx
  OBVIOUS
<1>2. PICK s \in Seq(Nat) : s = Kept
  <2>1. delivered \in Seq(Nat) /\ pending \in Seq(Nat)
    BY DEF IInv, TypeOK
  <2> QED
    BY <2>1, ConcatProperties DEF Kept
<1>3. PICK n \in Nat : n = Len(s) /\ DOMAIN s = 1..n
  BY <1>2
<1>4. PICK t : t = Kept'
  OBVIOUS
<1>5. /\ t = Append(s, x) /\ DOMAIN t = 1..(n + 1) /\ t[n + 1] = x
      /\ \A k \in 1..n : t[k] = s[k]
  BY <1>1, <1>2, <1>3, <1>4
<1>6. \A j, k \in 1..n : j < k => s[j] < s[k]
  BY <1>2, <1>3, FaithfulMeans
<1>7. {s[k] : k \in 1..n} = ForRecvMessage
  BY <1>2, <1>3, FaithfulMeans
<1>8. \A k \in 1..n : s[k] < x
  <2> SUFFICES ASSUME NEW k \in 1..n PROVE s[k] < x
    OBVIOUS
  <2>1. s[k] \in ForRecvMessage
    BY <1>7
  <2>2. PICK j \in DOMAIN accepted : s[k] = accepted[j]
    BY <2>1 DEF ForRecvMessage
  <2> QED
    BY <1>1, <2>2, MessageFacts
<1>9. \A j, k \in DOMAIN t : j < k => t[j] < t[k]
  <2> SUFFICES ASSUME NEW j \in DOMAIN t, NEW k \in DOMAIN t, j < k PROVE t[j] < t[k]
    OBVIOUS
  <2>1. j \in 1..n
    BY <1>3, <1>5
  <2>2. CASE k \in 1..n
    BY <1>5, <1>6, <2>1, <2>2
  <2>3. CASE k = n + 1
    BY <1>5, <1>8, <2>1, <2>3
  <2> QED
    BY <1>3, <1>5, <2>2, <2>3
<1>10. {t[k] : k \in DOMAIN t} = ForRecvMessage'
  <2>1. ForRecvMessage' = ForRecvMessage \cup {x}
    BY <1>1, HandledMessage
  <2>2. DOMAIN t = 1..n \cup {n + 1}
    BY <1>3, <1>5
  <2>3. {t[k] : k \in DOMAIN t} = {s[k] : k \in 1..n} \cup {x}
    BY <1>5, <2>2
  <2> QED
    BY <1>7, <2>1, <2>3
<1> QED
  BY <1>4, <1>9, <1>10 DEF DeliveredFaithfully, Kept, ForRecvMessage

\* A message the connection deals with itself.
LEMMA KeptAside ==
    ASSUME IInv, LoginInv, DeliveredFaithfully, Message, ~ForApplication(hdr.idx),
           UNCHANGED <<delivered, pending>>
    PROVE  DeliveredFaithfully'
BY HandledMessage, KeptSame DEF Kept

LEMMA DeliveredStep ==
    ASSUME IInv, LoginInv, DeliveredFaithfully, [Next]_vars
    PROVE  DeliveredFaithfully'
<1>0. delivered \in Seq(Nat) /\ pending \in Seq(Nat) /\ hdr.idx \in Nat
  BY DEF IInv, TypeOK
<1>1. ASSUME UNCHANGED <<sent, accepted, delivered, pending>>
      PROVE  DeliveredFaithfully'
  BY <1>1, HandledSame, KeptSame DEF Kept
<1>2. CASE NodeStep
  <2>1. CASE NodeClose
    BY <1>1, <2>1 DEF NodeClose
  <2>2. ASSUME NEW type \in NodeTypes, NEW n \in PayloadSizes, NEW ok \in BOOLEAN,
               NodeSend(type, n, ok)
        PROVE  DeliveredFaithfully'
    <3>1. accepted' = accepted /\ Kept' = Kept
      BY <2>2 DEF NodeSend, Kept
    <3> QED
      BY <2>2, <3>1, NodeSendFrames, HandledSame, KeptSame
  <2> QED
    BY <1>2, <2>1, <2>2 DEF NodeStep
<1>3. CASE WaitStep
  BY <1>1, <1>3 DEF WaitStep, Arrive, RecvTimeout, RecvEOF, Abandon
<1>4. CASE RecvHeader \/ BadHeader \/ BadBody
  BY <1>1, <1>4 DEF RecvHeader, BadHeader, BadBody, RecvBody
<1>5. CASE RecvInit \/ RecvReady
  BY <1>5, KindNow, KeptAside DEF RecvInit, RecvReady
<1>6. CASE LoginAnswer \/ LoginSkip \/ LoginRefused \/ LoginDone
  <2>1. Message /\ phase = "login" /\ UNCHANGED <<delivered, pending>>
    BY <1>6 DEF LoginAnswer, LoginSkip, LoginRefused, LoginDone
  <2>2. Received.type \in LoginTypes
    BY <1>6 DEF LoginAnswer, LoginSkip, LoginRefused, LoginDone, LoginTypes, LoginReply
  <2> QED
    BY <2>1, <2>2, KindNow, KeptAside
<1>7. CASE LoginQueue
  <2>1. Message /\ ForApplication(hdr.idx)
    BY <1>7, KindNow DEF LoginQueue
  <2>2. Kept' = Append(Kept, hdr.idx)
    BY <1>0, <1>7, AppendToTail DEF LoginQueue, Kept
  <2> QED
    BY <2>1, <2>2, KeptAdd
<1>8. CASE RecvMessageReturn
  <2>1. Message /\ ForApplication(hdr.idx)
    BY <1>8, KindNow DEF RecvMessageReturn
  <2>2. pending = <<>>
    BY <1>8 DEF RecvMessageReturn, Message, RecvBody, IInv, PhaseInv
  <2>3. Kept' = Append(Kept, hdr.idx)
    <3>1. pending' = <<>> /\ delivered' = Append(delivered, hdr.idx)
      BY <1>8, <2>2 DEF RecvMessageReturn
    <3> QED
      BY <1>0, <2>2, <3>1, AppendToFront DEF Kept
  <2> QED
    BY <2>1, <2>3, KeptAdd
<1>9. CASE RecvMessagePending
  <2>1. Kept' = Kept
    BY <1>0, <1>9, MoveHead DEF RecvMessagePending, Kept
  <2> QED
    BY <1>9, <2>1, HandledSame, KeptSame DEF RecvMessagePending
<1>10. CASE Connect \/ Handshake \/ RecvMessageExpired \/ Send \/ Close
            \/ \E t \in {"finite", "none"} : RecvMessage(t)
  BY <1>1, <1>10 DEF Connect, Handshake, RecvMessageExpired, Send, Close, RecvMessage
<1>11. CASE UNCHANGED vars
  BY <1>1, <1>11 DEF vars
<1> QED
  BY <1>2, <1>3, <1>4, <1>5, <1>6, <1>7, <1>8, <1>9, <1>10, <1>11
     DEF Next, CallStep, UserStep

-----------------------------------------------------------------------------
(* The replies sent during login. *)

LEMMA AnswerTypes ==
    ASSUME IInv
    PROVE  /\ Len(out) \in Nat /\ DOMAIN out = 1..Len(out)
           /\ Len(accepted) \in Nat /\ DOMAIN accepted = 1..Len(accepted)
           /\ Replies \in SUBSET (1..Len(out))
           /\ AskedInLogin \in SUBSET (1..Len(accepted))
<1>1. out \in Seq(Sends) /\ accepted \in Seq(Nat)
  BY DEF IInv, TypeOK
<1>2. /\ Len(out) \in Nat /\ DOMAIN out = 1..Len(out)
      /\ Len(accepted) \in Nat /\ DOMAIN accepted = 1..Len(accepted)
  BY <1>1
<1> QED
  BY <1>2 DEF Replies, AskedInLogin

\* What a message sent on its own does to the replies.
LEMMA RepliesAppend ==
    ASSUME IInv, NEW t, out' = Append(out, Encode(t))
    PROVE  /\ \A i \in DOMAIN out : out'[i] = out[i]
           /\ out'[Len(out) + 1].type = t
           /\ Replies' = IF t \in {"TIME", "PONG"} THEN Replies \cup {Len(out) + 1} ELSE Replies
<1> PICK n, x : n = Len(out) /\ x = Encode(t)
  OBVIOUS
<1>1. /\ n \in Nat /\ DOMAIN out = 1..n /\ DOMAIN out' = 1..(n + 1)
      /\ out'[n + 1] = x /\ \A i \in 1..n : out'[i] = out[i]
  BY OutType DEF IInv
<1>2. x.type = t
  BY DEF Encode
<1>3. 1..(n + 1) = 1..n \cup {n + 1} /\ n + 1 \notin 1..n
  BY <1>1
<1>4. Replies' = IF t \in {"TIME", "PONG"} THEN Replies \cup {n + 1} ELSE Replies
  BY <1>1, <1>2, <1>3 DEF Replies
<1> QED
  BY <1>1, <1>2, <1>4

\* The switch sends no reply.
LEMMA RepliesSwitch ==
    ASSUME IInv, NEW k \in 0..3, out' = out \o SubSeq(SwitchSends, 1, k)
    PROVE  Replies' = Replies /\ \A i \in DOMAIN out : out'[i] = out[i]
<1> PICK n, s : n = Len(out) /\ s = SwitchSends
  OBVIOUS
<1>1. /\ s \in Seq(Sends) /\ Len(s) = 3
      /\ \A i \in 1..3 : s[i].type \notin {"TIME", "PONG"}
  BY SwitchSendsType DEF SwitchSends
<1>2. /\ SubSeq(s, 1, k) \in Seq(Sends) /\ Len(SubSeq(s, 1, k)) = k
      /\ \A i \in 1..k : SubSeq(s, 1, k)[i] = s[i]
  <2>1. s \in Seq(Sends) /\ Len(s) = 3 /\ k \in Nat /\ k <= Len(s)
    BY <1>1
  <2>2. /\ Len(SubSeq(s, 1, k)) = k
        /\ \A i \in 1..k : SubSeq(s, 1, k)[i] = s[i]
    BY <2>1
  <2>3. \A i \in 1..k : s[i] \in Sends
    <3>1. \A i \in 1..3 : s[i] \in Sends
      BY <2>1, ElementOfSeq
    <3> QED
      BY <2>1, <3>1
  <2>4. 1 \in Int /\ k \in Int
    OBVIOUS
  <2> QED
    BY <2>2, <2>3, <2>4, SubSeqProperties
<1>3. /\ n \in Nat /\ DOMAIN out = 1..n /\ DOMAIN out' = 1..(n + k)
      /\ \A i \in 1..n : out'[i] = out[i]
      /\ \A i \in 1..k : out'[n + i] = s[i]
  BY <1>2, OutType DEF IInv
<1>4. ASSUME NEW i \in DOMAIN out', i \notin 1..n
      PROVE  out'[i].type \notin {"TIME", "PONG"}
  <2>1. i - n \in 1..k /\ i = n + (i - n) /\ i - n \in 1..3
    BY <1>3, <1>4
  <2> QED
    BY <1>1, <1>3, <2>1
<1>5. 1..n \subseteq 1..(n + k)
  BY <1>3
<1> QED
  BY <1>3, <1>4, <1>5 DEF Replies

LEMMA AnswersSame ==
    ASSUME IInv, AnswerInv,
           Replies' = Replies, \A i \in DOMAIN out : out'[i] = out[i],
           AskedInLogin' = AskedInLogin,
           \A k \in DOMAIN accepted : sent'[accepted'[k]] = sent[accepted[k]],
           nodeUp' => nodeUp, phase' \in {"failed", "closed"} \/ phase \notin {"failed", "closed"}
    PROVE  AnswerInv'
<1>1. \A i \in Replies : i \in DOMAIN out
  BY DEF Replies
<1>2. \A k \in AskedInLogin : k \in DOMAIN accepted
  BY DEF AskedInLogin
<1>3. /\ \A i : Rank(Replies, i)' = Rank(Replies, i)
      /\ \A k : Rank(AskedInLogin, k)' = Rank(AskedInLogin, k)
  BY DEF Rank
<1>4. AnsweredInLogin'
  BY <1>1, <1>2, <1>3 DEF AnswerInv, AnsweredInLogin, LoginReply
<1> QED
  BY <1>4 DEF AnswerInv

\* A message that asks for nothing.
LEMMA AnswersAside ==
    ASSUME IInv, LoginInv, AnswerInv, Message,
           ForApplication(hdr.idx) \/ Received.type \notin DOMAIN LoginReply,
           Replies' = Replies, \A i \in DOMAIN out : out'[i] = out[i]
    PROVE  AnswerInv'
<1>1. UNCHANGED <<sent, nodeUp>>
  BY DEF Message, RecvBody
<1>2. AskedInLogin' = AskedInLogin
  BY HandledMessage
<1>3. \A k \in DOMAIN accepted : sent'[accepted'[k]] = sent[accepted[k]]
  BY <1>1, MessageFacts
<1>4. phase \notin {"failed", "closed"}
  BY KindNow
<1> QED
  BY <1>1, <1>2, <1>3, <1>4, AnswersSame

\* The equation and the matching of AnsweredInLogin, put in terms of what
\* the replies say and what the messages ask for.
Says == [i \in DOMAIN out |-> out[i].type]
AsksFor == [k \in AskedInLogin |-> LoginReply[sent[accepted[k]].type]]

LEMMA LoginAnswerInv ==
    ASSUME IInv, LoginInv, AnswerInv, LoginAnswer
    PROVE  AnswerInv'
<1>1. PICK n, m, R, A : /\ n = Len(out) /\ m = Len(accepted)
                        /\ R = Replies /\ A = AskedInLogin
  OBVIOUS
<1>2. /\ n \in Nat /\ DOMAIN out = 1..n /\ m \in Nat /\ DOMAIN accepted = 1..m
      /\ R \in SUBSET (1..n) /\ A \in SUBSET (1..m)
  BY <1>1, AnswerTypes
<1>3. Message /\ phase = "login" /\ Received.type \in DOMAIN LoginReply
  BY DEF LoginAnswer
<1>4. ~ForApplication(hdr.idx)
  BY <1>3, KindNow DEF LoginReply, LoginTypes
<1>5. AskedInLogin' = A \cup {m + 1}
  BY <1>1, <1>3, <1>4, HandledMessage
<1>6. /\ sent' = sent /\ nodeUp' = nodeUp
      /\ \A k \in 1..m : accepted'[k] = accepted[k]
      /\ sent[accepted'[m + 1]] = Received
  BY <1>1, <1>2, <1>3, MessageFacts DEF Message, RecvBody, Received
<1>7. Cardinality(R) = Cardinality(A)
  BY <1>1, <1>3 DEF AnswerInv
<1>8. PICK f, g : f = Says' /\ g = AsksFor'
  OBVIOUS
<1>9. \A k \in A \cup {m + 1} : g[k] = LoginReply[sent[accepted'[k]].type]
  BY <1>5, <1>6, <1>8 DEF AsksFor, LoginReply
<1>10. \A i \in R, k \in A : Rank(R, i) = Rank(A, k) =>
           out[i].type = LoginReply[sent[accepted[k]].type]
  BY <1>1 DEF AnswerInv, AnsweredInLogin
<1>11. CASE out' = Append(out, Encode(LoginReply[Received.type])) /\ UNCHANGED phase
  <2>1. LoginReply[Received.type] \in {"TIME", "PONG"}
    BY <1>3 DEF LoginReply
  <2>2. /\ \A i \in 1..n : out'[i] = out[i]
        /\ out'[n + 1].type = LoginReply[Received.type]
        /\ Replies' = R \cup {n + 1}
    BY <1>1, <1>2, <1>11, <2>1, RepliesAppend
  <2>3. \A i \in R \cup {n + 1} : f[i] = out'[i].type
    BY <1>8, <2>2 DEF Says, Replies
  <2>4. f[n + 1] = g[m + 1]
    BY <1>6, <1>9, <2>2, <2>3
  <2>5. Matching(R, A, f, g)
    BY <1>2, <1>6, <1>9, <1>10, <2>2, <2>3 DEF Matching
  <2>6. PICK R2, A2 : R2 = R \cup {n + 1} /\ A2 = A \cup {m + 1}
    OBVIOUS
  <2>7. /\ Cardinality(R2) = Cardinality(A2)
        /\ \A i \in R2, k \in A2 : Rank(R2, i) = Rank(A2, k) => f[i] = g[k]
    <3>1. /\ Cardinality(R \cup {n + 1}) = Cardinality(A \cup {m + 1})
          /\ Matching(R \cup {n + 1}, A \cup {m + 1}, f, g)
      BY <1>2, <1>7, <2>4, <2>5, MatchAdd, Zenon
    <3> QED
      BY <2>6, <3>1, Zenon DEF Matching
  <2>8. Replies' = R2 /\ AskedInLogin' = A2 /\ IsFiniteSet(R2) /\ Cardinality(R2) \in Nat
    <3>1. R2 \in SUBSET (1..(n + 1)) /\ n + 1 \in Nat
      BY <1>2, <2>6
    <3> QED
      BY <1>5, <2>2, <2>6, <3>1, PositionsFinite
  <2>9. \A i \in R2, k \in A2 : Rank(R2, i) = Rank(A2, k) =>
            out'[i].type = LoginReply[sent[accepted'[k]].type]
    BY <1>9, <2>3, <2>6, <2>7
  <2>10. /\ \A i : Rank(Replies, i)' = Rank(R2, i)
         /\ \A k : Rank(AskedInLogin, k)' = Rank(A2, k)
    BY <2>8 DEF Rank
  <2>11. AnsweredInLogin'
    BY <1>6, <2>7, <2>8, <2>9, <2>10 DEF AnsweredInLogin, LoginReply
  <2> QED
    BY <2>7, <2>8, <2>11 DEF AnswerInv
<1>12. CASE ~nodeUp /\ Raise("closed") /\ UNCHANGED out
  <2>1. phase' = "failed" /\ ~nodeUp' /\ Replies' = R
    BY <1>1, <1>3, <1>6, <1>12 DEF Raise, Replies
  <2>2. \A i \in R : f[i] = out[i].type
    BY <1>2, <1>8, <1>12 DEF Says
  <2>3. Matching(R, A, f, g)
    BY <1>2, <1>6, <1>9, <1>10, <2>2 DEF Matching
  <2>4. PICK A2 : A2 = A \cup {m + 1}
    OBVIOUS
  <2>5. /\ Cardinality(R) <= Cardinality(A2)
        /\ \A i \in R, k \in A2 : Rank(R, i) = Rank(A2, k) => f[i] = g[k]
    <3>1. /\ Cardinality(R) <= Cardinality(A \cup {m + 1})
          /\ Matching(R, A \cup {m + 1}, f, g)
      BY <1>2, <1>7, <2>3, MatchAsk, Zenon
    <3> QED
      BY <2>4, <3>1, Zenon DEF Matching
  <2>6. \A i \in R, k \in A2 : Rank(R, i) = Rank(A2, k) =>
            out'[i].type = LoginReply[sent[accepted'[k]].type]
    <3>1. /\ out' = out /\ \A i \in R : f[i] = out[i].type
          /\ \A k \in A2 : g[k] = LoginReply[sent[accepted'[k]].type]
          /\ \A i \in R, k \in A2 : Rank(R, i) = Rank(A2, k) => f[i] = g[k]
      BY <1>9, <1>12, <2>2, <2>4, <2>5
    <3> QED
      BY <3>1
  <2>7. /\ \A i : Rank(Replies, i)' = Rank(R, i)
        /\ \A k : Rank(AskedInLogin, k)' = Rank(A2, k)
    BY <1>5, <2>1, <2>4 DEF Rank
  <2>8. AnsweredInLogin'
    BY <1>5, <1>6, <2>1, <2>4, <2>5, <2>6, <2>7 DEF AnsweredInLogin, LoginReply
  <2> QED
    BY <2>1, <2>8 DEF AnswerInv
<1> QED
  BY <1>11, <1>12 DEF LoginAnswer

LEMMA AnswerStep ==
    ASSUME IInv, LoginInv, AnswerInv, [Next]_vars
    PROVE  AnswerInv'
<1>1. ASSUME UNCHANGED <<sent, accepted>>, nodeUp' => nodeUp,
             Replies' = Replies, \A i \in DOMAIN out : out'[i] = out[i],
             phase' \in {"failed", "closed"} \/ phase \notin {"failed", "closed"}
      PROVE  AnswerInv'
  BY <1>1, HandledSame, AnswersSame
<1>2. ASSUME UNCHANGED out
      PROVE  Replies' = Replies /\ \A i \in DOMAIN out : out'[i] = out[i]
  BY <1>2 DEF Replies
<1>3. CASE NodeStep
  <2>1. CASE NodeClose
    BY <1>1, <1>2, <2>1 DEF NodeClose
  <2>2. ASSUME NEW type \in NodeTypes, NEW n \in PayloadSizes, NEW ok \in BOOLEAN,
               NodeSend(type, n, ok)
        PROVE  AnswerInv'
    <3>1. UNCHANGED <<accepted, out, nodeUp, phase>>
      BY <2>2 DEF NodeSend
    <3> QED
      BY <1>2, <2>2, <3>1, NodeSendFrames, HandledSame, AnswersSame
  <2> QED
    BY <1>3, <2>1, <2>2 DEF NodeStep
<1>4. CASE WaitStep
  BY <1>1, <1>2, <1>4 DEF WaitStep, Arrive, RecvTimeout, RecvEOF, Abandon, Raise
<1>5. CASE RecvHeader \/ BadHeader \/ BadBody
  BY <1>1, <1>2, <1>5 DEF RecvHeader, BadHeader, BadBody, RecvBody, Raise
<1>6. CASE RecvInit
  <2>1. PICK k \in 0..3 : out' = out \o SubSeq(SwitchSends, 1, k)
    <3>1. SwitchSends = SubSeq(SwitchSends, 1, 3)
      BY DEF SwitchSends
    <3>2. out = out \o SubSeq(SwitchSends, 1, 0)
      BY ConcatEmptySeq DEF IInv, TypeOK
    <3>3. \/ out' = out \o SubSeq(SwitchSends, 1, 3)
          \/ out' = out \o SubSeq(SwitchSends, 1, 1)
          \/ \E k \in 0..2 : out' = out \o SubSeq(SwitchSends, 1, k)
          \/ out' = out \o SubSeq(SwitchSends, 1, 0)
      BY <1>6, <3>1, <3>2, Zenon DEF RecvInit
    <3> QED
      BY <3>3
  <2>2. Message /\ phase = "wait_init"
    BY <1>6 DEF RecvInit
  <2> QED
    BY <2>1, <2>2, RepliesSwitch, KindNow, AnswersAside
<1>7. CASE RecvReady
  <2>1. Message /\ phase = "wait_ready" /\ UNCHANGED out
    BY <1>7 DEF RecvReady
  <2> QED
    BY <1>2, <2>1, KindNow, AnswersAside
<1>8. CASE LoginAnswer
  BY <1>8, LoginAnswerInv
<1>9. CASE LoginSkip \/ LoginRefused \/ LoginDone \/ LoginQueue \/ RecvMessageReturn
  <2>1. Message /\ UNCHANGED out
    BY <1>9 DEF LoginSkip, LoginRefused, LoginDone, LoginQueue, RecvMessageReturn
  <2>2. CASE LoginSkip \/ LoginRefused \/ LoginDone
    BY <1>2, <2>1, <2>2, AnswersAside DEF LoginSkip, LoginRefused, LoginDone, LoginReply
  <2>3. CASE LoginQueue
    BY <1>2, <2>1, <2>3, KindNow, AnswersAside DEF LoginQueue
  <2>4. CASE RecvMessageReturn
    BY <1>2, <2>1, <2>4, KindNow, AnswersAside DEF RecvMessageReturn
  <2> QED
    BY <1>9, <2>2, <2>3, <2>4
<1>10. CASE Handshake
  <2>1. UNCHANGED <<sent, accepted, nodeUp>> /\ phase = "connected"
    BY <1>10 DEF Handshake
  <2>2. CASE out' = Append(out, Encode("SCHANNEL_INIT"))
    BY <1>1, <2>1, <2>2, RepliesAppend
  <2>3. CASE UNCHANGED out
    BY <1>1, <1>2, <2>1, <2>3
  <2> QED
    BY <1>10, <2>2, <2>3 DEF Handshake
<1>11. CASE Send
  <2>1. UNCHANGED <<sent, accepted, nodeUp, phase>> /\ phase = "open"
    BY <1>11 DEF Send
  <2>2. CASE out' = Append(out, Encode("OTHER"))
    BY <1>1, <2>1, <2>2, RepliesAppend
  <2>3. CASE UNCHANGED out
    BY <1>1, <1>2, <2>1, <2>3
  <2> QED
    BY <1>11, <2>2, <2>3 DEF Send
<1>12. CASE Close
  <2>1. UNCHANGED <<sent, accepted, nodeUp>> /\ phase' = "closed"
    BY <1>12 DEF Close
  <2>2. CASE out' = Append(out, Encode("BYE"))
    BY <1>1, <2>1, <2>2, RepliesAppend
  <2>3. CASE UNCHANGED out
    BY <1>1, <1>2, <2>1, <2>3
  <2> QED
    BY <1>12, <2>2, <2>3 DEF Close
<1>13. CASE Connect \/ RecvMessageExpired \/ \E t \in {"finite", "none"} : RecvMessage(t)
  BY <1>1, <1>2, <1>13 DEF Connect, RecvMessageExpired, RecvMessage
<1>14. CASE RecvMessagePending \/ UNCHANGED vars
  <2>1. UNCHANGED <<sent, accepted, nodeUp, out, phase>>
    BY <1>14 DEF RecvMessagePending, vars
  <2> QED
    BY <1>2, <2>1, HandledSame DEF AnswerInv, AnsweredInLogin, Rank, LoginReply
<1> QED
  BY <1>3, <1>4, <1>5, <1>6, <1>7, <1>8, <1>9, <1>10, <1>11, <1>12, <1>13, <1>14
     DEF Next, CallStep, UserStep

-----------------------------------------------------------------------------
(* The theorems. *)

LEMMA LoginInit == Init => LInv
<1> SUFFICES ASSUME Init PROVE LInv
  OBVIOUS
<1>1. OutInv /\ LoginInv
  BY DEF Init, OutInv, LoginInv
<1>2. DeliveredFaithfully
  <2>1. Kept = <<>> /\ ForRecvMessage = {}
    BY DEF Init, Kept, ForRecvMessage
  <2> QED
    BY <2>1, FaithfulMeans
<1>3. Replies = {} /\ AskedInLogin = {}
  BY DEF Init, Replies, AskedInLogin
<1>4. Cardinality(Replies) = 0 /\ Cardinality(AskedInLogin) = 0
  BY <1>3, FS_EmptySet
<1>5. AnswerInv
  BY <1>3, <1>4 DEF AnswerInv, AnsweredInLogin
<1> QED
  BY <1>1, <1>2, <1>5 DEF LInv

\* The handshake's invariant holds in every reachable state of a connection.
THEOREM LoginInductive == Spec => [](IInv /\ LInv)
<1>1. Init => IInv /\ LInv
  BY InitInv, LoginInit
<1>2. IInv /\ LInv /\ [Next]_vars => (IInv /\ LInv)'
  BY NextInv, OutStep, LoginStep, DeliveredStep, AnswerStep DEF LInv
<1> QED
  BY <1>1, <1>2, PTL DEF Spec

\* handshake() encrypts from the message after SCHANNEL_READY on, whatever is
\* sent later and by whom; what leaves in clear after it is the Bye of a
\* client that could not derive its keys.
THEOREM EncryptedFromReady == Spec => []SwitchAtReady
<1>1. LInv => SwitchAtReady
  BY DEF LInv, OutInv, SwitchAtReady
<1> QED
  BY <1>1, LoginInductive, PTL

\* recv_message() returns what was accepted for the application: nothing the
\* login loop queued is lost, repeated or overtaken by what is read live.
THEOREM QueuedThenLive == Spec => []DeliveredFaithfully
<1>1. LInv => DeliveredFaithfully
  BY DEF LInv
<1> QED
  BY <1>1, LoginInductive, PTL

\* The login loop answers each GetTime and Ping once, in order, and with the
\* right type; what it hands to the application it does not answer.
THEOREM LoginAnswers == Spec => []AnsweredInLogin
<1>1. LInv => AnsweredInLogin
  BY DEF LInv, AnswerInv
<1> QED
  BY <1>1, LoginInductive, PTL
=============================================================================
