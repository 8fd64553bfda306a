-------------------------- MODULE NodeQuery_proofs ---------------------------
(***************************************************************************)
(* Proofs about NodeQuery, for every choice of requests, contexts, timeout *)
(* and bounds.                                                             *)
(***************************************************************************)
EXTENDS NodeQuery, Ranks_proofs

\* Replies are told apart from what the node says unasked, and queries from
\* changes of context and waits for a tip.
LEMMA KindsApart ==
    /\ \A r \in DOMAIN ReplyTo : ReplyTo[r] \notin Unasked \cup {"DATA_MISSING"}
    /\ "SET_DEPENDENT_CONTEXT" \notin DOMAIN ReplyTo /\ "NEW_TIP" \notin DOMAIN ReplyTo
BY DEF ReplyTo, StateReplies, ProofReplies, ChainReplies, ContractReplies, Unasked

LEMMA RequestKinds ==
    ASSUME NEW r \in Requests
    PROVE  /\ r # "SET_DEPENDENT_CONTEXT" /\ r # "NEW_TIP"
           /\ ReplyTo[r] \in MessageKinds
           /\ ReplyTo[r] \notin Unasked /\ ReplyTo[r] # "DATA_MISSING"
BY KindsApart, RequestAssumption DEF MessageKinds

LEMMA UnaskedKinds == Unasked \subseteq MessageKinds /\ "DATA_MISSING" \notin Unasked
BY DEF MessageKinds, Unasked

LEMMA ReplyType == \A t \in DOMAIN Reply : Reply[t] \in {"PONG", "TIME"}
BY DEF Reply

LEMMA Bounds == RequestTimeout \in Nat /\ MaxCalls \in Nat
BY RequestAssumption

-----------------------------------------------------------------------------
(* What TypeOK says of the members of lists. *)

LEMMA Lists ==
    ASSUME TypeOK
    PROVE  /\ Len(requests) \in Nat /\ DOMAIN requests = 1..Len(requests)
           /\ Len(stream) \in Nat /\ DOMAIN stream = 1..Len(stream)
           /\ Len(taken) \in Nat /\ DOMAIN taken = 1..Len(taken)
           /\ Len(calls) \in Nat /\ DOMAIN calls = 1..Len(calls)
           /\ served \in Nat /\ served <= Len(requests)
BY DEF TypeOK

LEMMA RequestFields ==
    ASSUME TypeOK, NEW k \in DOMAIN requests
    PROVE  /\ requests[k] \in Written
           /\ requests[k].call \in 0..MaxCalls /\ requests[k].ctx \in Contexts \cup {0}
           /\ IsQuery(k) <=> requests[k].call # 0
           /\ IsQuery(k) => requests[k].type \in Requests
<1>1. requests[k] \in Written
  BY DEF TypeOK
<1>2. CASE requests[k].type = "SET_DEPENDENT_CONTEXT"
  BY <1>1, <1>2, RequestKinds, Bounds DEF Written, IsQuery
<1>3. CASE requests[k].type # "SET_DEPENDENT_CONTEXT"
  BY <1>1, <1>3, Bounds DEF Written, IsQuery
<1> QED
  BY <1>1, <1>2, <1>3

LEMMA MessageFields ==
    ASSUME TypeOK, NEW m \in DOMAIN stream
    PROVE  /\ m \in Nat
           /\ stream[m].type \in MessageKinds
           /\ stream[m].re \in Nat /\ stream[m].ctx \in Contexts \cup {0}
           /\ stream[m].part \in {"all", "trailing", "contexts", "none"}
<1>1. stream[m] \in Messages
  BY DEF TypeOK
<1> QED
  BY <1>1, Lists, Bounds DEF Messages

LEMMA CallFields ==
    ASSUME TypeOK, NEW c \in DOMAIN calls
    PROVE  /\ c \in Nat /\ calls[c] \in Calls
           /\ calls[c].type \in Requests \cup {"NEW_TIP"}
           /\ calls[c].seen \in 0..Len(stream) /\ calls[c].from \in 0..Len(stream)
           /\ calls[c].ctx \in Contexts \cup {0} /\ calls[c].result \in Results
<1>1. calls[c] \in Calls
  BY DEF TypeOK
<1> QED
  BY <1>1, Lists DEF Calls, TypeOK

LEMMA LastTakenType == TypeOK => LastTaken \in 0..Len(stream)
<1> SUFFICES ASSUME TypeOK PROVE LastTaken \in 0..Len(stream)
  OBVIOUS
<1>1. taken # <<>> => Len(taken) \in DOMAIN taken
  BY DEF TypeOK
<1> QED
  BY <1>1, Lists DEF LastTaken, TypeOK

LEMMA BusyFacts ==
    ASSUME TypeOK, Busy
    PROVE  /\ Len(calls) \in DOMAIN calls /\ Current = calls[Len(calls)]
           /\ Current.result = "waiting"
           /\ Current.type \in Requests \cup {"NEW_TIP"}
           /\ Expected \in MessageKinds /\ Expected # "DATA_MISSING"
           /\ Expected = "NEW_TIP" <=> Current.type = "NEW_TIP"
<1>1. Len(calls) \in DOMAIN calls
  BY Lists DEF Busy, TypeOK
<1>2. Current.type \in Requests \cup {"NEW_TIP"}
  BY <1>1, CallFields DEF Current
<1> QED
  BY <1>1, <1>2, RequestKinds, UnaskedKinds DEF Busy, Current, Expected, Unasked

-----------------------------------------------------------------------------
(* How lists grow. *)

LEMMA GrowStream ==
    ASSUME TypeOK, NEW x \in Messages, stream' = Append(stream, x)
    PROVE  /\ stream' \in Seq(Messages)
           /\ Len(stream') = Len(stream) + 1 /\ DOMAIN stream' = 1..(Len(stream) + 1)
           /\ stream'[Len(stream) + 1] = x
           /\ \A m \in DOMAIN stream : m \in DOMAIN stream' /\ stream'[m] = stream[m]
BY Lists DEF TypeOK

LEMMA GrowRequests ==
    ASSUME TypeOK, NEW x \in Written, requests' = Append(requests, x)
    PROVE  /\ requests' \in Seq(Written)
           /\ Len(requests') = Len(requests) + 1 /\ DOMAIN requests' = 1..(Len(requests) + 1)
           /\ requests'[Len(requests) + 1] = x
           /\ \A k \in DOMAIN requests : k \in DOMAIN requests' /\ requests'[k] = requests[k]
BY Lists DEF TypeOK

LEMMA GrowCalls ==
    ASSUME TypeOK, NEW x \in Calls, calls' = Append(calls, x)
    PROVE  /\ calls' \in Seq(Calls)
           /\ Len(calls') = Len(calls) + 1 /\ DOMAIN calls' = 1..(Len(calls) + 1)
           /\ calls'[Len(calls) + 1] = x
           /\ \A c \in DOMAIN calls : c \in DOMAIN calls' /\ calls'[c] = calls[c]
BY Lists DEF TypeOK

LEMMA GrowTaken ==
    ASSUME TypeOK, NEW m \in DOMAIN stream, taken' = Append(taken, m)
    PROVE  /\ taken' \in Seq(Nat)
           /\ Len(taken') = Len(taken) + 1 /\ DOMAIN taken' = 1..(Len(taken) + 1)
           /\ taken'[Len(taken) + 1] = m /\ LastTaken' = m
           /\ \A k \in DOMAIN taken : k \in DOMAIN taken' /\ taken'[k] = taken[k]
<1>1. m \in Nat /\ taken \in Seq(Nat) /\ Len(taken) \in Nat
  BY Lists DEF TypeOK
<1>2. /\ taken' \in Seq(Nat)
      /\ Len(taken') = Len(taken) + 1 /\ DOMAIN taken' = 1..(Len(taken) + 1)
      /\ taken'[Len(taken) + 1] = m
      /\ \A k \in DOMAIN taken : k \in DOMAIN taken' /\ taken'[k] = taken[k]
  BY <1>1
<1>3. taken' # <<>>
  BY <1>1, <1>2
<1> QED
  BY <1>1, <1>2, <1>3 DEF LastTaken

\* Ending the call in progress touches nothing else.
LEMMA EndCallFacts ==
    ASSUME TypeOK, Busy, NEW r \in Results, NEW m \in Nat, EndCall(r, m)
    PROVE  /\ calls' \in Seq(Calls)
           /\ Len(calls') = Len(calls) /\ DOMAIN calls' = DOMAIN calls
           /\ \A c \in DOMAIN calls : c # Len(calls) => calls'[c] = calls[c]
           /\ \A c \in DOMAIN calls : /\ calls'[c].type = calls[c].type
                                      /\ calls'[c].ctx = calls[c].ctx
                                      /\ calls'[c].seen = calls[c].seen
           /\ calls'[Len(calls)].result = r /\ calls'[Len(calls)].from = m
<1> PICK n, x : n = Len(calls) /\ x = [[calls[n] EXCEPT !.result = r] EXCEPT !.from = m]
  OBVIOUS
<1>1. n \in DOMAIN calls /\ DOMAIN calls = 1..n /\ n \in Nat /\ calls[n] \in Calls
  BY BusyFacts, CallFields, Lists
<1>2. /\ x \in Calls /\ x.type = calls[n].type /\ x.ctx = calls[n].ctx
      /\ x.seen = calls[n].seen /\ x.result = r /\ x.from = m
  BY <1>1 DEF Calls
<1>3. calls' = [calls EXCEPT ![n] = x]
  BY <1>1 DEF EndCall
<1>4. calls \in Seq(Calls)
  BY DEF TypeOK
<1>5. calls' \in Seq(Calls) /\ Len(calls') = n /\ DOMAIN calls' = 1..n
  BY <1>1, <1>2, <1>3, <1>4
<1>6. calls'[n] = x /\ \A c \in DOMAIN calls : c # n => calls'[c] = calls[c]
  BY <1>1, <1>3
<1> QED
  BY <1>1, <1>2, <1>5, <1>6

-----------------------------------------------------------------------------
(* The shapes a step has for the calls. *)

\* A message that leaves the call waiting.
Continue(m) ==
    /\ Receive(m) /\ UNCHANGED calls
    /\ stream[m].type \notin {Expected, "DATA_MISSING", "BYE"}

\* A message that ends the call.
EndBy(m, r) ==
    /\ Receive(m) /\ EndCall(r, m)
    /\ \/ r = "reply" /\ stream[m].type = Expected
       \/ r = "missing" /\ stream[m].type = "DATA_MISSING"
       \/ r = "bye" /\ stream[m].type = "BYE"
       \/ r \in {"decode", "closed"}

\* The call ends without a message.
GiveUp(r) ==
    /\ Busy /\ EndCall(r, 0)
    /\ lossy => lossy'
    /\ UNCHANGED <<nodeVars, taken, context>>

\* A call that writes nothing.
BeginSilently(type, r) ==
    /\ Begin(type, r)
    /\ UNCHANGED <<nodeVars, chanVars, context>>

\* Time passes, or nothing happens.
Idle == UNCHANGED <<nodeVars, chanVars, ctxVars, calls, context, answered>>

LEMMA KeepAliveKinds ==
    \A t \in {"PING", "GET_TIME", "DEPENDENT_CONTEXT_CHANGED"} :
        t \in Unasked /\ t \notin {"DATA_MISSING", "BYE", "NEW_TIP"}
BY DEF Unasked

LEMMA ReceiveShapes ==
    ASSUME TypeOK, NEW m \in DOMAIN stream,
           RecvExpected(m) \/ RecvKeepAlive(m) \/ RecvFailure(m)
             \/ RecvContextChanged(m) \/ RecvIgnored(m)
    PROVE  \/ Continue(m)
           \/ \E r \in {"reply", "missing", "bye", "decode", "closed"} : EndBy(m, r)
<1>0. Busy => Expected \notin {"PING", "GET_TIME", "DEPENDENT_CONTEXT_CHANGED"}
  BY BusyFacts, RequestKinds, KeepAliveKinds DEF Expected
<1>1. CASE RecvExpected(m)
  BY <1>1 DEF RecvExpected, EndBy
<1>2. CASE RecvKeepAlive(m)
  <2>1. Receive(m) /\ Busy /\ stream[m].type \in {"PING", "GET_TIME"}
    BY <1>2 DEF RecvKeepAlive, Receive, Reply
  <2> QED
    BY <1>0, <1>2, <2>1 DEF RecvKeepAlive, EndBy, Continue
<1>3. CASE RecvFailure(m)
  BY <1>3 DEF RecvFailure, EndBy
<1>4. CASE RecvContextChanged(m)
  <2>1. Busy
    BY <1>4 DEF RecvContextChanged, Receive
  <2> QED
    BY <1>0, <1>4, <2>1 DEF RecvContextChanged, EndBy, Continue
<1>5. CASE RecvIgnored(m)
  BY <1>5 DEF RecvIgnored, Continue
<1> QED
  BY <1>1, <1>2, <1>3, <1>4, <1>5

LEMMA Shapes ==
    ASSUME TypeOK, [Next]_vars
    PROVE  \/ NodeServe
           \/ \E t \in Unasked, p \in {"all", "trailing", "contexts", "none"} : NodeSay(t, p)
           \/ \E type \in Requests : Call(type)
           \/ \E type \in Requests \cup {"NEW_TIP"}, r \in {"waiting", "closed"} :
                 BeginSilently(type, r)
           \/ \E c \in Contexts \cup {0} : SetDependentContext(c)
           \/ \E m \in DOMAIN stream : Continue(m)
           \/ \E m \in DOMAIN stream, r \in {"reply", "missing", "bye", "decode", "closed"} :
                 EndBy(m, r)
           \/ \E r \in {"timeout", "value", "closed"} : GiveUp(r)
           \/ Idle
<1>1. CASE NodeStep
  BY <1>1, RequestAssumption DEF NodeStep
<1>2. CASE UserStep
  <2>1. ASSUME NEW type \in Requests, CallFails(type)
        PROVE  BeginSilently(type, "closed")
    BY <2>1 DEF CallFails, BeginSilently
  <2>2. WaitForTip => BeginSilently("NEW_TIP", "waiting")
    BY DEF WaitForTip, BeginSilently
  <2> QED
    BY <1>2, <2>1, <2>2 DEF UserStep
<1>3. CASE RecvStep
  <2>1. CASE RecvTimeout
    BY <2>1 DEF RecvTimeout, GiveUp
  <2>2. CASE RecvGarbage
    BY <2>2 DEF RecvGarbage, GiveUp, chanVars
  <2>3. CASE RecvClosed
    BY <2>3 DEF RecvClosed, GiveUp, chanVars
  <2> QED
    BY <1>3, <2>1, <2>2, <2>3, ReceiveShapes DEF RecvStep
<1>4. CASE Tick \/ UNCHANGED vars
  BY <1>4 DEF Tick, Idle, vars
<1> QED
  BY <1>1, <1>2, <1>3, <1>4 DEF Next

\* What recv_message takes lies behind all it took before.
LEMMA ReceiveFacts ==
    ASSUME TypeOK, TakenInv, NEW m \in DOMAIN stream, Receive(m)
    PROVE  /\ Busy /\ m \in Nat
           /\ \A k \in DOMAIN taken : taken[k] < m
           /\ LastTaken \in Nat /\ LastTaken < m /\ LastTaken' = m
           /\ ~lossy => m = LastTaken + 1 /\ m = Len(taken) + 1
           /\ taken' = Append(taken, m)
           /\ UNCHANGED <<requests, served, nodeContext, stream, nodeUp, lossy, context>>
<1>1. /\ Busy /\ m \in Nat /\ taken' = Append(taken, m)
      /\ UNCHANGED <<requests, served, nodeContext, stream, nodeUp, lossy, context>>
  BY Lists DEF Receive, nodeVars
<1>2. /\ \A k \in DOMAIN taken : taken[k] < m
      /\ ~lossy => m = Len(taken) + 1
  BY DEF Receive, Channel!IsNext
<1>3. LastTaken \in Nat /\ LastTaken < m
  <2>1. CASE taken = <<>>
    BY <2>1, Lists DEF LastTaken
  <2>2. CASE taken # <<>>
    <3>1. Len(taken) \in DOMAIN taken
      BY <2>2 DEF TypeOK
    <3> QED
      BY <1>2, <2>2, <3>1, LastTakenType, Lists DEF LastTaken
  <2> QED
    BY <2>1, <2>2
<1>4. ~lossy => LastTaken = Len(taken)
  BY Lists DEF TakenInv, LastTaken, TypeOK
<1> QED
  BY <1>1, <1>2, <1>3, <1>4, GrowTaken

-----------------------------------------------------------------------------
(* Types. *)

LEMMA InitType == Init => TypeOK
<1> SUFFICES ASSUME Init PROVE TypeOK
  OBVIOUS
<1>1. /\ Len(requests) = 0 /\ Len(stream) = 0 /\ Len(calls) = 0
      /\ DOMAIN taken = {} /\ DOMAIN calls = {}
  BY DEF Init
<1>2. /\ requests \in Seq(Written) /\ stream \in Seq(Messages) /\ taken \in Seq(Nat)
      /\ calls \in Seq(Calls) /\ answered \in Seq({"PONG", "TIME"})
  BY DEF Init
<1>3. nodeUp \in BOOLEAN /\ lossy \in BOOLEAN
  BY DEF Init
<1>4. /\ served \in 0..0 /\ nodeContext = 0 /\ context = 0
      /\ contextsFrom \in 0..0 /\ depthFrom \in 0..0 /\ silence \in 0..RequestTimeout
  BY Bounds DEF Init
<1> QED
  BY <1>1, <1>2, <1>3, <1>4, Bounds DEF TypeOK

\* Conjuncts of TypeOK that a new message or a new call could disturb.
LEMMA TypeWrite ==
    ASSUME TypeOK, NEW x \in Messages, Write(x)
    PROVE  /\ stream' \in Seq(Messages)
           /\ taken \in Seq(Nat) /\ \A k \in DOMAIN taken : taken[k] \in DOMAIN stream'
           /\ calls \in Seq(Calls) /\ Len(calls) <= MaxCalls
           /\ \A c \in DOMAIN calls : calls[c].seen <= Len(stream') /\ calls[c].from <= Len(stream')
           /\ contextsFrom \in 0..Len(stream') /\ depthFrom \in 0..Len(stream')
<1>1. Len(stream') = Len(stream) + 1 /\ DOMAIN stream' = 1..(Len(stream) + 1)
      /\ stream' \in Seq(Messages)
  BY GrowStream DEF Write
<1>2. \A c \in DOMAIN calls : calls[c].seen \in 0..Len(stream) /\ calls[c].from \in 0..Len(stream)
  BY CallFields
<1> QED
  BY <1>1, <1>2, Lists DEF TypeOK

LEMMA TypeServe == TypeOK /\ NodeServe => TypeOK'
<1> SUFFICES ASSUME TypeOK, NodeServe PROVE TypeOK'
  OBVIOUS
<1> PICK k : k = served + 1
  OBVIOUS
<1>1. k \in DOMAIN requests /\ served' = k /\ k \in 0..Len(requests)
  BY Lists DEF NodeServe
<1>2. CASE ~IsQuery(k)
  <2>1. requests[k].ctx \in Contexts \cup {0}
    BY <1>1, RequestFields
  <2> QED
    BY <1>1, <1>2, <2>1 DEF NodeServe, IsQuery, TypeOK, chanVars, ctxVars
<1>3. CASE IsQuery(k)
  <2>1. PICK t \in {ReplyTo[requests[k].type], "DATA_MISSING"} :
            Write([type |-> t, re |-> requests[k].call, ctx |-> nodeContext, part |-> "all"])
    BY <1>1, <1>3 DEF NodeServe, IsQuery
  <2> PICK x : x = [type |-> t, re |-> requests[k].call, ctx |-> nodeContext, part |-> "all"]
    OBVIOUS
  <2>2. t \in MessageKinds
    BY <1>1, <1>3, <2>1, RequestFields, RequestKinds DEF MessageKinds
  <2>3. requests[k].call \in 0..MaxCalls /\ nodeContext \in Contexts \cup {0}
    BY <1>1, RequestFields DEF TypeOK
  <2>4. x \in Messages
    BY <2>2, <2>3 DEF Messages
  <2>5. nodeContext' = nodeContext
    BY <1>1, <1>3 DEF NodeServe, IsQuery
  <2> QED
    BY <1>1, <2>1, <2>4, <2>5, TypeWrite DEF NodeServe, TypeOK, chanVars, ctxVars
<1> QED
  BY <1>2, <1>3

LEMMA TypeSay ==
    ASSUME TypeOK, NEW t \in Unasked, NEW p \in {"all", "trailing", "contexts", "none"},
           NodeSay(t, p)
    PROVE  TypeOK'
<1> PICK x : x = [type |-> t, re |-> 0, ctx |-> 0, part |-> p]
  OBVIOUS
<1>1. x \in Messages
  BY UnaskedKinds, Bounds DEF Messages
<1>2. nodeUp' \in BOOLEAN
  BY Zenon DEF NodeSay
<1>3. Write(x) /\ UNCHANGED <<requests, served, nodeContext, chanVars, ctxVars, silence, calls,
                              context, answered>>
  BY DEF NodeSay
<1> QED
  BY <1>1, <1>2, <1>3, TypeWrite DEF TypeOK, chanVars, ctxVars

LEMMA TypeBegin ==
    ASSUME TypeOK, NEW type \in Requests \cup {"NEW_TIP"}, NEW r \in Results, Begin(type, r)
    PROVE  /\ calls' \in Seq(Calls) /\ Len(calls') <= MaxCalls /\ Len(calls') = Len(calls) + 1
           /\ \A c \in DOMAIN calls' : calls'[c].seen <= Len(stream) /\ calls'[c].from <= Len(stream)
           /\ silence' \in 0..RequestTimeout
<1> PICK x : x = [type |-> type, seen |-> LastTaken, ctx |-> context, result |-> r, from |-> 0]
  OBVIOUS
<1>1. x \in Calls /\ x.seen <= Len(stream) /\ x.from <= Len(stream)
  BY LastTakenType, Lists DEF Calls, TypeOK
<1>2. calls' = Append(calls, x) /\ Len(calls) < MaxCalls /\ silence' = 0
  BY DEF Begin
<1> QED
  BY <1>1, <1>2, GrowCalls, Lists, Bounds DEF TypeOK

LEMMA TypeCall ==
    ASSUME TypeOK, NEW type \in Requests, Call(type)
    PROVE  TypeOK'
<1> PICK x : x = [type |-> type, call |-> Len(calls) + 1, ctx |-> 0]
  OBVIOUS
<1>1. x \in Written
  BY Lists, Bounds DEF Written, Call, Begin
<1>2. requests' \in Seq(Written) /\ Len(requests') = Len(requests) + 1
  BY <1>1, GrowRequests DEF Call
<1> QED
  BY <1>2, TypeBegin, Lists DEF Call, TypeOK, Results, chanVars, ctxVars

LEMMA TypeBeginSilently ==
    ASSUME TypeOK, NEW type \in Requests \cup {"NEW_TIP"}, NEW r \in {"waiting", "closed"},
           BeginSilently(type, r), UNCHANGED <<ctxVars, answered>>
    PROVE  TypeOK'
BY TypeBegin DEF BeginSilently, TypeOK, Results, nodeVars, chanVars, ctxVars

LEMMA TypeSet ==
    ASSUME TypeOK, NEW c \in Contexts \cup {0}, SetDependentContext(c)
    PROVE  TypeOK'
<1> PICK x : x = [type |-> "SET_DEPENDENT_CONTEXT", call |-> 0, ctx |-> c]
  OBVIOUS
<1>1. x \in Written
  BY DEF Written
<1>2. requests' \in Seq(Written) /\ Len(requests') = Len(requests) + 1
  BY <1>1, GrowRequests DEF SetDependentContext
<1> QED
  BY <1>2, Lists DEF SetDependentContext, TypeOK, chanVars, ctxVars

\* What every way of ending a call preserves.
LEMMA TypeEnd ==
    ASSUME TypeOK, Busy, NEW r \in Results, NEW m \in 0..Len(stream),
           UNCHANGED calls \/ EndCall(r, m)
    PROVE  /\ calls' \in Seq(Calls) /\ Len(calls') <= MaxCalls
           /\ \A c \in DOMAIN calls' : calls'[c].seen <= Len(stream) /\ calls'[c].from <= Len(stream)
<1>0. m \in Nat /\ m <= Len(stream)
  BY Lists
<1>1. CASE UNCHANGED calls
  BY <1>1 DEF TypeOK
<1>2. CASE EndCall(r, m)
  <2>1. \A c \in DOMAIN calls' : calls'[c].seen <= Len(stream) /\ calls'[c].from <= Len(stream)
    BY <1>0, <1>2, EndCallFacts DEF TypeOK
  <2> QED
    BY <1>0, <1>2, <2>1, EndCallFacts DEF TypeOK
<1> QED
  BY <1>1, <1>2

LEMMA TypeReceive ==
    ASSUME TypeOK, NEW m \in DOMAIN stream, Receive(m)
    PROVE  /\ taken' \in Seq(Nat) /\ \A k \in DOMAIN taken' : taken'[k] \in DOMAIN stream
           /\ UNCHANGED <<requests, served, nodeContext, stream, nodeUp, lossy, context>>
           /\ silence' \in 0..RequestTimeout /\ Busy /\ m \in 0..Len(stream)
<1>1. taken' = Append(taken, m)
  BY DEF Receive
<1>2. \A k \in DOMAIN taken' : taken'[k] \in DOMAIN stream
  BY <1>1, GrowTaken, Lists DEF TypeOK
<1> QED
  BY <1>1, <1>2, GrowTaken, Lists, Bounds DEF Receive, nodeVars

LEMMA TypeRecv == TypeOK /\ RecvStep => TypeOK'
<1> SUFFICES ASSUME TypeOK, RecvStep PROVE TypeOK'
  OBVIOUS
<1>1. ASSUME NEW m \in DOMAIN stream, NEW r \in Results, Receive(m),
             UNCHANGED calls \/ EndCall(r, m),
             answered' \in Seq({"PONG", "TIME"}),
             contextsFrom' \in {contextsFrom, m}, depthFrom' \in {depthFrom, m}
      PROVE  TypeOK'
  <2>1. /\ taken' \in Seq(Nat) /\ \A k \in DOMAIN taken' : taken'[k] \in DOMAIN stream
        /\ UNCHANGED <<requests, served, nodeContext, stream, nodeUp, lossy, context>>
        /\ silence' \in 0..RequestTimeout /\ Busy /\ m \in 0..Len(stream)
    BY <1>1, TypeReceive
  <2>2. /\ calls' \in Seq(Calls) /\ Len(calls') <= MaxCalls
        /\ \A c \in DOMAIN calls' : calls'[c].seen <= Len(stream) /\ calls'[c].from <= Len(stream)
    BY <1>1, <2>1, TypeEnd
  <2> QED
    BY <1>1, <2>1, <2>2 DEF TypeOK
<1>2. answered \in Seq({"PONG", "TIME"})
  BY DEF TypeOK
<1>3. ASSUME NEW m \in DOMAIN stream,
             RecvExpected(m) \/ RecvFailure(m) \/ RecvIgnored(m)
      PROVE  TypeOK'
  <2>1. Receive(m) /\ UNCHANGED <<answered, contextsFrom, depthFrom>>
    BY <1>3 DEF RecvExpected, RecvFailure, RecvIgnored, ctxVars
  <2>2. \E r \in Results : UNCHANGED calls \/ EndCall(r, m)
    BY <1>3 DEF RecvExpected, RecvFailure, RecvIgnored, Results
  <2> QED
    BY <1>1, <1>2, <2>1, <2>2
<1>4. ASSUME NEW m \in DOMAIN stream, RecvKeepAlive(m) PROVE TypeOK'
  <2>1. Receive(m) /\ UNCHANGED <<contextsFrom, depthFrom>>
    BY <1>4 DEF RecvKeepAlive, ctxVars
  <2>2. \E r \in Results : UNCHANGED calls \/ EndCall(r, m)
    BY <1>4 DEF RecvKeepAlive, Results
  <2>3. stream[m].type \in DOMAIN Reply
    BY <1>4 DEF RecvKeepAlive
  <2>4. answered' \in Seq({"PONG", "TIME"})
    BY <1>2, <1>4, <2>3, ReplyType DEF RecvKeepAlive
  <2> QED
    BY <1>1, <2>1, <2>2, <2>4
<1>5. ASSUME NEW m \in DOMAIN stream, RecvContextChanged(m) PROVE TypeOK'
  <2>1. \E r \in Results : UNCHANGED calls \/ EndCall(r, m)
    BY <1>5 DEF RecvContextChanged, Results
  <2>2. Receive(m) /\ UNCHANGED answered
        /\ contextsFrom' \in {contextsFrom, m} /\ depthFrom' \in {depthFrom, m}
    BY <1>5 DEF RecvContextChanged
  <2> QED
    BY <1>1, <1>2, <2>1, <2>2
<1>6. CASE RecvTimeout \/ RecvGarbage \/ RecvClosed
  <2>1. PICK r \in Results : EndCall(r, 0) /\ Busy
    BY <1>6 DEF RecvTimeout, RecvGarbage, RecvClosed, Results
  <2>2. 0 \in 0..Len(stream)
    BY Lists
  <2>3. /\ calls' \in Seq(Calls) /\ Len(calls') <= MaxCalls
        /\ \A c \in DOMAIN calls' : calls'[c].seen <= Len(stream) /\ calls'[c].from <= Len(stream)
    BY <2>1, <2>2, TypeEnd
  <2>4. UNCHANGED <<requests, served, nodeContext, stream, nodeUp, taken, ctxVars, silence,
                    context, answered>> /\ lossy' \in BOOLEAN
    BY <1>6 DEF RecvTimeout, RecvGarbage, RecvClosed, nodeVars, chanVars, TypeOK
  <2> QED
    BY <2>3, <2>4 DEF TypeOK, ctxVars
<1> QED
  BY <1>3, <1>4, <1>5, <1>6 DEF RecvStep

LEMMA NextType == TypeOK /\ [Next]_vars => TypeOK'
<1> SUFFICES ASSUME TypeOK, [Next]_vars PROVE TypeOK'
  OBVIOUS
<1>1. CASE NodeStep
  BY <1>1, TypeServe, TypeSay, RequestAssumption DEF NodeStep
<1>2. CASE UserStep
  <2>1. ASSUME NEW type \in Requests, CallFails(type) PROVE TypeOK'
    <3>1. BeginSilently(type, "closed") /\ UNCHANGED <<ctxVars, answered>>
      BY <2>1 DEF CallFails, BeginSilently
    <3> QED
      BY <3>1, TypeBeginSilently
  <2>2. ASSUME WaitForTip PROVE TypeOK'
    <3>1. BeginSilently("NEW_TIP", "waiting") /\ UNCHANGED <<ctxVars, answered>>
      BY <2>2 DEF WaitForTip, BeginSilently
    <3> QED
      BY <3>1, TypeBeginSilently
  <2> QED
    BY <1>2, <2>1, <2>2, TypeCall, TypeSet DEF UserStep
<1>3. CASE Tick
  BY <1>3, Bounds DEF Tick, TypeOK, nodeVars, chanVars, ctxVars
<1>4. CASE UNCHANGED vars
  BY <1>4 DEF vars, TypeOK, nodeVars, chanVars, ctxVars
<1> QED
  BY <1>1, <1>2, <1>3, <1>4, TypeRecv DEF Next

\* Every variable keeps its type; in particular no wait lasts longer than the
\* timeout without a message, and nothing is taken that was not written.
THEOREM TypeCorrect == Spec => []TypeOK
<1>1. Init => TypeOK
  BY InitType
<1>2. TypeOK /\ [Next]_vars => TypeOK'
  BY NextType
<1> QED
  BY <1>1, <1>2, PTL DEF Spec

-----------------------------------------------------------------------------
(* What every step leaves as it was. *)

\* Calls keep their request for good, and their end once they have one.
LEMMA PastCalls ==
    ASSUME TypeOK, [Next]_vars
    PROVE  \A c \in DOMAIN calls :
              /\ c \in DOMAIN calls'
              /\ calls'[c].type = calls[c].type /\ calls'[c].ctx = calls[c].ctx
              /\ calls'[c].seen = calls[c].seen
              /\ calls[c].result # "waiting" => calls'[c] = calls[c]
<1>1. CASE UNCHANGED calls
  BY <1>1
<1>2. ASSUME NEW type \in Requests \cup {"NEW_TIP"}, NEW r \in {"waiting", "closed"}, Begin(type, r)
      PROVE \A c \in DOMAIN calls : c \in DOMAIN calls' /\ calls'[c] = calls[c]
  <2> PICK x : x = [type |-> type, seen |-> LastTaken, ctx |-> context, result |-> r, from |-> 0]
    OBVIOUS
  <2>1. x \in Calls /\ calls' = Append(calls, x)
    BY <1>2, LastTakenType, Lists DEF Calls, TypeOK, Begin, Results
  <2> QED
    BY <2>1, GrowCalls
<1>3. ASSUME Busy, NEW r \in Results, NEW m \in Nat, EndCall(r, m)
      PROVE \A c \in DOMAIN calls :
              /\ c \in DOMAIN calls'
              /\ calls'[c].type = calls[c].type /\ calls'[c].ctx = calls[c].ctx
              /\ calls'[c].seen = calls[c].seen
              /\ calls[c].result # "waiting" => calls'[c] = calls[c]
  <2>1. calls[Len(calls)].result = "waiting"
    BY <1>3, BusyFacts
  <2> QED
    BY <1>3, <2>1, EndCallFacts
<1>4. CASE \E type \in Requests : Call(type)
  BY <1>2, <1>4 DEF Call
<1>5. CASE \E type \in Requests \cup {"NEW_TIP"}, r \in {"waiting", "closed"} :
              BeginSilently(type, r)
  BY <1>2, <1>5 DEF BeginSilently
<1>6. ASSUME NEW m \in DOMAIN stream, NEW r \in {"reply", "missing", "bye", "decode", "closed"},
             EndBy(m, r)
      PROVE \A c \in DOMAIN calls :
              /\ c \in DOMAIN calls'
              /\ calls'[c].type = calls[c].type /\ calls'[c].ctx = calls[c].ctx
              /\ calls'[c].seen = calls[c].seen
              /\ calls[c].result # "waiting" => calls'[c] = calls[c]
  BY <1>3, <1>6, Lists DEF EndBy, Receive, Results
<1>7. CASE \E r \in {"timeout", "value", "closed"} : GiveUp(r)
  BY <1>3, <1>7 DEF GiveUp, Results
<1> QED
  BY <1>1, <1>4, <1>5, <1>6, <1>7, Shapes
     DEF NodeServe, NodeSay, SetDependentContext, Continue, Idle

\* What has been written stays written.
LEMMA PastStream ==
    ASSUME TypeOK, [Next]_vars
    PROVE  /\ Len(stream) <= Len(stream')
           /\ \A m \in DOMAIN stream : m \in DOMAIN stream' /\ stream'[m] = stream[m]
<1>1. ASSUME NEW x, Write(x)
      PROVE  /\ Len(stream) <= Len(stream')
             /\ \A m \in DOMAIN stream : m \in DOMAIN stream' /\ stream'[m] = stream[m]
  BY <1>1, Lists DEF Write, TypeOK
<1>2. CASE NodeServe
  BY <1>1, <1>2, Lists DEF NodeServe
<1>3. CASE UNCHANGED stream
  BY <1>3, Lists
<1>4. ASSUME NEW t, NEW p, NodeSay(t, p)
      PROVE  /\ Len(stream) <= Len(stream')
             /\ \A m \in DOMAIN stream : m \in DOMAIN stream' /\ stream'[m] = stream[m]
  BY <1>1, <1>4 DEF NodeSay
<1> QED
  BY <1>2, <1>3, <1>4, Shapes
     DEF Call, BeginSilently, SetDependentContext, Continue, EndBy, Receive, GiveUp, Idle, nodeVars

-----------------------------------------------------------------------------
(* The order of taking. *)

LEMMA TakenStep ==
    ASSUME TypeOK, TakenInv, [Next]_vars
    PROVE  TakenInv'
<1>1. ASSUME NEW m \in DOMAIN stream, Receive(m) PROVE TakenInv'
  <2>1. /\ Len(taken') = Len(taken) + 1 /\ DOMAIN taken' = 1..(Len(taken) + 1)
        /\ taken'[Len(taken) + 1] = m
        /\ \A k \in DOMAIN taken : taken'[k] = taken[k]
    BY <1>1, ReceiveFacts, GrowTaken
  <2>2. /\ \A k \in DOMAIN taken : taken[k] < m
        /\ ~lossy => m = Len(taken) + 1
        /\ lossy' = lossy
    BY <1>1, ReceiveFacts
  <2>3. \A j, k \in DOMAIN taken' : j < k => taken'[j] < taken'[k]
    BY <2>1, <2>2, Lists DEF TakenInv
  <2>4. ~lossy' => \A k \in DOMAIN taken' : taken'[k] = k
    BY <2>1, <2>2, Lists DEF TakenInv
  <2> QED
    BY <2>3, <2>4 DEF TakenInv
<1>2. CASE taken' = taken /\ (lossy => lossy')
  BY <1>2 DEF TakenInv
<1> QED
  BY <1>1, <1>2, Shapes
     DEF NodeServe, NodeSay, Call, BeginSilently, SetDependentContext, Continue, EndBy,
         GiveUp, Idle, chanVars

-----------------------------------------------------------------------------
(* The context in force after the first requests. *)

LEMMA ContextKept ==
    ASSUME NEW n \in Nat, NEW c, ContextAfter(n, c),
           \A k \in 1..n : requests'[k] = requests[k]
    PROVE  ContextAfter(n, c)'
BY DEF ContextAfter, IsQuery

LEMMA ContextQuery ==
    ASSUME NEW n \in Nat, NEW c, ContextAfter(n, c),
           \A k \in 1..n : requests'[k] = requests[k],
           requests'[n + 1].type # "SET_DEPENDENT_CONTEXT"
    PROVE  ContextAfter(n + 1, c)'
<1>1. \A k \in 1..(n + 1) : k \in 1..n \/ k = n + 1
  OBVIOUS
<1>2. CASE c = 0 /\ \A k \in 1..n : IsQuery(k)
  BY <1>1, <1>2 DEF ContextAfter, IsQuery
<1>3. ASSUME NEW k \in 1..n, ~IsQuery(k), requests[k].ctx = c, \A j \in (k + 1)..n : IsQuery(j)
      PROVE  ContextAfter(n + 1, c)'
  <2>1. k \in 1..(n + 1) /\ ~IsQuery(k)' /\ requests'[k].ctx = c
    BY <1>3 DEF IsQuery
  <2>2. \A j \in (k + 1)..(n + 1) : IsQuery(j)'
    BY <1>3 DEF IsQuery
  <2> QED
    BY <2>1, <2>2 DEF ContextAfter
<1> QED
  BY <1>2, <1>3 DEF ContextAfter

LEMMA ContextSet ==
    ASSUME NEW n \in Nat, NEW c, requests'[n + 1].type = "SET_DEPENDENT_CONTEXT",
           requests'[n + 1].ctx = c
    PROVE  ContextAfter(n + 1, c)'
<1>1. n + 1 \in 1..(n + 1) /\ (n + 2)..(n + 1) = {}
  OBVIOUS
<1> QED
  BY <1>1 DEF ContextAfter, IsQuery

LEMMA ContextAt ==
    ASSUME NEW n, NEW c, ContextAfter(n, c)'
    PROVE  /\ Len(requests') = n /\ context' = c => ContextAfter(Len(requests), context)'
           /\ served' = n /\ nodeContext' = c => ContextAfter(served, nodeContext)'
           /\ \A k : k - 1 = n /\ calls'[requests'[k].call].ctx = c =>
                 ContextAfter(k - 1, calls[requests[k].call].ctx)'
BY DEF ContextAfter, IsQuery

LEMMA ContextUnique ==
    ASSUME NEW n \in Nat, NEW c, NEW d, ContextAfter(n, c), ContextAfter(n, d)
    PROVE  c = d
<1>1. CASE \A k \in 1..n : IsQuery(k)
  BY <1>1 DEF ContextAfter
<1>2. CASE \E k \in 1..n : ~IsQuery(k)
  <2>1. PICK i \in 1..n : /\ ~IsQuery(i) /\ requests[i].ctx = c
                          /\ \A j \in (i + 1)..n : IsQuery(j)
    BY <1>2 DEF ContextAfter
  <2>2. PICK k \in 1..n : /\ ~IsQuery(k) /\ requests[k].ctx = d
                          /\ \A j \in (k + 1)..n : IsQuery(j)
    BY <1>2 DEF ContextAfter
  <2>3. i = k
    BY <2>1, <2>2
  <2> QED
    BY <2>1, <2>2, <2>3
<1> QED
  BY <1>1, <1>2

-----------------------------------------------------------------------------
(* What the client writes. *)

\* Calls keep their requests, and nothing is written.
LEMMA RequestSame ==
    ASSUME TypeOK, RequestInv, [Next]_vars,
           UNCHANGED <<requests, served, nodeContext, context>>
    PROVE  RequestInv'
<1>1. ASSUME NEW k \in DOMAIN requests, NEW c, ContextAfter(k - 1, c)
      PROVE  ContextAfter(k - 1, c)'
  BY <1>1 DEF ContextAfter, IsQuery
<1>2. ContextAfter(served, nodeContext)' /\ ContextAfter(Len(requests), context)'
  BY DEF RequestInv, ContextAfter, IsQuery
<1>3. ASSUME NEW k \in DOMAIN requests', IsQuery(k)'
      PROVE  /\ requests'[k].call \in DOMAIN calls'
             /\ requests'[k].type = calls'[requests'[k].call].type
             /\ ContextAfter(k - 1, calls[requests[k].call].ctx)'
             /\ \A j \in 1..(k - 1) : requests'[j].call < requests'[k].call
  <2> PICK c, d : c = requests[k].call /\ d = calls[c].ctx
    OBVIOUS
  <2>1. /\ c \in DOMAIN calls /\ requests[k].type = calls[c].type /\ ContextAfter(k - 1, d)
        /\ \A j \in 1..(k - 1) : requests[j].call < c
    BY <1>3 DEF RequestInv, IsQuery
  <2>2. calls'[c].type = calls[c].type /\ calls'[c].ctx = d /\ c \in DOMAIN calls'
    BY <2>1, PastCalls
  <2>3. ContextAfter(k - 1, d)'
    BY <1>1, <1>3, <2>1
  <2>4. ContextAfter(k - 1, calls[requests[k].call].ctx)'
    <3>1. calls'[requests'[k].call].ctx = d
      BY <2>2
    <3> QED
      BY <2>3, <3>1, ContextAt
  <2> QED
    BY <2>1, <2>2, <2>4
<1> QED
  BY <1>2, <1>3 DEF RequestInv

LEMMA RequestServe ==
    ASSUME TypeOK, RequestInv, NodeServe
    PROVE  RequestInv'
<1> PICK n, c, d : n = served /\ c = nodeContext /\ d = nodeContext'
  OBVIOUS
<1>1. /\ n \in Nat /\ n + 1 \in DOMAIN requests /\ served' = n + 1
      /\ UNCHANGED <<requests, calls, context>>
  BY Lists DEF NodeServe
<1>2. ContextAfter(n, c)
  BY DEF RequestInv
<1>3. ContextAfter(n + 1, d)'
  <2>1. CASE requests[n + 1].type = "SET_DEPENDENT_CONTEXT"
    BY <1>1, <2>1, ContextSet DEF NodeServe
  <2>2. CASE requests[n + 1].type # "SET_DEPENDENT_CONTEXT"
    BY <1>1, <1>2, <2>2, ContextQuery DEF NodeServe
  <2> QED
    BY <2>1, <2>2
<1>4. ContextAfter(served, nodeContext)'
  BY <1>1, <1>3, ContextAt
<1>5. ContextAfter(Len(requests), context)'
  BY <1>1 DEF RequestInv, ContextAfter, IsQuery
<1>6. (\A k \in DOMAIN requests : IsQuery(k) =>
          /\ requests[k].call \in DOMAIN calls
          /\ requests[k].type = calls[requests[k].call].type
          /\ ContextAfter(k - 1, calls[requests[k].call].ctx)
          /\ \A j \in 1..(k - 1) : requests[j].call < requests[k].call)'
  BY <1>1 DEF RequestInv, ContextAfter, IsQuery
<1> QED
  BY <1>4, <1>5, <1>6 DEF RequestInv

\* The requests there were keep what RequestInv says of them.
LEMMA RequestKept ==
    ASSUME TypeOK, RequestInv, [Next]_vars, NEW x \in Written,
           requests' = Append(requests, x), UNCHANGED <<served, nodeContext>>
    PROVE  /\ ContextAfter(served, nodeContext)'
           /\ \A k \in DOMAIN requests : IsQuery(k)' =>
                /\ requests'[k].call \in DOMAIN calls'
                /\ requests'[k].type = calls'[requests'[k].call].type
                /\ ContextAfter(k - 1, calls[requests[k].call].ctx)'
                /\ \A j \in 1..(k - 1) : requests'[j].call < requests'[k].call
<1>0. \A k \in 1..Len(requests) : requests'[k] = requests[k]
  BY GrowRequests, Lists
<1>1. ContextAfter(served, nodeContext)'
  <2> PICK n, c : n = served /\ c = nodeContext
    OBVIOUS
  <2>1. ContextAfter(n, c) /\ n \in Nat /\ n <= Len(requests) /\ Len(requests) \in Nat
    BY Lists DEF RequestInv
  <2>2. ContextAfter(n, c)'
    BY <1>0, <2>1, ContextKept
  <2>3. served' = n /\ nodeContext' = c
    OBVIOUS
  <2> QED
    BY <2>2, <2>3, ContextAt
<1>2. ASSUME NEW k \in DOMAIN requests, IsQuery(k)'
      PROVE  /\ requests'[k].call \in DOMAIN calls'
             /\ requests'[k].type = calls'[requests'[k].call].type
             /\ ContextAfter(k - 1, calls[requests[k].call].ctx)'
             /\ \A j \in 1..(k - 1) : requests'[j].call < requests'[k].call
  <2> PICK c, d : c = requests[k].call /\ d = calls[c].ctx
    OBVIOUS
  <2>0. k \in 1..Len(requests) /\ Len(requests) \in Nat /\ k - 1 \in Nat
    BY Lists
  <2>1. /\ c \in DOMAIN calls /\ requests[k].type = calls[c].type /\ ContextAfter(k - 1, d)
        /\ \A j \in 1..(k - 1) : requests[j].call < c
    BY <1>0, <1>2, <2>0 DEF RequestInv, IsQuery
  <2>2. calls'[c].type = calls[c].type /\ calls'[c].ctx = d /\ c \in DOMAIN calls'
    BY <2>1, PastCalls
  <2>3. ContextAfter(k - 1, d)'
    BY <1>0, <2>0, <2>1, ContextKept
  <2>4. ContextAfter(k - 1, calls[requests[k].call].ctx)'
    <3>1. calls'[requests'[k].call].ctx = d
      BY <1>0, <2>0, <2>2
    <3> QED
      BY <2>3, <3>1, ContextAt
  <2> QED
    BY <1>0, <2>0, <2>1, <2>2, <2>4
<1> QED
  BY <1>1, <1>2

LEMMA RequestCall ==
    ASSUME TypeOK, RequestInv, NEW type \in Requests, Call(type), [Next]_vars
    PROVE  RequestInv'
<1> PICK n, c, d, x, y :
        /\ n = Len(requests) /\ c = Len(calls) + 1 /\ d = context
        /\ x = [type |-> type, call |-> c, ctx |-> 0]
        /\ y = [type |-> type, seen |-> LastTaken, ctx |-> context, result |-> "waiting", from |-> 0]
  OBVIOUS
<1>1. x \in Written /\ y \in Calls
  BY Lists, Bounds, LastTakenType DEF Written, Call, Begin, Calls, TypeOK, Results
<1>2. requests' = Append(requests, x) /\ calls' = Append(calls, y)
      /\ UNCHANGED <<served, nodeContext, context>>
  BY DEF Call, Begin
<1>3. /\ n \in Nat /\ DOMAIN requests = 1..n /\ DOMAIN requests' = 1..(n + 1)
      /\ Len(requests') = n + 1 /\ requests'[n + 1] = x
      /\ \A k \in 1..n : requests'[k] = requests[k]
  BY <1>1, <1>2, GrowRequests, Lists
<1>4. c \in DOMAIN calls' /\ calls'[c] = y /\ c \in Nat /\ \A e \in DOMAIN calls : e < c
  BY <1>1, <1>2, GrowCalls, Lists
<1>5. x.type = type /\ x.call = c /\ y.type = type /\ y.ctx = d /\ type # "SET_DEPENDENT_CONTEXT"
  BY RequestKinds
<1>6. ContextAfter(n, d)' /\ ContextAfter(n + 1, d)'
  <2>1. ContextAfter(n, d)
    BY DEF RequestInv
  <2> QED
    BY <1>3, <1>5, <2>1, ContextKept, ContextQuery
<1>7. \A j \in 1..n : requests'[j].call < c
  <2> SUFFICES ASSUME NEW j \in 1..n PROVE requests[j].call < c
    BY <1>3
  <2>1. CASE IsQuery(j)
    BY <1>3, <1>4, <2>1 DEF RequestInv
  <2>2. CASE ~IsQuery(j)
    BY <1>3, <2>2, RequestFields, Lists
  <2> QED
    BY <2>1, <2>2
<1>8. ContextAfter(Len(requests), context)'
  <2>1. context' = d /\ Len(requests') = n + 1 /\ ContextAfter(n + 1, d)'
    BY <1>2, <1>3, <1>6
  <2> QED
    BY <2>1, ContextAt
<1>9. /\ requests'[n + 1].call \in DOMAIN calls'
      /\ requests'[n + 1].type = calls'[requests'[n + 1].call].type
      /\ \A j \in 1..n : requests'[j].call < requests'[n + 1].call
  BY <1>3, <1>4, <1>5, <1>7
<1>10. (\A k \in DOMAIN requests : IsQuery(k) =>
          /\ requests[k].call \in DOMAIN calls
          /\ requests[k].type = calls[requests[k].call].type
          /\ ContextAfter(k - 1, calls[requests[k].call].ctx)
          /\ \A j \in 1..(k - 1) : requests[j].call < requests[k].call)'
  <2> SUFFICES ASSUME NEW k \in DOMAIN requests', IsQuery(k)'
               PROVE  /\ requests'[k].call \in DOMAIN calls'
                      /\ requests'[k].type = calls'[requests'[k].call].type
                      /\ ContextAfter(k - 1, calls[requests[k].call].ctx)'
                      /\ \A j \in 1..(k - 1) : requests'[j].call < requests'[k].call
    OBVIOUS
  <2>1. CASE k \in DOMAIN requests
    BY <1>1, <1>2, <2>1, RequestKept
  <2>2. CASE k = n + 1
    <3>1. ContextAfter(k - 1, calls[requests[k].call].ctx)'
      <4>1. k - 1 = n /\ calls'[requests'[k].call].ctx = d
        BY <1>3, <1>4, <1>5, <2>2
      <4>2. ContextAfter(n, d)'
        BY <1>6
      <4> QED
        BY <4>1, <4>2, ContextAt
    <3> QED
      BY <1>3, <1>9, <2>2, <3>1
  <2> QED
    BY <1>3, <2>1, <2>2
<1>11. ContextAfter(served, nodeContext)'
  BY <1>1, <1>2, RequestKept
<1> QED
  BY <1>8, <1>10, <1>11 DEF RequestInv

LEMMA RequestSet ==
    ASSUME TypeOK, RequestInv, NEW c \in Contexts \cup {0}, SetDependentContext(c), [Next]_vars
    PROVE  RequestInv'
<1> PICK n, x :
        /\ n = Len(requests)
        /\ x = [type |-> "SET_DEPENDENT_CONTEXT", call |-> 0, ctx |-> c]
  OBVIOUS
<1>1. x \in Written
  BY DEF Written
<1>2. requests' = Append(requests, x) /\ context' = c /\ UNCHANGED <<served, nodeContext>>
  BY DEF SetDependentContext
<1>3. /\ n \in Nat /\ DOMAIN requests = 1..n /\ DOMAIN requests' = 1..(n + 1)
      /\ Len(requests') = n + 1 /\ requests'[n + 1] = x
  BY <1>1, <1>2, GrowRequests, Lists
<1>4. ContextAfter(n + 1, c)'
  BY <1>3, ContextSet
<1>5. ContextAfter(Len(requests), context)'
  BY <1>2, <1>3, <1>4, ContextAt
<1>6. ~IsQuery(n + 1)'
  BY <1>3 DEF IsQuery
<1>7. (\A k \in DOMAIN requests : IsQuery(k) =>
          /\ requests[k].call \in DOMAIN calls
          /\ requests[k].type = calls[requests[k].call].type
          /\ ContextAfter(k - 1, calls[requests[k].call].ctx)
          /\ \A j \in 1..(k - 1) : requests[j].call < requests[k].call)'
  <2> SUFFICES ASSUME NEW k \in DOMAIN requests', IsQuery(k)'
               PROVE  /\ requests'[k].call \in DOMAIN calls'
                      /\ requests'[k].type = calls'[requests'[k].call].type
                      /\ ContextAfter(k - 1, calls[requests[k].call].ctx)'
                      /\ \A j \in 1..(k - 1) : requests'[j].call < requests'[k].call
    OBVIOUS
  <2>1. k \in DOMAIN requests
    BY <1>3, <1>6
  <2> QED
    BY <1>1, <1>2, <2>1, RequestKept
<1> QED
  BY <1>1, <1>2, <1>5, <1>7, RequestKept DEF RequestInv

LEMMA RequestStep ==
    ASSUME TypeOK, RequestInv, [Next]_vars
    PROVE  RequestInv'
<1>1. CASE UNCHANGED <<requests, served, nodeContext, context>>
  BY <1>1, RequestSame
<1> QED
  BY <1>1, RequestServe, RequestCall, RequestSet, Shapes
     DEF NodeSay, BeginSilently, Continue, EndBy, Receive, GiveUp, Idle, nodeVars

-----------------------------------------------------------------------------
(* What the node writes. *)

\* Messages written keep what StreamInv says of them while no request is
\* dealt with and every new query belongs to a new call.
LEMMA StreamSame ==
    ASSUME TypeOK, StreamInv, [Next]_vars, UNCHANGED <<stream, nodeUp, served>>,
           \A k \in DOMAIN requests' : IsQuery(k)' =>
              \/ k \in DOMAIN requests /\ requests'[k] = requests[k]
              \/ requests'[k].call = Len(calls) + 1
    PROVE  StreamInv'
<1> SUFFICES ASSUME NEW m \in DOMAIN stream
             PROVE  /\ stream[m].re = 0 => stream[m].type \in Unasked
                    /\ stream[m].re # 0 =>
                          LET c == stream[m].re
                          IN  /\ c \in DOMAIN calls' /\ calls'[c].type \in Requests
                              /\ stream[m].type \in {ReplyTo[calls'[c].type], "DATA_MISSING"}
                              /\ stream[m].ctx = calls'[c].ctx
                              /\ \A n \in 1..(m - 1) : stream[n].re < c
                              /\ \A k \in (served + 1)..Len(requests') :
                                    IsQuery(k)' => c < requests'[k].call
                    /\ stream[m].type = "BYE" => m = Len(stream) /\ ~nodeUp
  BY DEF StreamInv
<1> PICK c : c = stream[m].re
  OBVIOUS
<1>1. CASE c = 0
  BY <1>1 DEF StreamInv
<1>2. CASE c # 0
  <2>1. /\ c \in DOMAIN calls /\ calls[c].type \in Requests
        /\ stream[m].type \in {ReplyTo[calls[c].type], "DATA_MISSING"}
        /\ stream[m].ctx = calls[c].ctx
        /\ \A n \in 1..(m - 1) : stream[n].re < c
        /\ \A k \in (served + 1)..Len(requests) : IsQuery(k) => c < requests[k].call
        /\ stream[m].type = "BYE" => m = Len(stream) /\ ~nodeUp
    BY <1>2 DEF StreamInv
  <2>2. c \in DOMAIN calls' /\ calls'[c].type = calls[c].type /\ calls'[c].ctx = calls[c].ctx
    BY <2>1, PastCalls
  <2>3. ASSUME NEW k \in (served + 1)..Len(requests'), IsQuery(k)'
        PROVE  c < requests'[k].call
    <3>0. TypeOK'
      BY NextType
    <3>1. k \in DOMAIN requests'
      <4>1. DOMAIN requests' = 1..Len(requests') /\ Len(requests') \in Nat
        BY <3>0 DEF TypeOK
      <4> QED
        BY <4>1, Lists
    <3>2. CASE requests'[k].call = Len(calls) + 1
      BY <2>1, <3>2, Lists
    <3>3. CASE k \in DOMAIN requests /\ requests'[k] = requests[k]
      BY <2>1, <2>3, <3>3, Lists DEF IsQuery
    <3> QED
      BY <2>3, <3>1, <3>2, <3>3
  <2> QED
    BY <1>2, <2>1, <2>2, <2>3
<1> QED
  BY <1>1, <1>2

\* The messages written before a new one.
LEMMA StreamKept ==
    ASSUME TypeOK, StreamInv, NEW x \in Messages, Write(x),
           UNCHANGED <<requests, calls>>, served' \in {served, served + 1},
           nodeUp' => nodeUp
    PROVE  \A m \in DOMAIN stream :
              /\ stream'[m] = stream[m]
              /\ stream[m].type # "BYE"
              /\ stream[m].re = 0 => stream[m].type \in Unasked
              /\ stream[m].re # 0 =>
                    LET c == stream[m].re
                    IN  /\ c \in DOMAIN calls /\ calls[c].type \in Requests
                        /\ stream[m].type \in {ReplyTo[calls[c].type], "DATA_MISSING"}
                        /\ stream[m].ctx = calls[c].ctx
                        /\ \A n \in 1..(m - 1) : stream'[n].re < c
                        /\ \A k \in (served' + 1)..Len(requests) :
                              IsQuery(k) => c < requests[k].call
<1>1. /\ \A m \in DOMAIN stream : stream'[m] = stream[m]
      /\ served \in Nat /\ Len(requests) \in Nat /\ nodeUp
  BY GrowStream, Lists DEF Write
<1> SUFFICES ASSUME NEW m \in DOMAIN stream
             PROVE  /\ stream'[m] = stream[m]
                    /\ stream[m].type # "BYE"
                    /\ stream[m].re = 0 => stream[m].type \in Unasked
                    /\ stream[m].re # 0 =>
                          LET c == stream[m].re
                          IN  /\ c \in DOMAIN calls /\ calls[c].type \in Requests
                              /\ stream[m].type \in {ReplyTo[calls[c].type], "DATA_MISSING"}
                              /\ stream[m].ctx = calls[c].ctx
                              /\ \A n \in 1..(m - 1) : stream'[n].re < c
                              /\ \A k \in (served' + 1)..Len(requests) :
                                    IsQuery(k) => c < requests[k].call
  OBVIOUS
<1>2. stream[m].type # "BYE"
  BY <1>1 DEF StreamInv
<1>3. \A n \in 1..(m - 1) : n \in DOMAIN stream
  BY Lists
<1>4. \A k \in (served' + 1)..Len(requests) : k \in (served + 1)..Len(requests)
  <2>1. CASE served' = served
    BY <2>1
  <2>2. CASE served' = served + 1
    BY <1>1, <2>2
  <2> QED
    BY <2>1, <2>2
<1> QED
  BY <1>1, <1>2, <1>3, <1>4 DEF StreamInv

LEMMA StreamServe ==
    ASSUME TypeOK, RequestInv, StreamInv, NodeServe
    PROVE  StreamInv'
<1> PICK k, c : k = served + 1 /\ c = requests[k].call
  OBVIOUS
<1>1. /\ k \in DOMAIN requests /\ served' = k /\ served \in Nat /\ k = served + 1
      /\ UNCHANGED <<requests, calls, nodeUp>>
  BY Lists DEF NodeServe
<1>2. CASE ~IsQuery(k)
  <2>1. UNCHANGED stream
    BY <1>1, <1>2 DEF NodeServe, IsQuery
  <2>2. \A j \in (k + 1)..Len(requests) : j \in (served + 1)..Len(requests)
    BY <1>1, Lists
  <2> QED
    BY <1>1, <2>1, <2>2 DEF StreamInv, IsQuery
<1>3. CASE IsQuery(k)
  <2>1. PICK t \in {ReplyTo[requests[k].type], "DATA_MISSING"} :
            Write([type |-> t, re |-> c, ctx |-> nodeContext, part |-> "all"])
    BY <1>1, <1>3 DEF NodeServe, IsQuery
  <2> PICK x, d : /\ x = [type |-> t, re |-> c, ctx |-> nodeContext, part |-> "all"]
                  /\ d = nodeContext
    OBVIOUS
  <2>2. /\ c \in DOMAIN calls /\ requests[k].type = calls[c].type
        /\ requests[k].type \in Requests /\ c # 0 /\ c \in 0..MaxCalls
        /\ \A j \in 1..(k - 1) : requests[j].call < c
    BY <1>1, <1>3, RequestFields DEF RequestInv
  <2>3. t \in MessageKinds /\ t # "BYE"
    BY <2>1, <2>2, RequestKinds, UnaskedKinds DEF MessageKinds, Unasked
  <2>4. x \in Messages /\ Write(x)
    BY <2>1, <2>2, <2>3 DEF Messages, TypeOK
  <2>5. calls[c].ctx = d
    <3>1. ContextAfter(served, d) /\ ContextAfter(k - 1, calls[c].ctx) /\ k - 1 = served
      <4>1. ContextAfter(served, nodeContext)
        BY DEF RequestInv
      <4> QED
        BY <1>1, <1>3, <4>1 DEF RequestInv
    <3> PICK e, n : e = calls[c].ctx /\ n = served
      OBVIOUS
    <3> QED
      BY <1>1, <3>1, ContextUnique
  <2>6. \A n \in DOMAIN stream : stream[n].re < c
    <3> SUFFICES ASSUME NEW n \in DOMAIN stream PROVE stream[n].re < c
      OBVIOUS
    <3>1. CASE stream[n].re = 0
      BY <2>2, <3>1, Lists
    <3>2. CASE stream[n].re # 0
      <4>1. k \in (served + 1)..Len(requests)
        BY <1>1, Lists
      <4> QED
        BY <1>3, <3>2, <4>1 DEF StreamInv
    <3> QED
      BY <3>1, <3>2
  <2>7. \A j \in (k + 1)..Len(requests) : IsQuery(j) => c < requests[j].call
    <3> SUFFICES ASSUME NEW j \in (k + 1)..Len(requests), IsQuery(j) PROVE c < requests[j].call
      OBVIOUS
    <3>1. j \in DOMAIN requests /\ k \in 1..(j - 1)
      BY <1>1, Lists
    <3> QED
      BY <3>1 DEF RequestInv
  <2>8. /\ Len(stream') = Len(stream) + 1 /\ DOMAIN stream' = 1..(Len(stream) + 1)
        /\ stream'[Len(stream) + 1] = x
        /\ DOMAIN stream = 1..Len(stream) /\ Len(stream) \in Nat
        /\ \A m \in DOMAIN stream : stream'[m] = stream[m]
    BY <2>4, GrowStream, Lists DEF Write
  <2>9. served' \in {served, served + 1} /\ (nodeUp' => nodeUp)
    BY <1>1
  <2> SUFFICES ASSUME NEW m \in DOMAIN stream'
               PROVE  /\ stream'[m].re = 0 => stream'[m].type \in Unasked
                      /\ stream'[m].re # 0 =>
                            LET e == stream'[m].re
                            IN  /\ e \in DOMAIN calls /\ calls[e].type \in Requests
                                /\ stream'[m].type \in {ReplyTo[calls[e].type], "DATA_MISSING"}
                                /\ stream'[m].ctx = calls[e].ctx
                                /\ \A n \in 1..(m - 1) : stream'[n].re < e
                                /\ \A j \in (served' + 1)..Len(requests) :
                                      IsQuery(j) => e < requests[j].call
                      /\ stream'[m].type # "BYE"
    BY <1>1 DEF StreamInv, IsQuery
  <2>10. CASE m \in DOMAIN stream
    BY <1>1, <2>4, <2>9, <2>10, StreamKept
  <2>11. CASE m = Len(stream) + 1
    <3>1. stream'[m].re = c /\ stream'[m].type = t /\ stream'[m].ctx = d
      BY <2>8, <2>11
    <3>2. \A n \in 1..(m - 1) : stream'[n].re < c
      BY <2>6, <2>8, <2>11
    <3>3. \A j \in (served' + 1)..Len(requests) : IsQuery(j) => c < requests[j].call
      BY <1>1, <2>7
    <3> QED
      BY <2>1, <2>2, <2>3, <2>5, <3>1, <3>2, <3>3
  <2> QED
    BY <2>8, <2>10, <2>11
<1> QED
  BY <1>2, <1>3

LEMMA StreamSay ==
    ASSUME TypeOK, StreamInv, NEW t \in Unasked, NEW p \in {"all", "trailing", "contexts", "none"},
           NodeSay(t, p)
    PROVE  StreamInv'
<1> PICK x : x = [type |-> t, re |-> 0, ctx |-> 0, part |-> p]
  OBVIOUS
<1>1. /\ x \in Messages /\ Write(x) /\ nodeUp /\ nodeUp' = (t # "BYE")
      /\ UNCHANGED <<requests, served, calls>>
  BY UnaskedKinds, Bounds DEF Messages, NodeSay, Write
<1>2. /\ Len(stream') = Len(stream) + 1 /\ DOMAIN stream' = 1..(Len(stream) + 1)
      /\ stream'[Len(stream) + 1] = x
      /\ DOMAIN stream = 1..Len(stream) /\ Len(stream) \in Nat
      /\ \A m \in DOMAIN stream : stream'[m] = stream[m]
  BY <1>1, GrowStream, Lists DEF Write
<1>3. served' \in {served, served + 1} /\ (nodeUp' => nodeUp)
  BY <1>1
<1> SUFFICES ASSUME NEW m \in DOMAIN stream'
             PROVE  /\ stream'[m].re = 0 => stream'[m].type \in Unasked
                    /\ stream'[m].re # 0 =>
                          LET e == stream'[m].re
                          IN  /\ e \in DOMAIN calls /\ calls[e].type \in Requests
                              /\ stream'[m].type \in {ReplyTo[calls[e].type], "DATA_MISSING"}
                              /\ stream'[m].ctx = calls[e].ctx
                              /\ \A n \in 1..(m - 1) : stream'[n].re < e
                              /\ \A j \in (served' + 1)..Len(requests) :
                                    IsQuery(j) => e < requests[j].call
                    /\ stream'[m].type = "BYE" => m = Len(stream') /\ ~nodeUp'
  BY <1>1 DEF StreamInv, IsQuery
<1>4. CASE m \in DOMAIN stream
  BY <1>1, <1>3, <1>4, StreamKept
<1>5. CASE m = Len(stream) + 1
  <2>1. stream'[m].re = 0 /\ stream'[m].type = t /\ m = Len(stream')
    BY <1>2, <1>5
  <2>2. t = "BYE" => ~nodeUp'
    BY <1>1, Zenon
  <2> QED
    BY <2>1, <2>2
<1> QED
  BY <1>2, <1>4, <1>5

LEMMA StreamStep ==
    ASSUME TypeOK, RequestInv, StreamInv, [Next]_vars
    PROVE  StreamInv'
<1>1. CASE UNCHANGED <<stream, nodeUp, served, requests>>
  BY <1>1, StreamSame
<1>2. ASSUME NEW type \in Requests, Call(type) PROVE StreamInv'
  <2> PICK x : x = [type |-> type, call |-> Len(calls) + 1, ctx |-> 0]
    OBVIOUS
  <2>1. x \in Written /\ requests' = Append(requests, x) /\ UNCHANGED <<stream, nodeUp, served>>
    BY <1>2, Lists, Bounds DEF Written, Call, Begin
  <2>2. \A k \in DOMAIN requests' : \/ k \in DOMAIN requests /\ requests'[k] = requests[k]
                                    \/ requests'[k].call = Len(calls) + 1
    BY <2>1, GrowRequests, Lists
  <2> QED
    BY <2>1, <2>2, StreamSame
<1>3. ASSUME NEW c \in Contexts \cup {0}, SetDependentContext(c) PROVE StreamInv'
  <2> PICK x : x = [type |-> "SET_DEPENDENT_CONTEXT", call |-> 0, ctx |-> c]
    OBVIOUS
  <2>1. x \in Written /\ requests' = Append(requests, x) /\ UNCHANGED <<stream, nodeUp, served>>
    BY <1>3 DEF Written, SetDependentContext
  <2>2. \A k \in DOMAIN requests' : IsQuery(k)' => k \in DOMAIN requests /\ requests'[k] = requests[k]
    BY <2>1, GrowRequests, Lists DEF IsQuery
  <2> QED
    BY <2>1, <2>2, StreamSame
<1> QED
  BY <1>1, <1>2, <1>3, StreamServe, StreamSay, Shapes
     DEF BeginSilently, Continue, EndBy, Receive, GiveUp, Idle, nodeVars

-----------------------------------------------------------------------------
(* How calls end. *)

LEMMA LastGrows ==
    ASSUME TypeOK, TakenInv, [Next]_vars
    PROVE  LastTaken \in 0..Len(stream) /\ LastTaken' \in Nat /\ LastTaken <= LastTaken'
<1>0. LastTaken \in 0..Len(stream)
  BY LastTakenType
<1>1. ASSUME NEW m \in DOMAIN stream, Receive(m) PROVE LastTaken' \in Nat /\ LastTaken <= LastTaken'
  BY <1>1, ReceiveFacts
<1>2. CASE UNCHANGED taken
  <2>1. LastTaken' = LastTaken
    BY <1>2 DEF LastTaken
  <2> QED
    BY <1>0, <2>1, Lists
<1> QED
  BY <1>0, <1>1, <1>2, Shapes
     DEF NodeServe, NodeSay, Call, BeginSilently, SetDependentContext, Continue, EndBy,
         GiveUp, Idle, chanVars

\* A call begun finds its place behind all others, none of which waits.
LEMMA BeginFacts ==
    ASSUME TypeOK, CallInv, NEW type \in Requests \cup {"NEW_TIP"}, NEW r \in {"waiting", "closed"},
           Begin(type, r)
    PROVE  /\ Len(calls') = Len(calls) + 1 /\ DOMAIN calls' = 1..(Len(calls) + 1)
           /\ \A c \in DOMAIN calls : calls'[c] = calls[c] /\ calls[c].result # "waiting"
           /\ calls'[Len(calls) + 1].type = type /\ calls'[Len(calls) + 1].seen = LastTaken
           /\ calls'[Len(calls) + 1].result = r
<1> PICK x : x = [type |-> type, seen |-> LastTaken, ctx |-> context, result |-> r, from |-> 0]
  OBVIOUS
<1>1. x \in Calls /\ calls' = Append(calls, x)
  BY LastTakenType, Lists DEF Calls, TypeOK, Begin, Results
<1>2. \A c \in DOMAIN calls : calls[c].result # "waiting"
  BY Lists DEF CallInv, Begin, Busy
<1> QED
  BY <1>1, <1>2, GrowCalls

\* A step either ends the call in progress by a message or only gives calls
\* without an answer.
LEMMA CallShapes ==
    ASSUME TypeOK, CallInv, [Next]_vars
    PROVE  \/ \E m \in DOMAIN stream, r \in {"reply", "missing", "bye", "decode", "closed"} :
                 EndBy(m, r)
           \/ \A c \in DOMAIN calls' :
                 \/ c \in DOMAIN calls /\ calls'[c] = calls[c]
                 \/ calls'[c].result \in {"waiting", "closed", "timeout", "value"}
<1>1. ASSUME NEW type \in Requests \cup {"NEW_TIP"}, NEW r \in {"waiting", "closed"}, Begin(type, r)
      PROVE  \A c \in DOMAIN calls' :
                 \/ c \in DOMAIN calls /\ calls'[c] = calls[c]
                 \/ calls'[c].result \in {"waiting", "closed", "timeout", "value"}
  BY <1>1, BeginFacts, Lists
<1>2. ASSUME NEW r \in {"timeout", "value", "closed"}, GiveUp(r)
      PROVE  \A c \in DOMAIN calls' :
                 \/ c \in DOMAIN calls /\ calls'[c] = calls[c]
                 \/ calls'[c].result \in {"waiting", "closed", "timeout", "value"}
  BY <1>2, EndCallFacts DEF GiveUp, Results
<1> QED
  BY <1>1, <1>2, Shapes DEF NodeServe, NodeSay, Call, BeginSilently, SetDependentContext, Continue, Idle

\* What ends a call by a message says of the call.
LEMMA EndByFacts ==
    ASSUME TypeOK, TakenInv, NEW m \in DOMAIN stream,
           NEW r \in {"reply", "missing", "bye", "decode", "closed"}, EndBy(m, r)
    PROVE  /\ Len(calls) \in DOMAIN calls /\ DOMAIN calls' = DOMAIN calls
           /\ Len(calls') = Len(calls)
           /\ calls[Len(calls)].result = "waiting"
           /\ calls'[Len(calls)].result = r /\ calls'[Len(calls)].from = m
           /\ \A c \in DOMAIN calls : c # Len(calls) => calls'[c] = calls[c]
           /\ r = "reply" => stream[m].type = IF calls[Len(calls)].type = "NEW_TIP" THEN "NEW_TIP"
                                              ELSE ReplyTo[calls[Len(calls)].type]
           /\ r = "missing" => stream[m].type = "DATA_MISSING"
           /\ r = "bye" => stream[m].type = "BYE"
           /\ m \in Nat /\ LastTaken < m /\ LastTaken' = m /\ UNCHANGED stream
<1>1. /\ Receive(m) /\ EndCall(r, m) /\ Busy /\ m \in Nat /\ LastTaken < m /\ LastTaken' = m
      /\ UNCHANGED stream
  BY ReceiveFacts DEF EndBy
<1>2. /\ r = "reply" => stream[m].type = Expected
      /\ r = "missing" => stream[m].type = "DATA_MISSING"
      /\ r = "bye" => stream[m].type = "BYE"
  BY DEF EndBy
<1>3. r \in Results
  BY DEF Results
<1>4. /\ Len(calls) \in DOMAIN calls /\ calls[Len(calls)].result = "waiting"
      /\ Current = calls[Len(calls)]
  BY <1>1, BusyFacts
<1>5. /\ DOMAIN calls' = DOMAIN calls /\ Len(calls') = Len(calls)
      /\ calls'[Len(calls)].result = r /\ calls'[Len(calls)].from = m
      /\ \A c \in DOMAIN calls : c # Len(calls) => calls'[c] = calls[c]
  BY <1>1, <1>3, EndCallFacts
<1> QED
  BY <1>1, <1>2, <1>4, <1>5 DEF Expected

LEMMA WaitingLast ==
    ASSUME TypeOK, CallInv, [Next]_vars
    PROVE  \A c \in DOMAIN calls' :
              calls'[c].result = "waiting" => c = Len(calls') /\ calls'[c].seen \in Nat
<1>0. TypeOK'
  BY NextType
<1>1. \A c \in DOMAIN calls' : calls'[c].seen \in Nat
  <2>0. calls' \in Seq(Calls)
    BY <1>0, ZenonT(60) DEF TypeOK
  <2>1. \A c \in DOMAIN calls' : calls'[c] \in Calls
    BY <2>0
  <2> QED
    BY <2>1 DEF Calls
<1> SUFFICES \A c \in DOMAIN calls' : calls'[c].result = "waiting" => c = Len(calls')
  BY <1>1
<1>2. CASE UNCHANGED calls
  BY <1>2 DEF CallInv
<1>3. ASSUME NEW type \in Requests \cup {"NEW_TIP"}, NEW r \in {"waiting", "closed"}, Begin(type, r)
      PROVE  \A c \in DOMAIN calls' : calls'[c].result = "waiting" => c = Len(calls')
  BY <1>3, BeginFacts, Lists
<1>4. ASSUME Busy, NEW r \in Results, NEW m \in Nat, EndCall(r, m)
      PROVE  \A c \in DOMAIN calls' : calls'[c].result = "waiting" => c = Len(calls')
  BY <1>4, EndCallFacts DEF CallInv
<1>5. ASSUME NEW m \in DOMAIN stream, NEW r \in {"reply", "missing", "bye", "decode", "closed"},
             EndBy(m, r)
      PROVE  \A c \in DOMAIN calls' : calls'[c].result = "waiting" => c = Len(calls')
  BY <1>4, <1>5, Lists DEF EndBy, Receive, Results
<1>6. CASE \E r \in {"timeout", "value", "closed"} : GiveUp(r)
  BY <1>4, <1>6 DEF GiveUp, Results
<1> QED
  BY <1>2, <1>3, <1>5, <1>6, Shapes
     DEF NodeServe, NodeSay, Call, BeginSilently, SetDependentContext, Continue, Idle

LEMMA SeenBefore ==
    ASSUME TypeOK, TakenInv, CallInv, [Next]_vars
    PROVE  \A c \in DOMAIN calls' : calls'[c].seen <= LastTaken'
<1>0. LastTaken \in Nat /\ LastTaken' \in Nat /\ LastTaken <= LastTaken'
  BY LastGrows, Lists
<1>1. \A c \in DOMAIN calls : calls'[c].seen <= LastTaken'
  <2> SUFFICES ASSUME NEW c \in DOMAIN calls PROVE calls'[c].seen <= LastTaken'
    OBVIOUS
  <2>1. calls'[c].seen = calls[c].seen /\ calls[c].seen \in Nat /\ calls[c].seen <= LastTaken
    BY PastCalls, CallFields, Lists DEF CallInv
  <2> QED
    BY <1>0, <2>1
<1>2. CASE DOMAIN calls' = DOMAIN calls
  BY <1>1, <1>2
<1>3. ASSUME NEW type \in Requests \cup {"NEW_TIP"}, NEW r \in {"waiting", "closed"}, Begin(type, r)
      PROVE  \A c \in DOMAIN calls' : calls'[c].seen <= LastTaken'
  <2>1. calls'[Len(calls) + 1].seen = LastTaken
    BY <1>3, BeginFacts
  <2>2. \A c \in DOMAIN calls' : c \in DOMAIN calls \/ c = Len(calls) + 1
    BY <1>3, BeginFacts, Lists
  <2> QED
    BY <1>0, <1>1, <2>1, <2>2
<1>4. ASSUME Busy, NEW r \in Results, NEW m \in Nat, EndCall(r, m)
      PROVE  DOMAIN calls' = DOMAIN calls
  BY <1>4, EndCallFacts
<1>5. ASSUME NEW m \in DOMAIN stream, NEW r \in {"reply", "missing", "bye", "decode", "closed"},
             EndBy(m, r)
      PROVE  DOMAIN calls' = DOMAIN calls
  BY <1>4, <1>5, Lists DEF EndBy, Receive, Results
<1>6. CASE \E r \in {"timeout", "value", "closed"} : GiveUp(r)
  BY <1>2, <1>4, <1>6 DEF GiveUp, Results
<1> QED
  BY <1>2, <1>3, <1>5, <1>6, Shapes
     DEF NodeServe, NodeSay, Call, BeginSilently, SetDependentContext, Continue, Idle

LEMMA CallStep ==
    ASSUME TypeOK, TakenInv, CallInv, [Next]_vars
    PROVE  CallInv'
<1>0. /\ LastTaken \in Nat /\ LastTaken' \in Nat /\ LastTaken <= LastTaken'
      /\ LastTaken <= Len(stream)
  BY LastGrows, Lists
<1>1. ASSUME NEW c \in DOMAIN calls', calls'[c].result \in {"reply", "missing", "bye"}
      PROVE  LET m == calls'[c].from
             IN  /\ m \in 1..LastTaken'
                 /\ calls'[c].result = "missing" => stream'[m].type = "DATA_MISSING"
                 /\ calls'[c].result = "bye" => stream'[m].type = "BYE"
                 /\ calls'[c].result = "reply" =>
                       stream'[m].type = IF calls'[c].type = "NEW_TIP" THEN "NEW_TIP"
                                         ELSE ReplyTo[calls'[c].type]
  <2>1. CASE c \in DOMAIN calls /\ calls'[c] = calls[c]
    <3> PICK m : m = calls[c].from
      OBVIOUS
    <3>1. /\ m \in 1..LastTaken
          /\ calls[c].result = "missing" => stream[m].type = "DATA_MISSING"
          /\ calls[c].result = "bye" => stream[m].type = "BYE"
          /\ calls[c].result = "reply" =>
                stream[m].type = IF calls[c].type = "NEW_TIP" THEN "NEW_TIP"
                                 ELSE ReplyTo[calls[c].type]
      BY <1>1, <2>1 DEF CallInv
    <3>2. m \in DOMAIN stream /\ m \in 1..LastTaken'
      BY <1>0, <3>1, Lists
    <3>3. stream'[m] = stream[m]
      BY <3>2, PastStream
    <3> QED
      BY <2>1, <3>1, <3>2, <3>3
  <2>2. ASSUME NEW m \in DOMAIN stream, NEW r \in {"reply", "missing", "bye", "decode", "closed"},
               EndBy(m, r), c = Len(calls)
        PROVE  LET n == calls'[c].from
               IN  /\ n \in 1..LastTaken'
                   /\ calls'[c].result = "missing" => stream'[n].type = "DATA_MISSING"
                   /\ calls'[c].result = "bye" => stream'[n].type = "BYE"
                   /\ calls'[c].result = "reply" =>
                         stream'[n].type = IF calls'[c].type = "NEW_TIP" THEN "NEW_TIP"
                                           ELSE ReplyTo[calls'[c].type]
    <3>1. calls'[c].type = calls[c].type
      BY <1>1, <2>2, PastCalls, EndByFacts
    <3>2. m \in 1..LastTaken' /\ calls'[c].from = m /\ calls'[c].result = r
          /\ stream'[m] = stream[m]
      BY <1>0, <2>2, EndByFacts
    <3> QED
      BY <2>2, <3>1, <3>2, EndByFacts
  <2>3. ASSUME NEW m \in DOMAIN stream, NEW r \in {"reply", "missing", "bye", "decode", "closed"},
               EndBy(m, r), c # Len(calls)
        PROVE  c \in DOMAIN calls /\ calls'[c] = calls[c]
    BY <1>1, <2>3, EndByFacts
  <2> QED
    BY <1>1, <2>1, <2>2, <2>3, CallShapes
<1> QED
  BY <1>1, WaitingLast, SeenBefore DEF CallInv

-----------------------------------------------------------------------------
(* Which message ends which call. *)

LEMMA FromTaken ==
    ASSUME TypeOK, CallInv, NEW c \in Returned
    PROVE  /\ c \in DOMAIN calls /\ c \in Nat
           /\ calls[c].from \in DOMAIN stream
           /\ calls[c].from \in 1..LastTaken /\ LastTaken \in Nat
<1>1. c \in DOMAIN calls /\ calls[c].result \in {"reply", "missing", "bye"}
  BY DEF Returned
<1>2. calls[c].from \in 1..LastTaken
  BY <1>1 DEF CallInv
<1> QED
  BY <1>1, <1>2, LastTakenType, Lists

\* A call that has returned after a step either had, or returns by it.
LEMMA ReturnedShapes ==
    ASSUME TypeOK, CallInv, [Next]_vars, NEW c \in Returned'
    PROVE  \/ c \in Returned /\ calls'[c] = calls[c]
           \/ \E m \in DOMAIN stream, r \in {"reply", "missing"} : EndBy(m, r) /\ c = Len(calls)
<1>1. c \in DOMAIN calls' /\ calls'[c].result \in {"reply", "missing"}
  BY DEF Returned
<1>2. ASSUME NEW m \in DOMAIN stream, NEW r \in {"reply", "missing", "bye", "decode", "closed"},
             EndBy(m, r), TRUE
      PROVE  \/ c \in DOMAIN calls /\ calls'[c] = calls[c]
             \/ r \in {"reply", "missing"} /\ c = Len(calls)
  <2>1. /\ DOMAIN calls' = DOMAIN calls /\ calls'[Len(calls)].result = r
        /\ \A d \in DOMAIN calls : d # Len(calls) => calls'[d] = calls[d]
    <3>1. Busy /\ EndCall(r, m) /\ m \in Nat /\ r \in Results
      BY <1>2, Lists DEF EndBy, Receive, Results
    <3> QED
      BY <3>1, EndCallFacts
  <2> QED
    BY <1>1, <2>1
<1>3. CASE \A d \in DOMAIN calls' :
              \/ d \in DOMAIN calls /\ calls'[d] = calls[d]
              \/ calls'[d].result \in {"waiting", "closed", "timeout", "value"}
  BY <1>1, <1>3 DEF Returned
<1> QED
  BY <1>1, <1>2, <1>3, CallShapes DEF Returned

LEMMA OrderStep ==
    ASSUME TypeOK, TakenInv, CallInv, AnswersInOrder, [Next]_vars
    PROVE  AnswersInOrder'
<1> SUFFICES ASSUME NEW c \in Returned', NEW d \in Returned', c < d
             PROVE  calls'[c].from < calls'[d].from
  BY DEF AnswersInOrder
<1>1. ASSUME NEW m \in DOMAIN stream, NEW r \in {"reply", "missing"}, EndBy(m, r)
      PROVE  calls'[c].from < calls'[d].from
  <2>1. /\ Len(calls) \in Nat /\ DOMAIN calls = 1..Len(calls) /\ DOMAIN calls' = DOMAIN calls
        /\ calls'[Len(calls)].from = m /\ LastTaken < m /\ m \in Nat
        /\ \A e \in DOMAIN calls : e # Len(calls) => calls'[e] = calls[e]
    BY <1>1, EndByFacts, Lists
  <2>2. c \in DOMAIN calls /\ d \in DOMAIN calls /\ c # Len(calls)
    BY <2>1 DEF Returned
  <2>3. c \in Returned /\ calls'[c] = calls[c]
    BY <2>1, <2>2 DEF Returned
  <2>4. CASE d = Len(calls)
    BY <2>1, <2>3, <2>4, FromTaken
  <2>5. CASE d # Len(calls)
    <3>1. d \in Returned /\ calls'[d] = calls[d]
      BY <2>1, <2>2, <2>5 DEF Returned
    <3> QED
      BY <2>3, <3>1 DEF AnswersInOrder
  <2> QED
    BY <2>4, <2>5
<1>2. CASE c \in Returned /\ calls'[c] = calls[c] /\ d \in Returned /\ calls'[d] = calls[d]
  BY <1>2 DEF AnswersInOrder
<1> QED
  BY <1>1, <1>2, ReturnedShapes

\* The heart of the matter: answers are written in the order of the calls, so
\* when an answer to an earlier call ends this one, that call has not been
\* ended by its own answer.
LEMMA StaleNew ==
    ASSUME TypeOK, StreamInv, TakenInv, CallInv,
           NEW m \in DOMAIN stream, NEW r \in {"reply", "missing"}, EndBy(m, r),
           NEW d, d = stream[m].re, d # 0, d # Len(calls)
    PROVE  /\ d \in DOMAIN calls /\ d < Len(calls) /\ calls'[d] = calls[d]
           /\ calls[d].result \in GaveUp \/ Stale(d)
<1>1. /\ Len(calls) \in Nat /\ DOMAIN calls = 1..Len(calls)
      /\ LastTaken < m /\ m \in Nat /\ LastTaken \in Nat
      /\ \A e \in DOMAIN calls : e # Len(calls) => calls'[e] = calls[e]
  BY EndByFacts, Lists, LastTakenType
<1>2. /\ d \in DOMAIN calls /\ calls[d].type \in Requests
      /\ \A n \in 1..(m - 1) : stream[n].re < d
  BY DEF StreamInv
<1>3. d < Len(calls) /\ calls'[d] = calls[d]
  BY <1>1, <1>2
<1>4. calls[d].result \in Results /\ calls[d].result # "waiting"
  BY <1>2, <1>3, CallFields DEF CallInv
<1>5. CASE calls[d].result = "bye"
  <2>1. calls[d].from \in 1..LastTaken /\ stream[calls[d].from].type = "BYE"
    BY <1>2, <1>5 DEF CallInv
  <2>2. calls[d].from \in DOMAIN stream /\ calls[d].from < m /\ m <= Len(stream)
    BY <1>1, <2>1, Lists
  <2>3. calls[d].from = Len(stream)
    BY <2>1, <2>2 DEF StreamInv
  <2> QED
    BY <1>1, <2>2, <2>3, Lists
<1>6. CASE calls[d].result \in {"reply", "missing"}
  <2> PICK n : n = calls[d].from
    OBVIOUS
  <2>1. d \in Returned
    BY <1>2, <1>6 DEF Returned
  <2>2. n \in DOMAIN stream /\ n \in 1..LastTaken
    BY <2>1, FromTaken
  <2>3. stream[n].re < d
    BY <1>1, <1>2, <2>2
  <2>4. stream[n].type \notin Unasked
    <3>1. calls[d].type # "NEW_TIP" /\ ReplyTo[calls[d].type] \notin Unasked
      BY <1>2, RequestKinds
    <3>2. stream[n].type \in {ReplyTo[calls[d].type], "DATA_MISSING"}
      BY <1>2, <1>6, <3>1 DEF CallInv
    <3> QED
      BY <3>1, <3>2, UnaskedKinds
  <2>5. stream[n].re # 0
    BY <2>2, <2>4 DEF StreamInv
  <2>6. stream[n].re \in Nat /\ d \in Nat
    BY <1>1, <1>2, <2>2, MessageFields
  <2>7. Stale(d)
    BY <2>1, <2>3, <2>5, <2>6 DEF Stale
  <2> QED
    BY <1>2, <1>3, <2>7
<1>7. CASE calls[d].result \in GaveUp
  BY <1>2, <1>3, <1>7
<1> QED
  BY <1>4, <1>5, <1>6, <1>7 DEF Results, GaveUp

LEMMA StaleStep ==
    ASSUME TypeOK, StreamInv, TakenInv, CallInv, StaleOnlyAfterGivingUp, [Next]_vars
    PROVE  StaleOnlyAfterGivingUp'
<1>1. ASSUME NEW d \in DOMAIN calls, calls'[d] = calls[d], Stale(d)
      PROVE  Stale(d)'
  <2>1. d \in Returned /\ stream[calls[d].from].re \notin {0, d}
    BY <1>1 DEF Stale
  <2>2. calls[d].from \in DOMAIN stream
    BY <2>1, FromTaken
  <2>3. stream'[calls[d].from] = stream[calls[d].from]
    BY <2>2, PastStream
  <2>4. d \in DOMAIN calls'
    BY PastCalls
  <2> QED
    BY <1>1, <2>1, <2>3, <2>4 DEF Stale, Returned
<1> SUFFICES ASSUME NEW c \in DOMAIN calls', Stale(c)',
                    NEW d, d = stream'[calls'[c].from].re
             PROVE  d < c /\ (calls'[d].result \in GaveUp \/ Stale(d)')
  BY DEF StaleOnlyAfterGivingUp, Stale
<1>2. c \in Returned' /\ stream'[calls'[c].from].re \notin {0, c}
  BY DEF Stale
<1>3. CASE c \in Returned /\ calls'[c] = calls[c]
  <2> PICK n : n = calls[c].from
    OBVIOUS
  <2>1. c \in DOMAIN calls /\ n \in DOMAIN stream /\ stream'[n] = stream[n]
        /\ d = stream[n].re
    BY <1>3, FromTaken, PastStream
  <2>2. Stale(c)
    BY <1>2, <1>3, <2>1 DEF Stale
  <2>3. d < c /\ (calls[d].result \in GaveUp \/ Stale(d))
    BY <2>1, <2>2 DEF StaleOnlyAfterGivingUp
  <2>4. d \in DOMAIN calls
    BY <1>2, <1>3, <2>1 DEF StreamInv
  <2>5. calls[d].result # "waiting"
    BY <2>3 DEF Stale, Returned, GaveUp
  <2>6. calls'[d] = calls[d]
    BY <2>4, <2>5, PastCalls
  <2>7. calls'[d].result \in GaveUp \/ Stale(d)'
    BY <1>1, <2>3, <2>4, <2>6
  <2> QED
    BY <1>3, <2>1, <2>3, <2>7
<1>4. ASSUME NEW m \in DOMAIN stream, NEW r \in {"reply", "missing"}, EndBy(m, r), c = Len(calls)
      PROVE  d < c /\ (calls'[d].result \in GaveUp \/ Stale(d)')
  <2>1. calls'[c].from = m /\ stream' = stream /\ d = stream[m].re
    BY <1>4, EndByFacts
  <2>2. d # 0 /\ d # Len(calls)
    BY <1>2, <1>4, <2>1
  <2>3. /\ d \in DOMAIN calls /\ d < Len(calls) /\ calls'[d] = calls[d]
        /\ calls[d].result \in GaveUp \/ Stale(d)
    BY <1>4, <2>1, <2>2, StaleNew
  <2> QED
    BY <1>1, <1>4, <2>1, <2>3
<1> QED
  BY <1>2, <1>3, <1>4, ReturnedShapes

-----------------------------------------------------------------------------
(* Waiting for a tip. *)

LEMMA TipStep ==
    ASSUME TypeOK, TakenInv, CallInv, TipInv, [Next]_vars
    PROVE  TipInv'
<1>1. CASE UNCHANGED <<calls, taken, lossy>>
  <2> SUFFICES ASSUME Busy, Current.type = "NEW_TIP", ~lossy,
                      NEW m \in (Current.seen + 1)..LastTaken
               PROVE  stream'[m].type # "NEW_TIP"
    BY <1>1 DEF TipInv, Busy, Current, LastTaken
  <2>1. Current.seen \in Nat /\ LastTaken \in Nat /\ LastTaken <= Len(stream)
    BY BusyFacts, CallFields, LastTakenType, Lists
  <2>2. m \in DOMAIN stream
    BY <2>1, Lists
  <2>3. stream'[m] = stream[m]
    BY <2>2, PastStream
  <2> QED
    BY <2>3 DEF TipInv
<1>2. ASSUME NEW type \in Requests \cup {"NEW_TIP"}, NEW r \in {"waiting", "closed"},
             Begin(type, r), UNCHANGED taken
      PROVE  TipInv'
  <2>1. Len(calls') = Len(calls) + 1 /\ calls'[Len(calls) + 1].seen = LastTaken
    BY <1>2, BeginFacts
  <2>2. LastTaken' = LastTaken /\ LastTaken \in Nat
    BY <1>2, LastTakenType, Lists DEF LastTaken
  <2>3. (LastTaken + 1)..LastTaken = {}
    BY <2>2
  <2> QED
    BY <2>1, <2>2, <2>3 DEF TipInv, Current
<1>3. ASSUME NEW m \in DOMAIN stream, Continue(m) PROVE TipInv'
  <2>1. /\ UNCHANGED <<calls, stream, lossy>> /\ LastTaken \in Nat /\ LastTaken' = m /\ m \in Nat
        /\ ~lossy => m = LastTaken + 1
        /\ Busy
    BY <1>3, ReceiveFacts DEF Continue
  <2> SUFFICES ASSUME Current.type = "NEW_TIP", ~lossy, NEW n \in (Current.seen + 1)..m
               PROVE  stream[n].type # "NEW_TIP"
    BY <2>1 DEF TipInv, Current, Busy
  <2>2. Current.seen \in Nat
    BY <2>1, BusyFacts, CallFields, Lists
  <2>3. CASE n = m
    <3>1. Expected = "NEW_TIP"
      BY <2>1, BusyFacts
    <3> QED
      BY <1>3, <2>3, <3>1 DEF Continue
  <2>4. CASE n # m
    <3>1. n \in (Current.seen + 1)..LastTaken
      BY <2>1, <2>2, <2>4
    <3> QED
      BY <2>1, <3>1 DEF TipInv
  <2> QED
    BY <2>3, <2>4
<1>4. ASSUME Busy, NEW r \in Results \ {"waiting"}, NEW m \in Nat, EndCall(r, m) PROVE TipInv'
  <2>1. Len(calls') = Len(calls) /\ calls'[Len(calls)].result = r
    BY <1>4, EndCallFacts
  <2> QED
    BY <2>1 DEF TipInv, Busy
<1>5. ASSUME NEW m \in DOMAIN stream, NEW r \in {"reply", "missing", "bye", "decode", "closed"},
             EndBy(m, r)
      PROVE  TipInv'
  <2>1. Busy /\ EndCall(r, m) /\ m \in Nat /\ r \in Results \ {"waiting"}
    BY <1>5, Lists DEF EndBy, Receive, Results
  <2> QED
    BY <1>4, <2>1
<1>6. ASSUME NEW r \in {"timeout", "value", "closed"}, GiveUp(r) PROVE TipInv'
  <2>1. Busy /\ EndCall(r, 0) /\ r \in Results \ {"waiting"}
    BY <1>6 DEF GiveUp, Results
  <2> QED
    BY <1>4, <2>1
<1> QED
  BY <1>1, <1>2, <1>3, <1>5, <1>6, Shapes
     DEF NodeServe, NodeSay, Call, BeginSilently, SetDependentContext, Idle, chanVars

LEMMA NextTipStep ==
    ASSUME TypeOK, TakenInv, CallInv, TipInv, NextTip, [Next]_vars
    PROVE  NextTip'
<1> SUFFICES ASSUME ~lossy', NEW c \in DOMAIN calls', calls'[c].type = "NEW_TIP",
                    calls'[c].result = "reply",
                    NEW n \in DOMAIN stream', stream'[n].type = "NEW_TIP", calls'[c].seen < n
             PROVE  calls'[c].from <= n
  BY DEF NextTip
<1>1. /\ LastTaken \in 0..Len(stream) /\ Len(stream) \in Nat /\ DOMAIN stream = 1..Len(stream)
      /\ n \in Nat /\ n >= 1
  <2>1. TypeOK'
    BY NextType
  <2>2. DOMAIN stream' = 1..Len(stream') /\ Len(stream') \in Nat
    BY <2>1 DEF TypeOK
  <2> QED
    BY <2>2, LastTakenType, Lists
<1>2. c \in Returned'
  BY DEF Returned
<1>3. ~lossy
  BY Shapes DEF NodeServe, NodeSay, Call, BeginSilently, SetDependentContext, Continue, EndBy,
                Receive, GiveUp, Idle, chanVars
<1>4. CASE c \in Returned /\ calls'[c] = calls[c]
  <2>1. c \in DOMAIN calls /\ calls[c].from \in DOMAIN stream
    BY <1>4, FromTaken
  <2>2. CASE n \in DOMAIN stream
    <3>1. stream'[n] = stream[n]
      BY <2>2, PastStream
    <3> QED
      BY <1>3, <1>4, <2>1, <2>2, <3>1 DEF NextTip
  <2>3. CASE n \notin DOMAIN stream
    BY <1>1, <1>4, <2>1, <2>3
  <2> QED
    BY <2>2, <2>3
<1>5. ASSUME NEW m \in DOMAIN stream, NEW r \in {"reply", "missing"}, EndBy(m, r), c = Len(calls)
      PROVE  calls'[c].from <= n
  <2>1. calls'[c].from = m /\ stream' = stream /\ c \in DOMAIN calls
    BY <1>5, EndByFacts
  <2>2. m = LastTaken + 1 /\ Busy
    BY <1>3, <1>5, ReceiveFacts DEF EndBy
  <2>3. Current.type = "NEW_TIP" /\ Current.seen = calls'[c].seen
    BY <1>5, <2>1, PastCalls DEF Current
  <2>4. Current.seen \in Nat
    BY <2>2, BusyFacts, CallFields, Lists
  <2>5. ~(n \in (Current.seen + 1)..LastTaken)
    BY <1>3, <2>1, <2>2, <2>3 DEF TipInv
  <2> QED
    BY <1>1, <2>1, <2>2, <2>3, <2>4, <2>5
<1> QED
  BY <1>2, <1>4, <1>5, ReturnedShapes

-----------------------------------------------------------------------------
(* Contexts. *)

LEMMA ConsistentStep ==
    ASSUME TypeOK, ContextsConsistent, [Next]_vars
    PROVE  ContextsConsistent'
<1>1. CASE UNCHANGED ctxVars
  <2>1. \A c \in DOMAIN calls : calls[c].result = "decode" =>
            c \in DOMAIN calls' /\ calls'[c].result = "decode"
    BY PastCalls
  <2> QED
    BY <1>1, <2>1 DEF ContextsConsistent, ctxVars
<1>2. ASSUME NEW m \in DOMAIN stream, RecvContextChanged(m) PROVE ContextsConsistent'
  <2>1. Busy /\ Receive(m) /\ m \in Nat
    BY <1>2, Lists DEF RecvContextChanged, Receive
  <2>2. CASE stream[m].part = "all"
    BY <1>2, <2>2 DEF RecvContextChanged, ContextsConsistent
  <2>3. CASE stream[m].part # "all"
    <3>1. EndCall("decode", m)
      BY <1>2, <2>3 DEF RecvContextChanged
    <3>2. Len(calls) \in DOMAIN calls' /\ calls'[Len(calls)].result = "decode"
      BY <2>1, <3>1, EndCallFacts, BusyFacts DEF Results
    <3> QED
      BY <3>2 DEF ContextsConsistent
  <2> QED
    BY <2>2, <2>3
<1> QED
  BY <1>1, <1>2
     DEF Next, NodeStep, UserStep, RecvStep, NodeServe, NodeSay, Call, CallFails, WaitForTip,
         SetDependentContext, RecvExpected, RecvKeepAlive, RecvFailure, RecvIgnored,
         RecvTimeout, RecvGarbage, RecvClosed, Tick, vars

-----------------------------------------------------------------------------
(* Keep-alives. *)

LEMMA AnsweredSame ==
    ASSUME TypeOK, KeepAliveAnswered, UNCHANGED <<taken, answered>>, nodeUp' => nodeUp,
           \A m \in DOMAIN stream : stream'[m] = stream[m]
    PROVE  KeepAliveAnswered'
<1>1. Asked' = Asked /\ Asked \subseteq DOMAIN taken /\ \A k \in Asked : taken[k] \in DOMAIN stream
  BY DEF Asked, TypeOK
<1>2. \A k \in Asked : Rank(Asked, k)' = Rank(Asked, k)
  BY <1>1 DEF Rank
<1> QED
  BY <1>1, <1>2 DEF KeepAliveAnswered

LEMMA AnsweredReceive ==
    ASSUME TypeOK, TakenInv, KeepAliveAnswered, NEW m \in DOMAIN stream, Receive(m),
           IF stream[m].type \in DOMAIN Reply
           THEN nodeUp => answered' = Append(answered, Reply[stream[m].type])
           ELSE answered' = answered
    PROVE  KeepAliveAnswered'
<1> PICK len, n : len = Len(taken) /\ n = len + 1
  OBVIOUS
<1>1. /\ len \in Nat /\ DOMAIN taken = 1..len /\ DOMAIN taken' = 1..n
      /\ n = len + 1 /\ taken'[n] = m /\ \A k \in 1..len : taken'[k] = taken[k]
      /\ UNCHANGED <<stream, nodeUp>>
  <2>1. taken' = Append(taken, m) /\ UNCHANGED <<stream, nodeUp>>
    BY ReceiveFacts
  <2> QED
    BY <2>1, GrowTaken, Lists
<1>2. 1..n = (1..len) \cup {n}
  BY <1>1
<1>3. Asked \in SUBSET (1..len)
  BY <1>1 DEF Asked
<1> SUFFICES ASSUME nodeUp PROVE KeepAliveAnswered'
  BY <1>1 DEF KeepAliveAnswered
<1>4. CASE stream[m].type \notin DOMAIN Reply
  <2>1. Asked' = Asked
    BY <1>1, <1>2, <1>4 DEF Asked
  <2> QED
    BY <1>1, <1>3, <1>4, <2>1 DEF KeepAliveAnswered, Rank
<1>5. CASE stream[m].type \in DOMAIN Reply
  <2>1. Asked' = Asked \cup {n} /\ Asked' = Asked \cup {len + 1}
    BY <1>1, <1>2, <1>5 DEF Asked
  <2>2. /\ Cardinality(Asked') = Cardinality(Asked) + 1
        /\ Rank(Asked', n) = Cardinality(Asked) + 1
        /\ \A k \in Asked : Rank(Asked', k) = Rank(Asked, k)
    <3> PICK S, T : S = Asked /\ T = Asked'
      OBVIOUS
    <3>1. S \in SUBSET (1..len) /\ T = S \cup {len + 1} /\ len \in Nat
      BY <1>1, <1>3, <2>1
    <3>2. /\ Cardinality(S \cup {len + 1}) = Cardinality(S) + 1
          /\ Rank(S \cup {len + 1}, len + 1) = Cardinality(S) + 1
          /\ \A k \in S : Rank(S \cup {len + 1}, k) = Rank(S, k)
      BY <3>1, RankAdd, Zenon
    <3> QED
      BY <1>1, <3>1, <3>2
  <2>3. \A k \in Asked : Rank(Asked, k) \in 1..Cardinality(Asked)
    BY <1>1, <1>3, RankType
  <2>4. Len(answered) = Cardinality(Asked) /\ answered \in Seq({"PONG", "TIME"})
    BY DEF KeepAliveAnswered, TypeOK
  <2>5. answered' = Append(answered, Reply[stream[m].type])
        /\ Reply[stream[m].type] \in {"PONG", "TIME"}
    BY <1>5, ReplyType
  <2>6. /\ Len(answered') = Len(answered) + 1
        /\ answered'[Len(answered) + 1] = Reply[stream[m].type]
        /\ \A k \in 1..Len(answered) : answered'[k] = answered[k]
    BY <2>4, <2>5
  <2>7. ASSUME NEW k \in Asked'
        PROVE  answered'[Rank(Asked', k)] = Reply[stream'[taken'[k]].type]
    <3>1. CASE k = n
      BY <1>1, <2>2, <2>4, <2>6, <3>1
    <3>2. CASE k \in Asked
      BY <1>1, <1>3, <2>2, <2>3, <2>4, <2>6, <3>2 DEF KeepAliveAnswered
    <3> QED
      BY <2>1, <3>1, <3>2
  <2> QED
    BY <2>2, <2>4, <2>6, <2>7 DEF KeepAliveAnswered, Rank
<1> QED
  BY <1>4, <1>5

LEMMA AnsweredStep ==
    ASSUME TypeOK, TakenInv, StreamInv, KeepAliveAnswered, [Next]_vars
    PROVE  KeepAliveAnswered'
<1>0. \A m \in DOMAIN stream : stream'[m] = stream[m]
  BY PastStream
<1>1. CASE NodeServe \/ Tick \/ UNCHANGED vars
  <2>1. UNCHANGED <<taken, answered, nodeUp>>
    BY <1>1 DEF NodeServe, Tick, vars, nodeVars, chanVars
  <2> QED
    BY <1>0, <2>1, AnsweredSame
<1>2. ASSUME NEW t \in NodeChatter, NEW p, NodeSay(t, p) PROVE KeepAliveAnswered'
  <2>1. UNCHANGED <<taken, answered>> /\ nodeUp
    BY <1>2 DEF NodeSay, Write, chanVars
  <2> QED
    BY <1>0, <2>1, AnsweredSame
<1>3. CASE UserStep
  <2>1. UNCHANGED <<taken, answered, nodeUp>>
    BY <1>3 DEF UserStep, Call, CallFails, WaitForTip, SetDependentContext, nodeVars, chanVars
  <2> QED
    BY <1>0, <2>1, AnsweredSame
<1>4. CASE RecvTimeout \/ RecvGarbage \/ RecvClosed
  <2>1. UNCHANGED <<taken, answered, nodeUp>>
    BY <1>4 DEF RecvTimeout, RecvGarbage, RecvClosed, nodeVars, chanVars
  <2> QED
    BY <1>0, <2>1, AnsweredSame
<1>5. ASSUME NEW m \in DOMAIN stream, RecvExpected(m) PROVE KeepAliveAnswered'
  <2>1. Receive(m) /\ stream[m].type = Expected /\ answered' = answered /\ Busy
    BY <1>5 DEF RecvExpected, Receive
  <2>2. stream[m].type \notin DOMAIN Reply
    BY <2>1, BusyFacts, RequestKinds, KeepAliveKinds DEF Expected, Reply
  <2> QED
    BY <2>1, <2>2, AnsweredReceive
<1>6. ASSUME NEW m \in DOMAIN stream, RecvKeepAlive(m) PROVE KeepAliveAnswered'
  BY <1>6, AnsweredReceive DEF RecvKeepAlive
<1>7. ASSUME NEW m \in DOMAIN stream, RecvFailure(m) PROVE KeepAliveAnswered'
  BY <1>7, AnsweredReceive DEF RecvFailure, Reply
<1>8. ASSUME NEW m \in DOMAIN stream, RecvContextChanged(m) PROVE KeepAliveAnswered'
  BY <1>8, AnsweredReceive DEF RecvContextChanged, Reply
<1>9. ASSUME NEW m \in DOMAIN stream, RecvIgnored(m) PROVE KeepAliveAnswered'
  BY <1>9, AnsweredReceive DEF RecvIgnored
<1> QED
  BY <1>1, <1>2, <1>3, <1>4, <1>5, <1>6, <1>7, <1>8, <1>9 DEF Next, NodeStep, RecvStep

-----------------------------------------------------------------------------

LEMMA InitInv == Init => IInv
<1> SUFFICES ASSUME Init PROVE IInv
  OBVIOUS
<1>1. TypeOK
  BY InitType
<1>2. /\ Len(requests) = 0 /\ DOMAIN requests = {} /\ DOMAIN stream = {} /\ DOMAIN taken = {}
      /\ DOMAIN calls = {} /\ calls = <<>>
  BY DEF Init
<1>3. RequestInv
  BY <1>2 DEF Init, RequestInv, ContextAfter
<1>4. StreamInv /\ TakenInv /\ CallInv /\ TipInv
  BY <1>2 DEF StreamInv, TakenInv, CallInv, TipInv, Busy
<1>5. StaleOnlyAfterGivingUp /\ AnswersInOrder /\ NextTip
  BY <1>2 DEF StaleOnlyAfterGivingUp, AnswersInOrder, NextTip, Returned
<1>6. ContextsConsistent
  BY DEF Init, ContextsConsistent
<1>7. KeepAliveAnswered
  <2>1. Asked = {} /\ Len(answered) = 0
    BY <1>2 DEF Init, Asked
  <2> QED
    BY <2>1, FS_EmptySet DEF KeepAliveAnswered
<1> QED
  BY <1>1, <1>3, <1>4, <1>5, <1>6, <1>7 DEF IInv

THEOREM Inductive == Spec => []IInv
<1>1. Init => IInv
  BY InitInv
<1>2. IInv /\ [Next]_vars => IInv'
  BY NextType, RequestStep, StreamStep, TakenStep, CallStep, TipStep, StaleStep, OrderStep,
     AnsweredStep, ConsistentStep, NextTipStep DEF IInv
<1> QED
  BY <1>1, <1>2, PTL DEF Spec

\* A call is ended by an answer to another request only if that was made by an
\* earlier call which gave up, or was itself ended by an older answer.
THEOREM StaleAnswers == Spec => []StaleOnlyAfterGivingUp
<1>1. IInv => StaleOnlyAfterGivingUp
  BY DEF IInv
<1> QED
  BY <1>1, Inductive, PTL

\* As long as no call gives up, every call is ended by its own answer: of the
\* first call that is not, an earlier one has given up.
THEOREM OwnAnswers == Spec => []OwnUntilGivingUp
<1>1. ASSUME IInv PROVE OwnUntilGivingUp
  <2> DEFINE Shifted == {c \in DOMAIN calls : Stale(c)
                            /\ ~\E d \in DOMAIN calls : d < c /\ calls[d].result \in GaveUp}
  <2>1. SUFFICES ASSUME Shifted # {} PROVE FALSE
    BY DEF OwnUntilGivingUp
  <2>2. DOMAIN calls \subseteq Nat
    BY <1>1, Lists DEF IInv
  <2>3. PICK c \in Shifted : \A e \in Shifted : c <= e
    <3>1. Shifted \subseteq Nat
      BY <2>2
    <3> HIDE DEF Shifted
    <3> PICK T : T = Shifted
      OBVIOUS
    <3> QED
      BY <2>1, <3>1, LeastNatural
  <2>4. c \in DOMAIN calls /\ Stale(c) /\ c \in Nat
        /\ ~\E d \in DOMAIN calls : d < c /\ calls[d].result \in GaveUp
    BY <2>2
  <2> PICK d : d = stream[calls[c].from].re
    OBVIOUS
  <2>5. d < c /\ (calls[d].result \in GaveUp \/ Stale(d))
    BY <1>1, <2>4 DEF IInv, StaleOnlyAfterGivingUp
  <2>6. d \in DOMAIN calls
    <3>1. c \in Returned /\ d # 0
      BY <2>4 DEF Stale
    <3>2. calls[c].from \in DOMAIN stream
      <4>1. calls[c].from \in 1..LastTaken
        BY <1>1, <3>1 DEF IInv, CallInv, Returned
      <4>2. LastTaken \in 0..Len(stream) /\ Len(stream) \in Nat /\ DOMAIN stream = 1..Len(stream)
        BY <1>1, Lists, LastTakenType DEF IInv
      <4> QED
        BY <4>1, <4>2
    <3> QED
      BY <1>1, <3>1, <3>2 DEF IInv, StreamInv
  <2>7. Stale(d)
    BY <2>4, <2>5, <2>6
  <2>8. d \in Nat /\ ~(c <= d)
    BY <2>2, <2>4, <2>5, <2>6
  <2>9. d \notin Shifted
    BY <2>3, <2>8
  <2>10. PICK e \in DOMAIN calls : e < d /\ calls[e].result \in GaveUp
    BY <2>6, <2>7, <2>9
  <2>11. e < c
    BY <2>2, <2>5, <2>8, <2>10, <2>4
  <2> QED
    BY <2>4, <2>10, <2>11
<1> QED
  BY <1>1, Inductive, PTL

\* Calls end in the order of the messages that end them.
THEOREM InOrder == Spec => []AnswersInOrder
<1>1. IInv => AnswersInOrder
  BY DEF IInv
<1> QED
  BY <1>1, Inductive, PTL

\* A call ended by its own answer was evaluated under the context set before it.
THEOREM UnderContext == Spec => []AnswerUnderContext
<1>1. IInv => AnswerUnderContext
  <2> SUFFICES ASSUME IInv, NEW c \in Returned, stream[calls[c].from].re = c
               PROVE  stream[calls[c].from].ctx = calls[c].ctx
    BY DEF AnswerUnderContext
  <2>1. TypeOK /\ CallInv /\ StreamInv
    BY DEF IInv
  <2>2. c \in DOMAIN calls /\ calls[c].from \in DOMAIN stream /\ c # 0
    BY <2>1, FromTaken, Lists
  <2> QED
    BY <2>1, <2>2 DEF StreamInv
<1> QED
  BY <1>1, Inductive, PTL

\* The two context fields come from one message unless a call reported that it
\* could not decode one.
THEOREM ContextsTogether == Spec => []ContextsConsistent
<1>1. IInv => ContextsConsistent
  BY DEF IInv
<1> QED
  BY <1>1, Inductive, PTL

\* Pings and time requests are answered in kind and in order, whatever call
\* happens to read them.
THEOREM KeptAlive == Spec => []KeepAliveAnswered
<1>1. IInv => KeepAliveAnswered
  BY DEF IInv
<1> QED
  BY <1>1, Inductive, PTL

\* On a connection without faults a wait for a tip ends with the first tip not
\* read before it began.
THEOREM FirstTip == Spec => []NextTip
<1>1. IInv => NextTip
  BY DEF IInv
<1> QED
  BY <1>1, Inductive, PTL

-----------------------------------------------------------------------------
(* The client against the channel it is written for. *)

\* The client, the node and the connection between them do nothing that a
\* MessageChannel does not do: every message is taken in its turn and handed
\* out at once, and only a timeout puts the connection out of step.
THEOREM UsesChannel == Spec => Channel!Spec
<1> USE DEF Channel!vars
<1>1. Init => Channel!Init
  BY DEF Init, Channel!Init
<1>2. ASSUME TypeOK, [Next]_vars PROVE [Channel!Next]_(Channel!vars)
  <2>1. ASSUME NEW x, Write(x), UNCHANGED chanVars PROVE Channel!Next
    <3>1. Len(stream') = Len(stream) + 1
      BY <2>1 DEF Write, TypeOK
    <3> QED
      BY <2>1, <3>1 DEF Channel!Next, Channel!Write, chanVars
  <2>2. ASSUME NEW m \in DOMAIN stream, Receive(m) PROVE Channel!Next
    <3>1. Channel!Return(m)
      BY <2>2 DEF Receive, Channel!Return, Channel!Take, nodeVars
    <3>2. m \in 1..Len(stream)
      BY Lists
    <3> QED
      BY <3>1, <3>2 DEF Channel!Next
  <2>3. CASE UNCHANGED <<stream, taken, lossy>>
    BY <2>3
  <2>4. CASE NodeStep
    BY <2>1, <2>3, <2>4 DEF NodeStep, NodeServe, NodeSay, chanVars
  <2>5. CASE UserStep
    BY <2>3, <2>5 DEF UserStep, Call, CallFails, WaitForTip, SetDependentContext, nodeVars, chanVars
  <2>6. CASE RecvStep
    <3>1. CASE RecvTimeout \/ RecvGarbage \/ RecvClosed
      <4>1. UNCHANGED <<stream, taken>> /\ lossy' \in {lossy, TRUE}
        BY <3>1 DEF RecvTimeout, RecvGarbage, RecvClosed, nodeVars, chanVars
      <4>2. CASE lossy' = TRUE
        BY <4>1, <4>2 DEF Channel!Next, Channel!Fault
      <4>3. CASE lossy' = lossy
        BY <2>3, <4>1, <4>3
      <4> QED
        BY <4>1, <4>2, <4>3
    <3> QED
      BY <2>2, <2>6, <3>1
         DEF RecvStep, RecvExpected, RecvKeepAlive, RecvFailure, RecvContextChanged, RecvIgnored
  <2>7. CASE Tick \/ UNCHANGED vars
    BY <2>3, <2>7 DEF Tick, vars, nodeVars, chanVars
  <2> QED
    BY <1>2, <2>4, <2>5, <2>6, <2>7 DEF Next
<1> QED
  BY <1>1, <1>2, TypeCorrect, PTL DEF Spec, Channel!Spec
=============================================================================
