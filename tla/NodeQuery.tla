----------------------------- MODULE NodeQuery ------------------------------
(***************************************************************************)
(* NodeQueryClient (src/beam_p2p/query_client.py): requests and answers    *)
(* over one connection.  Nothing on the wire says which request an answer  *)
(* belongs to; the client takes the next message of the expected type.     *)
(* The connection is used through MessageChannel: messages are taken in    *)
(* the order written, and after a fault some may be missing.               *)
(*                                                                         *)
(* A call is one recv_until() with the request sent before it.  Calls are  *)
(* numbered; a failed call is an exception in the application, which may   *)
(* go on using the client.                                                 *)
(***************************************************************************)
EXTENDS Integers, Sequences, FiniteSets, Ranks

CONSTANTS
    Requests,        \* request types the application uses
    NodeChatter,     \* messages the node sends of its own accord
    Contexts,        \* dependent contexts the application may set
    RequestTimeout,  \* request_timeout, in ticks
    MaxCalls,        \* bound: calls
    MaxContexts,     \* bound: set_dependent_context() calls
    MaxStream        \* bound: messages the node writes

\* The request and reply types of the public methods, each a _request(...).
StateReplies ==
    [GET_STATE_SUMMARY       |-> "STATE_SUMMARY",
     GET_BODY                |-> "BODY",
     GET_SHIELDED_OUTPUTS_AT |-> "SHIELDED_OUTPUTS_AT",
     GET_ASSETS_LIST_AT      |-> "ASSETS_LIST_AT"]
ProofReplies ==
    [GET_PROOF_ASSET         |-> "PROOF_ASSET",
     GET_SHIELDED_LIST       |-> "SHIELDED_LIST",
     GET_PROOF_SHIELDED_OUTP |-> "PROOF_SHIELDED_OUTP",
     GET_PROOF_SHIELDED_INP  |-> "PROOF_SHIELDED_INP",
     GET_PROOF_UTXO          |-> "PROOF_UTXO",
     GET_PROOF_KERNEL        |-> "PROOF_KERNEL",
     GET_PROOF_KERNEL2       |-> "PROOF_KERNEL2"]
ChainReplies ==
    [GET_PROOF_KERNEL3    |-> "PROOF_KERNEL2",
     GET_PROOF_STATE      |-> "PROOF_STATE",
     GET_COMMON_STATE     |-> "PROOF_COMMON_STATE",
     GET_PROOF_CHAIN_WORK |-> "PROOF_CHAIN_WORK"]
ContractReplies ==
    [CONTRACT_VARS_ENUM     |-> "CONTRACT_VARS",
     CONTRACT_LOGS_ENUM     |-> "CONTRACT_LOGS",
     GET_CONTRACT_VAR       |-> "CONTRACT_VAR",
     GET_CONTRACT_LOG_PROOF |-> "CONTRACT_LOG_PROOF",
     GET_EVENTS             |-> "EVENTS"]

ReplyTo ==
    [r \in UNION {DOMAIN StateReplies, DOMAIN ProofReplies, DOMAIN ChainReplies,
                  DOMAIN ContractReplies} |->
        CASE r \in DOMAIN StateReplies -> StateReplies[r]
          [] r \in DOMAIN ProofReplies -> ProofReplies[r]
          [] r \in DOMAIN ChainReplies -> ChainReplies[r]
          [] r \in DOMAIN ContractReplies -> ContractReplies[r]]

\* What the node may say without being asked, as far as recv_until tells it
\* apart; a peer advertisement stands for all that is dropped.  "UNKNOWN" is a
\* frame that recv refuses: its type is not in MessageType, or it is too large.
Unasked == {"PING", "GET_TIME", "BYE", "NEW_TIP", "DEPENDENT_CONTEXT_CHANGED", "PEER_INFO",
            "UNKNOWN"}

ASSUME RequestAssumption ==
    /\ Requests \subseteq DOMAIN ReplyTo
    /\ NodeChatter \subseteq Unasked
    /\ 0 \notin Contexts
    /\ {RequestTimeout, MaxCalls, MaxContexts, MaxStream} \subseteq Nat

VARIABLES
    \* the node
    requests,      \* what the client has written: queries and context changes
    served,        \* how many of them the node has dealt with
    nodeContext,   \* the context the node evaluates queries under; 0 for none
    stream,        \* messages the node has written
    nodeUp,
    \* the connection
    taken, lossy,
    \* the client
    calls,         \* every call: its request, what it had read before, its end
    context,       \* the context the application set last
    answered,      \* PONG and TIME messages written
    contextsFrom,  \* the messages dependent_contexts and
    depthFrom,     \* dependent_prefix_depth were read from
    \* the clock
    silence        \* ticks since recv_message() was last entered

nodeVars == <<requests, served, nodeContext, stream, nodeUp>>
chanVars == <<taken, lossy>>
ctxVars  == <<contextsFrom, depthFrom>>
vars == <<nodeVars, chanVars, ctxVars, silence, calls, context, answered>>

Channel == INSTANCE MessageChannel WITH
    written <- Len(stream), queue <- <<>>, returned <- taken

LastTaken == IF taken = <<>> THEN 0 ELSE taken[Len(taken)]

Busy == calls # <<>> /\ calls[Len(calls)].result = "waiting"

Results == {"waiting", "reply", "missing", "bye", "decode", "timeout", "value", "closed"}

MessageKinds ==
    {ReplyTo[r] : r \in DOMAIN ReplyTo} \cup {"DATA_MISSING"} \cup Unasked

\* What the client writes: queries, numbered by call, and changes of context.
Written ==
    [type: Requests, call: 1..MaxCalls, ctx: {0}] \cup
    [type: {"SET_DEPENDENT_CONTEXT"}, call: {0}, ctx: Contexts \cup {0}]

Messages == [type: MessageKinds, re: 0..MaxCalls, ctx: Contexts \cup {0},
             part: {"all", "trailing", "contexts", "none"}]

Calls == [type: Requests \cup {"NEW_TIP"}, seen: Nat, ctx: Contexts \cup {0},
          result: Results, from: Nat]

TypeOK ==
    /\ requests \in Seq(Written)
    /\ served \in 0..Len(requests)
    /\ nodeContext \in Contexts \cup {0}
    /\ stream \in Seq(Messages)
    /\ nodeUp \in BOOLEAN
    /\ taken \in Seq(Nat) /\ \A k \in DOMAIN taken : taken[k] \in DOMAIN stream
    /\ lossy \in BOOLEAN
    /\ calls \in Seq(Calls) /\ Len(calls) <= MaxCalls
    /\ \A c \in DOMAIN calls : calls[c].seen <= Len(stream) /\ calls[c].from <= Len(stream)
    /\ context \in Contexts \cup {0}
    /\ answered \in Seq({"PONG", "TIME"})
    /\ contextsFrom \in 0..Len(stream) /\ depthFrom \in 0..Len(stream)
    /\ silence \in 0..RequestTimeout

Init ==
    /\ requests = <<>> /\ served = 0 /\ nodeContext = 0 /\ stream = <<>> /\ nodeUp = TRUE
    /\ taken = <<>> /\ lossy = FALSE
    /\ calls = <<>> /\ context = 0 /\ answered = <<>>
    /\ contextsFrom = 0 /\ depthFrom = 0
    /\ silence = 0

-----------------------------------------------------------------------------
\* The node: not part of src/, as the methods above expect it.

Write(m) ==
    /\ nodeUp /\ Len(stream) < MaxStream
    /\ stream' = Append(stream, m)

\* Requests are dealt with in order, each by one reply or by DataMissing.
NodeServe ==
    /\ served < Len(requests)
    /\ served' = served + 1
    /\ LET r == requests[served + 1]
       IN  \/ /\ r.type = "SET_DEPENDENT_CONTEXT" /\ nodeUp
              /\ nodeContext' = r.ctx
              /\ UNCHANGED stream
           \/ /\ r.type # "SET_DEPENDENT_CONTEXT"
              /\ \E t \in {ReplyTo[r.type], "DATA_MISSING"} :
                    Write([type |-> t, re |-> r.call, ctx |-> nodeContext, part |-> "all"])
              /\ UNCHANGED nodeContext
    /\ UNCHANGED <<requests, nodeUp, chanVars, ctxVars, silence, calls, context, answered>>

\* Unasked-for messages.  `part' is how much of a DependentContextChanged
\* can be decoded: all of it, all but with bytes left over, only the hashes,
\* or nothing.
NodeSay(t, part) ==
    /\ part # "all" => t = "DEPENDENT_CONTEXT_CHANGED"
    /\ Write([type |-> t, re |-> 0, ctx |-> 0, part |-> part])
    /\ nodeUp' = (t # "BYE")
    /\ UNCHANGED <<requests, served, nodeContext, chanVars, ctxVars, silence, calls, context, answered>>

-----------------------------------------------------------------------------
\* The application starts a call.

Begin(type, result) ==
    /\ ~Busy /\ Len(calls) < MaxCalls
    /\ calls' = Append(calls, [type |-> type, seen |-> LastTaken,
                               ctx |-> context, result |-> result, from |-> 0])
    /\ silence' = 0

\* _request: send, then recv_until.
Call(type) ==
    /\ Begin(type, "waiting")
    /\ requests' = Append(requests, [type |-> type, call |-> Len(calls) + 1, ctx |-> 0])
    /\ UNCHANGED <<served, nodeContext, stream, nodeUp, chanVars, ctxVars, context, answered>>

\* The send fails, which it may once the node is gone.
CallFails(type) ==
    /\ ~nodeUp
    /\ Begin(type, "closed")
    /\ UNCHANGED <<nodeVars, chanVars, ctxVars, context, answered>>

WaitForTip ==
    /\ Begin("NEW_TIP", "waiting")
    /\ UNCHANGED <<nodeVars, chanVars, ctxVars, context, answered>>

\* Defective variant: clearing the context is not sent.
SetDependentContextIfAny(c) ==
    /\ ~Busy
    /\ Cardinality({i \in DOMAIN requests : requests[i].type = "SET_DEPENDENT_CONTEXT"})
         < MaxContexts
    /\ context' = c
    /\ requests' = IF c = 0 THEN requests
                   ELSE Append(requests, [type |-> "SET_DEPENDENT_CONTEXT", call |-> 0, ctx |-> c])
    /\ UNCHANGED <<served, nodeContext, stream, nodeUp, chanVars, ctxVars, silence, calls, answered>>

\* No answer is waited for, and there is none.
SetDependentContext(c) ==
    /\ ~Busy
    /\ Cardinality({i \in DOMAIN requests : requests[i].type = "SET_DEPENDENT_CONTEXT"})
         < MaxContexts
    /\ context' = c
    /\ requests' = Append(requests, [type |-> "SET_DEPENDENT_CONTEXT", call |-> 0, ctx |-> c])
    /\ UNCHANGED <<served, nodeContext, stream, nodeUp, chanVars, ctxVars, silence, calls, answered>>

-----------------------------------------------------------------------------
\* recv_until: one action per kind of message.

Current == calls[Len(calls)]

Expected == IF Current.type = "NEW_TIP" THEN "NEW_TIP" ELSE ReplyTo[Current.type]

EndCall(result, m) ==
    calls' = [calls EXCEPT ![Len(calls)].result = result, ![Len(calls)].from = m]

\* Defective variant: messages ignored before are looked at again.
ReceiveAgain(m) ==
    /\ Busy
    /\ m \in DOMAIN stream
    /\ \A c \in DOMAIN calls : calls[c].from # m
    /\ taken' = IF m > LastTaken THEN Append(taken, m) ELSE taken
    /\ silence' = 0
    /\ UNCHANGED <<nodeVars, lossy, context>>

\* recv_message returns message m; the next wait gets the whole timeout again.
Receive(m) ==
    /\ Busy
    /\ Channel!IsNext(m) /\ stream[m].type # "UNKNOWN"
    /\ taken' = Append(taken, m)
    /\ silence' = 0
    /\ UNCHANGED <<nodeVars, lossy, context>>

\* Defective variant: a new tip ends every call.
RecvExpectedOrTip(m) ==
    /\ Receive(m) /\ stream[m].type \in {Expected, "NEW_TIP"}
    /\ EndCall("reply", m)
    /\ UNCHANGED <<ctxVars, answered>>

RecvExpected(m) ==
    /\ Receive(m) /\ stream[m].type = Expected
    /\ EndCall("reply", m)
    /\ UNCHANGED <<ctxVars, answered>>

Reply == [PING |-> "PONG", GET_TIME |-> "TIME"]

\* Defective variant: Ping is ignored.
RecvKeepAliveTimeOnly(m) ==
    /\ Receive(m) /\ stream[m].type \in DOMAIN Reply
    /\ answered' = IF stream[m].type = "GET_TIME" THEN Append(answered, "TIME") ELSE answered
    /\ UNCHANGED <<calls, ctxVars>>

RecvKeepAlive(m) ==
    /\ Receive(m) /\ stream[m].type \in DOMAIN Reply
    /\ \/ /\ answered' = Append(answered, Reply[stream[m].type])
          /\ UNCHANGED calls
       \/ ~nodeUp /\ EndCall("closed", m) /\ UNCHANGED answered
    /\ UNCHANGED ctxVars

RecvFailure(m) ==
    /\ Receive(m)
    /\ \/ stream[m].type = "BYE" /\ EndCall("bye", m)
       \/ stream[m].type = "DATA_MISSING" /\ EndCall("missing", m)
    /\ UNCHANGED <<ctxVars, answered>>

\* Defective variant: a decoding error is swallowed.
RecvContextChangedQuietly(m) ==
    /\ Receive(m) /\ stream[m].type = "DEPENDENT_CONTEXT_CHANGED"
    /\ contextsFrom' = IF stream[m].part # "none" THEN m ELSE contextsFrom
    /\ depthFrom' = IF stream[m].part \in {"all", "trailing"} THEN m ELSE depthFrom
    /\ UNCHANGED <<calls, answered>>

\* The hashes are stored before the depth is read, the depth before the check
\* for bytes left over.
RecvContextChanged(m) ==
    /\ Receive(m) /\ stream[m].type = "DEPENDENT_CONTEXT_CHANGED"
    /\ contextsFrom' = IF stream[m].part # "none" THEN m ELSE contextsFrom
    /\ depthFrom' = IF stream[m].part \in {"all", "trailing"} THEN m ELSE depthFrom
    /\ IF stream[m].part = "all" THEN UNCHANGED calls ELSE EndCall("decode", m)
    /\ UNCHANGED answered

\* Defective variant: a tip is dropped before the expected type is looked at.
RecvIgnoredTip(m) ==
    /\ Receive(m)
    /\ \/ stream[m].type = "NEW_TIP"
       \/ /\ stream[m].type \notin {Expected, "BYE", "DATA_MISSING", "DEPENDENT_CONTEXT_CHANGED"}
          /\ stream[m].type \notin DOMAIN Reply
    /\ UNCHANGED <<ctxVars, calls, answered>>

\* Everything else is dropped: tips, peers, and replies to other requests.
RecvIgnored(m) ==
    /\ Receive(m)
    /\ stream[m].type \notin {Expected, "BYE", "DATA_MISSING", "DEPENDENT_CONTEXT_CHANGED"}
    /\ stream[m].type \notin DOMAIN Reply
    /\ UNCHANGED <<ctxVars, calls, answered>>

\* Defective variant: recv_message gives up only inside a frame.
RecvTimeoutInFrame ==
    /\ Busy /\ silence = RequestTimeout
    /\ EndCall("timeout", 0)
    /\ LastTaken < Len(stream) /\ lossy' = TRUE
    /\ UNCHANGED <<nodeVars, taken, ctxVars, silence, context, answered>>

\* recv_message gives up; in the middle of a frame that is a fault.
RecvTimeout ==
    /\ Busy /\ silence = RequestTimeout
    /\ EndCall("timeout", 0)
    /\ \/ UNCHANGED lossy
       \/ LastTaken < Len(stream) /\ lossy' = TRUE
    /\ UNCHANGED <<nodeVars, taken, ctxVars, silence, context, answered>>

\* recv_message raises ValueError: the stream is out of step, or it now gets so
\* because the body of a frame that recv refuses is left in it.
RecvGarbage ==
    /\ Busy
    /\ lossy \/ \E m \in DOMAIN stream : Channel!IsNext(m) /\ stream[m].type = "UNKNOWN"
    /\ lossy' = TRUE
    /\ EndCall("value", 0)
    /\ UNCHANGED <<nodeVars, taken, ctxVars, silence, context, answered>>

\* The node is gone and everything it wrote has been read, or lost.
RecvClosed ==
    /\ Busy /\ ~nodeUp
    /\ LastTaken < Len(stream) => lossy
    /\ EndCall("closed", 0)
    /\ UNCHANGED <<nodeVars, chanVars, ctxVars, silence, context, answered>>

\* Time passes while recv_message waits, but not beyond its timeout.
Tick ==
    /\ Busy /\ silence < RequestTimeout
    /\ silence' = silence + 1
    /\ UNCHANGED <<nodeVars, chanVars, ctxVars, calls, context, answered>>

-----------------------------------------------------------------------------
NodeStep ==
    \/ NodeServe
    \/ \E t \in NodeChatter, part \in {"all", "trailing", "contexts", "none"} : NodeSay(t, part)

UserStep ==
    \/ \E type \in Requests : Call(type) \/ CallFails(type)
    \/ WaitForTip
    \/ \E c \in Contexts \cup {0} : SetDependentContext(c)

RecvStep ==
    \/ \E m \in DOMAIN stream :
          \/ RecvExpected(m) \/ RecvKeepAlive(m) \/ RecvFailure(m)
          \/ RecvContextChanged(m) \/ RecvIgnored(m)
    \/ RecvTimeout \/ RecvGarbage \/ RecvClosed

Next == NodeStep \/ UserStep \/ RecvStep \/ Tick

Spec == Init /\ [][Next]_vars

\* The client thread runs and the clock advances; the node owes nothing.
FairSpec == Spec /\ WF_vars(RecvStep) /\ WF_vars(Tick)

-----------------------------------------------------------------------------
(* Properties. *)

GaveUp == {"timeout", "value", "decode", "closed"}

Returned == {c \in DOMAIN calls : calls[c].result \in {"reply", "missing"}}

\* Call c was ended by a message that answers another call.
Stale(c) ==
    /\ c \in Returned
    /\ stream[calls[c].from].re \notin {0, c}

\* A call is only ever ended by an answer to another request if that request
\* was made by an earlier call which gave up before its answer came, or which
\* was itself ended by an older answer: the first call that gives up shifts
\* the answers of all later ones, and nothing else does.
StaleOnlyAfterGivingUp ==
    \A c \in DOMAIN calls : Stale(c) =>
        LET d == stream[calls[c].from].re
        IN  d < c /\ (calls[d].result \in GaveUp \/ Stale(d))

\* In particular, as long as no call gives up, every call is ended by the
\* answer to its own request.
OwnUntilGivingUp ==
    \A c \in DOMAIN calls : Stale(c) =>
        \E d \in DOMAIN calls : d < c /\ calls[d].result \in GaveUp

\* No message ends two calls, and calls end in the order of the messages:
\* an old answer is never returned after a newer one.
AnswersInOrder ==
    \A c, d \in Returned : c < d => calls[c].from < calls[d].from

\* A call ended by its own answer has been evaluated under the context set
\* last before it, although nothing acknowledges a SetDependentContext.
AnswerUnderContext ==
    \A c \in Returned : stream[calls[c].from].re = c =>
        stream[calls[c].from].ctx = calls[c].ctx

\* The messages taken to which an answer was due.
Asked == {k \in DOMAIN taken : stream[taken[k]].type \in DOMAIN Reply}

\* While the node is there, every Ping and GetTime taken has been answered in
\* kind, in order.
KeepAliveAnswered ==
    nodeUp =>
        /\ Len(answered) = Cardinality(Asked)
        /\ \A k \in Asked : answered[Rank(Asked, k)] = Reply[stream[taken[k]].type]

\* dependent_contexts and dependent_prefix_depth come from one message unless
\* a call has reported that it could not decode one.
ContextsConsistent ==
    contextsFrom # depthFrom => \E c \in DOMAIN calls : calls[c].result = "decode"

\* wait_for_tip returns the first tip not read before: calls in between can
\* lose tips, but the wait itself skips none.
NextTip ==
    ~lossy => \A c \in DOMAIN calls :
        calls[c].type = "NEW_TIP" /\ calls[c].result = "reply" =>
            \A m \in DOMAIN stream :
                stream[m].type = "NEW_TIP" /\ calls[c].seen < m => calls[c].from <= m

\* A call ends when the node answers, falls silent or goes away.
CallsEnd == Busy ~> ~Busy

\* The inductive invariant behind the safety properties.

IsQuery(k) == requests[k].type # "SET_DEPENDENT_CONTEXT"

\* Context c is in force after the first n requests: it was set by the last
\* of them that sets one.
ContextAfter(n, c) ==
    \/ c = 0 /\ \A k \in 1..n : IsQuery(k)
    \/ \E k \in 1..n : /\ ~IsQuery(k) /\ requests[k].ctx = c
                       /\ \A j \in (k + 1)..n : IsQuery(j)

\* Queries lie in the order of the calls that wrote them, behind the changes
\* of context made before.
RequestInv ==
    /\ \A k \in DOMAIN requests : IsQuery(k) =>
          /\ requests[k].call \in DOMAIN calls
          /\ requests[k].type = calls[requests[k].call].type
          /\ ContextAfter(k - 1, calls[requests[k].call].ctx)
          /\ \A j \in 1..(k - 1) : requests[j].call < requests[k].call
    /\ ContextAfter(served, nodeContext)
    /\ ContextAfter(Len(requests), context)

\* Answers lie in the stream in the order of the calls they answer, at most
\* one for each, and nothing follows a Bye.
StreamInv ==
    \A m \in DOMAIN stream :
        /\ stream[m].re = 0 => stream[m].type \in Unasked
        /\ stream[m].re # 0 =>
              LET c == stream[m].re
              IN  /\ c \in DOMAIN calls /\ calls[c].type \in Requests
                  /\ stream[m].type \in {ReplyTo[calls[c].type], "DATA_MISSING"}
                  /\ stream[m].ctx = calls[c].ctx
                  /\ \A n \in 1..(m - 1) : stream[n].re < c
                  /\ \A k \in (served + 1)..Len(requests) : IsQuery(k) => c < requests[k].call
        /\ stream[m].type = "BYE" => m = Len(stream) /\ ~nodeUp

TakenInv ==
    /\ \A j, k \in DOMAIN taken : j < k => taken[j] < taken[k]
    /\ ~lossy => \A k \in DOMAIN taken : taken[k] = k

\* Only the last call waits; one that was ended by a message was ended by one
\* taken, of a type that ends it.
CallInv ==
    \A c \in DOMAIN calls :
        /\ calls[c].result = "waiting" => c = Len(calls)
        /\ calls[c].seen <= LastTaken
        /\ calls[c].result \in {"reply", "missing", "bye"} =>
              LET m == calls[c].from
              IN  /\ m \in 1..LastTaken
                  /\ calls[c].result = "missing" => stream[m].type = "DATA_MISSING"
                  /\ calls[c].result = "bye" => stream[m].type = "BYE"
                  /\ calls[c].result = "reply" =>
                        stream[m].type = IF calls[c].type = "NEW_TIP" THEN "NEW_TIP"
                                         ELSE ReplyTo[calls[c].type]

\* No tip has been taken since the wait for one began.
TipInv ==
    Busy /\ Current.type = "NEW_TIP" /\ ~lossy =>
        \A m \in (Current.seen + 1)..LastTaken : stream[m].type # "NEW_TIP"

IInv ==
    /\ TypeOK /\ RequestInv /\ StreamInv /\ TakenInv /\ CallInv /\ TipInv
    /\ StaleOnlyAfterGivingUp /\ AnswersInOrder /\ KeepAliveAnswered
    /\ ContextsConsistent /\ NextTip

\* query_client.py:262: wait for the expected response to the request sent.
OwnAnswer == \A c \in DOMAIN calls : calls[c].result = "reply" => ~Stale(c)
=============================================================================
