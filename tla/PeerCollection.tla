--------------------------- MODULE PeerCollection ---------------------------
(***************************************************************************)
(* BeamConnection.collect_peers (src/beam_p2p/connection.py): gather peer  *)
(* advertisements until a deadline.  The connection delivers the node's    *)
(* messages whole and in order, those queued during login first.           *)
(***************************************************************************)
EXTENDS Integers, Sequences, FiniteSets, Ranks

CONSTANTS
    PeerIds,      \* peer identities
    Crawlable,    \* addresses is_crawlable_address accepts
    Unusable,     \* addresses it rejects
    OtherTypes,   \* further message types the node sends
    Timeout,      \* the argument of collect_peers, in ticks
    MaxClock,     \* bound: the clock stops here
    MaxStream     \* bound: messages the node writes

ASSUME ClockAssumption ==
    /\ Timeout \in Nat /\ MaxClock \in Nat /\ Timeout < MaxClock
    /\ MaxStream \in Nat
    /\ Crawlable \cap Unusable = {}
    /\ "PEER_INFO" \notin OtherTypes

VARIABLES
    stream,       \* messages the node has written
    queued,       \* how many of them arrived before the login was complete
    nodeUp,
    pc,           \* "queueing" before the call; "check": top of the loop;
                  \* "recv": about to call recv_message; "wait": in sock.recv;
                  \* "returned", "raised"
    sockTimeout,  \* what settimeout was last given: "finite" or "none"
    read,         \* messages processed so far
    late,         \* how many of them arrived when the deadline had passed
    peers,        \* the dictionary being built
    answered,     \* PONG and TIME messages written
    now           \* ticks since the call

vars == <<stream, queued, nodeUp, pc, sockTimeout, read, late, peers, answered, now>>

Addresses == Crawlable \cup Unusable

\* A PeerInfo carries an address and an identity, unless it is too short to
\* decode; a Time may be empty.
Messages ==
    [type: {"PEER_INFO"}, addr: Addresses, id: PeerIds, ok: BOOLEAN] \cup
    [type: OtherTypes, ok: BOOLEAN]

Ended == pc \in {"returned", "raised"}

TypeOK ==
    /\ stream \in Seq(Messages)
    /\ queued \in 0..Len(stream)
    /\ nodeUp \in BOOLEAN
    /\ pc \in {"queueing", "check", "recv", "wait", "returned", "raised"}
    /\ sockTimeout \in {"finite", "none"}
    /\ read \in 0..Len(stream)
    /\ late \in 0..read
    /\ DOMAIN peers \subseteq Crawlable /\ \A a \in DOMAIN peers : peers[a] \in PeerIds
    /\ answered \in Seq({"PONG", "TIME"})
    /\ now \in 0..MaxClock

Init ==
    /\ stream = <<>> /\ queued = 0 /\ nodeUp = TRUE
    /\ pc = "queueing" /\ sockTimeout = "finite"
    /\ read = 0 /\ late = 0 /\ peers = [a \in {} |-> 0] /\ answered = <<>>
    /\ now = 0

-----------------------------------------------------------------------------
\* The node, and the clock.

\* The types that handshake deals with itself.
LoginTypes == {"BYE", "GET_TIME", "TIME", "AUTHENTICATION", "PING", "LOGIN"}

\* Until the login is complete only what is queued for later counts; what comes
\* between the login and the call stays on the wire, as if it came at once.
NodeSend(m) ==
    /\ nodeUp /\ Len(stream) < MaxStream
    /\ pc = "queueing" => m.type \notin LoginTypes
    /\ m.ok \/ m.type \in {"PEER_INFO", "TIME"}
    /\ stream' = Append(stream, m)
    /\ queued' = IF pc = "queueing" THEN queued + 1 ELSE queued
    /\ UNCHANGED <<nodeUp, pc, sockTimeout, read, late, peers, answered, now>>

NodeClose ==
    /\ nodeUp /\ nodeUp' = FALSE
    /\ UNCHANGED <<stream, queued, pc, sockTimeout, read, late, peers, answered, now>>

Tick ==
    /\ pc # "queueing" /\ ~Ended
    /\ now < MaxClock
    /\ now' = now + 1
    /\ UNCHANGED <<stream, queued, nodeUp, pc, sockTimeout, read, late, peers, answered>>

-----------------------------------------------------------------------------
\* collect_peers.

Start ==
    /\ pc = "queueing"
    /\ pc' = "check"
    /\ UNCHANGED <<stream, queued, nodeUp, sockTimeout, read, late, peers, answered, now>>

\* Defective variant: the deadline only shortens the socket timeout.
CheckTimeoutOnly ==
    /\ pc = "check"
    /\ pc' = "recv" /\ sockTimeout' = "finite"
    /\ UNCHANGED <<stream, queued, nodeUp, read, late, peers, answered, now>>

\* The top of the loop: stop when the deadline has passed, otherwise give the
\* socket what is left of the time.
Check ==
    /\ pc = "check"
    /\ IF now >= Timeout
       THEN pc' = "returned" /\ UNCHANGED sockTimeout
       ELSE pc' = "recv" /\ sockTimeout' = "finite"
    /\ UNCHANGED <<stream, queued, nodeUp, read, late, peers, answered, now>>

\* recv_message() without a timeout: unless a message is queued it switches
\* the socket to blocking before it reads.
RecvMessage ==
    /\ pc = "recv" /\ read >= queued
    /\ sockTimeout' = "none"
    /\ pc' = "wait"
    /\ UNCHANGED <<stream, queued, nodeUp, read, late, peers, answered, now>>

\* A message is there: the next one queued, or the next one on the wire.
Take ==
    /\ \/ pc = "recv" /\ read < queued
       \/ pc = "wait" /\ read < Len(stream)
    /\ read' = read + 1
    /\ late' = IF now >= Timeout THEN late + 1 ELSE late
    /\ UNCHANGED <<stream, queued, nodeUp, sockTimeout, now>>

Message == stream[read + 1]

\* Defective variant: the last advertisement wins.
TakePeerReplacing ==
    /\ Take /\ Message.type = "PEER_INFO"
    /\ peers' = IF Message.ok /\ Message.addr \in Crawlable
                THEN [a \in DOMAIN peers \cup {Message.addr} |->
                        IF a = Message.addr THEN Message.id ELSE peers[a]]
                ELSE peers
    /\ pc' = "check"
    /\ UNCHANGED answered

TakePeer ==
    /\ Take /\ Message.type = "PEER_INFO"
    /\ peers' = IF Message.ok /\ Message.addr \in Crawlable /\ Message.addr \notin DOMAIN peers
                THEN [a \in DOMAIN peers \cup {Message.addr} |->
                        IF a = Message.addr THEN Message.id ELSE peers[a]]
                ELSE peers
    /\ pc' = "check"
    /\ UNCHANGED answered

Reply == [PING |-> "PONG", GET_TIME |-> "TIME"]

\* Defective variant: GetTime is dropped like Time.
TakeKeepAlivePingOnly ==
    /\ Take /\ Message.type \in DOMAIN Reply
    /\ answered' = IF Message.type = "PING" THEN Append(answered, "PONG") ELSE answered
    /\ pc' = "check"
    /\ UNCHANGED peers

\* The answer may fail to go out once the node is gone; the exception is not
\* caught.
TakeKeepAlive ==
    /\ Take /\ Message.type \in DOMAIN Reply
    /\ \/ answered' = Append(answered, Reply[Message.type]) /\ pc' = "check"
       \/ ~nodeUp /\ pc' = "raised" /\ UNCHANGED answered
    /\ UNCHANGED peers

TakeBye ==
    /\ Take /\ Message.type = "BYE"
    /\ pc' = "returned"
    /\ UNCHANGED <<peers, answered>>

\* An empty Time raises; everything else is dropped.
TakeOther ==
    /\ Take /\ Message.type \notin {"PEER_INFO", "BYE"} \cup DOMAIN Reply
    /\ pc' = IF Message.ok THEN "check" ELSE "raised"
    /\ UNCHANGED <<peers, answered>>

\* The two exceptions that end the loop quietly, socket.timeout (which needs a
\* socket with a timeout) and ConnectionError.
RecvRaises == sockTimeout = "finite" \/ ~nodeUp

\* What the node wrote last may be lost with the connection.
RecvFails ==
    /\ pc = "wait" /\ RecvRaises
    /\ pc' = "returned"
    /\ UNCHANGED <<stream, queued, nodeUp, sockTimeout, read, late, peers, answered, now>>

-----------------------------------------------------------------------------
LoopStep ==
    \/ Check \/ RecvMessage
    \/ TakePeer \/ TakeKeepAlive \/ TakeBye \/ TakeOther
    \/ RecvFails

Next ==
    \/ \E m \in Messages : NodeSend(m)
    \/ NodeClose
    \/ Tick
    \/ Start
    \/ LoopStep

Spec == Init /\ [][Next]_vars

\* The loop runs on and the clock advances; the node owes nothing.
FairSpec == Spec /\ WF_vars(LoopStep) /\ WF_vars(Tick)

-----------------------------------------------------------------------------
(* Properties. *)

\* The usable advertisements of address a among those processed.
Seen(a) ==
    {i \in 1..read : stream[i].type = "PEER_INFO" /\ stream[i].ok /\ stream[i].addr = a}

\* The dictionary holds exactly the crawlable addresses advertised so far,
\* each with the identity it was first advertised with: a later, conflicting
\* advertisement does not replace it.
FirstAdvertisementKept ==
    /\ DOMAIN peers = {a \in Crawlable : Seen(a) # {}}
    /\ \A a \in DOMAIN peers : \E i \in Seen(a) :
          (\A j \in Seen(a) : i <= j) /\ peers[a] = stream[i].id

\* The requests to which an answer was due.
Asked == {i \in 1..read : stream[i].type \in DOMAIN Reply}

\* While the node is there, every Ping and GetTime processed has been answered
\* in kind, in order.
KeepAliveAnswered ==
    nodeUp =>
        /\ Len(answered) = Cardinality(Asked)
        /\ \A i \in Asked : answered[Rank(Asked, i)] = Reply[stream[i].type]

\* The wait that straddles the deadline may still yield a message, but no
\* other message is processed after it, however many are there.
AtMostOneLate == late <= 1

\* The inductive invariant: a message can only be late if the wait for it
\* began in time, so after a late one the loop is at its check or has ended.
LateInv ==
    /\ AtMostOneLate
    /\ late = 1 => now >= Timeout /\ pc \in {"check", "returned", "raised"}

IInv ==
    /\ TypeOK
    /\ LateInv
    /\ FirstAdvertisementKept
    /\ KeepAliveAnswered

\* connection.py:248: collect peer advertisements until the timeout expires.
EndsAtTimeout == (pc = "check") ~> Ended
=============================================================================
