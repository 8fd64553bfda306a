--------------------------- MODULE BeamConnection ---------------------------
(***************************************************************************)
(* One encrypted connection to a Beam node: src/beam_p2p/connection.py     *)
(* with the switches of src/beam_p2p/secure_channel.py.                    *)
(*                                                                         *)
(* The node's output is a byte stream.  A byte is known by its offset in   *)
(* that stream, so the receive side of the connection is three numbers:    *)
(* `arrived' (bytes the socket has handed over), `consumed' (bytes taken   *)
(* out of _buf) and `dec' (bytes of AES-CTR key stream the decryptor has   *)
(* used).  A header read at an offset where no frame starts, or decrypted  *)
(* with the wrong part of the key stream, is garbage.                      *)
(***************************************************************************)
EXTENDS Integers, Sequences, Ranks

CONSTANTS
    HeaderSize,    \* protocol.py HEADER_SIZE
    MacSize,       \* protocol.py MAC_SIZE
    MaxFrameSize,  \* protocol.py MAX_FRAME_SIZE
    NodeTypes,     \* message types the node sends
    PayloadSizes,  \* lengths of the payloads the node sends
    MaxFrames,     \* bound: frames the node writes
    MaxSends       \* bound: messages the application sends itself

\* protocol.py MessageType, as far as the connection tells types apart;
\* "OTHER" stands for every type it does not name.
MessageTypes ==
    {"SCHANNEL_INIT", "SCHANNEL_READY", "LOGIN", "GET_TIME", "TIME",
     "AUTHENTICATION", "PING", "PONG", "BYE", "OTHER"}

\* What the node sends, which may have a type that the client's MessageType
\* does not have.
FrameTypes == MessageTypes \cup {"UNKNOWN"}

ASSUME SizeAssumption ==
    /\ HeaderSize \in Nat \ {0}
    /\ MacSize \in Nat \ {0}
    /\ MaxFrameSize \in Nat
    /\ PayloadSizes \subseteq Nat

ASSUME NodeAssumption ==
    /\ NodeTypes \subseteq FrameTypes
    /\ MaxFrames \in Nat /\ MaxSends \in Nat

VARIABLES
    \* the node and the network
    sent,         \* frames the node has written
    base,         \* offset from which the node encrypts; -1 before its READY
    nodeUp,       \* the node still holds its end open
    \* the socket
    arrived, eof,
    sockTimeout,  \* "finite" or "none": the argument of settimeout
    \* the connection object
    phase,        \* where the caller's use of the object has got to
    in_on, out_on, consumed, dec, pending,
    \* locals of the recv() in progress
    rx,           \* "idle", or what recv() is waiting for: "header", "body"
    hdr,          \* the parsed header: which frame, 0 for garbage; body size
    raised,       \* how the last call ended
    \* histories
    out,          \* messages the client has written
    accepted,     \* frames recv() has returned
    delivered,    \* frames recv_message() has returned
    faulted       \* recv() has given up a frame after reading its header

node     == <<sent, base, nodeUp>>
sock     == <<arrived, eof, sockTimeout>>
switches == <<in_on, out_on>>
stream   == <<consumed, dec>>
call     == <<rx, hdr, raised>>
app      == <<pending, delivered>>
vars     == <<node, sock, phase, switches, stream, app, call, out, accepted,
              faulted>>

Handshaking == {"wait_init", "wait_ready", "login"}
Phases == {"new", "connected", "open", "failed", "closed"} \cup Handshaking
Outcomes == {"none", "timeout", "closed", "value", "runtime"}

Frames == [type: FrameTypes, start: Nat, size: Nat, secure: BOOLEAN, ok: BOOLEAN]
Sends  == [type: MessageTypes, secure: BOOLEAN]

End(i) == sent[i].start + HeaderSize + sent[i].size

SentBytes == IF sent = <<>> THEN 0 ELSE End(Len(sent))

\* The types, and that _buf is the part of the stream between what has been
\* consumed and what has arrived.
TypeOK ==
    /\ sent \in Seq(Frames)
    /\ base \in Nat \cup {-1}
    /\ nodeUp \in BOOLEAN
    /\ arrived \in 0..SentBytes
    /\ eof \in BOOLEAN
    /\ sockTimeout \in {"finite", "none"}
    /\ phase \in Phases
    /\ in_on \in BOOLEAN /\ out_on \in BOOLEAN
    /\ consumed \in 0..arrived
    /\ dec \in Nat
    /\ pending \in Seq(Nat)
    /\ rx \in {"idle", "header", "body"}
    /\ hdr \in [idx: Nat, size: Nat]
    /\ raised \in Outcomes
    /\ out \in Seq(Sends)
    /\ accepted \in Seq(Nat)
    /\ delivered \in Seq(Nat)
    /\ faulted \in BOOLEAN

Init ==
    /\ sent = <<>> /\ base = -1 /\ nodeUp = TRUE
    /\ arrived = 0 /\ eof = FALSE /\ sockTimeout = "finite"
    /\ phase = "new"
    /\ in_on = FALSE /\ out_on = FALSE
    /\ consumed = 0 /\ dec = 0 /\ pending = <<>>
    /\ rx = "idle" /\ hdr = [idx |-> 0, size |-> 0] /\ raised = "none"
    /\ out = <<>> /\ accepted = <<>> /\ delivered = <<>> /\ faulted = FALSE

-----------------------------------------------------------------------------
\* The node (not part of src/): what the client's code expects of its peer.

Sent(type) == \E i \in DOMAIN out : out[i].type = type

\* The node writes a frame: plain up to and including its SCHANNEL_READY,
\* encrypted and authenticated after it.  `ok' says whether the client can
\* make sense of the payload (a nonce on the curve, a Login that parses, a
\* Time that is not empty).
NodeSend(type, n, ok) ==
    /\ nodeUp
    /\ phase # "new"
    /\ Len(sent) < MaxFrames
    /\ base = -1 => type \in {"SCHANNEL_INIT", "SCHANNEL_READY", "BYE"}
    /\ type = "SCHANNEL_READY" => base = -1 /\ Sent("SCHANNEL_INIT")
    /\ ok \/ type \in {"SCHANNEL_INIT", "LOGIN", "TIME"}
    /\ LET f == [type |-> type, start |-> SentBytes, secure |-> base # -1, ok |-> ok,
                 size |-> IF base = -1 THEN n ELSE n + MacSize]
       IN  /\ sent' = Append(sent, f)
           /\ base' = IF type = "SCHANNEL_READY"
                      THEN SentBytes + HeaderSize + n ELSE base
    /\ UNCHANGED <<nodeUp, sock, phase, switches, stream, app, call, out, accepted, faulted>>

NodeClose ==
    /\ nodeUp
    /\ phase # "new"
    /\ nodeUp' = FALSE
    /\ UNCHANGED <<sent, base, sock, phase, switches, stream, app, call, out, accepted, faulted>>

-----------------------------------------------------------------------------
\* The socket and _recv.

\* Defective variant: the body is taken to be the payload without its tag.
NeededWithoutTag == IF rx = "header" THEN HeaderSize ELSE hdr.size - MacSize

Needed == IF rx = "header" THEN HeaderSize ELSE hdr.size

\* _recv(size) still has to read from the socket.
Short == arrived - consumed < Needed

\* sock.recv returns a chunk: at least one byte, as much as the network has.
\* It may well reach beyond the frame being read.
Arrive(n) ==
    /\ rx # "idle" /\ Short /\ ~eof
    /\ n \in 1..(SentBytes - arrived)
    /\ arrived' = arrived + n
    /\ UNCHANGED <<node, eof, sockTimeout, phase, switches, stream, app, call, out, accepted, faulted>>

\* The call in progress ends with an exception.  During the handshake that
\* is the end of the handshake; a later recv_message() may be tried again.
Raise(e) ==
    /\ rx' = "idle"
    /\ hdr' = [idx |-> 0, size |-> 0]
    /\ raised' = e
    /\ phase' = IF phase = "open" THEN "open" ELSE "failed"

\* A recv() that stops while it waits for the body has consumed the header.
Abandon(e) ==
    /\ rx # "idle" /\ Short
    /\ Raise(e)
    /\ faulted' = (faulted \/ rx = "body")
    /\ UNCHANGED <<node, arrived, sockTimeout, switches, stream, app, out, accepted>>

\* Defective variants: a timeout discards what _buf holds; the timeout covers
\* only the first chunk.
RecvTimeoutDropsBuffer ==
    /\ sockTimeout = "finite" /\ rx # "idle" /\ Short
    /\ Raise("timeout")
    /\ faulted' = (faulted \/ rx = "body")
    /\ consumed' = arrived
    /\ dec' = IF in_on THEN dec + (arrived - consumed) ELSE dec
    /\ UNCHANGED <<node, sock, switches, app, out, accepted>>

RecvTimeoutFirstChunk ==
    sockTimeout = "finite" /\ arrived = consumed /\ Abandon("timeout") /\ UNCHANGED eof

RecvTimeout == sockTimeout = "finite" /\ Abandon("timeout") /\ UNCHANGED eof

\* sock.recv returns an empty chunk, or fails: the node is gone.  What the
\* node wrote and the socket has not delivered may be lost with it.
RecvEOF == ~nodeUp /\ Abandon("closed") /\ eof' = TRUE

-----------------------------------------------------------------------------
\* recv: first the header ...

\* Defective variant: everything in _buf is decrypted, not the n bytes taken.
ConsumeDecryptsAll(n) ==
    /\ consumed' = consumed + n
    /\ dec' = IF in_on THEN dec + (arrived - consumed) ELSE dec

\* What decrypt() returns for the next n bytes uses up n bytes of key stream.
Consume(n) ==
    /\ consumed' = consumed + n
    /\ dec' = IF in_on THEN dec + n ELSE dec

InSync == in_on => dec = consumed - base

\* The header of frame i starts at the read position and comes out in clear.
Readable(i) == sent[i].start = consumed /\ sent[i].secure = in_on /\ InSync

\* parse_header knows the type, and the size is within MAX_FRAME_SIZE.
Supported(i) == sent[i].type \in MessageTypes /\ sent[i].size <= MaxFrameSize

NoFrameHere == \A i \in DOMAIN sent : ~Readable(i)

\* parse_header yields a type and a size: the frame's own if it is readable.
\* Otherwise the bytes are noise, which may still pass for a header.
RecvHeader ==
    /\ rx = "header" /\ ~Short
    /\ Consume(HeaderSize)
    /\ \/ \E i \in DOMAIN sent :
            /\ Readable(i) /\ Supported(i)
            /\ hdr' = [idx |-> i, size |-> sent[i].size]
       \/ /\ NoFrameHere
          /\ \E n \in 0..MaxFrameSize : hdr' = [idx |-> 0, size |-> n]
    /\ rx' = "body"
    /\ UNCHANGED <<node, sock, phase, switches, app, raised, out, accepted, faulted>>

\* The header is unusable.  Of a genuine frame the body stays in the stream.
BadHeader ==
    /\ rx = "header" /\ ~Short
    /\ Consume(HeaderSize)
    /\ \/ NoFrameHere /\ UNCHANGED faulted
       \/ /\ \E i \in DOMAIN sent : Readable(i) /\ ~Supported(i)
          /\ faulted' = TRUE
    /\ Raise("value")
    /\ UNCHANGED <<node, sock, switches, app, out, accepted>>

\* ... then the body.
RecvBody ==
    /\ rx = "body" /\ ~Short
    /\ Consume(hdr.size)
    /\ UNCHANGED <<node, sock>>

\* Defective variant: the tag is not compared.
AuthenticBySize == in_on => hdr.size >= MacSize

\* The size check and the HMAC over header and payload.
Authentic == hdr.idx # 0 /\ (in_on => hdr.size >= MacSize /\ InSync)

BadBody ==
    /\ RecvBody /\ ~Authentic
    /\ Raise("value")
    /\ UNCHANGED <<switches, app, out, accepted, faulted>>

\* recv() returns frame hdr.idx.
Message == RecvBody /\ Authentic /\ accepted' = Append(accepted, hdr.idx)

Received == sent[hdr.idx]

\* The handshake, having dealt with a message, calls recv() again.
NextRecv == rx' = "header" /\ hdr' = [idx |-> 0, size |-> 0] /\ UNCHANGED raised

-----------------------------------------------------------------------------
\* connect and handshake.

Connect ==
    /\ phase = "new"
    /\ phase' = "connected"
    /\ UNCHANGED <<node, sock, switches, stream, app, call, out, accepted, faulted>>

Encode(type) == [type |-> type, secure |-> out_on]

\* Every send may fail once the node is gone.
Handshake ==
    /\ phase = "connected"
    /\ \/ /\ phase' = "wait_init"
          /\ NextRecv
          /\ out' = Append(out, Encode("SCHANNEL_INIT"))
       \/ ~nodeUp /\ Raise("closed") /\ UNCHANGED out
    /\ UNCHANGED <<node, sock, switches, stream, app, accepted, faulted>>

\* Defective variant: encryption is switched on one message late.
SwitchSendsLate == <<[type |-> "SCHANNEL_READY", secure |-> FALSE],
                     [type |-> "GET_TIME",       secure |-> FALSE],
                     [type |-> "LOGIN",          secure |-> TRUE]>>

\* The order in which the code sends: SCHANNEL_READY, then the switch, then
\* the first two encrypted messages.
SwitchSends == <<[type |-> "SCHANNEL_READY", secure |-> FALSE],
                 [type |-> "GET_TIME",       secure |-> TRUE],
                 [type |-> "LOGIN",          secure |-> TRUE]>>

\* SChannelInitiate: keys are derived from the node's nonce.  derive_keys
\* raises for a nonce that is not on the curve, after SCHANNEL_READY is out.
RecvInit ==
    /\ phase = "wait_init" /\ Message
    /\ \/ /\ Received.type = "SCHANNEL_INIT" /\ Received.ok
          /\ out' = out \o SwitchSends
          /\ out_on' = TRUE
          /\ phase' = "wait_ready"
          /\ NextRecv
       \/ /\ Received.type = "SCHANNEL_INIT" /\ ~Received.ok
          /\ out' = out \o SubSeq(SwitchSends, 1, 1)
          /\ UNCHANGED out_on
          /\ Raise("runtime")
       \/ /\ Received.type = "SCHANNEL_INIT" /\ ~nodeUp
          /\ \E k \in 0..2 :
                /\ k # 0 => Received.ok
                /\ out' = out \o SubSeq(SwitchSends, 1, k)
                /\ out_on' = (k # 0)
          /\ Raise("closed")
       \/ /\ Received.type # "SCHANNEL_INIT"
          /\ Raise("runtime")
          /\ UNCHANGED <<out, out_on>>
    /\ UNCHANGED <<in_on, app, faulted>>

\* SChannelReady: from here on the node's frames are encrypted.
RecvReady ==
    /\ phase = "wait_ready" /\ Message
    /\ \/ /\ Received.type = "SCHANNEL_READY"
          /\ in_on' = TRUE
          /\ phase' = "login"
          /\ NextRecv
       \/ /\ Received.type # "SCHANNEL_READY"
          /\ UNCHANGED in_on
          /\ Raise("runtime")
    /\ UNCHANGED <<out_on, out, app, faulted>>

-----------------------------------------------------------------------------
\* The login loop.

LoginReply == [GET_TIME |-> "TIME", PING |-> "PONG"]

\* Defective variant: Ping is read like Authentication.
LoginAnswerTimeOnly ==
    /\ phase = "login" /\ Message
    /\ Received.type \in DOMAIN LoginReply
    /\ out' = IF Received.type = "GET_TIME" THEN Append(out, Encode("TIME")) ELSE out
    /\ NextRecv
    /\ UNCHANGED <<phase, switches, app, faulted>>

\* GetTime and Ping are answered at once; the socket may fail under the answer.
LoginAnswer ==
    /\ phase = "login" /\ Message
    /\ Received.type \in DOMAIN LoginReply
    /\ \/ /\ out' = Append(out, Encode(LoginReply[Received.type]))
          /\ NextRecv
          /\ UNCHANGED phase
       \/ ~nodeUp /\ Raise("closed") /\ UNCHANGED out
    /\ UNCHANGED <<switches, app, faulted>>

\* Time and Authentication are read and dropped.
LoginSkip ==
    /\ phase = "login" /\ Message
    /\ Received.type = "AUTHENTICATION" \/ (Received.type = "TIME" /\ Received.ok)
    /\ NextRecv
    /\ UNCHANGED <<phase, switches, out, app, faulted>>

\* Bye, a Login that does not parse, an empty Time.
LoginRefused ==
    /\ phase = "login" /\ Message
    /\ Received.type = "BYE" \/ (Received.type \in {"LOGIN", "TIME"} /\ ~Received.ok)
    /\ Raise("runtime")
    /\ UNCHANGED <<switches, out, app, faulted>>

LoginDone ==
    /\ phase = "login" /\ Message
    /\ Received.type = "LOGIN" /\ Received.ok
    /\ phase' = "open"
    /\ rx' = "idle" /\ hdr' = [idx |-> 0, size |-> 0] /\ raised' = "none"
    /\ UNCHANGED <<switches, out, app, faulted>>

LoginTypes == {"BYE", "GET_TIME", "TIME", "AUTHENTICATION", "PING", "LOGIN"}

\* Anything else is kept for recv_message().
LoginQueue ==
    /\ phase = "login" /\ Message
    /\ Received.type \notin LoginTypes
    /\ pending' = Append(pending, hdr.idx)
    /\ NextRecv
    /\ UNCHANGED <<phase, switches, out, delivered, faulted>>

-----------------------------------------------------------------------------
\* After the handshake: recv_message, send and close.

\* Defective variant: the queue is popped at the wrong end.
RecvMessagePendingLast ==
    /\ phase \in {"open", "failed", "closed"} /\ rx = "idle"
    /\ pending # <<>>
    /\ delivered' = Append(delivered, pending[Len(pending)])
    /\ pending' = SubSeq(pending, 1, Len(pending) - 1)
    /\ raised' = "none"
    /\ UNCHANGED <<node, sock, phase, switches, stream, rx, hdr, out, accepted, faulted>>

\* Queued messages come first, whatever the timeout, even after close().
RecvMessagePending ==
    /\ phase \in {"open", "failed", "closed"} /\ rx = "idle"
    /\ pending # <<>>
    /\ delivered' = Append(delivered, Head(pending))
    /\ pending' = Tail(pending)
    /\ raised' = "none"
    /\ UNCHANGED <<node, sock, phase, switches, stream, rx, hdr, out, accepted, faulted>>

\* A budget that is already used up: the socket is not touched.
RecvMessageExpired ==
    /\ phase = "open" /\ rx = "idle"
    /\ pending = <<>>
    /\ raised' = "timeout"
    /\ UNCHANGED <<node, sock, phase, switches, stream, app, rx, hdr, out, accepted, faulted>>

\* Defective variant: the socket is read although messages are queued.
RecvMessageLiveFirst(t) ==
    /\ phase = "open" /\ rx = "idle"
    /\ sockTimeout' = t
    /\ rx' = "header"
    /\ UNCHANGED <<node, arrived, eof, phase, switches, stream, app, hdr, raised, out, accepted, faulted>>

RecvMessage(t) ==
    /\ phase = "open" /\ rx = "idle"
    /\ pending = <<>>
    /\ sockTimeout' = t
    /\ rx' = "header"
    /\ UNCHANGED <<node, arrived, eof, phase, switches, stream, app, hdr, raised, out, accepted, faulted>>

RecvMessageReturn ==
    /\ phase = "open" /\ Message
    /\ delivered' = Append(delivered, hdr.idx)
    /\ rx' = "idle" /\ hdr' = [idx |-> 0, size |-> 0] /\ raised' = "none"
    /\ UNCHANGED <<phase, switches, out, pending, faulted>>

\* send() called by the application.
Send ==
    /\ phase = "open" /\ rx = "idle"
    /\ \/ /\ Len(out) < MaxSends
          /\ out' = Append(out, Encode("OTHER"))
          /\ raised' = "none"
       \/ ~nodeUp /\ raised' = "closed" /\ UNCHANGED out
    /\ UNCHANGED <<node, sock, phase, switches, stream, app, rx, hdr, accepted, faulted>>

\* Bye is sent if it can be; whatever send() raises is swallowed.
Close ==
    /\ phase \in {"connected", "open", "failed"} /\ rx = "idle"
    /\ phase' = "closed"
    /\ \/ out' = Append(out, Encode("BYE"))
       \/ ~nodeUp /\ UNCHANGED out
    /\ UNCHANGED <<node, sock, switches, stream, app, call, accepted, faulted>>

-----------------------------------------------------------------------------
NodeStep ==
    \/ \E type \in NodeTypes, n \in PayloadSizes, ok \in BOOLEAN : NodeSend(type, n, ok)
    \/ NodeClose

\* A step of the call in progress.
CallStep ==
    \/ RecvHeader \/ BadHeader \/ BadBody
    \/ RecvInit \/ RecvReady
    \/ LoginAnswer \/ LoginSkip \/ LoginRefused \/ LoginDone \/ LoginQueue
    \/ RecvMessageReturn

WaitStep ==
    \/ \E n \in 1..(SentBytes - arrived) : Arrive(n)
    \/ RecvTimeout
    \/ RecvEOF

\* The caller decides to do something with an idle connection.
UserStep ==
    \/ Connect \/ Handshake
    \/ RecvMessagePending \/ RecvMessageExpired
    \/ \E t \in {"finite", "none"} : RecvMessage(t)
    \/ Send \/ Close

Next == NodeStep \/ CallStep \/ WaitStep \/ UserStep

Spec == Init /\ [][Next]_vars

\* A call in progress keeps running, and the operating system wakes it when
\* the socket's timeout expires or the node is gone.  The caller, the node
\* and the network owe nothing.
FairSpec ==
    /\ Spec
    /\ WF_vars(CallStep)
    /\ WF_vars(RecvTimeout)
    /\ WF_vars(RecvEOF)

-----------------------------------------------------------------------------
(* Properties. *)

\* The decryptor has used exactly as much key stream as bytes have been read
\* since the node switched encryption on, whatever was read ahead in clear
\* before the switch, timed out, or thrown away (connection.py _recv, recv
\* and the in_on switch in handshake).
KeystreamInSync == in_on => base # -1 /\ dec = consumed - base

\* recv never returns a frame twice or out of order, not even on a stream
\* that a timeout in the middle of a frame has put out of step.
AcceptedInOrder ==
    \A j, k \in DOMAIN accepted : j < k => accepted[j] < accepted[k]

\* Unless a fault has been reported, no frame is skipped and the read
\* position is where the next frame starts.  A timeout while the header is
\* incomplete is not a fault: _buf keeps the part that has arrived.
NoSilentLoss ==
    ~faulted =>
        /\ \A k \in DOMAIN accepted : accepted[k] = k
        /\ IF rx = "body"
           THEN /\ hdr.idx = Len(accepted) + 1
                /\ consumed = sent[hdr.idx].start + HeaderSize
           ELSE consumed = IF accepted = <<>> THEN 0 ELSE End(Len(accepted))

\* recv() ends with ValueError.
Refuses == rx # "idle" /\ rx' = "idle" /\ raised' = "value"

\* As long as no earlier call has given up a frame, recv raises ValueError
\* for one reason only: the frame after the last one accepted is of a type
\* that the client does not know, or too large.  "bad protocol magic", "secure
\* frame too small" and "HMAC mismatch" only hit a connection on which an
\* earlier call has given up a frame after its header.

ErrorsExplained ==
    [][Refuses /\ ~faulted =>
          LET next == Len(accepted) + 1
          IN  /\ rx = "header" /\ next \in DOMAIN sent /\ sent[next].start = consumed
              /\ ~Supported(next)]_vars

\* The client's first encrypted message is the one after its SCHANNEL_READY,
\* and Login never leaves in clear.  The only clear message after the switch
\* is the Bye of a client whose derive_keys failed.
SwitchAtReady ==
    \A i \in DOMAIN out :
        /\ out[i].secure =>
              \E j \in 1..(i - 1) : out[j] = [type |-> "SCHANNEL_READY", secure |-> FALSE]
        /\ ~out[i].secure /\ (\E j \in 1..(i - 1) : out[j].type = "SCHANNEL_READY") =>
              out[i].type = "BYE" /\ ~in_on

\* Frame i is one the application gets to see: not part of the secure-channel
\* exchange, and not one of the types the login loop deals with itself.
ForApplication(i) ==
    /\ i > 2
    /\ \/ sent[i].type \notin LoginTypes
       \/ \E k \in DOMAIN accepted : accepted[k] < i /\ sent[accepted[k]].type = "LOGIN"

\* What recv_message has returned, followed by what is queued, is what recv
\* accepted for the application, in the order of acceptance: queueing during
\* login neither drops nor reorders a message against those read live.
DeliveredFaithfully ==
    LET kept == delivered \o pending
    IN  /\ \A j, k \in DOMAIN kept : j < k => kept[j] < kept[k]
        /\ {kept[k] : k \in DOMAIN kept} =
              {accepted[k] : k \in {n \in DOMAIN accepted : ForApplication(accepted[n])}}

\* What was sent in reply, and what was accepted that asks for a reply.
Replies == {i \in DOMAIN out : out[i].type \in {"TIME", "PONG"}}
AskedInLogin ==
    {k \in DOMAIN accepted :
        ~ForApplication(accepted[k]) /\ sent[accepted[k]].type \in DOMAIN LoginReply}

\* While the node is there, each Ping and GetTime read during login has been
\* answered by the matching reply, in order, and there are no other replies.
AnsweredInLogin ==
    /\ Cardinality(Replies) <= Cardinality(AskedInLogin)
    /\ nodeUp => Cardinality(Replies) = Cardinality(AskedInLogin)
    /\ \A i \in Replies, k \in AskedInLogin :
          Rank(Replies, i) = Rank(AskedInLogin, k) =>
             out[i].type = LoginReply[sent[accepted[k]].type]

\* A call made under a finite socket timeout comes to an end, even if the
\* node falls silent in the middle of a frame or goes away.
FiniteCallsReturn == (rx # "idle" /\ sockTimeout = "finite") ~> (rx = "idle")

\* The inductive invariant behind KeystreamInSync, AcceptedInOrder,
\* NoSilentLoss and ErrorsExplained.
\*
\* The frames lie end to end in the stream, and the node encrypts exactly
\* those after its SCHANNEL_READY.
StreamLayout ==
    /\ sent # <<>> => sent[1].start = 0
    /\ \A i \in DOMAIN sent : i + 1 \in DOMAIN sent => sent[i + 1].start = End(i)
    /\ \A i, j \in DOMAIN sent : i < j => End(i) <= sent[j].start
    /\ \A i \in DOMAIN sent :
          /\ sent[i].secure <=> base # -1 /\ sent[i].start >= base
          /\ sent[i].secure => sent[i].size >= MacSize
          /\ sent[i].type = "SCHANNEL_READY" => ~sent[i].secure /\ base = End(i)
    /\ base # -1 => \E i \in DOMAIN sent : sent[i].type = "SCHANNEL_READY"

\* The caller's progress, the switch and the frames accepted so far agree.
PhaseInv ==
    /\ phase \in {"new", "connected", "wait_init", "wait_ready"} => ~in_on
    /\ phase \in {"login", "open"} => in_on
    /\ phase \in {"new", "connected", "wait_init"} => accepted = <<>>
    /\ phase = "wait_ready" => Len(accepted) = 1 /\ sent[1].type = "SCHANNEL_INIT"
    /\ phase \in Handshaking \cup {"new", "connected"} => ~faulted
    /\ rx # "idle" => phase \in Handshaking \cup {"open"}
    /\ phase \in Handshaking => rx # "idle"
    /\ phase = "open" /\ rx # "idle" => pending = <<>>
    /\ ~in_on => dec = 0

\* The frames accepted lie behind the read position; a genuine header in
\* hand is that of a frame after them, and the read position is behind it.
PositionInv ==
    /\ \A k \in DOMAIN accepted :
          accepted[k] \in DOMAIN sent /\ End(accepted[k]) <= consumed
    /\ rx = "body" /\ hdr.idx # 0 =>
          /\ hdr.idx \in DOMAIN sent
          /\ hdr.size = sent[hdr.idx].size
          /\ consumed = sent[hdr.idx].start + HeaderSize
          /\ sent[hdr.idx].secure = in_on
          /\ \A k \in DOMAIN accepted : End(accepted[k]) <= sent[hdr.idx].start

IInv ==
    /\ TypeOK
    /\ StreamLayout
    /\ PhaseInv
    /\ PositionInv
    /\ KeystreamInSync
    /\ AcceptedInOrder
    /\ NoSilentLoss

\* The invariant behind SwitchAtReady, DeliveredFaithfully and AnsweredInLogin.
\*
\* The outgoing switch, the messages sent and the caller's progress agree.
OutInv ==
    /\ in_on \/ phase \in {"wait_ready", "login", "open"} => out_on
    /\ phase \in {"new", "connected", "wait_init"} =>
          ~out_on /\ \A i \in DOMAIN out : out[i].type \notin {"SCHANNEL_READY", "TIME", "PONG"}
    /\ out_on => \E j \in DOMAIN out : out[j] = [type |-> "SCHANNEL_READY", secure |-> FALSE]
    /\ \A i \in DOMAIN out :
          /\ out[i].secure =>
                \E j \in 1..(i - 1) : out[j] = [type |-> "SCHANNEL_READY", secure |-> FALSE]
          /\ ~out[i].secure /\ (\E j \in 1..(i - 1) : out[j].type = "SCHANNEL_READY") =>
                out[i].type = "BYE" /\ ~out_on

\* Only an open connection has accepted a Login, and not among the first two
\* frames; frames in clear never ask for a reply.
LoginInv ==
    /\ \A i \in DOMAIN sent :
          ~sent[i].secure => sent[i].type \in {"SCHANNEL_INIT", "SCHANNEL_READY", "BYE"}
    /\ phase = "login" =>
          Len(accepted) >= 2 /\ \A k \in DOMAIN accepted : sent[accepted[k]].type # "LOGIN"
    /\ phase = "open" =>
          \E k \in DOMAIN accepted : accepted[k] > 2 /\ sent[accepted[k]].type = "LOGIN"

\* The last answer can only be missing where there will be no other.
AnswerInv ==
    /\ AnsweredInLogin
    /\ phase \notin {"failed", "closed"} => Cardinality(Replies) = Cardinality(AskedInLogin)

LInv == OutInv /\ LoginInv /\ DeliveredFaithfully /\ AnswerInv

\* The connection implements the channel it promises.
Channel == INSTANCE MessageChannel WITH
    written  <- Len(sent),
    taken    <- accepted,
    queue    <- pending,
    returned <- delivered,
    lossy    <- faulted

ImplementsChannel == Channel!Spec
=============================================================================
