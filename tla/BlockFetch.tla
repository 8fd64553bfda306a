----------------------------- MODULE BlockFetch -----------------------------
(***************************************************************************)
(* Fetching blocks (src/beam_p2p/query_client.py): fetch_blocks asks for   *)
(* the headers of a range, then for the bodies below the last of them, and *)
(* pairs the two by position; get_treasury_payload asks for a Body of its  *)
(* own.  The chain of the node moves on or is reorganised meanwhile.       *)
(*                                                                         *)
(* A block is the path of branches that leads to it: its height is the     *)
(* length of the path and its ancestors are the prefixes, just as a block  *)
(* hash covers the whole chain below.  The empty path is the treasury.     *)
(* The connection delivers whole messages in the order written, except     *)
(* that a timeout in the middle of a frame may lose some (lossy).          *)
(***************************************************************************)
EXTENDS Integers, Sequences, FiniteSets

CONSTANTS
    Forks,        \* branches at each height
    MaxHeight,    \* bound: height of the chain
    MaxMoves,     \* bound: changes of the active tip
    MaxCalls,     \* bound: calls of the application
    MaxStream     \* bound: messages the node writes

ASSUME BoundAssumption ==
    /\ Forks # {}
    /\ MaxHeight \in Nat \ {0} /\ MaxMoves \in Nat /\ MaxCalls \in Nat /\ MaxStream \in Nat

Blocks == UNION {[1..h -> Forks] : h \in 1..MaxHeight}

Treasury == <<>>

VARIABLES
    tip,       \* the node's active tip
    moves,     \* how often it has changed
    requests,  \* what the client has written
    served,    \* how many of the requests the node has answered
    stream,    \* what the node has written
    read,      \* the last message the client has read
    lossy,     \* a timeout has lost part of the stream
    calls      \* every call of the application, its progress and result

vars == <<tip, moves, requests, served, stream, read, lossy, calls>>

At(block, h) == SubSeq(block, 1, h)

Stretch(block, lo, hi) == [i \in 1..(hi - lo + 1) |-> At(block, lo + i - 1)]

Waiting == {"headers", "bodies", "treasury"}
Outcomes == {"done", "invalid", "missing", "timeout"}

Requests ==
    [type: {"ENUM_HDRS"}, lo: 1..MaxHeight, hi: 1..MaxHeight] \cup
    [type: {"GET_BODY_PACK"}, top: Blocks, extra: 0..(MaxHeight - 1)] \cup
    [type: {"GET_BODY"}]

Answers ==
    [type: {"HDR_PACK", "BODY", "BODY_PACK", "DATA_MISSING"}, items: Seq(Blocks \cup {Treasury})]

Calls ==
    [lo: 0..MaxHeight, hi: 0..MaxHeight, headers: Seq(Blocks), bodies: Seq(Blocks \cup {Treasury}),
     result: Waiting \cup Outcomes, tips: SUBSET Blocks]

\* The types; the headers of a call are those of its range from the lowest on,
\* even if they are a late answer to another call.
TypeOK ==
    /\ tip \in Blocks
    /\ moves \in 0..MaxMoves
    /\ requests \in Seq(Requests)
    /\ served \in 0..Len(requests)
    /\ stream \in Seq(Answers)
    /\ read \in 0..Len(stream)
    /\ lossy \in BOOLEAN
    /\ calls \in Seq(Calls)
    /\ \A c \in DOMAIN calls : \A i \in DOMAIN calls[c].headers :
          Len(calls[c].headers[i]) = calls[c].lo + i - 1 /\ calls[c].lo + i - 1 <= calls[c].hi

Init ==
    /\ tip \in Blocks /\ moves = 0
    /\ requests = <<>> /\ served = 0 /\ stream = <<>>
    /\ read = 0 /\ lossy = FALSE /\ calls = <<>>

Current == calls[Len(calls)]

Busy == calls # <<>> /\ Current.result \in Waiting

-----------------------------------------------------------------------------
\* The node: not part of src/, as the client expects it.

Write(type, items) ==
    /\ Len(stream) < MaxStream
    /\ stream' = Append(stream, [type |-> type, items |-> items])

\* Any range of ancestors from lo on, no further than the tip; none if the
\* range begins above the tip.
ServeHeaders(r) ==
    \/ r.lo > Len(tip) /\ Write("HDR_PACK", <<>>)
    \/ \E h \in r.lo..r.hi : h <= Len(tip) /\ Write("HDR_PACK", Stretch(tip, r.lo, h))

\* The bodies of top and of the `extra' blocks below it, lowest first, perhaps
\* not all of them.  The node may not have them any more after a
\* reorganisation.
ServeBodies(r) ==
    LET lo == Len(r.top) - r.extra
    IN  \/ r.extra = 0 /\ Write("BODY", <<r.top>>)
        \/ r.extra > 0 /\ \E h \in lo..Len(r.top) : Write("BODY_PACK", Stretch(r.top, lo, h))

NodeServe ==
    /\ served < Len(requests)
    /\ served' = served + 1
    /\ LET r == requests[served + 1]
       IN  \/ r.type = "ENUM_HDRS" /\ ServeHeaders(r)
           \/ r.type = "GET_BODY_PACK" /\ ServeBodies(r)
           \/ r.type = "GET_BODY" /\ Write("BODY", <<Treasury>>)
           \/ Write("DATA_MISSING", <<>>)
    /\ UNCHANGED <<tip, moves, requests, read, lossy, calls>>

\* A new block, or a reorganisation.
NewTip(block) ==
    /\ block # tip
    /\ moves < MaxMoves
    /\ tip' = block
    /\ moves' = moves + 1
    /\ calls' = IF Busy THEN [calls EXCEPT ![Len(calls)].tips = @ \cup {block}] ELSE calls
    /\ UNCHANGED <<requests, served, stream, read, lossy>>

-----------------------------------------------------------------------------
\* The application calls.

Begin(lo, hi, stage) ==
    /\ ~Busy /\ Len(calls) < MaxCalls
    /\ calls' = Append(calls, [lo |-> lo, hi |-> hi, headers |-> <<>>, bodies |-> <<>>,
                               result |-> stage, tips |-> {tip}])

Request(r) == requests' = Append(requests, r)

\* Defective variant: headers of the same range are taken from an earlier call.
FetchBlocksCached(lo, hi) ==
    /\ lo <= hi
    /\ LET same == {c \in DOMAIN calls : calls[c].lo = lo /\ calls[c].hi = hi
                                            /\ calls[c].result = "done"}
       IN  IF same = {}
           THEN /\ Begin(lo, hi, "headers")
                /\ Request([type |-> "ENUM_HDRS", lo |-> lo, hi |-> hi])
           ELSE \E c \in same : LET hs == calls[c].headers IN
                /\ ~Busy /\ Len(calls) < MaxCalls
                /\ calls' = Append(calls, [calls[c] EXCEPT !.bodies = <<>>, !.result = "bodies",
                                                          !.tips = {tip}])
                /\ Request([type |-> "GET_BODY_PACK", top |-> hs[Len(hs)],
                            extra |-> Len(hs) - 1])
    /\ UNCHANGED <<tip, moves, served, stream, read, lossy>>

\* fetch_blocks, up to the request of request_headers.
FetchBlocks(lo, hi) ==
    /\ lo <= hi
    /\ Begin(lo, hi, "headers")
    /\ Request([type |-> "ENUM_HDRS", lo |-> lo, hi |-> hi])
    /\ UNCHANGED <<tip, moves, served, stream, read, lossy>>

GetTreasury ==
    /\ Begin(0, 0, "treasury")
    /\ Request([type |-> "GET_BODY"])
    /\ UNCHANGED <<tip, moves, served, stream, read, lossy>>

-----------------------------------------------------------------------------
\* recv_until, and what is done with the message it returns.

Receive(m) ==
    /\ Busy
    /\ m \in (read + 1)..Len(stream)
    /\ ~lossy => m = read + 1
    /\ read' = m
    /\ UNCHANGED <<tip, moves, served, stream, lossy>>

Set(call) == calls' = [calls EXCEPT ![Len(calls)] = call]

Expected ==
    [headers |-> {"HDR_PACK"}, bodies |-> {"BODY", "BODY_PACK"}, treasury |-> {"BODY"}]

\* The checks of request_headers.  The heights in a pack are consecutive by
\* the way it is decoded, so the first and the last decide.
HeadersValid(items) ==
    /\ items # <<>>
    /\ Len(items[1]) = Current.lo
    /\ Len(items[Len(items)]) <= Current.hi

\* Valid headers are followed by the request for the bodies, which names the
\* last header by its hash.
RecvHeaders(m) ==
    /\ Receive(m) /\ Current.result = "headers" /\ stream[m].type = "HDR_PACK"
    /\ LET items == stream[m].items
       IN  IF HeadersValid(items)
           THEN /\ Set([Current EXCEPT !.headers = items, !.result = "bodies"])
                /\ Request([type |-> "GET_BODY_PACK", top |-> items[Len(items)],
                            extra |-> Len(items) - 1])
           ELSE Set([Current EXCEPT !.result = "invalid"]) /\ UNCHANGED requests

\* Defective variant: too few bodies are not refused.
PairsFewer(m) ==
    \/ stream[m].type = "BODY"
    \/ stream[m].type = "BODY_PACK" /\ Len(stream[m].items) <= Len(Current.headers)

\* A pack is accepted if it has one body for each header; a Body is paired
\* with the first header, however many there are.
Pairs(m) ==
    \/ stream[m].type = "BODY"
    \/ stream[m].type = "BODY_PACK" /\ Len(stream[m].items) = Len(Current.headers)

\* A body says nothing about the block it belongs to: it is decoded under the
\* header at its position.  Only the treasury does not decode as a block body.
RecvBodies(m) ==
    /\ Receive(m) /\ Current.result = "bodies" /\ stream[m].type \in Expected["bodies"]
    /\ IF Pairs(m) /\ stream[m].items # <<Treasury>>
       THEN Set([Current EXCEPT !.bodies = stream[m].items, !.result = "done"])
       ELSE Set([Current EXCEPT !.result = "invalid"])
    /\ UNCHANGED requests

RecvTreasury(m) ==
    /\ Receive(m) /\ Current.result = "treasury" /\ stream[m].type = "BODY"
    /\ Set([Current EXCEPT !.bodies = stream[m].items, !.result = "done"])
    /\ UNCHANGED requests

\* Defective variant: bodies that are missing are asked for once more.
RecvMissingAsksAgain(m) ==
    /\ Receive(m) /\ stream[m].type = "DATA_MISSING"
    /\ Set([Current EXCEPT !.result = "missing"])
    /\ IF Current.result = "bodies"
       THEN Request([type |-> "GET_BODY_PACK", extra |-> Len(Current.headers) - 1,
                     top |-> Current.headers[Len(Current.headers)]])
       ELSE UNCHANGED requests

RecvMissing(m) ==
    /\ Receive(m) /\ stream[m].type = "DATA_MISSING"
    /\ Set([Current EXCEPT !.result = "missing"])
    /\ UNCHANGED requests

\* Replies to what is no longer waited for.
RecvIgnored(m) ==
    /\ Receive(m)
    /\ stream[m].type \notin Expected[Current.result] \cup {"DATA_MISSING"}
    /\ UNCHANGED <<requests, calls>>

RecvTimeout ==
    /\ Busy
    /\ Set([Current EXCEPT !.result = "timeout"])
    /\ \/ UNCHANGED lossy
       \/ read < Len(stream) /\ lossy' = TRUE
    /\ UNCHANGED <<tip, moves, requests, served, stream, read>>

-----------------------------------------------------------------------------
Next ==
    \/ NodeServe
    \/ \E block \in Blocks : NewTip(block)
    \/ \E lo, hi \in 1..MaxHeight : FetchBlocks(lo, hi)
    \/ GetTreasury
    \/ \E m \in DOMAIN stream :
          \/ RecvHeaders(m) \/ RecvBodies(m) \/ RecvTreasury(m)
          \/ RecvMissing(m) \/ RecvIgnored(m)
    \/ RecvTimeout

Spec == Init /\ [][Next]_vars

-----------------------------------------------------------------------------
(* Properties. *)

Fetched == {c \in DOMAIN calls : calls[c].lo # 0 /\ calls[c].result = "done"}

\* The earlier calls that timed out, so that their answers may come later.
TimedOut(c) == {d \in 1..(c - 1) : calls[d].result = "timeout"}

\* Whatever reorganisations happen between the two requests, fetch_blocks
\* returns one block for each header, each with its own body, unless two
\* earlier calls have timed out.  One is not enough: what it left behind comes
\* before the headers of the next call and is dropped while they are waited
\* for.
BodiesBelong ==
    \A c \in Fetched :
        Cardinality(TimedOut(c)) < 2 => calls[c].bodies = calls[c].headers

\* The blocks returned were on the active chain at some time during the call:
\* no stale branch is returned, unless an earlier call has timed out.
FromActiveChain ==
    \A c \in Fetched : TimedOut(c) # {} \/
        LET last == calls[c].headers[Len(calls[c].headers)]
        IN  \E t \in calls[c].tips : Len(last) <= Len(t) /\ At(t, Len(last)) = last

\* A call that knew the header of a single block and ended without its body,
\* which comes in the same kind of message as the treasury.
BodyOwed(d) == Len(calls[d].headers) = 1 /\ calls[d].result \in {"timeout", "missing"}

\* get_treasury_payload returns the treasury and never part of a block, as long
\* as no earlier call has timed out.  If one has, it still does unless some
\* call has been left without the body of a single block: nothing else that
\* comes late passes for the treasury.
TreasuryIsTreasury ==
    \A c \in DOMAIN calls :
        calls[c].lo = 0 /\ calls[c].result = "done" =>
            \/ calls[c].bodies = <<Treasury>>
            \/ Cardinality(TimedOut(c)) >= 2
            \/ TimedOut(c) # {} /\ \E d \in 1..(c - 1) : BodyOwed(d)

\* block.py:520: one block per header; each body is the body of its header.
OneBlockPerHeader == \A c \in Fetched : calls[c].bodies = calls[c].headers

-----------------------------------------------------------------------------
(* The inductive invariant behind these properties. *)

\* The node answers each request once, in order, with what it asks for.
Pages(items, blocks, lo, hi) ==
    \E block \in blocks : \E h \in lo..hi : h <= Len(block) /\ items = Stretch(block, lo, h)

AnswersRequest(a, r) ==
    \/ a.type = "DATA_MISSING"
    \/ r.type = "ENUM_HDRS" /\ a.type = "HDR_PACK"
          /\ (a.items = <<>> \/ Pages(a.items, Blocks, r.lo, r.hi))
    \/ r.type = "GET_BODY_PACK" /\ r.extra = 0 /\ a.type = "BODY" /\ a.items = <<r.top>>
    \/ r.type = "GET_BODY_PACK" /\ r.extra > 0 /\ a.type = "BODY_PACK"
          /\ Pages(a.items, {r.top}, Len(r.top) - r.extra, Len(r.top))
    \/ r.type = "GET_BODY" /\ a.type = "BODY" /\ a.items = <<Treasury>>

StreamInv ==
    /\ Len(stream) = served
    /\ \A i \in DOMAIN stream : AnswersRequest(stream[i], requests[i])
    /\ \A i \in DOMAIN requests :
          requests[i].type = "GET_BODY_PACK" => requests[i].extra < Len(requests[i].top)

\* The headers of a call are a part of one chain: of the active one, unless an
\* earlier call has timed out.
CallsInv ==
    \A c \in DOMAIN calls :
        /\ calls[c].headers # <<>> =>
              Pages(calls[c].headers, IF TimedOut(c) = {} THEN calls[c].tips ELSE Blocks,
                    calls[c].lo, calls[c].hi)
        /\ calls[c].result = "bodies" \/ c \in Fetched => calls[c].headers # <<>>
        /\ calls[c].result \in {"headers", "bodies"} => calls[c].lo # 0
        /\ calls[c].result = "treasury" => calls[c].lo = 0
        /\ calls[c].result \in Waiting => c = Len(calls)

\* Without a timeout the treasury is the answer to the last request.
TreasuryUndisturbed ==
    \A c \in DOMAIN calls :
        calls[c].lo = 0 /\ calls[c].result = "done" =>
            TimedOut(c) # {} \/ calls[c].bodies = <<Treasury>>

\* Each call that has timed out leaves one answer unread at most, and a call
\* waits for the answer to the last request.  Before the bodies it waits for
\* there is no answer to an earlier request for bodies, unless two calls have
\* timed out.
PendingInv ==
    /\ Len(requests) - read <=
          Cardinality(TimedOut(Len(calls) + 1)) + (IF Busy THEN 1 ELSE 0)
    /\ lossy => TimedOut(Len(calls) + 1) # {}
    /\ Busy => requests # <<>> /\ tip \in Current.tips
    /\ Busy =>
          LET last == requests[Len(requests)] IN
          /\ Current.result = "headers" =>
                /\ last.type = "ENUM_HDRS" /\ last.lo = Current.lo /\ last.hi = Current.hi
                /\ served = Len(requests) /\ stream[served].type = "HDR_PACK"
                      /\ stream[served].items # <<>> =>
                         Pages(stream[served].items, Current.tips, Current.lo, Current.hi)
          /\ Current.result = "bodies" =>
                /\ last.type = "GET_BODY_PACK"
                /\ last.top = Current.headers[Len(Current.headers)]
                /\ last.extra = Len(Current.headers) - 1
                /\ Cardinality(TimedOut(Len(calls) + 1)) < 2 =>
                      \A i \in (read + 1)..(Len(requests) - 1) : requests[i].type = "ENUM_HDRS"
          /\ Current.result = "treasury" => last.type = "GET_BODY"

IInv == TypeOK /\ StreamInv /\ CallsInv /\ PendingInv /\ BodiesBelong /\ TreasuryUndisturbed

\* The invariant behind TreasuryIsTreasury, beside IInv: with one timeout at
\* most and no body owed, the only request for a single body that has not been
\* answered is that of the call in progress.
Single(i) == requests[i].type = "GET_BODY_PACK" /\ requests[i].extra = 0

OwedInv ==
    Cardinality(TimedOut(Len(calls) + 1)) < 2 /\ (\A d \in DOMAIN calls : ~BodyOwed(d)) =>
        \A i \in (read + 1)..Len(requests) :
            Single(i) => Busy /\ Current.result = "bodies" /\ i = Len(requests)

TInv == OwedInv /\ TreasuryIsTreasury
=============================================================================
