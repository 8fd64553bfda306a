------------------------------ MODULE ListPages ------------------------------
(***************************************************************************)
(* Listings that the node sends in pages: the assets of a height           *)
(* (get_assets_list_at in src/beam_p2p/query_client.py, and collect_assets *)
(* of the examples), the variables of a contract (the loops over           *)
(* enum_contract_vars in the examples) and its logs (the first page only). *)
(* Each page is asked for from where the last one ended.  A reorganisation *)
(* may change the list between two pages.  The connection delivers whole   *)
(* messages in the order written, except that a timeout in the middle of a *)
(* frame may lose some (lossy).                                            *)
(***************************************************************************)
EXTENDS Integers, Sequences, SequencesExt

CONSTANTS
    MaxId,        \* asset identifiers, and keys, are 1..MaxId
    PageSize,     \* the longest page the node sends
    MaxLimit,     \* the greatest limit of an application; 0 is no limit
    MaxChanges,   \* bound: changes of the node's list
    MaxCalls      \* bound: calls of the application

ASSUME BoundAssumption ==
    /\ MaxId \in Nat \ {0} /\ PageSize \in Nat \ {0} /\ MaxLimit \in Nat
    /\ MaxChanges \in Nat /\ MaxCalls \in Nat

Ids == 1..MaxId
Kinds == {"assets", "vars", "logs"}

VARIABLES
    listed,    \* what the node lists: assets, or keys in the order of keys
    changes,   \* how often that has changed
    queue,     \* requests the node has not answered
    stream,    \* answers the client has not read
    lossy,     \* a timeout has lost part of the stream
    call,      \* the latest call of the application, its progress and result
    late,      \* kinds of which an answer to an earlier call may yet come
    made       \* how many calls there have been

vars == <<listed, changes, queue, stream, lossy, call, late, made>>

Outcomes == {"waiting", "done", "stuck", "missing", "timeout"}

Requests == [kind: Kinds, from: 0..(MaxId + 1), to: Ids, skip: BOOLEAN]
Answers  == [kind: Kinds \cup {"missing"}, ids: Seq(Ids), more: BOOLEAN]
Calls    == [kind: Kinds, from: 0..(MaxId + 1), to: Ids, limit: 0..MaxLimit, auto: BOOLEAN,
             ids: Seq(Ids), more: BOOLEAN, asked: Seq(0..(MaxId + 1)), result: Outcomes,
             always: SUBSET Ids, ever: SUBSET Ids]

\* The types; a call returns only entries there can be.
TypeOK ==
    /\ listed \subseteq Ids /\ changes \in 0..MaxChanges
    /\ queue \in Seq(Requests) /\ stream \in Seq(Answers)
    /\ lossy \in BOOLEAN
    /\ call \in Calls /\ late \subseteq Kinds
    /\ made \in 0..MaxCalls

NoCall == [kind |-> "assets", from |-> 0, to |-> MaxId, limit |-> 0, auto |-> TRUE,
           ids |-> <<>>, more |-> FALSE, asked |-> <<>>, result |-> "missing",
           always |-> {}, ever |-> {}]

Init ==
    /\ listed \in SUBSET Ids /\ changes = 0
    /\ queue = <<>> /\ stream = <<>> /\ lossy = FALSE
    /\ call = NoCall /\ late = {} /\ made = 0

Busy == call.result = "waiting"

-----------------------------------------------------------------------------
\* The node: not part of src/, as the client expects it.

Ascending(ids) == \A i, j \in DOMAIN ids : i < j => ids[i] < ids[j]

\* The first entry a request is about.
Lower(request) == IF request.skip THEN request.from + 1 ELSE request.from

\* A page is a beginning of the rest of the list, in order.  It may be empty.
Begins(ids, rest) ==
    /\ Ascending(ids)
    /\ \A i \in ToSet(ids), j \in rest : j < i => j \in ToSet(ids)

\* A flag says whether there is more.
NodeServe ==
    /\ queue # <<>>
    /\ queue' = Tail(queue)
    /\ LET request == Head(queue)
           rest    == {i \in listed : i >= Lower(request) /\ i <= request.to}
       IN  \/ \E n \in 0..PageSize : \E ids \in [1..n -> rest] :
                /\ Begins(ids, rest)
                /\ stream' = Append(stream, [kind |-> request.kind, ids |-> ids,
                                             more |-> ToSet(ids) # rest])
           \/ stream' = Append(stream, [kind |-> "missing", ids |-> <<>>, more |-> FALSE])
    /\ UNCHANGED <<listed, changes, lossy, call, late, made>>

\* The chain below the height has been reorganised, or a block was added.
Change(list) ==
    /\ changes < MaxChanges /\ list # listed
    /\ changes' = changes + 1
    /\ listed' = list
    /\ call' = IF Busy THEN [call EXCEPT !.always = @ \cap list, !.ever = @ \cup list] ELSE call
    /\ UNCHANGED <<queue, stream, lossy, late, made>>

-----------------------------------------------------------------------------
\* The calls.

\* A request is written, and noted in the call.
Ask(c, from, skip) ==
    LET request == [kind |-> c.kind, from |-> from, to |-> c.to, skip |-> skip]
    IN  /\ queue' = Append(queue, request)
        /\ call' = [c EXCEPT !.asked = Append(@, Lower(request))]

Return(ids, more) ==
    /\ call' = [call EXCEPT !.ids = ids, !.more = more, !.result = "done"]
    /\ UNCHANGED queue

\* An exception: what has been collected is lost.
Raise(result) ==
    /\ call' = [NoCall EXCEPT !.kind = call.kind, !.result = result]
    /\ UNCHANGED queue

\* A call that times out leaves its answer behind.  So may one that ends with
\* DataMissing, if that was the answer to an earlier call.
Leftover ==
    IF call.result = "timeout" \/ (call.result = "missing" /\ late # {})
    THEN late \cup {call.kind} ELSE late

Begin(kind, from, to, limit, auto) ==
    /\ ~Busy /\ made < MaxCalls
    /\ made' = made + 1
    /\ late' = Leftover
    /\ Ask([NoCall EXCEPT !.kind = kind, !.from = from, !.to = to, !.limit = limit,
                          !.auto = auto, !.result = "waiting", !.always = listed,
                          !.ever = listed], from, FALSE)
    /\ UNCHANGED <<listed, changes, stream, lossy>>

\* collect_assets calls get_assets_list_at with aid0 = 0; other applications
\* may begin elsewhere, or ask for one page only.
GetAssets(from, limit, auto) == (auto \/ limit = 0) /\ Begin("assets", from, MaxId, limit, auto)

\* The contract's keys are the range, both ends included.
CollectVars(from, to, limit) == from <= to /\ Begin("vars", from, to, limit, TRUE)
CollectLogs(from, to, limit) == from <= to /\ Begin("logs", from, to, limit, FALSE)

\* The answer read is the next one, or a later one if some have been lost.
Receive(m, kind) ==
    /\ Busy
    /\ m \in DOMAIN stream /\ stream[m].kind = kind
    /\ ~lossy => m = 1
    /\ stream' = SubSeq(stream, m + 1, Len(stream))
    /\ UNCHANGED <<listed, changes, lossy, late, made>>

Limited(ids) == IF call.limit = 0 \/ Len(ids) <= call.limit THEN ids ELSE SubSeq(ids, 1, call.limit)
Truncated(ids) == Limited(ids) # ids

\* Defective variant: one asset is left out.
NextAssetIdTwo(page) == page.ids[Len(page.ids)] + 2

NextAssetId(page) == page.ids[Len(page.ids)] + 1

\* A page ends the call if it is the last one or the only one wanted, or if it
\* is empty and says that there is more.  The limit is applied to the whole.
RecvAssets(m) ==
    /\ Receive(m, "assets") /\ call.kind = "assets"
    /\ LET page == stream[m]
           all  == call.ids \o page.ids
       IN  IF ~call.auto
           THEN Return(all, page.more)
           ELSE IF ~page.more
           THEN Return(Limited(all), Truncated(all))
           ELSE IF page.ids = <<>>
           THEN Raise("stuck")
           ELSE Ask([call EXCEPT !.ids = all], NextAssetId(page), FALSE)

\* Defective variants: a limit that has just been reached passes for a sign
\* that there is more; the last key is not skipped.
RecvVarsAtLimit(m) ==
    /\ Receive(m, "vars") /\ call.kind = "vars"
    /\ LET page == stream[m]
           all  == call.ids \o page.ids
       IN  IF page.ids = <<>> THEN Return(call.ids, page.more)
           ELSE IF Truncated(all) \/ Len(all) = call.limit THEN Return(Limited(all), TRUE)
           ELSE IF ~page.more THEN Return(all, FALSE)
           ELSE Ask([call EXCEPT !.ids = all], page.ids[Len(page.ids)], TRUE)

RecvVarsKeepMin(m) ==
    /\ Receive(m, "vars") /\ call.kind = "vars"
    /\ LET page == stream[m]
           all  == call.ids \o page.ids
       IN  IF page.ids = <<>> THEN Return(call.ids, page.more)
           ELSE IF Truncated(all) THEN Return(Limited(all), TRUE)
           ELSE IF ~page.more THEN Return(all, FALSE)
           ELSE Ask([call EXCEPT !.ids = all], page.ids[Len(page.ids)], FALSE)

\* The limit ends the call only when a further entry has been seen; until then
\* the next page is asked for from the last key on, that key left out.
RecvVars(m) ==
    /\ Receive(m, "vars") /\ call.kind = "vars"
    /\ LET page == stream[m]
           all  == call.ids \o page.ids
       IN  IF page.ids = <<>> THEN Return(call.ids, page.more)
           ELSE IF Truncated(all) THEN Return(Limited(all), TRUE)
           ELSE IF ~page.more THEN Return(all, FALSE)
           ELSE Ask([call EXCEPT !.ids = all], page.ids[Len(page.ids)], TRUE)

\* Only the first page of logs is asked for.
RecvLogs(m) ==
    /\ Receive(m, "logs") /\ call.kind = "logs"
    /\ LET page == stream[m]
       IN  Return(Limited(page.ids), page.more \/ Truncated(page.ids))

RecvMissing(m) ==
    /\ Receive(m, "missing")
    /\ Raise("missing")

\* A late page of a call of another kind is ignored.
RecvIgnored(m) ==
    /\ \E kind \in Kinds \ {call.kind} : Receive(m, kind)
    /\ UNCHANGED <<call, queue>>

RecvTimeout ==
    /\ Busy
    /\ Raise("timeout")
    /\ \/ UNCHANGED lossy
       \/ stream # <<>> /\ lossy' = TRUE
    /\ UNCHANGED <<listed, changes, stream, late, made>>

-----------------------------------------------------------------------------
Next ==
    \/ NodeServe
    \/ \E list \in SUBSET Ids : Change(list)
    \/ \E from \in 0..MaxId, limit \in 0..MaxLimit, auto \in BOOLEAN : GetAssets(from, limit, auto)
    \/ \E from, to \in Ids, limit \in 0..MaxLimit :
          CollectVars(from, to, limit) \/ CollectLogs(from, to, limit)
    \/ \E m \in DOMAIN stream :
          RecvAssets(m) \/ RecvVars(m) \/ RecvLogs(m) \/ RecvMissing(m) \/ RecvIgnored(m)
    \/ RecvTimeout

Spec == Init /\ [][Next]_vars

-----------------------------------------------------------------------------
(* Properties. *)

\* No earlier call of the kind has been left unanswered, so no page of one can
\* come late.  Pages of calls of other kinds may.
Undisturbed == call.kind \notin late

InRange(S) == {i \in S : i >= call.from /\ i <= call.to}

\* A listing that does not say that there is more has every entry of the range
\* that was listed throughout the call, although the list may change between
\* two pages; and no listing has an entry that never was listed.
ListingComplete ==
    call.result = "done" /\ Undisturbed =>
        /\ ~call.more => InRange(call.always) \subseteq ToSet(call.ids)
        /\ ToSet(call.ids) \subseteq InRange(call.ever)

\* A listing that says that there is more says so of an entry behind the last
\* one returned: a limit that the list just fills is not taken for a cut.
MoreIsHonest ==
    call.result = "done" /\ call.more /\ Undisturbed =>
        \E i \in InRange(call.ever) : \A j \in ToSet(call.ids) : j < i

\* Pages never overlap, even if the list changes between them, and every page
\* asked for starts behind the one before: a call cannot ask for ever.
PagesAdvance ==
    Undisturbed => Ascending(call.ids) /\ Ascending(call.asked)

\* So the pages a call asks for are no more than there are places to begin at,
\* however often the list changes and whatever the limit.
FewPages == Undisturbed => Len(call.asked) <= MaxId + 2

-----------------------------------------------------------------------------
(* The inductive invariant behind these properties. *)

\* What the node has sent or will send is left over from earlier calls, or
\* answers the latest one.  With nothing left over there is only that answer.
LeftoverInv ==
    /\ \A i \in DOMAIN queue :
          queue[i].kind \in Leftover \/ (Busy /\ queue[i].kind = call.kind)
    /\ \A m \in DOMAIN stream :
          stream[m].kind \in Leftover \cup {"missing"} \/ (Busy /\ stream[m].kind = call.kind)
    /\ Leftover = {} => Len(queue) + Len(stream) <= IF Busy THEN 1 ELSE 0

\* The end of the range the call has asked for; the page it waits for is the
\* last thing the node sends.
Asked == call.asked[Len(call.asked)]

\* A page that was part of the list while the call waited for it.
PageOf(page, lo) ==
    LET rest(S) == {i \in S : i >= lo /\ i <= call.to} IN
    /\ Ascending(page.ids)
    /\ ToSet(page.ids) \subseteq rest(call.ever)
    /\ \A i \in ToSet(page.ids), j \in rest(call.always) : j < i => j \in ToSet(page.ids)
    /\ ~page.more => rest(call.always) \subseteq ToSet(page.ids)
    /\ page.more => \E i \in rest(call.ever) : \A j \in ToSet(page.ids) : j < i

WaitingInv ==
    Busy =>
        /\ call.asked # <<>>
        /\ Undisturbed =>
              /\ \A i \in DOMAIN queue : queue[i].kind = call.kind =>
                    i = Len(queue) /\ Lower(queue[i]) = Asked /\ queue[i].to = call.to
              /\ \A m \in DOMAIN stream : stream[m].kind = call.kind =>
                    m = Len(stream) /\ queue = <<>> /\ PageOf(stream[m], Asked)

\* What has been collected is the list up to where the next page starts.
CollectedInv ==
    Busy /\ Undisturbed =>
        /\ \A i \in DOMAIN call.asked : call.from <= call.asked[i]
        /\ ToSet(call.ids) \subseteq {i \in InRange(call.ever) : i < Asked}
        /\ {i \in InRange(call.always) : i < Asked} \subseteq ToSet(call.ids)
        /\ call.kind = "logs" => call.ids = <<>>
        /\ call.always \subseteq listed /\ listed \subseteq call.ever

IInv ==
    /\ TypeOK /\ LeftoverInv /\ WaitingInv /\ CollectedInv
    /\ ListingComplete /\ MoreIsHonest /\ PagesAdvance
=============================================================================
