--------------------------- MODULE MessageChannel ---------------------------
(***************************************************************************)
(* What a BeamConnection promises to the code above it, without bytes,     *)
(* frames or keys: the node writes messages 1, 2, 3, ...; the connection   *)
(* takes them off the wire in that order, deals with some of them itself   *)
(* (the login handshake) and hands the others to the application, first    *)
(* queued, first returned.  As long as no fault has been reported the      *)
(* messages taken are exactly 1, 2, ..., n.  After a fault (a call gave up *)
(* in the middle of a frame) messages may be missing, but none is ever     *)
(* taken twice, out of order, or made up.                                  *)
(***************************************************************************)
EXTENDS Naturals, Sequences

VARIABLES
    written,   \* how many messages the node has written
    taken,     \* the messages the connection has accepted, in order
    queue,     \* accepted for the application, not yet returned to it
    returned,  \* returned to the application, in order
    lossy      \* a fault has been reported

vars == <<written, taken, queue, returned, lossy>>

Init ==
    /\ written = 0
    /\ taken = <<>>
    /\ queue = <<>>
    /\ returned = <<>>
    /\ lossy = FALSE

\* The node writes one more message.
Write ==
    /\ written' = written + 1
    /\ UNCHANGED <<taken, queue, returned, lossy>>

\* Message m is the next one the connection may accept.
IsNext(m) ==
    /\ m \in 1..written
    /\ \A k \in DOMAIN taken : taken[k] < m
    /\ ~lossy => m = Len(taken) + 1

Take(m) ==
    /\ IsNext(m)
    /\ taken' = Append(taken, m)
    /\ UNCHANGED <<written, lossy>>

\* Accepted and dealt with by the connection itself.
Handle(m) == Take(m) /\ UNCHANGED <<queue, returned>>

\* Accepted and kept for the application.
Keep(m) == Take(m) /\ queue' = Append(queue, m) /\ UNCHANGED returned

\* Accepted and returned at once, which may not overtake a kept message.
Return(m) ==
    /\ queue = <<>>
    /\ Take(m)
    /\ returned' = Append(returned, m)
    /\ UNCHANGED queue

Dequeue ==
    /\ queue # <<>>
    /\ returned' = Append(returned, Head(queue))
    /\ queue' = Tail(queue)
    /\ UNCHANGED <<written, taken, lossy>>

Fault ==
    /\ lossy' = TRUE
    /\ UNCHANGED <<written, taken, queue, returned>>

Next ==
    \/ Write
    \/ \E m \in 1..written : Handle(m) \/ Keep(m) \/ Return(m)
    \/ Dequeue
    \/ Fault

Spec == Init /\ [][Next]_vars
=============================================================================
