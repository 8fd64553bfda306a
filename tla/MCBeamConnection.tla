-------------------------- MODULE MCBeamConnection --------------------------
(***************************************************************************)
(* Small instances of BeamConnection.  A header is two bytes and a MAC one *)
(* byte, so a read can end inside a header, between header and body, and   *)
(* inside a body; the body of an authenticated frame with an empty payload *)
(* is shorter than a header, so a stream out of step stays so for a while. *)
(***************************************************************************)
EXTENDS BeamConnection

\* The secure channel and everything the login loop tells apart
\* (Authentication is treated like Time).
LoginTraffic == {"SCHANNEL_INIT", "SCHANNEL_READY", "LOGIN", "PING", "GET_TIME", "TIME",
                 "BYE", "OTHER", "UNKNOWN"}

\* Traffic on an open connection.  There is one length of payload only: that
\* a frame is too large happens in the login instance.
OpenTraffic == {"SCHANNEL_INIT", "SCHANNEL_READY", "LOGIN", "OTHER", "UNKNOWN"}
=============================================================================
