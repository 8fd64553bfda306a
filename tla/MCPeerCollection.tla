-------------------------- MODULE MCPeerCollection --------------------------
(***************************************************************************)
(* Small instances of PeerCollection: two identities that may advertise    *)
(* the same address, one address that must not be collected.               *)
(***************************************************************************)
EXTENDS PeerCollection

ControlTypes == {"PING", "GET_TIME", "TIME", "NEW_TIP", "BYE"}
OnlyPings    == {"PING"}
=============================================================================
