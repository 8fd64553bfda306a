---------------------------- MODULE MCNodeQuery -----------------------------
(***************************************************************************)
(* Small instances of NodeQuery: two requests with different replies, so   *)
(* that a late answer may or may not be of the type waited for.            *)
(***************************************************************************)
EXTENDS NodeQuery

TwoRequests == {"GET_CONTRACT_VAR", "GET_SHIELDED_OUTPUTS_AT"}
OneRequest  == {"GET_CONTRACT_VAR"}
ContextNews == {"DEPENDENT_CONTEXT_CHANGED", "BYE"}
KeepAliveAndTip == {"PING", "GET_TIME", "NEW_TIP", "UNKNOWN"}
OnlyPings   == {"PING"}
=============================================================================
