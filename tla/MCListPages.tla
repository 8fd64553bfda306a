----------------------------- MODULE MCListPages -----------------------------
(***************************************************************************)
(* Small instance of ListPages: enough entries for three pages of one.     *)
(***************************************************************************)
EXTENDS ListPages
=============================================================================
