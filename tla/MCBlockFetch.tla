---------------------------- MODULE MCBlockFetch ----------------------------
(***************************************************************************)
(* Small instances of BlockFetch: two competing blocks at each height, so  *)
(* that a reorganisation can replace one block or two.                     *)
(***************************************************************************)
EXTENDS BlockFetch

TwoForks == {0, 1}

\* No competing blocks: the chain only grows, or is cut back.
OneFork  == {0}
=============================================================================
