-------------------------------- MODULE Ranks --------------------------------
(***************************************************************************)
(* The place of a number among the numbers of a set.  With it properties   *)
(* say that one list answers another in order: what has the k-th place in  *)
(* the one belongs to what has the k-th place in the other.                *)
(***************************************************************************)
EXTENDS Integers, FiniteSets

Rank(S, k) == Cardinality({j \in S : j <= k})
=============================================================================
