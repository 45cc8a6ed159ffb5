---------------------------- MODULE MCApproverDesk ----------------------------
(* ApproverDesk with values for its constants; calls, and items, are alike.   *)
EXTENDS ApproverDesk, TLC

Symmetry == Permutations(Calls) \union Permutations(Items)
=============================================================================
