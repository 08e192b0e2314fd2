----------------------------- MODULE MCNodeRing -----------------------------
(* RingChanges on four members that are alike.                             *)
EXTENDS RingChanges, TLC

Sym == Permutations(M)
=============================================================================
