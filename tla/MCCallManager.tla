---------------------------- MODULE MCCallManager ----------------------------
(* CallManager for TLC: nodes are interchangeable. *)
EXTENDS CallManager, TLC

NodeSymmetry == Permutations(Nodes)
=============================================================================
