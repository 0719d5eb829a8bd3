--------------------------- MODULE MCGroupManager ---------------------------
(* GroupManager for TLC: groups are interchangeable, and so are messages. *)
EXTENDS GroupManager, TLC

GroupSymmetry == Permutations(Groups) \cup Permutations(Messages)
=============================================================================
