---------------------------- MODULE MCRemoteShell ----------------------------
(* RemoteShell for TLC: nodes are interchangeable. *)
EXTENDS RemoteShell, TLC

NodeSymmetry == Permutations(Nodes)
=============================================================================
