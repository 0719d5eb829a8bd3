----------------------------- MODULE MCPeerLink -----------------------------
(* PeerLink for TLC: the connection slots are interchangeable. *)
EXTENDS PeerLink, TLC

ConnSymmetry == Permutations(Conns)
=============================================================================
