------------------------------ MODULE MCP2pMgr ------------------------------
(* Instances of P2pMgr for TLC. *)
EXTENDS P2pMgr, TLC

(* Peers with and without a path to the publisher are interchangeable      *)
(* among themselves.                                                       *)
PeerSymmetry == Permutations(PathPeers) \cup Permutations(Peer \ PathPeers)

=============================================================================
