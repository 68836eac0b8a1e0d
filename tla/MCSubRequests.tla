--------------------------- MODULE MCSubRequests ---------------------------
(* Instances of SubRequests for TLC. *)
EXTENDS SubRequests, TLC

(* The remaining peers and chunks are interchangeable. *)
PeerSymmetry == Permutations(Peer \ PubRemote) \cup Permutations(PubRemote)

(* Without() is what std::list::remove() does: a filter.  *)
ASSUME WithoutIsFilter ==
    \A seq \in UNION {[1..n -> Peer] : n \in 0..3}, p \in Peer :
        Without(seq, p) = SelectSeq(seq, LAMBDA q : q # p)

=============================================================================
