--------------------------- MODULE SubBookkeeper ---------------------------
(***************************************************************************)
(* The subscriber's bookkeeper (main/p2p/Bookkeeper.cpp, class             *)
(* SubBookkeeper::Impl): who has requested which chunk, and who else could *)
(* be asked for it.  Every method runs under the bookkeeper's own mutex,   *)
(* so each one is a single step.  A method that returns a value or throws  *)
(* is an action per outcome; the caller's module picks the outcome whose   *)
(* guard holds.                                                            *)
(*                                                                         *)
(* The count of received chunks that PeerInfo also holds only serves the   *)
(* choice of a worst peer and is modelled in P2pMgr.                       *)
(***************************************************************************)
EXTENDS Lists

CONSTANTS
    Peer,      \* local peers, one per connection with a remote node
    Chunk      \* identifiers of product-informations and data-segments

VARIABLES
    reqChunks, \* peerInfos: known peer -> chunks requested, not yet received
    altPeers   \* chunk -> list of peers that could also request it

bkVars == <<reqChunks, altPeers>>

Known == DOMAIN reqChunks

BookkeeperTypeOK ==
    /\ Known \subseteq Peer
    /\ reqChunks \in [Known -> SUBSET Chunk]
    /\ DOMAIN altPeers \subseteq Chunk
    /\ altPeers \in [DOMAIN altPeers -> Seq(Peer)]

(* The chunks a peer is responsible for: none if it is unknown. *)
Requested(peer) == IF peer \in Known THEN reqChunks[peer] ELSE {}

Alternatives(chunk) ==
    IF chunk \in DOMAIN altPeers THEN Elems(altPeers[chunk]) ELSE {}

BkInit ==
    /\ reqChunks = [p \in {} |-> {}]
    /\ altPeers = [c \in {} |-> <<>>]

(* add(): unordered_map::insert() keeps an entry that is already there. *)
BkAdd(peer) ==
    /\ reqChunks' = [p \in Known \cup {peer} |-> Requested(p)]
    /\ UNCHANGED altPeers

(* shouldRequest(): the three ways it can end. *)
ShouldRequestThrows(peer, chunk) ==
    \/ chunk \in Requested(peer)
    \/ chunk \notin DOMAIN altPeers /\ peer \notin Known

(* Mutant: the empty list of alternatives is not created. *)
NoListCreated(peer, chunk) ==
    /\ chunk \notin DOMAIN altPeers
    /\ ~ShouldRequestThrows(peer, chunk)
    /\ reqChunks' = [reqChunks EXCEPT ![peer] = @ \cup {chunk}]
    /\ UNCHANGED altPeers

(* Mutant: the list is created, the peer's request is not recorded. *)
NotRecorded(peer, chunk) ==
    /\ chunk \notin DOMAIN altPeers
    /\ ~ShouldRequestThrows(peer, chunk)
    /\ altPeers' = [c \in DOMAIN altPeers \cup {chunk} |->
                        IF c = chunk THEN <<>> ELSE altPeers[c]]
    /\ UNCHANGED reqChunks

ShouldRequestTrue(peer, chunk) ==
    /\ chunk \notin DOMAIN altPeers
    /\ ~ShouldRequestThrows(peer, chunk)
    /\ altPeers' = [c \in DOMAIN altPeers \cup {chunk} |->
                        IF c = chunk THEN <<>> ELSE altPeers[c]]
    /\ reqChunks' = [reqChunks EXCEPT ![peer] = @ \cup {chunk}]

ShouldRequestFalse(peer, chunk) ==
    /\ chunk \in DOMAIN altPeers
    /\ ~ShouldRequestThrows(peer, chunk)
    /\ altPeers' = [altPeers EXCEPT ![chunk] = Append(@, peer)]
    /\ UNCHANGED reqChunks

(* received(): throws for an unknown peer, is ignored for a chunk that the *)
(* peer did not request, and otherwise forgets the chunk altogether.       *)
ReceivedTrue(peer, chunk) ==
    /\ peer \in Known
    /\ chunk \in reqChunks[peer]
    /\ reqChunks' = [reqChunks EXCEPT ![peer] = @ \ {chunk}]
    /\ altPeers' = [c \in DOMAIN altPeers \ {chunk} |-> altPeers[c]]

(* popBestAlt(): the alternative that offered the chunk first. *)
HasAlt(chunk) == chunk \in DOMAIN altPeers /\ altPeers[chunk] # <<>>

BestAlt(chunk) == Head(altPeers[chunk])

(* Mutant: front() without pop_front(). *)
FrontOnly(chunk) == UNCHANGED bkVars

PopBestAlt(chunk) ==
    /\ altPeers' = [altPeers EXCEPT ![chunk] = Tail(@)]
    /\ UNCHANGED reqChunks

(* requested(): operator[] creates the entry of an unknown peer. *)
BkRequested(peer, chunk) ==
    /\ reqChunks' = [p \in Known \cup {peer} |->
                        IF p = peer THEN Requested(p) \cup {chunk}
                                    ELSE reqChunks[p]]
    /\ UNCHANGED altPeers

(* Mutant: the lists of alternatives keep the peer. *)
EraseInfoOnly(peer) ==
    /\ reqChunks' = [p \in Known \ {peer} |-> reqChunks[p]]
    /\ UNCHANGED altPeers

(* erase(): the peer is struck from every list, then forgotten. *)
BkErase(peer) ==
    /\ altPeers' = [c \in DOMAIN altPeers |-> Without(altPeers[c], peer)]
    /\ reqChunks' = [p \in Known \ {peer} |-> reqChunks[p]]

=============================================================================
