---------------------------- MODULE SubRequests ----------------------------
(***************************************************************************)
(* How a subscriber requests chunks from its remote peers: SubPeer         *)
(* (main/p2p/Peer.cpp), SubP2pMgr (main/p2p/P2pMgr.cpp) and the bookkeeper *)
(* between them.  Threads that run concurrently:                           *)
(*   - per peer, the one that receives notices (SubPeer::available), the   *)
(*     one that receives chunks (SubPeer::hereIs), the requester that      *)
(*     drains requestQueue, and the one that executes the peer and         *)
(*     reports its end (PeerSet::execute, P2pMgr::stopped);                *)
(*   - the multicast receiver, which saves chunks too.                     *)
(*                                                                         *)
(* `mutex' is P2pMgr::Impl::mutex, held across several steps by stopped()  *)
(* and by shouldRequest(SegId); shouldRequest(ProdIndex) and hereIs() do   *)
(* not take it.  PeerSet is reduced to the peers whose entry the reaper    *)
(* has not removed; its own locking is module P2pMgr.                      *)
(*                                                                         *)
(* A callback hands its peer to the manager through the reference          *)
(* SubPeer::peer, "Containing peer" according to its comment.  It is bound *)
(* to the object that Peer's constructor makes, which g++ builds right in  *)
(* the variable `peer' of the accept() loop and which dies at the end of   *)
(* an iteration: from then on the reference denotes whatever the loop      *)
(* builds next.  Elision says which of the two the callbacks hand over.    *)
(***************************************************************************)
EXTENDS SubBookkeeper

CONSTANTS
    Segment,     \* the chunks that are data-segments: they carry a payload
    PubRemote,   \* the peers whose remote node is the publisher
    Elision,     \* SubPeer::peer is the accept() loop's variable?
    NoPeer, NoChunk

ASSUME ChunksAssumption == Segment \subseteq Chunk
ASSUME PeersAssumption == PubRemote \subseteq Peer
ASSUME ElisionAssumption == Elision \in BOOLEAN
ASSUME NoneAssumption == NoPeer \notin Peer /\ NoChunk \notin Chunk

VARIABLES
    exists,       \* chunks for which the repository's exists() is true
    status,       \* progress of PeerSet::execute() for each peer
    done,         \* peers whose Peer::Impl::done is set
    except,       \* peers whose Peer::Impl::exceptPtr is set
    note,         \* notice-receiving thread of each peer
    data,         \* chunk-receiving thread of each peer
    requestQueue, \* SubPeer::requestQueue
    onWire,       \* chunks requested from the remote, not yet answered
    slot,         \* the accept() loop's variable `peer'
    noticed,      \* chunks the remote has announced on this connection
    mutex,        \* peer whose thread holds P2pMgr's mutex, or NoPeer
    todo,         \* stopped(): chunks still to be reassigned
    moving,       \* stopped(): the chunk being reassigned and its new peer
    mgrDone       \* P2pMgr::Impl::done

threadVars == <<status, done, except, note, data>>
netVars == <<requestQueue, onWire, noticed>>
mgrVars == <<mutex, todo, moving, mgrDone>>
vars == <<bkVars, exists, slot, threadVars, netVars, mgrVars>>

-----------------------------------------------------------------------------
(* "accepted": not yet activated; "running": in peer(); "inactive": peer() *)
(* returned, the peer is queued for the reaper; "stopping": in             *)
(* P2pMgr::stopped(); "ended": stopped() returned or threw; "reaped":      *)
(* removed from PeerSet::threads; "failed": peer() threw, which execute()  *)
(* only logs.                                                              *)
Status == {"new", "accepted", "running", "inactive", "stopping", "ended",
           "reaped", "failed"}

Thread(steps) == [at : steps \cup {"idle", "exited"}, chunk : Chunk \cup {NoChunk}]
NoteThread == Thread({"checked", "request"})
DataThread == Thread({"received", "saved"})
Idle == [at |-> "idle", chunk |-> NoChunk]
Exited == [at |-> "exited", chunk |-> NoChunk]
At(step, chunk) == [at |-> step, chunk |-> chunk]
Quiet(thread) == thread.at \in {"idle", "exited"}

Move == [at : {"none", "popped", "queued"}, chunk : Chunk \cup {NoChunk},
         peer : Peer \cup {NoPeer}]
NoMove == [at |-> "none", chunk |-> NoChunk, peer |-> NoPeer]

TypeOK ==
    /\ BookkeeperTypeOK
    /\ exists \subseteq Chunk
    /\ slot \in Peer \cup {NoPeer}
    /\ status \in [Peer -> Status]
    /\ done \subseteq Peer
    /\ except \subseteq Peer
    /\ note \in [Peer -> NoteThread]
    /\ data \in [Peer -> DataThread]
    /\ requestQueue \in [Peer -> Seq(Chunk)]
    /\ onWire \in [Peer -> SUBSET Chunk]
    /\ noticed \in [Peer -> SUBSET Chunk]
    /\ mutex \in Peer \cup {NoPeer}
    /\ todo \subseteq Chunk
    /\ moving \in Move
    /\ mgrDone \in BOOLEAN

Init ==
    /\ BkInit
    /\ exists = {}
    /\ slot = NoPeer
    /\ status = [p \in Peer |-> "new"]
    /\ done = {}
    /\ except = {}
    /\ note = [p \in Peer |-> Idle]
    /\ data = [p \in Peer |-> Idle]
    /\ requestQueue = [p \in Peer |-> <<>>]
    /\ onWire = [p \in Peer |-> {}]
    /\ noticed = [p \in Peer |-> {}]
    /\ mutex = NoPeer
    /\ todo = {}
    /\ moving = NoMove
    /\ mgrDone = FALSE

-----------------------------------------------------------------------------
(* The peer that the callbacks of p's threads name. *)
Self(p) == IF Elision THEN slot ELSE p

(* factory.accept(), in the loop of SubP2pMgr::accept(). *)
Accept(p) ==
    /\ status[p] = "new"
    /\ \A q \in Peer : status[q] # "accepted"
    /\ status' = [status EXCEPT ![p] = "accepted"]
    /\ slot' = p
    /\ UNCHANGED <<bkVars, exists, done, except, note, data, netVars, mgrVars>>

(* P2pMgr::Impl::add(), within maybeAdd(): its bookkeeper entry is made    *)
(* before its threads are started.                                         *)
AddPeer(p) ==
    /\ status[p] = "accepted"
    /\ mutex = NoPeer
    /\ BkAdd(p)
    /\ status' = [status EXCEPT ![p] = "running"]
    /\ UNCHANGED <<exists, slot, done, except, note, data, netVars, mgrVars>>

(* SubPeer::available(): the notice arrives and P2pSub::shouldRequest() is *)
(* asked.  The thread holds the manager's mutex only for a data-segment.   *)
Available(p, c) ==
    /\ status[p] = "running"
    /\ note[p].at = "idle"
    /\ c \notin noticed[p]
    /\ c \in Segment => mutex = NoPeer
    /\ noticed' = [noticed EXCEPT ![p] = @ \cup {c}]
    /\ IF c \in exists
          THEN UNCHANGED <<note, mutex>>
          ELSE /\ note' = [note EXCEPT ![p] = At("checked", c)]
               /\ mutex' = IF c \in Segment THEN p ELSE mutex
    /\ UNCHANGED <<bkVars, exists, slot, status, done, except, data, requestQueue,
                   onWire, todo, moving, mgrDone>>

(* The rest of SubP2pMgr::shouldRequest(): the bookkeeper decides. *)
AskBookkeeper(p) ==
    LET c == note[p].chunk IN
    /\ note[p].at = "checked"
    /\ mutex' = IF c \in Segment THEN NoPeer ELSE mutex
    /\ \/ /\ ShouldRequestThrows(Self(p), c)
          /\ note' = [note EXCEPT ![p] = Exited]
          /\ except' = except \cup {p}
          /\ UNCHANGED bkVars
       \/ /\ ShouldRequestTrue(Self(p), c)
          /\ note' = [note EXCEPT ![p] = At("request", c)]
          /\ UNCHANGED except
       \/ /\ ShouldRequestFalse(Self(p), c)
          /\ note' = [note EXCEPT ![p] = Idle]
          /\ UNCHANGED except
    /\ UNCHANGED <<exists, slot, status, done, data, netVars, todo, moving, mgrDone>>

(* The end of SubPeer::available(): peerProto.request() on this thread. *)
SendRequest(p) ==
    /\ note[p].at = "request"
    /\ onWire' = [onWire EXCEPT ![p] = @ \cup {note[p].chunk}]
    /\ note' = [note EXCEPT ![p] = Idle]
    /\ UNCHANGED <<bkVars, exists, slot, status, done, except, data, requestQueue,
                   noticed, mgrVars>>

(* SubPeer::runRequester(): a request popped once the peer is done is lost. *)
RunRequester(p) ==
    /\ status[p] = "running"
    /\ requestQueue[p] # <<>>
    /\ requestQueue' = [requestQueue EXCEPT ![p] = Tail(@)]
    /\ onWire' = [onWire EXCEPT ![p] =
                     IF p \in done THEN @ ELSE @ \cup {Head(requestQueue[p])}]
    /\ UNCHANGED <<bkVars, exists, slot, threadVars, noticed, mgrVars>>

-----------------------------------------------------------------------------
(* A chunk that hereIs() declines: the payload of a data-segment stays in  *)
(* the socket, where recvChunks() takes it for a message identifier and    *)
(* throws "Invalid message ID".                                            *)
Decline(p, c) ==
    /\ data' = [data EXCEPT ![p] = IF c \in Segment THEN Exited ELSE Idle]
    /\ except' = IF c \in Segment THEN except \cup {p} ELSE except

(* The remote's answer, up to bookkeeper.received() in SubP2pMgr::hereIs(). *)
Receive(p, c) ==
    /\ status[p] = "running"
    /\ data[p].at = "idle"
    /\ c \in onWire[p]
    /\ onWire' = [onWire EXCEPT ![p] = @ \ {c}]
    /\ \/ /\ ReceivedTrue(Self(p), c)
          /\ data' = [data EXCEPT ![p] = At("received", c)]
          /\ UNCHANGED except
       \/ /\ Self(p) \in Known /\ c \notin reqChunks[Self(p)]
          /\ Decline(p, c)
          /\ UNCHANGED bkVars
       \/ /\ Self(p) \notin Known
          /\ data' = [data EXCEPT ![p] = Exited]
          /\ except' = except \cup {p}
          /\ UNCHANGED bkVars
    /\ UNCHANGED <<exists, slot, status, done, note, requestQueue, noticed, mgrVars>>

(* Subscriber::hereIsP2p(): saved unless the chunk is there already.  A    *)
(* data-segment is marked present before its payload is read, so a read    *)
(* that fails leaves the mark.                                             *)
HereIsP2p(p) ==
    LET c == data[p].chunk IN
    /\ data[p].at = "received"
    /\ exists' = exists \cup {c}
    /\ \/ /\ c \in exists
          /\ Decline(p, c)
       \/ /\ c \notin exists
          /\ data' = [data EXCEPT ![p] = At("saved", c)]
          /\ UNCHANGED except
       \/ /\ c \in Segment \ exists
          /\ data' = [data EXCEPT ![p] = Exited]
          /\ except' = except \cup {p}
    /\ UNCHANGED <<bkVars, slot, status, done, note, netVars, mgrVars>>

(* peerSet.notify(chunk, peer): throws at another peer that is done,       *)
(* unless its remote is the publisher, until the reaper has removed it.    *)
NotifyThrows(p) ==
    \E q \in (Peer \ PubRemote) \ {Self(p)} :
        q \in done /\ status[q] # "reaped"

NotifyOthers(p) ==
    /\ data[p].at = "saved"
    /\ data' = [data EXCEPT ![p] = IF NotifyThrows(p) THEN Exited ELSE Idle]
    /\ except' = IF NotifyThrows(p) THEN except \cup {p} ELSE except
    /\ UNCHANGED <<bkVars, exists, slot, status, done, note, netVars, mgrVars>>

(* Subscriber::hereIsMcast(): a chunk arrives by multicast. *)
Multicast(c) ==
    /\ c \notin exists
    /\ exists' = exists \cup {c}
    /\ UNCHANGED <<bkVars, slot, threadVars, netVars, mgrVars>>

-----------------------------------------------------------------------------
(* Peer::Impl::halt(), for a worst peer, and setDone() on a remote's EOF. *)
Halt(p) ==
    /\ status[p] = "running"
    /\ p \notin done
    /\ done' = done \cup {p}
    /\ UNCHANGED <<bkVars, exists, slot, status, except, note, data, netVars, mgrVars>>

(* An I/O error on one of the connection's sockets. *)
ConnectionFails(p) ==
    /\ status[p] = "running"
    /\ p \notin except
    /\ except' = except \cup {p}
    /\ UNCHANGED <<bkVars, exists, slot, status, done, note, data, netVars, mgrVars>>

(* Peer::Impl::operator() stops and joins its threads and closes its       *)
(* queues; it rethrows the exception unless the peer is done, too.         *)
Return(p) ==
    /\ status[p] = "running"
    /\ p \in done \cup except
    /\ Quiet(note[p]) /\ Quiet(data[p])
    /\ status' = [status EXCEPT ![p] = IF p \in done THEN "inactive" ELSE "failed"]
    /\ requestQueue' = [requestQueue EXCEPT ![p] = <<>>]
    /\ onWire' = [onWire EXCEPT ![p] = {}]
    /\ UNCHANGED <<bkVars, exists, slot, done, except, note, data, noticed, mgrVars>>

(* P2pMgr::Impl::stopped(): nothing is done once the manager is halted. *)
Stopped(p) ==
    /\ status[p] = "inactive"
    /\ mutex = NoPeer
    /\ IF mgrDone
          THEN /\ status' = [status EXCEPT ![p] = "ended"]
               /\ UNCHANGED <<mutex, todo>>
          ELSE /\ status' = [status EXCEPT ![p] = "stopping"]
               /\ mutex' = p
               /\ todo' = Requested(p)
    /\ UNCHANGED <<bkVars, exists, slot, done, except, note, data, netVars, moving,
                   mgrDone>>

(* reassignPending(): the next-best peer for one outstanding chunk... *)
PopAlternative(p, c) ==
    /\ status[p] = "stopping"
    /\ moving = NoMove
    /\ c \in todo
    /\ todo' = todo \ {c}
    /\ IF HasAlt(c)
          THEN /\ PopBestAlt(c)
               /\ moving' = [at |-> "popped", chunk |-> c, peer |-> BestAlt(c)]
          ELSE UNCHANGED <<bkVars, moving>>
    /\ UNCHANGED <<exists, slot, threadVars, netVars, mutex, mgrDone>>

(* Mutant: the exception of request() skips the release of the mutex. *)
KeepsMutex(p) ==
    /\ status[p] = "stopping"
    /\ moving.at = "popped"
    /\ IF moving.peer \in done
          THEN /\ status' = [status EXCEPT ![p] = "ended"]
               /\ todo' = {}
               /\ moving' = NoMove
               /\ UNCHANGED requestQueue
          ELSE /\ requestQueue' = [requestQueue EXCEPT ![moving.peer] =
                      IF status[moving.peer] = "running"
                         THEN Append(@, moving.chunk) ELSE @]
               /\ moving' = [moving EXCEPT !.at = "queued"]
               /\ UNCHANGED <<status, todo>>
    /\ UNCHANGED <<bkVars, exists, slot, done, except, note, data, onWire,
                   noticed, mutex, mgrDone>>

(* ... is sent the request through its queue.  SubPeer::request() throws   *)
(* at a peer that is done, which ends stopped() at once; a closed queue    *)
(* ignores the request.                                                    *)
QueueRequest(p) ==
    LET q == moving.peer
        c == moving.chunk
    IN
    /\ status[p] = "stopping"
    /\ moving.at = "popped"
    /\ IF q \in done
          THEN /\ status' = [status EXCEPT ![p] = "ended"]
               /\ mutex' = NoPeer
               /\ todo' = {}
               /\ moving' = NoMove
               /\ UNCHANGED requestQueue
          ELSE /\ requestQueue' = [requestQueue EXCEPT ![q] =
                      IF status[q] = "running" THEN Append(@, c) ELSE @]
               /\ moving' = [moving EXCEPT !.at = "queued"]
               /\ UNCHANGED <<status, mutex, todo>>
    /\ UNCHANGED <<bkVars, exists, slot, done, except, note, data, onWire, noticed,
                   mgrDone>>

(* ... and only then recorded as responsible for the chunk. *)
RecordRequest(p) ==
    /\ status[p] = "stopping"
    /\ moving.at = "queued"
    /\ BkRequested(moving.peer, moving.chunk)
    /\ moving' = NoMove
    /\ UNCHANGED <<exists, slot, threadVars, netVars, mutex, todo, mgrDone>>

(* The end of stopped(). *)
ErasePeer(p) ==
    /\ status[p] = "stopping"
    /\ moving = NoMove
    /\ todo = {}
    /\ BkErase(p)
    /\ status' = [status EXCEPT ![p] = "ended"]
    /\ mutex' = NoPeer
    /\ UNCHANGED <<exists, slot, done, except, note, data, netVars, todo, moving,
                   mgrDone>>

(* PeerSet::reapPeers() joins the execute thread and removes the entry. *)
Reap(p) ==
    /\ status[p] = "ended"
    /\ status' = [status EXCEPT ![p] = "reaped"]
    /\ UNCHANGED <<bkVars, exists, slot, done, except, note, data, netVars, mgrVars>>

(* P2pMgr::Impl::halt() *)
HaltMgr ==
    /\ mutex = NoPeer
    /\ ~mgrDone
    /\ mgrDone' = TRUE
    /\ UNCHANGED <<bkVars, exists, slot, threadVars, netVars, mutex, todo, moving>>

-----------------------------------------------------------------------------
(* The steps of the program's own threads, and those of its environment. *)
ThreadStep(p) ==
    \/ AskBookkeeper(p) \/ SendRequest(p) \/ RunRequester(p)
    \/ HereIsP2p(p) \/ NotifyOthers(p)
    \/ Return(p) \/ Stopped(p)
    \/ \E c \in Chunk : PopAlternative(p, c)
    \/ QueueRequest(p) \/ RecordRequest(p) \/ ErasePeer(p) \/ Reap(p)

Environment ==
    \/ \E p \in Peer :
        \/ Accept(p) \/ AddPeer(p) \/ Halt(p) \/ ConnectionFails(p)
        \/ \E c \in Chunk : Available(p, c) \/ Receive(p, c)
    \/ \E c \in Chunk : Multicast(c)
    \/ HaltMgr

Next == Environment \/ \E p \in Peer : ThreadStep(p)

Spec == Init /\ [][Next]_vars

(* Every thread that can take its next step eventually does; nothing is    *)
(* assumed of remote peers, the network or the improver.                   *)
FairSpec == Spec /\ \A p \in Peer : WF_vars(ThreadStep(p))

-----------------------------------------------------------------------------
(* Chunks that a peer's threads have asked for, or are about to. *)
InFlight(p) ==
    onWire[p] \cup Elems(requestQueue[p])
        \cup {c \in Chunk : note[p].at = "request" /\ note[p].chunk = c}

(* The comment at Bookkeeper.cpp:181-185: a peer that has requested a      *)
(* chunk is not an alternative for it, so a reassignment never picks the   *)
(* peer that is stopping or one that has already asked.                    *)
RequesterIsNoAlternative ==
    \A p \in Peer, c \in Chunk : c \in Requested(p) => p \notin Alternatives(c)

(* The subscriber never has a chunk requested from two remotes at a time:  *)
(* neither through notices racing each other nor through a reassignment    *)
(* (bandwidth would be wasted and the second copy kills its connection).   *)
NoDuplicateRequest ==
    \A p, q \in Peer : p # q => InFlight(p) \cap InFlight(q) = {}

(* Bookkeeper::erase() leaves no trace of a peer, and no thread puts one   *)
(* back: every alternative and every responsible peer is still accounted   *)
(* for, and a stopped peer that was erased is never asked again.           *)
AlternativesAreKnown ==
    /\ \A c \in Chunk : Alternatives(c) \subseteq Known
    /\ \A p \in Peer : status[p] \in {"new", "accepted"} => p \notin Known
    /\ moving.at # "none" => moving.peer \in Known

(* Every request under way is on the bookkeeper's record, except the one   *)
(* that reassignPending() has queued and is about to record: so received() *)
(* accepts the answer.                                                     *)
RequestsAreRecorded ==
    \A p \in Peer : \A c \in InFlight(p) :
        \/ c \in Requested(p)
        \/ moving.at = "queued" /\ moving.chunk = c /\ moving.peer = p

(* Whoever takes the manager's mutex gives it up, whichever way its        *)
(* function ends: other peers' segments can always be asked about.         *)
MutexIsReleased == \A p \in Peer : (mutex = p) ~> (mutex # p)

-----------------------------------------------------------------------------
(* Statements of the repository that the program does not live up to.      *)

(* P2pMgr.cpp:744-748: a request that cannot be reassigned is discarded    *)
(* "in the expectation that one of the other remote peers will,            *)
(* eventually, notify a local peer".  That helps only if the notice leads  *)
(* to a request, that is, if a missing chunk that a peer offers has        *)
(* somebody who asks for it.                                               *)
OfferedChunkIsRequested ==
    \A c \in Chunk \ exists : Alternatives(c) # {} =>
        \/ moving.chunk = c
        \/ \E p \in Peer : c \in Requested(p)

(* Bookkeeper.cpp:166: a peer's reqChunks are "Requested chunks that       *)
(* haven't been received": while its connection is sound, such a chunk is  *)
(* still under way.                                                        *)
RequestedIsNotReceived ==
    \A p \in Peer : status[p] = "running" /\ p \notin done \cup except =>
        Requested(p) \subseteq InFlight(p)

(* P2pMgr.cpp:744-745: "Reassigns a stopped peer's outstanding requests to *)
(* the next-best peers": once the peer is gone, it is responsible for      *)
(* nothing.                                                                *)
StoppedPeerHasNoRequests ==
    \A p \in Peer : status[p] = "reaped" /\ ~mgrDone => Requested(p) = {}

=============================================================================
