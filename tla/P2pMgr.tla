------------------------------- MODULE P2pMgr -------------------------------
(***************************************************************************)
(* The set of active peers and the manager that fills, improves and empties *)
(* it: PeerSet (main/p2p/PeerSet.cpp) and P2pMgr with its publisher and    *)
(* subscriber variants (main/p2p/P2pMgr.cpp).  The threads:                *)
(*   - per peer, PeerSet::execute(), which reports the peer's end;         *)
(*   - the reaper of the peer-set;                                         *)
(*   - the manager's own accept(), connect() and improve().                *)
(*                                                                         *)
(* Two mutexes matter.  The peer-set's is held across steps only by the    *)
(* reaper, while it joins a thread; everything else that takes it is one   *)
(* step that waits until it is free.  The manager's is held by a worker    *)
(* from its lock to its release, and by stopped() for one step: what that  *)
(* function does to the bookkeeper is module SubRequests.                  *)
(*                                                                         *)
(* Which peer is worst depends on counters the bookkeepers keep; here it   *)
(* is any peer they could return.                                          *)
(***************************************************************************)
EXTENDS Lists, Integers

CONSTANTS
    Peer,        \* connections that are accepted or made
    PathPeers,   \* the ones whose remote is a path to the publisher
    MaxPeers,    \* P2pMgr::Impl::maxPeers
    Publisher,   \* PubP2pMgr rather than SubP2pMgr?
    Worker,      \* the manager's threads that are started
    NoPeer

ASSUME MaxPeersAssumption == MaxPeers \in Nat \ {0}
ASSUME PathAssumption == PathPeers \subseteq Peer
ASSUME WorkerAssumption ==
    /\ Worker \subseteq {"accept", "connect", "improve"}
    /\ "improve" \in Worker => MaxPeers > 1        \* startTasks2()
ASSUME ManagerAssumption == Publisher \in BOOLEAN /\ NoPeer \notin Peer

VARIABLES
    known,         \* peers in the bookkeeper
    threads,       \* PeerSet::threads: peers that have an entry
    inactive,      \* PeerSet::inactivePeers
    reaping,       \* peer whose thread the reaper joins, holding the mutex
    reaper,        \* reapPeers() is "on" or has "exited"
    setDone,       \* PeerSet::done
    execute,       \* each peer's PeerSet::execute()
    halted,        \* peers whose Peer::Impl::done is set
    mutex,         \* worker that holds P2pMgr's mutex, or "none"
    worker,        \* each worker's place and the peer it has in hand
    mgrDone,       \* P2pMgr::Impl::done
    taskException, \* P2pMgr::Impl::taskException is set
    operator       \* P2pMgr::Impl::operator(): "waiting" in waitUntilDone(),
                   \* "stopping" the workers, or "returned" (or thrown)

setVars == <<threads, inactive, reaping, reaper, setDone>>
peerVars == <<execute, halted>>
mgrVars == <<known, mutex, worker, mgrDone, taskException, operator>>
vars == <<setVars, peerVars, mgrVars>>

-----------------------------------------------------------------------------
(* "running": in peer(); "returned": it returned; "reporting": the peer is *)
(* queued for the reaper; "ended": stopped() has returned or thrown;       *)
(* "failed": peer() threw, and the thread ended there.                     *)
Execute == {"none", "running", "returned", "reporting", "ended", "failed"}

(* "idle": about to lock the mutex, for connect() in waitToConnect();      *)
(* "waiting": on the condition variable; "connecting": in connect();       *)
(* "offer": has a new peer; "size": holds the mutex and asks for the size  *)
(* of the peer-set; "add": holds it and activates the peer; "failing": has *)
(* caught an exception that ends it.                                       *)
WorkerPlace == {"idle", "waiting", "connecting", "offer", "size", "add", "failing",
                "exited"}
At(place, peer) == [at |-> place, peer |-> peer]
Idle == At("idle", NoPeer)

TypeOK ==
    /\ known \subseteq Peer
    /\ threads \subseteq Peer
    /\ inactive \in Seq(Peer)
    /\ reaping \in Peer \cup {NoPeer}
    /\ reaper \in {"on", "exited"}
    /\ setDone \in BOOLEAN
    /\ execute \in [Peer -> Execute]
    /\ halted \subseteq Peer
    /\ mutex \in Worker \cup {"none"}
    /\ worker \in [Worker -> [at : WorkerPlace, peer : Peer \cup {NoPeer}]]
    /\ mgrDone \in BOOLEAN
    /\ taskException \in BOOLEAN
    /\ operator \in {"waiting", "stopping", "returned"}

Init ==
    /\ known = {}
    /\ threads = {}
    /\ inactive = <<>>
    /\ reaping = NoPeer
    /\ reaper = "on"
    /\ setDone = FALSE
    /\ execute = [p \in Peer |-> "none"]
    /\ halted = {}
    /\ mutex = "none"
    /\ worker = [w \in Worker |-> Idle]
    /\ mgrDone = FALSE
    /\ taskException = FALSE
    /\ operator = "waiting"

(* PeerSet::mutex is free. *)
SetFree == reaping = NoPeer

(* PeerSet::size() *)
Size == Cardinality(threads) - Len(inactive)

(* What becomes of worker w, and of the ones that cond.notify_all() wakes. *)
Wake(w, place) ==
    [v \in Worker |-> IF v = w THEN place
                      ELSE IF worker[v].at = "waiting" THEN Idle ELSE worker[v]]

(* The peers getWorstPeer() and getWorstPeer(isPathToSrc) may return.  The *)
(* subscriber's first form does not insist on having two peers.            *)
Worst == IF Publisher /\ Cardinality(known) < 2 THEN {} ELSE known
WorstLike(p) ==
    IF Cardinality(known) < 2 THEN {}
    ELSE {q \in known : (q \in PathPeers) = (p \in PathPeers)}

(* maybeAdd2(): is there a reason to swap a peer for p in a full set? *)
Wanted(p) ==
    LET path == Cardinality(known \cap PathPeers)
        noPath == Cardinality(known \ PathPeers)
    IN  (path < noPath) = (p \in PathPeers)

(* SubP2pMgr::maybeAdd2(): halts a worst peer to make room for p. *)
Swap(p) ==
    /\ Wanted(p)
    /\ \E q \in WorstLike(p) : halted' = halted \cup {q}

-----------------------------------------------------------------------------
(* waitToConnect(), in connect(). *)
LockToConnect ==
    /\ "connect" \in Worker
    /\ worker["connect"] = Idle
    /\ mutex = "none"
    /\ mutex' = "connect"
    /\ worker' = [worker EXCEPT !["connect"] = At("size", NoPeer)]
    /\ UNCHANGED <<setVars, peerVars, known, mgrDone, taskException, operator>>

WaitToConnect ==
    /\ "connect" \in Worker
    /\ worker["connect"] = At("size", NoPeer)
    /\ SetFree
    /\ mutex' = "none"
    /\ worker' = [worker EXCEPT !["connect"] =
            At(IF Size >= MaxPeers THEN "waiting" ELSE "connecting", NoPeer)]
    /\ UNCHANGED <<setVars, peerVars, known, mgrDone, taskException, operator>>

(* factory.accept() or factory.connect() yields a new peer. *)
NewPeer(w, p) ==
    /\ \/ w = "accept" /\ worker[w].at = "idle"
       \/ w = "connect" /\ worker[w].at = "connecting"
    /\ execute[p] = "none"
    /\ p \notin known
    /\ \A v \in Worker : worker[v].peer # p
    /\ worker' = [worker EXCEPT ![w] = At("offer", p)]
    /\ UNCHANGED <<setVars, peerVars, known, mutex, mgrDone, taskException,
                   operator>>

(* Mutant of LockToAdd: the size is read without the manager's mutex. *)
AddsUnlocked(w) ==
    /\ worker[w].at = "offer"
    /\ worker' = [worker EXCEPT ![w] = At("size", worker[w].peer)]
    /\ UNCHANGED <<setVars, peerVars, known, mutex, mgrDone, taskException,
                   operator>>

(* maybeAdd(): the lock, ... *)
LockToAdd(w) ==
    /\ worker[w].at = "offer"
    /\ mutex = "none"
    /\ mutex' = w
    /\ worker' = [worker EXCEPT ![w] = At("size", worker[w].peer)]
    /\ UNCHANGED <<setVars, peerVars, known, mgrDone, taskException, operator>>

(* ... the decision, maybeAdd2() included, and the bookkeeper's entry, ... *)
MaybeAdd(w) ==
    LET p == worker[w].peer IN
    /\ worker[w].at = "size" /\ p \in Peer
    /\ SetFree
    /\ \/ /\ Size < MaxPeers
          /\ known' = known \cup {p}
          /\ worker' = [worker EXCEPT ![w] = At("add", p)]
          /\ UNCHANGED <<halted, mutex>>
       \/ /\ ~Publisher /\ Size = MaxPeers
          /\ Swap(p)
          /\ known' = known \cup {p}
          /\ worker' = [worker EXCEPT ![w] = At("add", p)]
          /\ UNCHANGED mutex
       \/ /\ \/ Size > MaxPeers
             \/ Size = MaxPeers /\ (Publisher \/ ~Wanted(p) \/ WorstLike(p) = {})
          /\ worker' = [worker EXCEPT ![w] = Idle]
          /\ mutex' = "none"
          /\ UNCHANGED <<known, halted>>
    /\ UNCHANGED <<setVars, execute, mgrDone, taskException, operator>>

(* ... and PeerSet::activate() with resetImprovement(). *)
Activate(w) ==
    LET p == worker[w].peer IN
    /\ worker[w].at = "add"
    /\ SetFree
    /\ threads' = threads \cup {p}
    /\ execute' = [execute EXCEPT ![p] = "running"]
    /\ worker' = Wake(w, Idle)
    /\ mutex' = "none"
    /\ UNCHANGED <<inactive, reaping, reaper, setDone, halted, known, mgrDone,
                   taskException, operator>>

(* ... unless no thread can be made: the entry is erased again, and the    *)
(* exception ends accept() but not connect().                              *)
ActivateFails(w) ==
    LET p == worker[w].peer IN
    /\ worker[w].at = "add"
    /\ SetFree
    /\ known' = known \ {p}
    /\ worker' = [worker EXCEPT ![w] =
            IF w = "accept" THEN At("failing", NoPeer) ELSE Idle]
    /\ mutex' = "none"
    /\ UNCHANGED <<setVars, peerVars, mgrDone, taskException, operator>>

(* improve(): the time may or may not have come. *)
LockToImprove ==
    /\ "improve" \in Worker
    /\ worker["improve"].at \in {"idle", "waiting"}
    /\ mutex = "none"
    /\ mutex' = "improve"
    /\ worker' = [worker EXCEPT !["improve"] = At("size", NoPeer)]
    /\ UNCHANGED <<setVars, peerVars, known, mgrDone, taskException, operator>>

Improve ==
    /\ "improve" \in Worker
    /\ worker["improve"].at = "size"
    /\ SetFree
    /\ mutex' = "none"
    /\ \/ /\ worker' = [worker EXCEPT !["improve"] = At("waiting", NoPeer)]
          /\ UNCHANGED halted
       \/ /\ Size >= MaxPeers
          /\ \E q \in Worst : halted' = halted \cup {q}
          /\ worker' = Wake("improve", At("waiting", NoPeer))
    /\ UNCHANGED <<setVars, execute, known, mgrDone, taskException, operator>>

-----------------------------------------------------------------------------
(* A remote closes its connection: Peer::Impl::setDone(). *)
RemoteCloses(p) ==
    /\ execute[p] = "running"
    /\ p \notin halted
    /\ halted' = halted \cup {p}
    /\ UNCHANGED <<setVars, execute, mgrVars>>

(* execute(): peer() returns, ... *)
PeerReturns(p) ==
    /\ execute[p] = "running"
    /\ p \in halted
    /\ execute' = [execute EXCEPT ![p] = "returned"]
    /\ UNCHANGED <<setVars, halted, mgrVars>>

(* Mutant of PeerThrows: a peer that throws is forgotten at once. *)
ErasedWhenThrown(p) ==
    /\ execute[p] = "running"
    /\ p \notin halted
    /\ execute' = [execute EXCEPT ![p] = "failed"]
    /\ known' = known \ {p}
    /\ UNCHANGED <<setVars, halted, mutex, worker, mgrDone, taskException,
                   operator>>

(* ... or throws, which is logged and nothing else. *)
PeerThrows(p) ==
    /\ execute[p] = "running"
    /\ p \notin halted
    /\ execute' = [execute EXCEPT ![p] = "failed"]
    /\ UNCHANGED <<setVars, halted, mgrVars>>

(* The peer is queued for the reaper, ... *)
PushInactive(p) ==
    /\ execute[p] = "returned"
    /\ SetFree
    /\ inactive' = Append(inactive, p)
    /\ execute' = [execute EXCEPT ![p] = "reporting"]
    /\ UNCHANGED <<threads, reaping, reaper, setDone, halted, mgrVars>>

(* ... and reported to P2pMgr::Impl::stopped(), which wakes the connector. *)
Stopped(p) ==
    /\ execute[p] = "reporting"
    /\ mutex = "none"
    /\ known' = IF mgrDone THEN known ELSE known \ {p}
    /\ worker' = IF mgrDone THEN worker ELSE Wake("none", Idle)
    /\ execute' = [execute EXCEPT ![p] = "ended"]
    /\ UNCHANGED <<setVars, halted, mutex, mgrDone, taskException, operator>>

(* SubP2pMgr::stopped2() throws at an alternative peer that is done. *)
StoppedThrows(p) ==
    /\ ~Publisher /\ ~mgrDone
    /\ execute[p] = "reporting"
    /\ mutex = "none"
    /\ (known \ {p}) \cap halted # {}
    /\ execute' = [execute EXCEPT ![p] = "ended"]
    /\ UNCHANGED <<setVars, halted, mgrVars>>

(* reapPeers() *)
JoinPeer ==
    /\ reaper = "on"
    /\ reaping = NoPeer
    /\ inactive # <<>>
    /\ reaping' = Head(inactive)
    /\ UNCHANGED <<threads, inactive, reaper, setDone, peerVars, mgrVars>>

(* Mutant of Reap: the peer stays at the front of the queue. *)
ReapsWithoutPop ==
    /\ reaping # NoPeer
    /\ execute[reaping] = "ended"
    /\ threads' = threads \ {reaping}
    /\ reaping' = NoPeer
    /\ UNCHANGED <<inactive, reaper, setDone, peerVars, mgrVars>>

Reap ==
    /\ reaping # NoPeer
    /\ execute[reaping] = "ended"
    /\ threads' = threads \ {reaping}
    /\ inactive' = Tail(inactive)
    /\ reaping' = NoPeer
    /\ UNCHANGED <<reaper, setDone, peerVars, mgrVars>>

ReaperExits ==
    /\ reaper = "on" /\ setDone /\ SetFree
    /\ threads = {} /\ inactive = <<>>
    /\ reaper' = "exited"
    /\ UNCHANGED <<threads, inactive, reaping, setDone, peerVars, mgrVars>>

-----------------------------------------------------------------------------
(* halt() *)
HaltMgr ==
    /\ ~mgrDone
    /\ mutex = "none"
    /\ mgrDone' = TRUE
    /\ worker' = Wake("none", Idle)
    /\ UNCHANGED <<setVars, peerVars, known, mutex, taskException, operator>>

(* factory.accept() throws, or connect() meets an error it does not absorb. *)
WorkerThrows(w) ==
    /\ \/ w = "accept" /\ worker[w].at = "idle"
       \/ w = "connect" /\ worker[w].at = "connecting"
    /\ worker' = [worker EXCEPT ![w] = At("failing", NoPeer)]
    /\ UNCHANGED <<setVars, peerVars, known, mutex, mgrDone, taskException,
                   operator>>

(* The server is unreachable or refuses: connect() will try another one. *)
ConnectFails ==
    /\ "connect" \in Worker
    /\ worker["connect"].at = "connecting"
    /\ worker' = [worker EXCEPT !["connect"] = Idle]
    /\ UNCHANGED <<setVars, peerVars, known, mutex, mgrDone, taskException,
                   operator>>

(* setException(), at the end of accept() and of connect(). *)
SetException(w) ==
    /\ worker[w].at = "failing"
    /\ mutex = "none"
    /\ taskException' = TRUE
    /\ worker' = IF taskException
                 THEN [worker EXCEPT ![w] = At("exited", NoPeer)]
                 ELSE Wake(w, At("exited", NoPeer))
    /\ UNCHANGED <<setVars, peerVars, known, mutex, mgrDone, operator>>

(* operator(): waitUntilDone() ends, ... *)
StopTasks ==
    /\ operator = "waiting"
    /\ mgrDone \/ taskException
    /\ mutex = "none"
    /\ operator' = "stopping"
    /\ UNCHANGED <<setVars, peerVars, known, mutex, worker, mgrDone,
                   taskException>>

(* ... stopTasks() cancels and joins the improver and then the connector,  *)
(* at their next cancellation point, closes the factory and joins          *)
(* accept().  A thread canceled in a wait gets the mutex back first.       *)
WorkerStops(w) ==
    /\ operator = "stopping"
    /\ \/ worker[w].at = "waiting" /\ mutex = "none"
       \/ worker[w].at = "connecting"
       \/ w = "accept" /\ worker[w].at = "idle"
    /\ w = "connect" => \A v \in Worker \cap {"improve"} : worker[v].at = "exited"
    /\ w = "accept" => \A v \in Worker \ {w} : worker[v].at = "exited"
    /\ worker' = [worker EXCEPT ![w] = At("exited", NoPeer)]
    /\ UNCHANGED <<setVars, peerVars, known, mutex, mgrDone, taskException,
                   operator>>

OperatorReturns ==
    /\ operator = "stopping"
    /\ \A w \in Worker : worker[w].at = "exited"
    /\ operator' = "returned"
    /\ UNCHANGED <<setVars, peerVars, known, mutex, worker, mgrDone,
                   taskException>>

(* Mutant of Destroy: the active peers are not halted. *)
DestroysRunningPeers ==
    /\ operator = "returned" /\ mgrDone
    /\ ~setDone
    /\ SetFree
    /\ setDone' = TRUE
    /\ UNCHANGED <<threads, inactive, reaping, reaper, peerVars, mgrVars>>

(* PeerSet::~Impl(), up to the join of the reaper.  The manager is only    *)
(* destroyed once it has been halted (Node::Impl::stopP2pMgr()).           *)
Destroy ==
    /\ operator = "returned" /\ mgrDone
    /\ ~setDone
    /\ SetFree
    /\ setDone' = TRUE
    /\ halted' = halted \cup threads
    /\ UNCHANGED <<threads, inactive, reaping, reaper, execute, mgrVars>>

-----------------------------------------------------------------------------
WorkerStep(w) ==
    \/ LockToAdd(w) \/ MaybeAdd(w) \/ Activate(w) \/ ActivateFails(w)
    \/ SetException(w)
    \/ w = "connect" /\ (LockToConnect \/ WaitToConnect)
    \/ w = "improve" /\ (LockToImprove \/ Improve)

PeerStep(p) == PeerReturns(p) \/ PushInactive(p) \/ Stopped(p) \/ StoppedThrows(p)

ReaperStep == JoinPeer \/ Reap \/ ReaperExits

Environment ==
    \/ \E p \in Peer : RemoteCloses(p) \/ PeerThrows(p)
    \/ \E w \in Worker : WorkerThrows(w) \/ \E p \in Peer : NewPeer(w, p)
    \/ ConnectFails \/ HaltMgr

Next ==
    \/ Environment
    \/ \E w \in Worker : WorkerStep(w) \/ WorkerStops(w)
    \/ \E p \in Peer : PeerStep(p)
    \/ ReaperStep \/ StopTasks \/ OperatorReturns \/ Destroy

Spec == Init /\ [][Next]_vars

(* A thread that can run eventually does; a mutex that is free again and   *)
(* again is eventually acquired; a wait with a time limit ends.  Nothing   *)
(* is assumed of remotes or of whoever calls halt().                       *)
FairSpec ==
    /\ Spec
    /\ \A w \in Worker : SF_vars(WorkerStep(w)) /\ SF_vars(WorkerStops(w))
    /\ \A p \in Peer : SF_vars(PeerStep(p))
    /\ SF_vars(ReaperStep) /\ SF_vars(StopTasks)
    /\ WF_vars(OperatorReturns) /\ SF_vars(Destroy)

-----------------------------------------------------------------------------
(* The assertion in reapPeers(), and what keeps the unsigned difference in *)
(* size() from wrapping around: every peer that waits for the reaper has   *)
(* an entry of its own.                                                    *)
InactivePeersHaveThreads ==
    /\ Elems(inactive) \subseteq threads
    /\ Distinct(inactive)
    /\ reaping # NoPeer => inactive # <<>> /\ reaping = Head(inactive)

(* Two threads that add peers and one that swaps them never let the set    *)
(* grow beyond one more than maxPeers (maybeAdd(), maybeAdd2()).           *)
AtMostOneOver == Size =< MaxPeers + 1

(* Every peer that size() counts is in the bookkeeper, so that a full set  *)
(* has a worst peer: improve() does not spin with the mutex held.          *)
ActivePeersAreKnown == threads \ Elems(inactive) \subseteq known

(* ~PeerSet() returns: once the manager's threads have ended and every     *)
(* active peer is halted, each one reports its end, is joined and makes    *)
(* room, until the reaper has nobody left to wait for.  (A peer that threw *)
(* is never queued for it: see FailedPeerIsReported.)                      *)
DestroyedSetIsReaped ==
    setDone ~> (reaper = "exited" \/ \E p \in threads : execute[p] = "failed")

-----------------------------------------------------------------------------
(* Statements of the repository that the program does not live up to.      *)

(* PeerSet.h: the observer is "notified if and when a peer stops due to    *)
(* throwing an exception": a peer that failed is not in the bookkeeper for *)
(* ever.                                                                   *)
FailedPeerIsReported ==
    \A p \in Peer : (execute[p] = "failed") ~> (p \notin known \/ mgrDone)

(* P2pMgr.h:163-167: operator() "Returns if `halt()` is called". *)
HaltEndsExecution == mgrDone ~> (operator = "returned")

(* waitToConnect() "Waits until conditions are ripe for connecting": when  *)
(* they are, that is, there is room, nobody is left asleep without a       *)
(* report under way that will wake it.                                     *)
ConnectorIsWoken ==
    \A w \in Worker \cap {"connect"} :
        worker[w].at = "waiting" /\ Size < MaxPeers =>
            mgrDone \/ \E p \in Peer : execute[p] = "reporting"

(* P2pMgr.cpp:198-206: a new peer with a path replaces the "worst peer     *)
(* that doesn't have a path to the source", and vice versa.                *)
SwapBalancesPaths ==
    [][\A w \in Worker, q \in Peer :
         worker[w].at = "size" /\ worker'[w].at = "add" /\ q \in halted' \ halted
            => (q \in PathPeers) # (worker[w].peer \in PathPeers)]_vars

=============================================================================
