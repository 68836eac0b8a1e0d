---------------------------- MODULE P2pMgrProofs ----------------------------
(***************************************************************************)
(* Proofs about P2pMgr, for any peers, any limit and any of the manager's  *)
(* threads.  That a new peer never makes the set too large rests on the    *)
(* manager's mutex being held from size() to activate(); that every        *)
(* inactive peer has a thread, and every active peer an entry in the       *)
(* bookkeeper, rests on where execute() is for each peer.                  *)
(***************************************************************************)
EXTENDS P2pMgr, ListsProofs

(* A worker between size() and activate(), and nobody else, holds the      *)
(* manager's mutex.                                                        *)
LockInv == \A w \in Worker : worker[w].at \in {"size", "add"} <=> mutex = w

(* A peer in a worker's hands is new, is in the hands of no other worker   *)
(* and enters the bookkeeper just before it is activated.                  *)
HandInv ==
    /\ \A w \in Worker :
        /\ worker[w].at \notin {"offer", "size", "add"} => worker[w].peer = NoPeer
        /\ worker[w].at \in {"offer", "add"} => worker[w].peer \in Peer
        /\ worker[w].peer \in Peer =>
              /\ execute[worker[w].peer] = "none"
              /\ worker[w].peer \in known <=> worker[w].at = "add"
    /\ \A w, v \in Worker :
          worker[w].peer \in Peer /\ worker[w].peer = worker[v].peer => w = v

(* The life of a peer: an entry in the map of threads and one in the       *)
(* bookkeeper while it is active, then a place in the reaper's queue.      *)
LifeInv ==
    \A p \in Peer :
        /\ execute[p] = "none" => p \notin threads
        /\ execute[p] \in {"running", "returned", "failed"} =>
              p \in threads /\ p \in known /\ p \notin Elems(inactive)
        /\ execute[p] = "reporting" => p \in Elems(inactive)
        /\ p \in Elems(inactive) =>
              p \in threads /\ execute[p] \in {"reporting", "ended"}
        /\ p \in threads /\ execute[p] = "ended" => p \in Elems(inactive)

(* The reaper's queue, and the peer at its head while it is being joined. *)
QueueInv ==
    /\ Distinct(inactive)
    /\ reaping # NoPeer => inactive # <<>> /\ reaping = Head(inactive)

(* Whoever is about to activate a peer has seen room for it, or halted     *)
(* another one.                                                            *)
SizeInv ==
    /\ IsFiniteSet(threads) /\ IsFiniteSet(known)
    /\ Size =< MaxPeers + 1
    /\ \A w \in Worker : worker[w].at = "add" => Size =< MaxPeers

IInv == TypeOK /\ LockInv /\ HandInv /\ LifeInv /\ QueueInv /\ SizeInv

-----------------------------------------------------------------------------
(* Every step keeps the types: the reaper only pops a queue that is not    *)
(* empty.                                                                  *)
LEMMA TypeOKStep == IInv /\ [Next]_vars => TypeOK'
<1> SUFFICES ASSUME IInv, [Next]_vars PROVE TypeOK'
  OBVIOUS
<1>0. CASE UNCHANGED vars
  BY <1>0
   DEF IInv, TypeOK, At, Idle, WorkerPlace, Execute, vars, setVars, peerVars,
        mgrVars
<1>1. ASSUME NEW p \in Peer, RemoteCloses(p) PROVE TypeOK'
  BY <1>1, WorkerAssumption, ManagerAssumption
   DEF IInv, TypeOK, At, Idle, WorkerPlace, Execute, RemoteCloses, setVars,
        peerVars, mgrVars
<1>2. ASSUME NEW p \in Peer, PeerThrows(p) PROVE TypeOK'
  BY <1>2, WorkerAssumption, ManagerAssumption
   DEF IInv, TypeOK, At, Idle, WorkerPlace, Execute, PeerThrows, setVars,
        peerVars, mgrVars
<1>3. ASSUME NEW w \in Worker, WorkerThrows(w) PROVE TypeOK'
  BY <1>3, WorkerAssumption, ManagerAssumption
   DEF IInv, TypeOK, At, Idle, WorkerPlace, Execute, WorkerThrows, setVars,
        peerVars, mgrVars
<1>4. ASSUME NEW w \in Worker, NEW p \in Peer, NewPeer(w, p) PROVE TypeOK'
  BY <1>4, WorkerAssumption, ManagerAssumption
   DEF IInv, TypeOK, At, Idle, WorkerPlace, Execute, NewPeer, setVars,
        peerVars, mgrVars
<1>5. ASSUME ConnectFails PROVE TypeOK'
  BY <1>5, WorkerAssumption, ManagerAssumption
   DEF IInv, TypeOK, At, Idle, WorkerPlace, Execute, ConnectFails, setVars,
        peerVars, mgrVars
<1>6. ASSUME HaltMgr PROVE TypeOK'
  BY <1>6, WorkerAssumption, ManagerAssumption
   DEF IInv, TypeOK, At, Idle, WorkerPlace, Execute, HaltMgr, Wake, setVars,
        peerVars, mgrVars
<1>7. ASSUME NEW w \in Worker, LockToAdd(w) PROVE TypeOK'
  BY <1>7, WorkerAssumption, ManagerAssumption
   DEF IInv, TypeOK, At, Idle, WorkerPlace, Execute, LockToAdd, setVars,
        peerVars, mgrVars
<1>8. ASSUME NEW w \in Worker, MaybeAdd(w) PROVE TypeOK'
  <2>1. worker[w].peer \in Peer
    BY <1>8 DEF MaybeAdd
  <2>2. known' \subseteq Peer /\ halted' \subseteq Peer
    BY <1>8, <2>1 DEF IInv, TypeOK, MaybeAdd, Swap, WorstLike
  <2>3. mutex' \in Worker \cup {"none"}
    BY <1>8 DEF IInv, TypeOK, MaybeAdd
  <2>4. worker' \in [Worker -> [at : WorkerPlace, peer : Peer \cup {NoPeer}]]
    BY <1>8, <2>1 DEF IInv, TypeOK, MaybeAdd, At, Idle, WorkerPlace
  <2>5. QED
    BY <1>8, <2>2, <2>3, <2>4 DEF IInv, TypeOK, MaybeAdd, setVars
<1>9. ASSUME NEW w \in Worker, Activate(w) PROVE TypeOK'
  <2>1. worker[w].peer \in Peer
    BY <1>9 DEF IInv, HandInv, Activate
  <2>2. threads' \subseteq Peer /\ execute' \in [Peer -> Execute]
    BY <1>9, <2>1 DEF IInv, TypeOK, Activate, Execute
  <2>3. worker' \in [Worker -> [at : WorkerPlace, peer : Peer \cup {NoPeer}]]
    BY <1>9 DEF IInv, TypeOK, Activate, Wake, At, Idle, WorkerPlace
  <2>4. QED
    BY <1>9, <2>2, <2>3 DEF IInv, TypeOK, Activate
<1>10. ASSUME NEW w \in Worker, ActivateFails(w) PROVE TypeOK'
  BY <1>10, WorkerAssumption, ManagerAssumption
   DEF IInv, TypeOK, At, Idle, WorkerPlace, Execute, ActivateFails, setVars,
        peerVars, mgrVars
<1>11. ASSUME NEW w \in Worker, SetException(w) PROVE TypeOK'
  BY <1>11, WorkerAssumption, ManagerAssumption
   DEF IInv, TypeOK, At, Idle, WorkerPlace, Execute, SetException, Wake,
        setVars, peerVars, mgrVars
<1>12. ASSUME LockToConnect PROVE TypeOK'
  BY <1>12, WorkerAssumption, ManagerAssumption
   DEF IInv, TypeOK, At, Idle, WorkerPlace, Execute, LockToConnect, setVars,
        peerVars, mgrVars
<1>13. ASSUME WaitToConnect PROVE TypeOK'
  BY <1>13, WorkerAssumption, ManagerAssumption
   DEF IInv, TypeOK, At, Idle, WorkerPlace, Execute, WaitToConnect, setVars,
        peerVars, mgrVars
<1>14. ASSUME LockToImprove PROVE TypeOK'
  BY <1>14, WorkerAssumption, ManagerAssumption
   DEF IInv, TypeOK, At, Idle, WorkerPlace, Execute, LockToImprove, setVars,
        peerVars, mgrVars
<1>15. ASSUME Improve PROVE TypeOK'
  BY <1>15, WorkerAssumption, ManagerAssumption
   DEF IInv, TypeOK, At, Idle, WorkerPlace, Execute, Improve, Wake, Worst,
        setVars, peerVars, mgrVars
<1>16. ASSUME NEW w \in Worker, WorkerStops(w) PROVE TypeOK'
  BY <1>16, WorkerAssumption, ManagerAssumption
   DEF IInv, TypeOK, At, Idle, WorkerPlace, Execute, WorkerStops, setVars,
        peerVars, mgrVars
<1>17. ASSUME NEW p \in Peer, PeerReturns(p) PROVE TypeOK'
  BY <1>17, WorkerAssumption, ManagerAssumption
   DEF IInv, TypeOK, At, Idle, WorkerPlace, Execute, PeerReturns, setVars,
        peerVars, mgrVars
<1>18. ASSUME NEW p \in Peer, PushInactive(p) PROVE TypeOK'
  BY <1>18, WorkerAssumption, ManagerAssumption
   DEF IInv, TypeOK, At, Idle, WorkerPlace, Execute, PushInactive, setVars,
        peerVars, mgrVars
<1>19. ASSUME NEW p \in Peer, Stopped(p) PROVE TypeOK'
  BY <1>19, WorkerAssumption, ManagerAssumption
   DEF IInv, TypeOK, At, Idle, WorkerPlace, Execute, Stopped, Wake, setVars,
        peerVars, mgrVars
<1>20. ASSUME NEW p \in Peer, StoppedThrows(p) PROVE TypeOK'
  BY <1>20, WorkerAssumption, ManagerAssumption
   DEF IInv, TypeOK, At, Idle, WorkerPlace, Execute, StoppedThrows, setVars,
        peerVars, mgrVars
<1>21. ASSUME JoinPeer PROVE TypeOK'
  BY <1>21, WorkerAssumption, ManagerAssumption
   DEF IInv, TypeOK, At, Idle, WorkerPlace, Execute, JoinPeer, setVars,
        peerVars, mgrVars
<1>22. ASSUME Reap PROVE TypeOK'
  <2>1. inactive \in Seq(Peer) /\ inactive # <<>>
    BY <1>22 DEF IInv, TypeOK, QueueInv, Reap
  <2>2. Tail(inactive) \in Seq(Peer)
    BY <2>1, HeadTailElems
  <2>3. QED
    BY <1>22, <2>2 DEF IInv, TypeOK, Reap, peerVars, mgrVars
<1>23. ASSUME ReaperExits PROVE TypeOK'
  BY <1>23, WorkerAssumption, ManagerAssumption
   DEF IInv, TypeOK, At, Idle, WorkerPlace, Execute, ReaperExits, setVars,
        peerVars, mgrVars
<1>24. ASSUME StopTasks PROVE TypeOK'
  BY <1>24, WorkerAssumption, ManagerAssumption
   DEF IInv, TypeOK, At, Idle, WorkerPlace, Execute, StopTasks, setVars,
        peerVars, mgrVars
<1>25. ASSUME OperatorReturns PROVE TypeOK'
  BY <1>25, WorkerAssumption, ManagerAssumption
   DEF IInv, TypeOK, At, Idle, WorkerPlace, Execute, OperatorReturns, setVars,
        peerVars, mgrVars
<1>26. ASSUME Destroy PROVE TypeOK'
  BY <1>26, WorkerAssumption, ManagerAssumption
   DEF IInv, TypeOK, At, Idle, WorkerPlace, Execute, Destroy, setVars,
        peerVars, mgrVars
<1>q. QED
  BY <1>0, <1>1, <1>2, <1>3, <1>4, <1>5, <1>6, <1>7, <1>8, <1>9, <1>10, <1>11,
      <1>12, <1>13, <1>14, <1>15, <1>16, <1>17, <1>18, <1>19, <1>20, <1>21,
      <1>22, <1>23, <1>24, <1>25, <1>26
  DEF Next, Environment, WorkerStep, PeerStep, ReaperStep

(* Every step takes and releases the manager's mutex in pairs.             *)
LEMMA LockInvStep == IInv /\ [Next]_vars => LockInv'
<1> SUFFICES ASSUME IInv, [Next]_vars PROVE LockInv'
  OBVIOUS
<1>0. CASE UNCHANGED vars
  BY <1>0
   DEF IInv, LockInv, TypeOK, At, Idle, WorkerPlace, vars, setVars, peerVars,
        mgrVars
<1>1. ASSUME NEW p \in Peer, RemoteCloses(p) PROVE LockInv'
  BY <1>1, WorkerAssumption, ManagerAssumption
   DEF IInv, LockInv, TypeOK, At, Idle, WorkerPlace, RemoteCloses, setVars,
        peerVars, mgrVars
<1>2. ASSUME NEW p \in Peer, PeerThrows(p) PROVE LockInv'
  BY <1>2, WorkerAssumption, ManagerAssumption
   DEF IInv, LockInv, TypeOK, At, Idle, WorkerPlace, PeerThrows, setVars,
        peerVars, mgrVars
<1>3. ASSUME NEW w \in Worker, WorkerThrows(w) PROVE LockInv'
  BY <1>3, WorkerAssumption, ManagerAssumption
   DEF IInv, LockInv, TypeOK, At, Idle, WorkerPlace, WorkerThrows, setVars,
        peerVars, mgrVars
<1>4. ASSUME NEW w \in Worker, NEW p \in Peer, NewPeer(w, p) PROVE LockInv'
  BY <1>4, WorkerAssumption, ManagerAssumption
   DEF IInv, LockInv, TypeOK, At, Idle, WorkerPlace, NewPeer, setVars,
        peerVars, mgrVars
<1>5. ASSUME ConnectFails PROVE LockInv'
  BY <1>5, WorkerAssumption, ManagerAssumption
   DEF IInv, LockInv, TypeOK, At, Idle, WorkerPlace, ConnectFails, setVars,
        peerVars, mgrVars
<1>6. ASSUME HaltMgr PROVE LockInv'
  BY <1>6, WorkerAssumption, ManagerAssumption
   DEF IInv, LockInv, TypeOK, At, Idle, WorkerPlace, HaltMgr, Wake, setVars,
        peerVars, mgrVars
<1>7. ASSUME NEW w \in Worker, LockToAdd(w) PROVE LockInv'
  BY <1>7, WorkerAssumption, ManagerAssumption
   DEF IInv, LockInv, TypeOK, At, Idle, WorkerPlace, LockToAdd, setVars,
        peerVars, mgrVars
<1>8. ASSUME NEW w \in Worker, MaybeAdd(w) PROVE LockInv'
  BY <1>8, WorkerAssumption, ManagerAssumption
   DEF IInv, LockInv, TypeOK, At, Idle, WorkerPlace, MaybeAdd, Swap, setVars,
        peerVars, mgrVars
<1>9. ASSUME NEW w \in Worker, Activate(w) PROVE LockInv'
  BY <1>9, WorkerAssumption, ManagerAssumption
   DEF IInv, LockInv, TypeOK, At, Idle, WorkerPlace, Activate, Wake, setVars,
        peerVars, mgrVars
<1>10. ASSUME NEW w \in Worker, ActivateFails(w) PROVE LockInv'
  BY <1>10, WorkerAssumption, ManagerAssumption
   DEF IInv, LockInv, TypeOK, At, Idle, WorkerPlace, ActivateFails, setVars,
        peerVars, mgrVars
<1>11. ASSUME NEW w \in Worker, SetException(w) PROVE LockInv'
  BY <1>11, WorkerAssumption, ManagerAssumption
   DEF IInv, LockInv, TypeOK, At, Idle, WorkerPlace, SetException, Wake,
        setVars, peerVars, mgrVars
<1>12. ASSUME LockToConnect PROVE LockInv'
  BY <1>12, WorkerAssumption, ManagerAssumption
   DEF IInv, LockInv, TypeOK, At, Idle, WorkerPlace, LockToConnect, setVars,
        peerVars, mgrVars
<1>13. ASSUME WaitToConnect PROVE LockInv'
  BY <1>13, WorkerAssumption, ManagerAssumption
   DEF IInv, LockInv, TypeOK, At, Idle, WorkerPlace, WaitToConnect, setVars,
        peerVars, mgrVars
<1>14. ASSUME LockToImprove PROVE LockInv'
  BY <1>14, WorkerAssumption, ManagerAssumption
   DEF IInv, LockInv, TypeOK, At, Idle, WorkerPlace, LockToImprove, setVars,
        peerVars, mgrVars
<1>15. ASSUME Improve PROVE LockInv'
  BY <1>15, WorkerAssumption, ManagerAssumption
   DEF IInv, LockInv, TypeOK, At, Idle, WorkerPlace, Improve, Wake, Worst,
        setVars, peerVars, mgrVars
<1>16. ASSUME NEW w \in Worker, WorkerStops(w) PROVE LockInv'
  BY <1>16, WorkerAssumption, ManagerAssumption
   DEF IInv, LockInv, TypeOK, At, Idle, WorkerPlace, WorkerStops, setVars,
        peerVars, mgrVars
<1>17. ASSUME NEW p \in Peer, PeerReturns(p) PROVE LockInv'
  BY <1>17, WorkerAssumption, ManagerAssumption
   DEF IInv, LockInv, TypeOK, At, Idle, WorkerPlace, PeerReturns, setVars,
        peerVars, mgrVars
<1>18. ASSUME NEW p \in Peer, PushInactive(p) PROVE LockInv'
  BY <1>18, WorkerAssumption, ManagerAssumption
   DEF IInv, LockInv, TypeOK, At, Idle, WorkerPlace, PushInactive, setVars,
        peerVars, mgrVars
<1>19. ASSUME NEW p \in Peer, Stopped(p) PROVE LockInv'
  BY <1>19, WorkerAssumption, ManagerAssumption
   DEF IInv, LockInv, TypeOK, At, Idle, WorkerPlace, Stopped, Wake, setVars,
        peerVars, mgrVars
<1>20. ASSUME NEW p \in Peer, StoppedThrows(p) PROVE LockInv'
  BY <1>20, WorkerAssumption, ManagerAssumption
   DEF IInv, LockInv, TypeOK, At, Idle, WorkerPlace, StoppedThrows, setVars,
        peerVars, mgrVars
<1>21. ASSUME JoinPeer PROVE LockInv'
  BY <1>21, WorkerAssumption, ManagerAssumption
   DEF IInv, LockInv, TypeOK, At, Idle, WorkerPlace, JoinPeer, setVars,
        peerVars, mgrVars
<1>22. ASSUME Reap PROVE LockInv'
  BY <1>22, WorkerAssumption, ManagerAssumption
   DEF IInv, LockInv, TypeOK, At, Idle, WorkerPlace, Reap, setVars, peerVars,
        mgrVars
<1>23. ASSUME ReaperExits PROVE LockInv'
  BY <1>23, WorkerAssumption, ManagerAssumption
   DEF IInv, LockInv, TypeOK, At, Idle, WorkerPlace, ReaperExits, setVars,
        peerVars, mgrVars
<1>24. ASSUME StopTasks PROVE LockInv'
  BY <1>24, WorkerAssumption, ManagerAssumption
   DEF IInv, LockInv, TypeOK, At, Idle, WorkerPlace, StopTasks, setVars,
        peerVars, mgrVars
<1>25. ASSUME OperatorReturns PROVE LockInv'
  BY <1>25, WorkerAssumption, ManagerAssumption
   DEF IInv, LockInv, TypeOK, At, Idle, WorkerPlace, OperatorReturns, setVars,
        peerVars, mgrVars
<1>26. ASSUME Destroy PROVE LockInv'
  BY <1>26, WorkerAssumption, ManagerAssumption
   DEF IInv, LockInv, TypeOK, At, Idle, WorkerPlace, Destroy, setVars,
        peerVars, mgrVars
<1>q. QED
  BY <1>0, <1>1, <1>2, <1>3, <1>4, <1>5, <1>6, <1>7, <1>8, <1>9, <1>10, <1>11,
      <1>12, <1>13, <1>14, <1>15, <1>16, <1>17, <1>18, <1>19, <1>20, <1>21,
      <1>22, <1>23, <1>24, <1>25, <1>26
  DEF Next, Environment, WorkerStep, PeerStep, ReaperStep

(* Every step keeps each new peer in the hands of one worker until it is   *)
(* activated.                                                              *)
LEMMA HandInvStep == IInv /\ [Next]_vars => HandInv'
<1> SUFFICES ASSUME IInv, [Next]_vars PROVE HandInv'
  OBVIOUS
<1>0. CASE UNCHANGED vars
  BY <1>0
   DEF IInv, HandInv, TypeOK, At, Idle, WorkerPlace, Execute, vars, setVars,
        peerVars, mgrVars
<1>1. ASSUME NEW p \in Peer, RemoteCloses(p) PROVE HandInv'
  BY <1>1, WorkerAssumption, ManagerAssumption
   DEF IInv, HandInv, TypeOK, At, Idle, WorkerPlace, Execute, RemoteCloses,
        setVars, peerVars, mgrVars
<1>2. ASSUME NEW p \in Peer, PeerThrows(p) PROVE HandInv'
  BY <1>2, WorkerAssumption, ManagerAssumption
   DEF IInv, HandInv, TypeOK, At, Idle, WorkerPlace, Execute, PeerThrows,
        setVars, peerVars, mgrVars
<1>3. ASSUME NEW w \in Worker, WorkerThrows(w) PROVE HandInv'
  BY <1>3, WorkerAssumption, ManagerAssumption
   DEF IInv, HandInv, TypeOK, At, Idle, WorkerPlace, Execute, WorkerThrows,
        setVars, peerVars, mgrVars
<1>4. ASSUME NEW w \in Worker, NEW p \in Peer, NewPeer(w, p) PROVE HandInv'
  BY <1>4, WorkerAssumption, ManagerAssumption
   DEF IInv, HandInv, TypeOK, At, Idle, WorkerPlace, Execute, NewPeer, setVars,
        peerVars, mgrVars
<1>5. ASSUME ConnectFails PROVE HandInv'
  BY <1>5, WorkerAssumption, ManagerAssumption
   DEF IInv, HandInv, TypeOK, At, Idle, WorkerPlace, Execute, ConnectFails,
        setVars, peerVars, mgrVars
<1>6. ASSUME HaltMgr PROVE HandInv'
  BY <1>6, WorkerAssumption, ManagerAssumption
   DEF IInv, HandInv, TypeOK, At, Idle, WorkerPlace, Execute, HaltMgr, Wake,
        setVars, peerVars, mgrVars
<1>7. ASSUME NEW w \in Worker, LockToAdd(w) PROVE HandInv'
  BY <1>7, WorkerAssumption, ManagerAssumption
   DEF IInv, HandInv, TypeOK, At, Idle, WorkerPlace, Execute, LockToAdd,
        setVars, peerVars, mgrVars
<1>8. ASSUME NEW w \in Worker, MaybeAdd(w) PROVE HandInv'
  BY <1>8, WorkerAssumption, ManagerAssumption
   DEF IInv, HandInv, TypeOK, At, Idle, WorkerPlace, Execute, MaybeAdd, Swap,
        setVars, peerVars, mgrVars
<1>9. ASSUME NEW w \in Worker, Activate(w) PROVE HandInv'
  BY <1>9, WorkerAssumption, ManagerAssumption
   DEF IInv, HandInv, TypeOK, At, Idle, WorkerPlace, Execute, Activate, Wake,
        setVars, peerVars, mgrVars
<1>10. ASSUME NEW w \in Worker, ActivateFails(w) PROVE HandInv'
  BY <1>10, WorkerAssumption, ManagerAssumption
   DEF IInv, HandInv, TypeOK, At, Idle, WorkerPlace, Execute, ActivateFails,
        setVars, peerVars, mgrVars
<1>11. ASSUME NEW w \in Worker, SetException(w) PROVE HandInv'
  BY <1>11, WorkerAssumption, ManagerAssumption
   DEF IInv, HandInv, TypeOK, At, Idle, WorkerPlace, Execute, SetException,
        Wake, setVars, peerVars, mgrVars
<1>12. ASSUME LockToConnect PROVE HandInv'
  BY <1>12, WorkerAssumption, ManagerAssumption
   DEF IInv, HandInv, TypeOK, At, Idle, WorkerPlace, Execute, LockToConnect,
        setVars, peerVars, mgrVars
<1>13. ASSUME WaitToConnect PROVE HandInv'
  BY <1>13, WorkerAssumption, ManagerAssumption
   DEF IInv, HandInv, TypeOK, At, Idle, WorkerPlace, Execute, WaitToConnect,
        setVars, peerVars, mgrVars
<1>14. ASSUME LockToImprove PROVE HandInv'
  BY <1>14, WorkerAssumption, ManagerAssumption
   DEF IInv, HandInv, TypeOK, At, Idle, WorkerPlace, Execute, LockToImprove,
        setVars, peerVars, mgrVars
<1>15. ASSUME Improve PROVE HandInv'
  BY <1>15, WorkerAssumption, ManagerAssumption
   DEF IInv, HandInv, TypeOK, At, Idle, WorkerPlace, Execute, Improve, Wake,
        Worst, setVars, peerVars, mgrVars
<1>16. ASSUME NEW w \in Worker, WorkerStops(w) PROVE HandInv'
  BY <1>16, WorkerAssumption, ManagerAssumption
   DEF IInv, HandInv, TypeOK, At, Idle, WorkerPlace, Execute, WorkerStops,
        setVars, peerVars, mgrVars
<1>17. ASSUME NEW p \in Peer, PeerReturns(p) PROVE HandInv'
  BY <1>17, WorkerAssumption, ManagerAssumption
   DEF IInv, HandInv, TypeOK, At, Idle, WorkerPlace, Execute, PeerReturns,
        setVars, peerVars, mgrVars
<1>18. ASSUME NEW p \in Peer, PushInactive(p) PROVE HandInv'
  BY <1>18, WorkerAssumption, ManagerAssumption
   DEF IInv, HandInv, TypeOK, At, Idle, WorkerPlace, Execute, PushInactive,
        setVars, peerVars, mgrVars
<1>19. ASSUME NEW p \in Peer, Stopped(p) PROVE HandInv'
  BY <1>19, WorkerAssumption, ManagerAssumption
   DEF IInv, HandInv, TypeOK, At, Idle, WorkerPlace, Execute, Stopped, Wake,
        setVars, peerVars, mgrVars
<1>20. ASSUME NEW p \in Peer, StoppedThrows(p) PROVE HandInv'
  BY <1>20, WorkerAssumption, ManagerAssumption
   DEF IInv, HandInv, TypeOK, At, Idle, WorkerPlace, Execute, StoppedThrows,
        setVars, peerVars, mgrVars
<1>21. ASSUME JoinPeer PROVE HandInv'
  BY <1>21, WorkerAssumption, ManagerAssumption
   DEF IInv, HandInv, TypeOK, At, Idle, WorkerPlace, Execute, JoinPeer,
        setVars, peerVars, mgrVars
<1>22. ASSUME Reap PROVE HandInv'
  BY <1>22, WorkerAssumption, ManagerAssumption
   DEF IInv, HandInv, TypeOK, At, Idle, WorkerPlace, Execute, Reap, setVars,
        peerVars, mgrVars
<1>23. ASSUME ReaperExits PROVE HandInv'
  BY <1>23, WorkerAssumption, ManagerAssumption
   DEF IInv, HandInv, TypeOK, At, Idle, WorkerPlace, Execute, ReaperExits,
        setVars, peerVars, mgrVars
<1>24. ASSUME StopTasks PROVE HandInv'
  BY <1>24, WorkerAssumption, ManagerAssumption
   DEF IInv, HandInv, TypeOK, At, Idle, WorkerPlace, Execute, StopTasks,
        setVars, peerVars, mgrVars
<1>25. ASSUME OperatorReturns PROVE HandInv'
  BY <1>25, WorkerAssumption, ManagerAssumption
   DEF IInv, HandInv, TypeOK, At, Idle, WorkerPlace, Execute, OperatorReturns,
        setVars, peerVars, mgrVars
<1>26. ASSUME Destroy PROVE HandInv'
  BY <1>26, WorkerAssumption, ManagerAssumption
   DEF IInv, HandInv, TypeOK, At, Idle, WorkerPlace, Execute, Destroy, setVars,
        peerVars, mgrVars
<1>q. QED
  BY <1>0, <1>1, <1>2, <1>3, <1>4, <1>5, <1>6, <1>7, <1>8, <1>9, <1>10, <1>11,
      <1>12, <1>13, <1>14, <1>15, <1>16, <1>17, <1>18, <1>19, <1>20, <1>21,
      <1>22, <1>23, <1>24, <1>25, <1>26
  DEF Next, Environment, WorkerStep, PeerStep, ReaperStep

(* Every step keeps a peer's entries and its place in execute() together.  *)
LEMMA LifeInvStep == IInv /\ [Next]_vars => LifeInv'
<1> SUFFICES ASSUME IInv, [Next]_vars PROVE LifeInv'
  OBVIOUS
<1>0. CASE UNCHANGED vars
  BY <1>0
   DEF IInv, LifeInv, HandInv, TypeOK, Execute, vars, setVars, peerVars,
        mgrVars
<1>1. ASSUME NEW p \in Peer, RemoteCloses(p) PROVE LifeInv'
  BY <1>1, WorkerAssumption, ManagerAssumption
   DEF IInv, LifeInv, HandInv, TypeOK, Execute, RemoteCloses, setVars,
        peerVars, mgrVars
<1>2. ASSUME NEW p \in Peer, PeerThrows(p) PROVE LifeInv'
  BY <1>2, WorkerAssumption, ManagerAssumption
   DEF IInv, LifeInv, HandInv, TypeOK, Execute, PeerThrows, setVars, peerVars,
        mgrVars
<1>3. ASSUME NEW w \in Worker, WorkerThrows(w) PROVE LifeInv'
  BY <1>3, WorkerAssumption, ManagerAssumption
   DEF IInv, LifeInv, HandInv, TypeOK, Execute, WorkerThrows, setVars,
        peerVars, mgrVars
<1>4. ASSUME NEW w \in Worker, NEW p \in Peer, NewPeer(w, p) PROVE LifeInv'
  BY <1>4, WorkerAssumption, ManagerAssumption
   DEF IInv, LifeInv, HandInv, TypeOK, Execute, NewPeer, setVars, peerVars,
        mgrVars
<1>5. ASSUME ConnectFails PROVE LifeInv'
  BY <1>5, WorkerAssumption, ManagerAssumption
   DEF IInv, LifeInv, HandInv, TypeOK, Execute, ConnectFails, setVars,
        peerVars, mgrVars
<1>6. ASSUME HaltMgr PROVE LifeInv'
  BY <1>6, WorkerAssumption, ManagerAssumption
   DEF IInv, LifeInv, HandInv, TypeOK, Execute, HaltMgr, Wake, setVars,
        peerVars, mgrVars
<1>7. ASSUME NEW w \in Worker, LockToAdd(w) PROVE LifeInv'
  BY <1>7, WorkerAssumption, ManagerAssumption
   DEF IInv, LifeInv, HandInv, TypeOK, Execute, LockToAdd, setVars, peerVars,
        mgrVars
<1>8. ASSUME NEW w \in Worker, MaybeAdd(w) PROVE LifeInv'
  BY <1>8, WorkerAssumption, ManagerAssumption
   DEF IInv, LifeInv, HandInv, TypeOK, Execute, MaybeAdd, Swap, setVars,
        peerVars, mgrVars
<1>9. ASSUME NEW w \in Worker, Activate(w) PROVE LifeInv'
  BY <1>9, WorkerAssumption, ManagerAssumption
   DEF IInv, LifeInv, HandInv, TypeOK, Execute, Activate, Wake, setVars,
        peerVars, mgrVars
<1>10. ASSUME NEW w \in Worker, ActivateFails(w) PROVE LifeInv'
  BY <1>10, WorkerAssumption, ManagerAssumption
   DEF IInv, LifeInv, HandInv, TypeOK, Execute, ActivateFails, setVars,
        peerVars, mgrVars
<1>11. ASSUME NEW w \in Worker, SetException(w) PROVE LifeInv'
  BY <1>11, WorkerAssumption, ManagerAssumption
   DEF IInv, LifeInv, HandInv, TypeOK, Execute, SetException, Wake, setVars,
        peerVars, mgrVars
<1>12. ASSUME LockToConnect PROVE LifeInv'
  BY <1>12, WorkerAssumption, ManagerAssumption
   DEF IInv, LifeInv, HandInv, TypeOK, Execute, LockToConnect, setVars,
        peerVars, mgrVars
<1>13. ASSUME WaitToConnect PROVE LifeInv'
  BY <1>13, WorkerAssumption, ManagerAssumption
   DEF IInv, LifeInv, HandInv, TypeOK, Execute, WaitToConnect, setVars,
        peerVars, mgrVars
<1>14. ASSUME LockToImprove PROVE LifeInv'
  BY <1>14, WorkerAssumption, ManagerAssumption
   DEF IInv, LifeInv, HandInv, TypeOK, Execute, LockToImprove, setVars,
        peerVars, mgrVars
<1>15. ASSUME Improve PROVE LifeInv'
  BY <1>15, WorkerAssumption, ManagerAssumption
   DEF IInv, LifeInv, HandInv, TypeOK, Execute, Improve, Wake, Worst, setVars,
        peerVars, mgrVars
<1>16. ASSUME NEW w \in Worker, WorkerStops(w) PROVE LifeInv'
  BY <1>16, WorkerAssumption, ManagerAssumption
   DEF IInv, LifeInv, HandInv, TypeOK, Execute, WorkerStops, setVars, peerVars,
        mgrVars
<1>17. ASSUME NEW p \in Peer, PeerReturns(p) PROVE LifeInv'
  BY <1>17, WorkerAssumption, ManagerAssumption
   DEF IInv, LifeInv, HandInv, TypeOK, Execute, PeerReturns, setVars, peerVars,
        mgrVars
<1>18. ASSUME NEW p \in Peer, PushInactive(p) PROVE LifeInv'
  <2>1. Elems(inactive') = Elems(inactive) \cup {p}
    BY <1>18, AppendElems DEF IInv, TypeOK, PushInactive
  <2>2. QED
    BY <1>18, <2>1 DEF IInv, TypeOK, LifeInv, PushInactive, Execute, mgrVars
<1>19. ASSUME NEW p \in Peer, Stopped(p) PROVE LifeInv'
  BY <1>19, WorkerAssumption, ManagerAssumption
   DEF IInv, LifeInv, HandInv, TypeOK, Execute, Stopped, Wake, setVars,
        peerVars, mgrVars
<1>20. ASSUME NEW p \in Peer, StoppedThrows(p) PROVE LifeInv'
  BY <1>20, WorkerAssumption, ManagerAssumption
   DEF IInv, LifeInv, HandInv, TypeOK, Execute, StoppedThrows, setVars,
        peerVars, mgrVars
<1>21. ASSUME JoinPeer PROVE LifeInv'
  BY <1>21, WorkerAssumption, ManagerAssumption
   DEF IInv, LifeInv, HandInv, TypeOK, Execute, JoinPeer, setVars, peerVars,
        mgrVars
<1>22. ASSUME Reap PROVE LifeInv'
  <2>1. inactive \in Seq(Peer) /\ inactive # <<>> /\ Distinct(inactive)
    BY <1>22 DEF IInv, TypeOK, QueueInv, Reap
  <2>2. reaping = Head(inactive)
    BY <1>22 DEF IInv, QueueInv, Reap
  <2>3. Elems(inactive') = Elems(inactive) \ {reaping}
    BY <1>22, <2>1, <2>2, HeadTailElems DEF Reap
  <2>4. UNCHANGED <<execute, known>> /\ threads' = threads \ {reaping}
        /\ execute[reaping] = "ended"
    BY <1>22 DEF Reap, peerVars, mgrVars
  <2>5. QED
    BY <2>3, <2>4 DEF IInv, LifeInv
<1>23. ASSUME ReaperExits PROVE LifeInv'
  BY <1>23, WorkerAssumption, ManagerAssumption
   DEF IInv, LifeInv, HandInv, TypeOK, Execute, ReaperExits, setVars, peerVars,
        mgrVars
<1>24. ASSUME StopTasks PROVE LifeInv'
  BY <1>24, WorkerAssumption, ManagerAssumption
   DEF IInv, LifeInv, HandInv, TypeOK, Execute, StopTasks, setVars, peerVars,
        mgrVars
<1>25. ASSUME OperatorReturns PROVE LifeInv'
  BY <1>25, WorkerAssumption, ManagerAssumption
   DEF IInv, LifeInv, HandInv, TypeOK, Execute, OperatorReturns, setVars,
        peerVars, mgrVars
<1>26. ASSUME Destroy PROVE LifeInv'
  BY <1>26, WorkerAssumption, ManagerAssumption
   DEF IInv, LifeInv, HandInv, TypeOK, Execute, Destroy, setVars, peerVars,
        mgrVars
<1>q. QED
  BY <1>0, <1>1, <1>2, <1>3, <1>4, <1>5, <1>6, <1>7, <1>8, <1>9, <1>10, <1>11,
      <1>12, <1>13, <1>14, <1>15, <1>16, <1>17, <1>18, <1>19, <1>20, <1>21,
      <1>22, <1>23, <1>24, <1>25, <1>26
  DEF Next, Environment, WorkerStep, PeerStep, ReaperStep

(* Every step keeps the reaper's queue free of repetitions.                *)
LEMMA QueueInvStep == IInv /\ [Next]_vars => QueueInv'
<1> SUFFICES ASSUME IInv, [Next]_vars PROVE QueueInv'
  OBVIOUS
<1>0. CASE UNCHANGED vars
  BY <1>0 DEF IInv, QueueInv, LifeInv, TypeOK, vars, setVars, peerVars, mgrVars
<1>1. ASSUME NEW p \in Peer, RemoteCloses(p) PROVE QueueInv'
  BY <1>1, WorkerAssumption, ManagerAssumption
   DEF IInv, QueueInv, LifeInv, TypeOK, RemoteCloses, setVars, peerVars,
        mgrVars
<1>2. ASSUME NEW p \in Peer, PeerThrows(p) PROVE QueueInv'
  BY <1>2, WorkerAssumption, ManagerAssumption
   DEF IInv, QueueInv, LifeInv, TypeOK, PeerThrows, setVars, peerVars, mgrVars
<1>3. ASSUME NEW w \in Worker, WorkerThrows(w) PROVE QueueInv'
  BY <1>3, WorkerAssumption, ManagerAssumption
   DEF IInv, QueueInv, LifeInv, TypeOK, WorkerThrows, setVars, peerVars,
        mgrVars
<1>4. ASSUME NEW w \in Worker, NEW p \in Peer, NewPeer(w, p) PROVE QueueInv'
  BY <1>4, WorkerAssumption, ManagerAssumption
   DEF IInv, QueueInv, LifeInv, TypeOK, NewPeer, setVars, peerVars, mgrVars
<1>5. ASSUME ConnectFails PROVE QueueInv'
  BY <1>5, WorkerAssumption, ManagerAssumption
   DEF IInv, QueueInv, LifeInv, TypeOK, ConnectFails, setVars, peerVars,
        mgrVars
<1>6. ASSUME HaltMgr PROVE QueueInv'
  BY <1>6, WorkerAssumption, ManagerAssumption
   DEF IInv, QueueInv, LifeInv, TypeOK, HaltMgr, Wake, setVars, peerVars,
        mgrVars
<1>7. ASSUME NEW w \in Worker, LockToAdd(w) PROVE QueueInv'
  BY <1>7, WorkerAssumption, ManagerAssumption
   DEF IInv, QueueInv, LifeInv, TypeOK, LockToAdd, setVars, peerVars, mgrVars
<1>8. ASSUME NEW w \in Worker, MaybeAdd(w) PROVE QueueInv'
  BY <1>8, WorkerAssumption, ManagerAssumption
   DEF IInv, QueueInv, LifeInv, TypeOK, MaybeAdd, Swap, setVars, peerVars,
        mgrVars
<1>9. ASSUME NEW w \in Worker, Activate(w) PROVE QueueInv'
  BY <1>9, WorkerAssumption, ManagerAssumption
   DEF IInv, QueueInv, LifeInv, TypeOK, Activate, Wake, setVars, peerVars,
        mgrVars
<1>10. ASSUME NEW w \in Worker, ActivateFails(w) PROVE QueueInv'
  BY <1>10, WorkerAssumption, ManagerAssumption
   DEF IInv, QueueInv, LifeInv, TypeOK, ActivateFails, setVars, peerVars,
        mgrVars
<1>11. ASSUME NEW w \in Worker, SetException(w) PROVE QueueInv'
  BY <1>11, WorkerAssumption, ManagerAssumption
   DEF IInv, QueueInv, LifeInv, TypeOK, SetException, Wake, setVars, peerVars,
        mgrVars
<1>12. ASSUME LockToConnect PROVE QueueInv'
  BY <1>12, WorkerAssumption, ManagerAssumption
   DEF IInv, QueueInv, LifeInv, TypeOK, LockToConnect, setVars, peerVars,
        mgrVars
<1>13. ASSUME WaitToConnect PROVE QueueInv'
  BY <1>13, WorkerAssumption, ManagerAssumption
   DEF IInv, QueueInv, LifeInv, TypeOK, WaitToConnect, setVars, peerVars,
        mgrVars
<1>14. ASSUME LockToImprove PROVE QueueInv'
  BY <1>14, WorkerAssumption, ManagerAssumption
   DEF IInv, QueueInv, LifeInv, TypeOK, LockToImprove, setVars, peerVars,
        mgrVars
<1>15. ASSUME Improve PROVE QueueInv'
  BY <1>15, WorkerAssumption, ManagerAssumption
   DEF IInv, QueueInv, LifeInv, TypeOK, Improve, Wake, Worst, setVars,
        peerVars, mgrVars
<1>16. ASSUME NEW w \in Worker, WorkerStops(w) PROVE QueueInv'
  BY <1>16, WorkerAssumption, ManagerAssumption
   DEF IInv, QueueInv, LifeInv, TypeOK, WorkerStops, setVars, peerVars, mgrVars
<1>17. ASSUME NEW p \in Peer, PeerReturns(p) PROVE QueueInv'
  BY <1>17, WorkerAssumption, ManagerAssumption
   DEF IInv, QueueInv, LifeInv, TypeOK, PeerReturns, setVars, peerVars, mgrVars
<1>18. ASSUME NEW p \in Peer, PushInactive(p) PROVE QueueInv'
  <2>1. p \notin Elems(inactive) /\ inactive \in Seq(Peer)
    BY <1>18 DEF IInv, TypeOK, LifeInv, PushInactive
  <2>2. Distinct(inactive')
    BY <1>18, <2>1, AppendElems DEF IInv, QueueInv, PushInactive
  <2>3. QED
    BY <1>18, <2>2 DEF QueueInv, PushInactive, SetFree
<1>19. ASSUME NEW p \in Peer, Stopped(p) PROVE QueueInv'
  BY <1>19, WorkerAssumption, ManagerAssumption
   DEF IInv, QueueInv, LifeInv, TypeOK, Stopped, Wake, setVars, peerVars,
        mgrVars
<1>20. ASSUME NEW p \in Peer, StoppedThrows(p) PROVE QueueInv'
  BY <1>20, WorkerAssumption, ManagerAssumption
   DEF IInv, QueueInv, LifeInv, TypeOK, StoppedThrows, setVars, peerVars,
        mgrVars
<1>21. ASSUME JoinPeer PROVE QueueInv'
  BY <1>21, WorkerAssumption, ManagerAssumption
   DEF IInv, QueueInv, LifeInv, TypeOK, JoinPeer, setVars, peerVars, mgrVars
<1>22. ASSUME Reap PROVE QueueInv'
  <2>1. inactive \in Seq(Peer) /\ inactive # <<>> /\ Distinct(inactive)
    BY <1>22 DEF IInv, TypeOK, QueueInv, Reap
  <2>2. QED
    BY <1>22, <2>1, HeadTailElems DEF QueueInv, Reap
<1>23. ASSUME ReaperExits PROVE QueueInv'
  BY <1>23, WorkerAssumption, ManagerAssumption
   DEF IInv, QueueInv, LifeInv, TypeOK, ReaperExits, setVars, peerVars, mgrVars
<1>24. ASSUME StopTasks PROVE QueueInv'
  BY <1>24, WorkerAssumption, ManagerAssumption
   DEF IInv, QueueInv, LifeInv, TypeOK, StopTasks, setVars, peerVars, mgrVars
<1>25. ASSUME OperatorReturns PROVE QueueInv'
  BY <1>25, WorkerAssumption, ManagerAssumption
   DEF IInv, QueueInv, LifeInv, TypeOK, OperatorReturns, setVars, peerVars,
        mgrVars
<1>26. ASSUME Destroy PROVE QueueInv'
  BY <1>26, WorkerAssumption, ManagerAssumption
   DEF IInv, QueueInv, LifeInv, TypeOK, Destroy, setVars, peerVars, mgrVars
<1>q. QED
  BY <1>0, <1>1, <1>2, <1>3, <1>4, <1>5, <1>6, <1>7, <1>8, <1>9, <1>10, <1>11,
      <1>12, <1>13, <1>14, <1>15, <1>16, <1>17, <1>18, <1>19, <1>20, <1>21,
      <1>22, <1>23, <1>24, <1>25, <1>26
  DEF Next, Environment, WorkerStep, PeerStep, ReaperStep

(* Every step keeps to the bound, since size() is not out of date in       *)
(* activate().                                                             *)
LEMMA SizeInvStep == IInv /\ [Next]_vars => SizeInv'
<1> SUFFICES ASSUME IInv, [Next]_vars PROVE SizeInv'
  OBVIOUS
<1>0. CASE UNCHANGED vars
  BY <1>0
   DEF IInv, SizeInv, LockInv, TypeOK, At, Idle, Size, vars, setVars, peerVars,
        mgrVars
<1>1. ASSUME NEW p \in Peer, RemoteCloses(p) PROVE SizeInv'
  BY <1>1, WorkerAssumption, ManagerAssumption
   DEF IInv, SizeInv, LockInv, TypeOK, At, Idle, Size, RemoteCloses, setVars,
        peerVars, mgrVars
<1>2. ASSUME NEW p \in Peer, PeerThrows(p) PROVE SizeInv'
  BY <1>2, WorkerAssumption, ManagerAssumption
   DEF IInv, SizeInv, LockInv, TypeOK, At, Idle, Size, PeerThrows, setVars,
        peerVars, mgrVars
<1>3. ASSUME NEW w \in Worker, WorkerThrows(w) PROVE SizeInv'
  BY <1>3, WorkerAssumption, ManagerAssumption
   DEF IInv, SizeInv, LockInv, TypeOK, At, Idle, Size, WorkerThrows, setVars,
        peerVars, mgrVars
<1>4. ASSUME NEW w \in Worker, NEW p \in Peer, NewPeer(w, p) PROVE SizeInv'
  BY <1>4, WorkerAssumption, ManagerAssumption
   DEF IInv, SizeInv, LockInv, TypeOK, At, Idle, Size, NewPeer, setVars,
        peerVars, mgrVars
<1>5. ASSUME ConnectFails PROVE SizeInv'
  BY <1>5, WorkerAssumption, ManagerAssumption
   DEF IInv, SizeInv, LockInv, TypeOK, At, Idle, Size, ConnectFails, setVars,
        peerVars, mgrVars
<1>6. ASSUME HaltMgr PROVE SizeInv'
  BY <1>6, WorkerAssumption, ManagerAssumption
   DEF IInv, SizeInv, LockInv, TypeOK, At, Idle, Size, HaltMgr, Wake, setVars,
        peerVars, mgrVars
<1>7. ASSUME NEW w \in Worker, LockToAdd(w) PROVE SizeInv'
  BY <1>7, WorkerAssumption, ManagerAssumption
   DEF IInv, SizeInv, LockInv, TypeOK, At, Idle, Size, LockToAdd, setVars,
        peerVars, mgrVars
<1>8. ASSUME NEW w \in Worker, MaybeAdd(w) PROVE SizeInv'
  <2>1. IsFiniteSet(threads') /\ IsFiniteSet(known') /\ Size' = Size
    BY <1>8, FS_AddElement DEF IInv, SizeInv, MaybeAdd, Size, setVars
  <2>2. ASSUME NEW v \in Worker, worker'[v].at = "add" PROVE Size =< MaxPeers
    <3>1. Size \in Int /\ MaxPeers \in Int
      BY FS_CardinalityType, MaxPeersAssumption DEF IInv, TypeOK, SizeInv, Size
    <3>2. CASE v = w
      BY <1>8, <2>2, <3>1, <3>2 DEF IInv, TypeOK, MaybeAdd, At, Idle
    <3>3. CASE v # w
      BY <1>8, <2>2, <3>3 DEF IInv, TypeOK, SizeInv, MaybeAdd, At, Idle
    <3>4. QED
      BY <3>2, <3>3
  <2>3. QED
    BY <2>1, <2>2 DEF IInv, SizeInv
<1>9. ASSUME NEW w \in Worker, Activate(w) PROVE SizeInv'
  <2> DEFINE p == worker[w].peer
  <2>1. p \in Peer /\ p \notin threads /\ mutex = w
    BY <1>9 DEF IInv, HandInv, LifeInv, LockInv, Activate
  <2>2. /\ IsFiniteSet(threads') /\ IsFiniteSet(known')
        /\ Cardinality(threads') = Cardinality(threads) + 1
    BY <1>9, <2>1, FS_AddElement DEF IInv, SizeInv, Activate
  <2>3. Cardinality(threads) \in Nat /\ Len(inactive) \in Nat /\ MaxPeers \in
      Nat
    BY FS_CardinalityType, MaxPeersAssumption DEF IInv, TypeOK, SizeInv
  <2>4. Size' = Size + 1 /\ Size =< MaxPeers
    BY <1>9, <2>2, <2>3 DEF IInv, SizeInv, Activate, Size
  <2>5. ASSUME NEW v \in Worker, worker'[v].at = "add" PROVE FALSE
    BY <1>9, <2>1, <2>5 DEF IInv, LockInv, TypeOK, Activate, Wake, At, Idle
  <2>6. Size \in Int
    BY <2>3 DEF Size
  <2>7. QED
    BY <2>2, <2>3, <2>4, <2>5, <2>6 DEF SizeInv
<1>10. ASSUME NEW w \in Worker, ActivateFails(w) PROVE SizeInv'
  <2>1. IsFiniteSet(threads') /\ IsFiniteSet(known') /\ Size' = Size
    BY <1>10, FS_RemoveElement DEF IInv, SizeInv, ActivateFails, Size, setVars
  <2>2. \A v \in Worker : worker'[v].at = "add" => worker[v].at = "add"
    BY <1>10 DEF IInv, TypeOK, ActivateFails, At, Idle
  <2>3. QED
    BY <2>1, <2>2 DEF IInv, SizeInv
<1>11. ASSUME NEW w \in Worker, SetException(w) PROVE SizeInv'
  BY <1>11, WorkerAssumption, ManagerAssumption
   DEF IInv, SizeInv, LockInv, TypeOK, At, Idle, Size, SetException, Wake,
        setVars, peerVars, mgrVars
<1>12. ASSUME LockToConnect PROVE SizeInv'
  BY <1>12, WorkerAssumption, ManagerAssumption
   DEF IInv, SizeInv, LockInv, TypeOK, At, Idle, Size, LockToConnect, setVars,
        peerVars, mgrVars
<1>13. ASSUME WaitToConnect PROVE SizeInv'
  BY <1>13, WorkerAssumption, ManagerAssumption
   DEF IInv, SizeInv, LockInv, TypeOK, At, Idle, Size, WaitToConnect, setVars,
        peerVars, mgrVars
<1>14. ASSUME LockToImprove PROVE SizeInv'
  BY <1>14, WorkerAssumption, ManagerAssumption
   DEF IInv, SizeInv, LockInv, TypeOK, At, Idle, Size, LockToImprove, setVars,
        peerVars, mgrVars
<1>15. ASSUME Improve PROVE SizeInv'
  BY <1>15, WorkerAssumption, ManagerAssumption
   DEF IInv, SizeInv, LockInv, TypeOK, At, Idle, Size, Improve, Wake, Worst,
        setVars, peerVars, mgrVars
<1>16. ASSUME NEW w \in Worker, WorkerStops(w) PROVE SizeInv'
  BY <1>16, WorkerAssumption, ManagerAssumption
   DEF IInv, SizeInv, LockInv, TypeOK, At, Idle, Size, WorkerStops, setVars,
        peerVars, mgrVars
<1>17. ASSUME NEW p \in Peer, PeerReturns(p) PROVE SizeInv'
  BY <1>17, WorkerAssumption, ManagerAssumption
   DEF IInv, SizeInv, LockInv, TypeOK, At, Idle, Size, PeerReturns, setVars,
        peerVars, mgrVars
<1>18. ASSUME NEW p \in Peer, PushInactive(p) PROVE SizeInv'
  <2>1. Cardinality(threads) \in Nat /\ Len(inactive) \in Nat /\ MaxPeers \in
      Nat
    BY FS_CardinalityType, MaxPeersAssumption DEF IInv, TypeOK, SizeInv
  <2>2. threads' = threads /\ known' = known /\ worker' = worker
        /\ Len(inactive') = Len(inactive) + 1
    BY <1>18 DEF IInv, TypeOK, PushInactive, mgrVars
  <2>3. QED
    BY <2>1, <2>2 DEF IInv, SizeInv, Size
<1>19. ASSUME NEW p \in Peer, Stopped(p) PROVE SizeInv'
  <2>1. IsFiniteSet(threads') /\ IsFiniteSet(known') /\ Size' = Size
    BY <1>19, FS_RemoveElement DEF IInv, SizeInv, Stopped, Size, setVars
  <2>2. \A v \in Worker : worker'[v].at = "add" => worker[v].at = "add"
    BY <1>19 DEF IInv, TypeOK, Stopped, Wake, At, Idle
  <2>3. QED
    BY <2>1, <2>2 DEF IInv, SizeInv
<1>20. ASSUME NEW p \in Peer, StoppedThrows(p) PROVE SizeInv'
  BY <1>20, WorkerAssumption, ManagerAssumption
   DEF IInv, SizeInv, LockInv, TypeOK, At, Idle, Size, StoppedThrows, setVars,
        peerVars, mgrVars
<1>21. ASSUME JoinPeer PROVE SizeInv'
  BY <1>21, WorkerAssumption, ManagerAssumption
   DEF IInv, SizeInv, LockInv, TypeOK, At, Idle, Size, JoinPeer, setVars,
        peerVars, mgrVars
<1>22. ASSUME Reap PROVE SizeInv'
  <2>1. inactive \in Seq(Peer) /\ inactive # <<>> /\ reaping \in threads
    BY <1>22, HeadTailElems DEF IInv, TypeOK, QueueInv, LifeInv, Reap
  <2>2. Len(inactive') = Len(inactive) - 1 /\ Len(inactive) \in Nat
    BY <1>22, <2>1 DEF Reap
  <2>3. /\ IsFiniteSet(threads')
        /\ Cardinality(threads') = Cardinality(threads) - 1
        /\ Cardinality(threads) \in Nat
    BY <1>22, <2>1, FS_RemoveElement, FS_CardinalityType
     DEF IInv, SizeInv, Reap
  <2>4. Size' = Size /\ known' = known /\ worker' = worker
    BY <1>22, <2>2, <2>3 DEF Size, Reap, mgrVars
  <2>5. QED
    BY <2>3, <2>4 DEF IInv, SizeInv
<1>23. ASSUME ReaperExits PROVE SizeInv'
  BY <1>23, WorkerAssumption, ManagerAssumption
   DEF IInv, SizeInv, LockInv, TypeOK, At, Idle, Size, ReaperExits, setVars,
        peerVars, mgrVars
<1>24. ASSUME StopTasks PROVE SizeInv'
  BY <1>24, WorkerAssumption, ManagerAssumption
   DEF IInv, SizeInv, LockInv, TypeOK, At, Idle, Size, StopTasks, setVars,
        peerVars, mgrVars
<1>25. ASSUME OperatorReturns PROVE SizeInv'
  BY <1>25, WorkerAssumption, ManagerAssumption
   DEF IInv, SizeInv, LockInv, TypeOK, At, Idle, Size, OperatorReturns,
        setVars, peerVars, mgrVars
<1>26. ASSUME Destroy PROVE SizeInv'
  BY <1>26, WorkerAssumption, ManagerAssumption
   DEF IInv, SizeInv, LockInv, TypeOK, At, Idle, Size, Destroy, setVars,
        peerVars, mgrVars
<1>q. QED
  BY <1>0, <1>1, <1>2, <1>3, <1>4, <1>5, <1>6, <1>7, <1>8, <1>9, <1>10, <1>11,
      <1>12, <1>13, <1>14, <1>15, <1>16, <1>17, <1>18, <1>19, <1>20, <1>21,
      <1>22, <1>23, <1>24, <1>25, <1>26
  DEF Next, Environment, WorkerStep, PeerStep, ReaperStep

-----------------------------------------------------------------------------
(* The invariant holds when the manager has been made. *)
LEMMA InitInv == Init => IInv
<1> SUFFICES ASSUME Init PROVE IInv
  OBVIOUS
<1>1. TypeOK
  <2>1. inactive \in Seq(Peer)
    BY DEF Init
  <2>2. execute \in [Peer -> Execute]
    BY DEF Init, Execute
  <2>3. worker \in [Worker -> [at : WorkerPlace, peer : Peer \cup {NoPeer}]]
    BY DEF Init, WorkerPlace, Idle, At
  <2>4. QED
    BY <2>1, <2>2, <2>3 DEF Init, TypeOK
<1>2. Elems(inactive) = {}
  BY DEF Init, Elems
<1>3. LockInv /\ HandInv
  BY WorkerAssumption, ManagerAssumption DEF Init, LockInv, HandInv, Idle, At
<1>4. LifeInv /\ QueueInv
  BY <1>2, ManagerAssumption DEF Init, LifeInv, QueueInv, Distinct
<1>5. SizeInv
  BY FS_EmptySet, MaxPeersAssumption DEF Init, SizeInv, Size, Idle, At
<1>6. QED
  BY <1>1, <1>3, <1>4, <1>5 DEF IInv

(* The invariant is an invariant. *)
LEMMA Invariance == Spec => []IInv
<1>1. IInv /\ [Next]_vars => IInv'
  BY TypeOKStep, LockInvStep, HandInvStep, LifeInvStep, QueueInvStep, SizeInvStep
  DEF IInv
<1>2. QED
  BY InitInv, <1>1, PTL DEF Spec

(* A full set of more than one peer has a worst peer for improve() to halt. *)
FullSetHasWorst == Size >= MaxPeers /\ MaxPeers > 1 => Worst # {}

(* A set that is full has at least two peers in the bookkeeper: what       *)
(* size() counts are the peers whose entry is not in the reaper's queue.   *)
LEMMA SizeCountsActivePeers ==
  IInv => /\ IsFiniteSet(threads \ Elems(inactive))
          /\ Cardinality(threads \ Elems(inactive)) = Size
<1> SUFFICES ASSUME IInv
             PROVE  /\ IsFiniteSet(threads \ Elems(inactive))
                    /\ Cardinality(threads \ Elems(inactive)) = Size
  OBVIOUS
<1>1. Cardinality(Elems(inactive)) = Len(inactive)
  BY DistinctCardinality DEF IInv, TypeOK, QueueInv
<1>2. threads \cap Elems(inactive) = Elems(inactive)
  BY ElemsInSet DEF IInv, TypeOK, LifeInv
<1>3. IsFiniteSet(threads)
  BY DEF IInv, SizeInv
<1>4. /\ IsFiniteSet(threads \ Elems(inactive))
      /\ Cardinality(threads \ Elems(inactive)) =
            Cardinality(threads) - Cardinality(threads \cap Elems(inactive))
  BY <1>3, FS_Difference
<1>5. QED
  BY <1>1, <1>2, <1>4 DEF Size

-----------------------------------------------------------------------------
(* The state is always of the declared types. *)
THEOREM TypeCorrect == Spec => []TypeOK
BY Invariance, PTL DEF IInv

(* reapPeers() never meets a queued peer without an entry in the map of    *)
(* threads, and the unsigned difference in PeerSet::size() never wraps.    *)
THEOREM ReaperFindsThreads == Spec => []InactivePeersHaveThreads
<1>1. IInv => InactivePeersHaveThreads
  BY ElemsInSet DEF IInv, TypeOK, LifeInv, QueueInv, InactivePeersHaveThreads
<1>2. QED
  BY <1>1, Invariance, PTL

(* However accept(), connect() and improve() interleave, the set has at    *)
(* most one peer more than maxPeers.                                       *)
THEOREM SetIsBounded == Spec => []AtMostOneOver
<1>1. IInv => AtMostOneOver
  BY DEF IInv, SizeInv, AtMostOneOver
<1>2. QED
  BY <1>1, Invariance, PTL

(* The bookkeeper knows every peer that size() counts. *)
THEOREM BookkeeperKnowsActivePeers == Spec => []ActivePeersAreKnown
<1>1. IInv => ActivePeersAreKnown
  BY DEF IInv, TypeOK, LifeInv, ActivePeersAreKnown, Execute
<1>2. QED
  BY <1>1, Invariance, PTL

(* improve() always finds a peer to halt in a full set: it never loops     *)
(* over a set for which the bookkeeper has no worst peer.                  *)
THEOREM ImproveFindsWorst == Spec => []FullSetHasWorst
<1>1. IInv => FullSetHasWorst
  <2> SUFFICES ASSUME IInv, Size >= MaxPeers, MaxPeers > 1 PROVE Worst # {}
    BY DEF FullSetHasWorst
  <2> DEFINE active == threads \ Elems(inactive)
  <2>1. IsFiniteSet(active) /\ Cardinality(active) = Size
    BY SizeCountsActivePeers
  <2>2. active \in SUBSET known /\ IsFiniteSet(known)
    BY DEF IInv, TypeOK, LifeInv, SizeInv, Execute
  <2>3. Cardinality(active) =< Cardinality(known) /\ Cardinality(known) \in Nat
    BY <2>2, FS_Subset, FS_CardinalityType
  <2>4. Cardinality(active) \in Nat /\ MaxPeers \in Nat
    BY <2>1, FS_CardinalityType, MaxPeersAssumption
  <2>5. Cardinality(known) >= 2
    BY <2>1, <2>3, <2>4
  <2>6. known # {}
    BY <2>5, FS_EmptySet
  <2>7. QED
    BY <2>3, <2>5, <2>6 DEF Worst
<1>2. QED
  BY <1>1, Invariance, PTL

=============================================================================
