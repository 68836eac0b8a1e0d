----------------------------- MODULE ActivePeers -----------------------------
(***************************************************************************)
(* The set of active peers of the earlier implementation                   *)
(* (comms/p2p/PeerSet.cpp) with the threads that insert into it            *)
(* (comms/p2p/P2pMgr.cpp: one accepts connections, one initiates them) and *)
(* the threads of every peer.  mapMutex is released twice in tryInsert():  *)
(* to cancel the worst peer and to start the new one.  What happens        *)
(* between two releases is one step.                                       *)
(*                                                                         *)
(* PeerSet::handleStoppedPeers() is on no thread, so the set's `exception` *)
(* is never set and a peer that has ended stays in the set.  Time is kept  *)
(* as ages, which stop at the largest value that the code tells apart.     *)
(***************************************************************************)
EXTENDS Integers, FiniteSets, Sequences, SequencesExt

CONSTANTS
    Peer,       \* remote peers; each connects once, or until it is connected
    Initiated,  \* those in the peer-source, which this node connects to
    Acceptor,   \* threads that accept connections
    Adder,      \* the thread that initiates them
    MaxPeers,   \* PeerSet::Impl::maxPeers
    Stasis,     \* PeerSet::Impl::stasisDuration
    ValueMax,   \* INT32_MAX and INT32_MIN
    ValueMin,
    MaxNews,    \* number of products and chunks that the node gets
    NoPeer

ASSUME ActivePeersAssumption ==
    /\ IsFiniteSet(Peer) /\ Initiated \subseteq Peer /\ NoPeer \notin Peer
    /\ IsFiniteSet(Acceptor) /\ Adder \notin Acceptor
    /\ MaxPeers \in Nat \ {0} /\ Stasis \in Nat \ {0}
    /\ ValueMax \in Nat /\ ValueMin \in Int /\ ValueMin =< 0 /\ MaxNews \in Nat

Inserter == Acceptor \cup {Adder}
MaxReside == 2 * Stasis
News == 1 .. MaxNews

VARIABLES
    active,      \* activePeerEntries: the peers in the set
    value,       \* of each peer
    lastInsert,  \* time since timeLastInsert
    ipc,         \* where each inserter is
    inserting,   \* the peer that it has at hand
    worst,       \* the peer that it has removed and not yet canceled
    source,      \* addresses in the peer-source
    initiatedPeers,
    manager,     \* whether P2pMgr runs
    conn,        \* each connection: new, open or closed
    task,        \* the task that runs a peer, and its receiver and its sender
    receiver,
    sndr,
    sendQ,       \* each peer's queue of send-actions
    have,        \* number of items that the node has got, which are 1 .. have
    untold,      \* those that PeerSet::notify() was not called of yet
    giver,       \* the peer that gave an untold item
    noticeAge,   \* time since the send-action was made, or -1
    owed,        \* what came while a peer was in the set and it was not yet told of
    stay         \* time since the insertion of each peer in the set

setVars == <<active, value, lastInsert, stay>>
insertVars == <<ipc, inserting, worst, source, initiatedPeers, manager>>
taskVars == <<conn, task, receiver, sndr>>
newsVars == <<sendQ, have, untold, giver, noticeAge, owed>>
peerVars == <<setVars, insertVars, taskVars, newsVars>>

Place == {"idle", "connected", "try", "removed", "submit", "submitted", "ended"}
Run == {"none", "running", "ended", "canceled"}

ActiveTypeOK ==
    /\ active \subseteq Peer /\ value \in [Peer -> ValueMin .. ValueMax] /\ lastInsert \in 0 .. Stasis
    /\ stay \in [Peer -> 0 .. Stasis]
    /\ ipc \in [Inserter -> Place]
    /\ inserting \in [Inserter -> Peer \cup {NoPeer}] /\ worst \in [Inserter -> Peer \cup {NoPeer}]
    /\ source \subseteq Initiated /\ initiatedPeers \subseteq Initiated
    /\ manager \in {"running", "stopping"}
    /\ conn \in [Peer -> {"new", "open", "closed"}]
    /\ task \in [Peer -> Run] /\ receiver \in [Peer -> Run] /\ sndr \in [Peer -> Run]
    /\ sendQ \in [Peer -> Seq(News)]
    /\ have \in 0 .. MaxNews /\ untold \subseteq 1 .. have
    /\ giver \in [News -> Peer \cup {NoPeer}]
    /\ noticeAge \in [News -> -1 .. MaxReside + 1]
    /\ owed \in [Peer -> SUBSET News]

(* The node may have items already; a remote peer may never be there. *)
ActiveInit ==
    /\ active = {} /\ value = [p \in Peer |-> 0] /\ lastInsert = 0 /\ stay = [p \in Peer |-> Stasis]
    /\ ipc = [i \in Inserter |-> "idle"]
    /\ inserting = [i \in Inserter |-> NoPeer] /\ worst = [i \in Inserter |-> NoPeer]
    /\ source = Initiated /\ initiatedPeers = {} /\ manager = "running"
    /\ conn \in [Peer -> {"new", "closed"}]
    /\ task = [p \in Peer |-> "none"] /\ receiver = [p \in Peer |-> "none"] /\ sndr = [p \in Peer |-> "none"]
    /\ sendQ = [p \in Peer |-> <<>>]
    /\ have \in 0 .. MaxNews /\ untold = {} /\ giver = [x \in News |-> NoPeer]
    /\ noticeAge = [x \in News |-> -1]
    /\ owed = [p \in Peer |-> {}]

-----------------------------------------------------------------------------
(* The inserters.  Threads are cancelable only in accept(), in the         *)
(* exchange of versions and in the wait of tryInsert(): DelayQueue::pop()  *)
(* enables no cancellation (its Canceler is commented out).                *)
GoOn(i, place) == ipc' = [ipc EXCEPT ![i] = place]
Full == Cardinality(active) >= MaxPeers
Canceled(i) == manager = "stopping" /\ (i = Adder => \A a \in Acceptor : ipc[a] = "ended")

Candidates(i) == IF i = Adder THEN source ELSE Peer \ Initiated

(* accept(), or peerSource.pop() and connect(). *)
Connected(i, p) ==
    /\ ipc[i] = "idle" /\ p \in Candidates(i) /\ conn[p] = "new"
    /\ GoOn(i, "connected")
    /\ inserting' = [inserting EXCEPT ![i] = p]
    /\ source' = source \ {p}
    /\ conn' = [conn EXCEPT ![p] = "open"]
    /\ UNCHANGED <<setVars, worst, initiatedPeers, manager, task, receiver, sndr, newsVars>>

VersionsAgree(i) ==
    /\ ipc[i] = "connected"
    /\ GoOn(i, "try")
    /\ UNCHANGED <<setVars, inserting, worst, source, initiatedPeers, manager, taskVars, newsVars>>

(* The adder's catch-clause. *)
TryAgainLater(i) == IF i = Adder THEN source \cup {inserting[i]} ELSE source

InsertFails(i) ==
    /\ GoOn(i, "idle")
    /\ source' = TryAgainLater(i)
    /\ conn' = [conn EXCEPT ![inserting[i]] = IF i = Adder THEN "new" ELSE "closed"]
    /\ inserting' = [inserting EXCEPT ![i] = NoPeer]
    /\ UNCHANGED <<setVars, worst, initiatedPeers, manager, task, receiver, sndr, newsVars>>

VersionsDiffer(i) == ipc[i] = "connected" /\ InsertFails(i)

Waiting(i) == ipc[i] = "try" /\ Full /\ lastInsert < Stasis

CancellationPoint(i) == (i \in Acceptor /\ ipc[i] = "idle") \/ ipc[i] = "connected" \/ Waiting(i)

InserterIsCanceled(i) ==
    /\ Canceled(i) /\ CancellationPoint(i)
    /\ GoOn(i, "ended")
    /\ inserting' = [inserting EXCEPT ![i] = NoPeer]
    /\ conn' = [p \in Peer |-> IF p = inserting[i] THEN "closed" ELSE conn[p]]
    /\ UNCHANGED <<setVars, worst, source, initiatedPeers, manager, task, receiver, sndr, newsVars>>

MayInsert(i) == ipc[i] = "try" /\ ~Waiting(i)

(* tryInsert() up to its first release of the mutex.  An address that is   *)
(* in the set already cannot be met: a peer that the set has or had does   *)
(* not connect again.                                                      *)
InsertIntoRoom(i) ==
    /\ MayInsert(i) /\ ~Full
    /\ GoOn(i, "submit")
    /\ UNCHANGED <<setVars, inserting, worst, source, initiatedPeers, manager, taskVars, newsVars>>

Best == {p \in active : value[p] = ValueMax}
Worst == {p \in active \ Best : \A q \in active : value[p] <= value[q]}

(* Mutant: the worst peer is canceled but stays in the set. *)
Without(p) == active

ActiveWithout(p) == active \ {p}

RemoveWorst(i) ==
    /\ MayInsert(i) /\ Full
    /\ \E p \in Worst :
         /\ worst' = [worst EXCEPT ![i] = p]
         /\ active' = ActiveWithout(p)
         /\ owed' = [owed EXCEPT ![p] = {}]
    /\ GoOn(i, "removed")
    /\ UNCHANGED <<value, lastInsert, stay, inserting, source, initiatedPeers, manager, taskVars,
                   sendQ, have, untold, giver, noticeAge>>

(* If every peer has the highest value none is chosen, and cancel() of the *)
(* empty future throws.                                                    *)
NoneIsWorst(i) == MayInsert(i) /\ Full /\ Worst = {} /\ InsertFails(i)

(* future.cancel() of a task that has completed does nothing.  The threads *)
(* that the task has started stay: its Element is in peerEntries.          *)
CancelWorst(i) ==
    /\ ipc[i] = "removed"
    /\ task' = [task EXCEPT ![worst[i]] = IF @ = "running" THEN "canceled" ELSE @]
    /\ worst' = [worst EXCEPT ![i] = NoPeer]
    /\ GoOn(i, "submit")
    /\ UNCHANGED <<setVars, inserting, source, initiatedPeers, manager, conn, receiver, sndr, newsVars>>

SubmitPeer(i) ==
    /\ ipc[i] = "submit"
    /\ task' = [task EXCEPT ![inserting[i]] = "running"]
    /\ GoOn(i, "submitted")
    /\ UNCHANGED <<setVars, inserting, worst, source, initiatedPeers, manager, conn, receiver, sndr, newsVars>>

(* Mutant: a peer that fills the set does not count as a change of it. *)
Unmoved(set) == IF Cardinality(set) < MaxPeers THEN 0 ELSE lastInsert

LastInsert(set) == 0

AddPeer(i) ==
    /\ ipc[i] = "submitted"
    /\ LET p == inserting[i]
           set == active \cup {p}
       IN  /\ active' = set
           /\ lastInsert' = LastInsert(set)
           /\ value' = [q \in Peer |-> IF Cardinality(set) >= MaxPeers /\ q \in set THEN 0 ELSE value[q]]
           /\ stay' = [stay EXCEPT ![p] = 0]
           /\ initiatedPeers' = IF i = Adder THEN initiatedPeers \cup {p} ELSE initiatedPeers
    /\ inserting' = [inserting EXCEPT ![i] = NoPeer]
    /\ GoOn(i, "idle")
    /\ UNCHANGED <<worst, source, manager, taskVars, newsVars>>

(* run() returns or is canceled, or the manager is destroyed. *)
StopThreads ==
    /\ manager = "running" /\ manager' = "stopping"
    /\ UNCHANGED <<setVars, ipc, inserting, worst, source, initiatedPeers, taskVars, newsVars>>

InserterStep(i) ==
    \/ VersionsAgree(i) \/ VersionsDiffer(i) \/ InserterIsCanceled(i)
    \/ InsertIntoRoom(i) \/ RemoveWorst(i) \/ NoneIsWorst(i)
    \/ CancelWorst(i) \/ SubmitPeer(i) \/ AddPeer(i)

-----------------------------------------------------------------------------
(* The peers. *)

SetValue(p, v) ==
    /\ Full /\ p \in active /\ v \in ValueMin .. ValueMax
    /\ value' = [value EXCEPT ![p] = v]
    /\ UNCHANGED <<active, lastInsert, stay, insertVars, taskVars, newsVars>>

IncValue(p) == SetValue(p, value[p] + 1)
DecValue(p) == SetValue(p, value[p] - 1)

(* Element::operator(): requestBacklog() throws if the connection is closed. *)
RunPeer(p) ==
    /\ task[p] = "running" /\ receiver[p] = "none"
    /\ \/ /\ receiver' = [receiver EXCEPT ![p] = "running"]
          /\ sndr' = [sndr EXCEPT ![p] = "running"]
          /\ UNCHANGED task
       \/ /\ conn[p] = "closed"
          /\ task' = [task EXCEPT ![p] = "ended"]
          /\ UNCHANGED <<receiver, sndr>>
    /\ UNCHANGED <<setVars, insertVars, conn, newsVars>>

RemoteCloses(p) ==
    /\ conn[p] = "open" /\ task[p] # "none"
    /\ conn' = [conn EXCEPT ![p] = "closed"]
    /\ UNCHANGED <<setVars, insertVars, task, receiver, sndr, newsVars>>

ReceiverEnds(p) ==
    /\ receiver[p] = "running" /\ conn[p] = "closed" /\ ~\E x \in untold : giver[x] = p
    /\ receiver' = [receiver EXCEPT ![p] = "ended"]
    /\ UNCHANGED <<setVars, insertVars, conn, task, sndr, newsVars>>

TaskEnds(p) ==
    /\ task[p] = "running" /\ "ended" \in {receiver[p], sndr[p]}
    /\ task' = [task EXCEPT ![p] = "ended"]
    /\ UNCHANGED <<setVars, insertVars, conn, receiver, sndr, newsVars>>

(* runSender(). *)
SendNotice(p) ==
    /\ sndr[p] = "running" /\ sendQ[p] # <<>>
    /\ sendQ' = [sendQ EXCEPT ![p] = Tail(@)]
    /\ IF conn[p] = "open"
       THEN owed' = [owed EXCEPT ![p] = @ \ {Head(sendQ[p])}] /\ UNCHANGED sndr
       ELSE owed' = [owed EXCEPT ![p] = {}] /\ sndr' = [sndr EXCEPT ![p] = "ended"]
    /\ UNCHANGED <<setVars, insertVars, conn, task, receiver, have, untold, giver, noticeAge>>

-----------------------------------------------------------------------------
(* What the node gets, from the multicast or from a peer, and tells of. *)
Get(x, p) ==
    /\ x = have + 1 /\ (p # NoPeer => receiver[p] = "running" /\ conn[p] = "open")
    /\ have' = x /\ untold' = untold \cup {x}
    /\ giver' = [giver EXCEPT ![x] = p]
    /\ owed' = [q \in Peer |-> IF q \in active \ {p} /\ sndr[q] # "ended" THEN owed[q] \cup {x} ELSE owed[q]]
    /\ UNCHANGED <<setVars, insertVars, taskVars, sendQ, noticeAge>>

IsStale(x) == noticeAge[x] > MaxReside

(* SendQ::push(): the actions at the front that are too old go. *)
Dropped(q) == {n \in 1 .. Len(q) : \A m \in 1 .. n : IsStale(q[m])}
Pushed(q, x) == SubSeq(q, Cardinality(Dropped(q)) + 1, Len(q)) \o <<x>>

Told(x) == {p \in active : p # giver[x]}

NotifyPeers(x) ==
    /\ x \in untold
    /\ untold' = untold \ {x}
    /\ noticeAge' = [noticeAge EXCEPT ![x] = 0]
    /\ sendQ' = [p \in Peer |-> IF p \in Told(x) THEN Pushed(sendQ[p], x) ELSE sendQ[p]]
    /\ giver' = [giver EXCEPT ![x] = NoPeer]
    /\ UNCHANGED <<setVars, insertVars, taskVars, have, owed>>

Older(age, limit) == IF age < limit THEN age + 1 ELSE age

TimePasses ==
    /\ lastInsert' = Older(lastInsert, Stasis)
    /\ stay' = [p \in Peer |-> Older(stay[p], Stasis)]
    /\ noticeAge' = [x \in News |-> IF noticeAge[x] < 0 THEN noticeAge[x] ELSE Older(noticeAge[x], MaxReside + 1)]
    /\ UNCHANGED <<active, value, insertVars, taskVars, sendQ, have, untold, giver, owed>>

ActiveNext ==
    \/ \E i \in Inserter : InserterStep(i) \/ \E p \in Peer : Connected(i, p)
    \/ StopThreads \/ TimePasses
    \/ \E p \in Peer :
         \/ IncValue(p) \/ DecValue(p)
         \/ RunPeer(p) \/ RemoteCloses(p) \/ ReceiverEnds(p) \/ TaskEnds(p) \/ SendNotice(p)
    \/ \E x \in News : NotifyPeers(x) \/ \E p \in Peer \cup {NoPeer} : Get(x, p)

ActiveSpec == ActiveInit /\ [][ActiveNext]_peerVars

-----------------------------------------------------------------------------
Pending == {i \in Inserter : ipc[i] \in {"removed", "submit", "submitted"}}

(* Both inserters may find room for one peer, since the mutex is released  *)
(* between tryInsert()'s test (comms/p2p/PeerSet.cpp:763) and add(): with  *)
(* those under way the set exceeds its maximum by one less than there are  *)
(* inserters, and by no more.                                              *)
ExcessIsBounded ==
    Cardinality(active) + Cardinality(Pending) <= MaxPeers + Cardinality(Inserter) - 1

(* A peer is removed as the worst (comms/p2p/PeerSet.cpp:575) only after   *)
(* it has been in the set for the stasis-duration, however the inserters'  *)
(* steps mix: that is the time in which its value was measured.            *)
RemovedWasMeasured ==
    [][\A p \in active : p \in active' \/ stay[p] = Stasis]_peerVars

(* A peer that was in the set when the node got an item, and still is when *)
(* the peers have been notified of it, is told of it (unless the item came *)
(* from it) as long as the notice is younger than the maximum residence    *)
(* time (comms/p2p/PeerSet.cpp:195), whoever came and went meanwhile.      *)
MemberIsTold ==
    \A p \in Peer : \A x \in owed[p] \ untold : x \in ToSet(sendQ[p]) \/ noticeAge[x] > MaxReside

(* Both: the set's size and what its members are told, while inserters run. *)
SetInv == ExcessIsBounded /\ MemberIsTold

(* An address of the peer-source (comms/p2p/P2pMgr.cpp:185) is in it, at   *)
(* hand, or that of an initiated peer: none is lost to a failed attempt.   *)
NoAddressIsLost ==
    \A p \in Initiated : ipc[Adder] # "ended" => p \in source \cup initiatedPeers \cup {inserting[Adder]}

(* stopThreads() (comms/p2p/P2pMgr.cpp:236) gets the server's thread to    *)
(* end, also when it waits for the stasis of a full set.                   *)
ServerEnds == []<>(manager = "running" \/ \A a \in Acceptor : ipc[a] = "ended")

-----------------------------------------------------------------------------
(* The following do not hold. *)

(* The set exceeds its maximum when two inserters find the same room. *)
AtMostMaxPeers == Cardinality(active) <= MaxPeers

(* peerStopped() is not called: a peer that has ended stays in the set and *)
(* takes up room, and its address is never tried again.                    *)
EndedPeerLeaves == []<>(\A p \in active : task[p] # "ended")

(* Only the task of a removed peer is canceled: the receiver that it has   *)
(* started runs on until the remote peer closes the connection.            *)
RemovedPeerStops == []<>(\A p \in Peer : task[p] = "canceled" => receiver[p] # "running")

(* A full set of peers of the highest value has no worst peer, and a new   *)
(* one is refused with an exception.                                       *)
WorstExists == Full => Worst # {}

(* The adder is not cancelable in peerSource.pop(): stopThreads() does not *)
(* return while that blocks.                                               *)
ManagerEnds == []<>(manager = "running" \/ ipc[Adder] = "ended")

=============================================================================
