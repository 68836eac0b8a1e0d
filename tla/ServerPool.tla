----------------------------- MODULE ServerPool ------------------------------
(***************************************************************************)
(* The pool of potential remote servers (p2p/ServerPool.cpp on top of      *)
(* misc/DelayQueue.cpp) and the threads of a subscriber's manager that use *)
(* it (p2p/P2pMgr.cpp): the connector takes an address and puts it back,   *)
(* to rest for a period, if nothing came of it; the acceptor enters the    *)
(* address of a remote that is not wanted now; and a peer's thread puts    *)
(* the address of its server back when the peer stops.                     *)
(*                                                                         *)
(* An element carries the time that is left until it is revealed, so the   *)
(* clock only counts down.  Whether a peer is added is decided in P2pMgr.  *)
(* Nothing in the program calls ServerPool::close() or clear().  The       *)
(* remote address of a stopped peer is taken to be known still; Addresses  *)
(* shows when it is not.                                                   *)
(***************************************************************************)
EXTENDS Lists, Naturals, FiniteSets

CONSTANTS
    Server,      \* addresses of remote servers
    Stranger,    \* addresses from which remotes connect
    NoServer,    \* the connector has no address
    PoolPeers,   \* maxPeers
    Period       \* timePeriod

ASSUME PoolAssumption ==
    /\ IsFiniteSet(Server)
    /\ Server \cap Stranger = {} /\ NoServer \notin Server \cup Stranger
    /\ PoolPeers \in Nat \ {0} /\ Period \in Nat \ {0}

Address == Server \cup Stranger

VARIABLES
    servers,     \* the delay-queue, earliest reveal-time first
    known,       \* the servers the pool was made of
    starter,     \* where startTasks2() is
    connector,   \* where connect() is
    srvrAddr,    \* the address the connector has popped
    deadline,    \* what wait_until() has left; Period + 1 is wait()
    rested,      \* how long ago the connector was done with an address
    active       \* remotes of the peers in the peer-set

serverVars == <<servers, known, starter, connector, srvrAddr, deadline, rested, active>>

Elements == [addr : Address, wait : 0..Period]
Pooled == {servers[i].addr : i \in DOMAIN servers}

PoolTypeOK ==
    /\ servers \in Seq(Elements) /\ Distinct([i \in DOMAIN servers |-> servers[i].addr])
    /\ known \subseteq Server
    /\ starter \in {"empty?", "improver?", "improves", "alone"}
    /\ connector \in {"none", "full?", "pop", "wait", "connect", "add", "cancelled", "failed"}
    /\ srvrAddr \in Address \cup {NoServer}
    /\ deadline \in 0..(Period + 1)
    /\ rested \in [Address -> 0..Period]
    /\ active \subseteq Address

PoolInit ==
    /\ known \in SUBSET Server
    /\ \E order \in [1..Cardinality(known) -> known] :
          /\ Distinct(order)
          /\ servers = [i \in DOMAIN order |-> [addr |-> order[i], wait |-> 0]]
    /\ starter = "empty?" /\ connector = "none"
    /\ srvrAddr = NoServer /\ deadline = 0
    /\ rested = [a \in Address |-> Period]
    /\ active = {}

(* One unit of time passes. *)
PoolTick ==
    LET less(n) == IF n = 0 THEN 0 ELSE n - 1 IN
    /\ servers' = [i \in DOMAIN servers |-> [servers[i] EXCEPT !.wait = less(@)]]
    /\ deadline' = IF deadline = Period + 1 THEN deadline ELSE less(deadline)
    /\ rested' = [a \in Address |-> IF rested[a] = Period THEN Period ELSE rested[a] + 1]
    /\ <<servers', deadline', rested'>> # <<servers, deadline, rested>>
    /\ UNCHANGED <<known, starter, connector, srvrAddr, active>>

-----------------------------------------------------------------------------
(* ServerPool::consider() and DelayQueue::push().  Every address rests for *)
(* the same period, so the new one has the latest reveal-time.  A thread   *)
(* that waits is woken.                                                    *)
PushDelayed(a) ==
    /\ servers' = Append(servers, [addr |-> a, wait |-> Period])
    /\ rested' = [rested EXCEPT ![a] = 0]
    /\ deadline' = IF connector = "wait" THEN 0 ELSE deadline

(* startTasks2(): the connector is started if the pool has a server, ... *)
StartConnector ==
    /\ starter = "empty?"
    /\ connector' = IF servers = << >> THEN "none" ELSE "full?"
    /\ starter' = "improver?"
    /\ UNCHANGED <<servers, known, srvrAddr, deadline, rested, active>>

(* ... and the improver if it has one then. *)
StartImprover ==
    /\ starter = "improver?"
    /\ starter' = IF PoolPeers > 1 /\ servers # << >> THEN "improves" ELSE "alone"
    /\ UNCHANGED <<servers, known, connector, srvrAddr, deadline, rested, active>>

PoolWaitToConnect ==
    /\ connector = "full?" /\ Cardinality(active) < PoolPeers
    /\ connector' = "pop"
    /\ UNCHANGED <<servers, known, starter, srvrAddr, deadline, rested, active>>

(* DelayQueue::pop() of an address whose time has come, ... *)
PopRevealed ==
    /\ connector = "pop" /\ servers # << >> /\ Head(servers).wait = 0
    /\ srvrAddr' = Head(servers).addr
    /\ servers' = Tail(servers)
    /\ connector' = "connect"
    /\ UNCHANGED <<known, starter, deadline, rested, active>>

(* ... and the waiting for one: for ever if the queue is empty. *)
PopWaits ==
    /\ connector = "pop" /\ (servers # << >> => Head(servers).wait > 0)
    /\ connector' = "wait"
    /\ deadline' = IF servers = << >> THEN Period + 1 ELSE Head(servers).wait
    /\ UNCHANGED <<servers, known, starter, srvrAddr, rested, active>>

PopWakes ==
    /\ connector = "wait" /\ deadline = 0
    /\ connector' = "pop"
    /\ UNCHANGED <<servers, known, starter, srvrAddr, deadline, rested, active>>

-----------------------------------------------------------------------------
(* factory.connect().  Nobody listens where a stranger called from. *)
ConnectPeer ==
    /\ connector = "connect" /\ srvrAddr \in Server
    /\ connector' = "add"
    /\ UNCHANGED <<servers, known, starter, srvrAddr, deadline, rested, active>>

(* It throws, and the address goes back to the pool, ... *)
ConnectRefused ==
    /\ connector = "connect"
    /\ PushDelayed(srvrAddr)
    /\ srvrAddr' = NoServer /\ connector' = "full?"
    /\ UNCHANGED <<known, starter, active>>

(* ... except for an error that is not one of six, as a time-out is not:   *)
(* it is rethrown and ends the connector and the manager.                  *)
ConnectFatal ==
    /\ connector = "connect"
    /\ connector' = "failed" /\ srvrAddr' = NoServer
    /\ UNCHANGED <<servers, known, starter, deadline, rested, active>>

(* maybeAdd() adds the peer: there is room, or the worst one is halted. *)
PeerAdded ==
    /\ connector = "add"
    /\ active' = active \cup {srvrAddr}
    /\ srvrAddr' = NoServer /\ connector' = "full?"
    /\ UNCHANGED <<servers, known, starter, deadline, rested>>

(* Mutant of PeerRejected: the server of a peer that is not added is       *)
(* forgotten.                                                              *)
ForgetsServer ==
    /\ connector = "add" /\ Cardinality(active) >= PoolPeers
    /\ UNCHANGED <<servers, rested, deadline>>
    /\ srvrAddr' = NoServer /\ connector' = "full?"
    /\ UNCHANGED <<known, starter, active>>

(* maybeAdd() does not add it. *)
PeerRejected ==
    /\ connector = "add" /\ Cardinality(active) >= PoolPeers
    /\ PushDelayed(srvrAddr)
    /\ srvrAddr' = NoServer /\ connector' = "full?"
    /\ UNCHANGED <<known, starter, active>>

(* stopConnector(): maybeAdd() is not a cancellation point. *)
CancelConnector ==
    /\ starter \in {"improves", "alone"} /\ connector \in {"full?", "pop", "wait", "connect"}
    /\ connector' = "cancelled" /\ srvrAddr' = NoServer
    /\ UNCHANGED <<servers, known, starter, deadline, rested, active>>

(* accept(): a remote connects and is added, ... *)
StrangerAdded(a) ==
    /\ a \notin active \cup Pooled \cup {srvrAddr}
    /\ active' = active \cup {a}
    /\ UNCHANGED <<servers, known, starter, connector, srvrAddr, deadline, rested>>

(* ... or is not, and its address enters the pool. *)
StrangerRejected(a) ==
    /\ a \notin active \cup Pooled \cup {srvrAddr} /\ Cardinality(active) >= PoolPeers
    /\ PushDelayed(a)
    /\ UNCHANGED <<known, starter, connector, srvrAddr, active>>

(* stopped2(): only a peer that came from a connect() leaves an address. *)
PoolStopped(a) ==
    /\ a \in active
    /\ IF a \in Server THEN PushDelayed(a) ELSE UNCHANGED <<servers, rested, deadline>>
    /\ active' = active \ {a}
    /\ UNCHANGED <<known, starter, connector, srvrAddr>>

ConnectorStep ==
    \/ StartConnector \/ StartImprover \/ PoolWaitToConnect
    \/ PopRevealed \/ PopWaits \/ PopWakes
    \/ ConnectPeer \/ ConnectRefused \/ PeerAdded \/ PeerRejected

PoolNext ==
    \/ ConnectorStep \/ PoolTick \/ ConnectFatal \/ CancelConnector
    \/ \E a \in Stranger : StrangerAdded(a) \/ StrangerRejected(a)
    \/ \E a \in Address : PoolStopped(a)

PoolSpec == PoolInit /\ [][PoolNext]_serverVars

-----------------------------------------------------------------------------
(* No server is forgotten and none is tried twice at a time: until the     *)
(* connector ends, every server the manager was given is in the pool, or   *)
(* in the connector's hand, or the remote of a peer, and in one of these.  *)
NoServerIsLost ==
    connector \in {"cancelled", "failed"} \/
    \A s \in known :
        /\ s \in Pooled \cup active \cup {srvrAddr}
        /\ s \in Pooled => s \notin active \cup {srvrAddr}
        /\ s # srvrAddr \/ s \notin active

(* A remote that failed, or stopped, or was not wanted is left alone for   *)
(* the period, however the pushes and the waiting of pop() interleave.     *)
RetryRests == srvrAddr # NoServer => rested[srvrAddr] = Period

(* Every server is in one place, and is not tried before its time          *)
(* (consider() and pop(), ServerPool.cpp).                                 *)
PoolInv == NoServerIsLost /\ RetryRests

(* A server in the pool is tried in the end, or the connector ends, or the *)
(* peer-set is full: no notification is lost between push() and pop().     *)
ServerIsTried ==
    \A s \in Server :
        []<>(\/ s \notin Pooled \/ Cardinality(active) >= PoolPeers
             \/ connector \in {"none", "cancelled", "failed"})

(* The improver runs if the pool was given servers, whether or not the     *)
(* connector is quick to take the only one.  It does not hold.             *)
ImproverFollowsPool == starter = "alone" => PoolPeers = 1 \/ known = {}

=============================================================================
