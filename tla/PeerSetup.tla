------------------------------ MODULE PeerSetup ------------------------------
(***************************************************************************)
(* How connections between peers are made: PeerFactory                     *)
(* (main/p2p/PeerFactory.cpp), the constructors and destructors of         *)
(* PeerProto (main/protocol/PeerProto.cpp), TcpSrvrSock                    *)
(* (main/inet/Socket.cpp) and PortPool (main/inet/PortPool.cpp).           *)
(*                                                                         *)
(* A server accepts a notice-socket, exchanges node-types, and then opens  *)
(* temporary servers, on ports of the pool, for the sockets of requests    *)
(* and chunks: one if it is the publisher, two if it is a subscriber.  A   *)
(* client connects to the ports that it reads.  Servers of one process may *)
(* share the pool, as in test/node/Node_test.cpp.  A client may die, and   *)
(* an exception of accept() ends the server's manager.                     *)
(***************************************************************************)
EXTENDS Lists, Integers, FiniteSets

CONSTANTS
    PubServer,  \* servers of publishers
    SubServer,  \* servers of subscribers
    Client,     \* remote peers that connect to a server
    NoClient,
    MinPort,    \* the first port of the pool
    NumPorts,   \* the number of its ports
    MaxFaults   \* how many clients may die, and how many bind() may fail

ASSUME PeerSetupAssumption ==
    /\ PubServer \cap SubServer = {}
    /\ NoClient \notin Client
    /\ MinPort \in Nat /\ NumPorts \in Nat /\ MaxFaults \in Nat

Server == PubServer \cup SubServer
Port == MinPort .. MinPort + NumPorts - 1

VARIABLES
    pool,    \* PortPool::Impl::queue
    server,  \* where accept() is, for which client, the ports that are left
             \* to try, and the ports it has taken
    factory, \* "open", "shutdown" (in Socket::Impl::shutdown()) or "closed"
    client,  \* where the client's constructor is, its server, and the ports
             \* that were written to it
    live,    \* peers that exist on servers: their clients and ports
    faults

setupVars == <<pool, server, factory, client, live, faults>>

ServerAt == {"accept", "type", "size", "take", "port", "temporary", "ended", "failed"}
ClientAt == {"idle", "connected", "read", "gone"}

SetupTypeOK ==
    /\ pool \in Seq(Port)
    /\ server \in [Server -> [at : ServerAt, client : Client \cup {NoClient},
                              left : Nat, ports : Seq(Port)]]
    /\ factory \in [Server -> {"open", "shutdown", "closed"}]
    /\ client \in [Client -> [at : ClientAt \cup {"up"}, server : Server, ports : Seq(Port),
                              made : 0..2]]
    /\ live \subseteq [client : Client, ports : Seq(Port)]
    /\ faults \in 0..MaxFaults

Accepting == [at |-> "accept", client |-> NoClient, left |-> 0, ports |-> <<>>]

SetupInit ==
    /\ pool = [i \in 1..NumPorts |-> MinPort + i - 1]
    /\ server = [s \in Server |-> Accepting]
    /\ factory = [s \in Server |-> "open"]
    /\ client \in [Client -> [at : {"idle"}, server : Server, ports : {<<>>}, made : {0}]]
    /\ live = {} /\ faults = 0

(* How many temporary servers a constructor opens. *)
Rounds(s) == IF s \in PubServer THEN 1 ELSE 2

-----------------------------------------------------------------------------
(* The client.  TcpClntSock() connects, and init() writes the node-type. *)
Connect(c) ==
    /\ client[c].at = "idle" /\ factory[client[c].server] = "open"
    /\ client' = [client EXCEPT ![c].at = "connected"]
    /\ UNCHANGED <<pool, server, factory, live, faults>>

(* noteSock.read(port), and TcpClntSock() to it. *)
ConnectPort(c) ==
    LET s == client[c].server IN
    /\ client[c].at = "connected" /\ client[c].made < Len(client[c].ports)
    /\ server[s].at = "temporary"
    /\ client' = [client EXCEPT ![c].made = @ + 1,
                                ![c].at = IF client[c].made + 1 = Rounds(s) THEN "up" ELSE @]
    /\ UNCHANGED <<pool, server, factory, live, faults>>

(* The read of a node-type or port returns false, or connect() fails. *)
ClientFails(c) ==
    LET s == client[c].server IN
    /\ client[c].at = "connected"
    /\ \/ server[s].at \in {"ended", "failed"}
       \/ factory[s] # "open" /\ server[s].client # c
    /\ client' = [client EXCEPT ![c].at = "gone"]
    /\ UNCHANGED <<pool, server, factory, live, faults>>

ClientDies(c) ==
    /\ client[c].at = "connected" /\ faults < MaxFaults
    /\ client' = [client EXCEPT ![c].at = "gone"] /\ faults' = faults + 1
    /\ UNCHANGED <<pool, server, factory, live>>

-----------------------------------------------------------------------------
(* PeerFactory::accept(): TcpSrvrSock::accept(), and init() writes the     *)
(* node-type.                                                              *)
AcceptClient(s, c) ==
    /\ server[s].at = "accept" /\ factory[s] = "open"
    /\ client[c].server = s /\ client[c].at = "connected"
    /\ \A t \in Server : server[t].client # c
    /\ server' = [server EXCEPT ![s] = [at |-> "type", client |-> c, left |-> 0,
                                        ports |-> <<>>]]
    /\ UNCHANGED <<pool, factory, client, live, faults>>

(* ::accept() fails on a socket that is shut down.  It returns nothing if  *)
(* halt is set, and throws otherwise.                                      *)
AcceptReturns(s) ==
    /\ server[s].at = "accept" /\ factory[s] # "open"
    /\ server' = [server EXCEPT ![s].at = IF factory[s] = "closed" THEN "ended" ELSE "failed"]
    /\ UNCHANGED <<pool, factory, client, live, faults>>

(* init() reads the node-type, or throws if the client is gone. *)
RecvType(s) ==
    /\ server[s].at = "type"
    /\ \/ server' = [server EXCEPT ![s].at = "size"]
       \/ /\ client[server[s].client].at = "gone"
          /\ server' = [server EXCEPT ![s].at = "failed"]
    /\ UNCHANGED <<pool, factory, client, live, faults>>

(* createSrvrSock(): as many attempts as the pool has ports now, ... *)
PoolSize(s) ==
    /\ server[s].at = "size"
    /\ server' = [server EXCEPT ![s].at = IF pool = <<>> THEN "failed" ELSE "take",
                                ![s].left = Len(pool)]
    /\ UNCHANGED <<pool, factory, client, live, faults>>

(* ... each of which takes a port, waiting for one if there is none any    *)
(* more, and returns it if it cannot be bound.                             *)
TakePort(s) ==
    /\ server[s].at = "take" /\ pool # <<>>
    /\ \/ /\ pool' = Tail(pool)
          /\ server' = [server EXCEPT ![s].at = "port", ![s].ports = Append(@, Head(pool))]
          /\ UNCHANGED faults
       \/ /\ faults < MaxFaults /\ faults' = faults + 1
          /\ pool' = Append(Tail(pool), Head(pool))
          /\ server' = [server EXCEPT ![s].left = @ - 1,
                                      ![s].at = IF server[s].left = 1 THEN "failed" ELSE @]
    /\ UNCHANGED <<factory, client, live>>

(* noteSock.write(port).  If it throws, the port is returned.  The port of *)
(* a subscriber's first socket is not: ~PeerProto::Impl() does nothing.    *)
WritePort(s) ==
    LET c == server[s].client IN
    /\ server[s].at = "port"
    /\ \/ /\ server' = [server EXCEPT ![s].at = "temporary"]
          /\ client' = [client EXCEPT ![c].ports = server[s].ports]
          /\ UNCHANGED pool
       \/ /\ client[c].at = "gone"
          /\ pool' = Append(pool, server[s].ports[Len(server[s].ports)])
          /\ server' = [server EXCEPT ![s].at = "failed"]
          /\ UNCHANGED client
    /\ UNCHANGED <<factory, live, faults>>

(* Mutant of AcceptPort: the subscriber waits for both sockets at once. *)
AcceptsBoth(s) ==
    LET c == server[s].client IN
    /\ server[s].at = "temporary" /\ client[c].made = Rounds(s)
    /\ live' = live \cup {[client |-> c, ports |-> server[s].ports]}
    /\ server' = [server EXCEPT ![s] = Accepting]
    /\ UNCHANGED <<pool, factory, client, faults>>

(* tmpSrvrSock.accept(), which nothing but a connection ends.  Then the    *)
(* subscriber opens the second one, or the peer is ready.                  *)
AcceptPort(s) ==
    LET c == server[s].client IN
    /\ server[s].at = "temporary" /\ client[c].made = Len(server[s].ports)
    /\ IF client[c].made < Rounds(s)
       THEN server' = [server EXCEPT ![s].at = "size"] /\ UNCHANGED live
       ELSE /\ live' = live \cup {[client |-> c, ports |-> server[s].ports]}
            /\ server' = [server EXCEPT ![s] = Accepting]
    /\ UNCHANGED <<pool, factory, client, faults>>

(* Mutant of DestroyPeer: only the last socket's port is returned. *)
ReturnsOnePort(p) ==
    /\ p \in live
    /\ live' = live \ {p}
    /\ pool' = Append(pool, p.ports[Len(p.ports)])
    /\ client' = [client EXCEPT ![p.client].at = "gone"]
    /\ UNCHANGED <<server, factory, faults>>

(* ~PubPeerProto() and ~SubPeerProto(), on the peer's own thread or in the *)
(* manager: the last socket's port is returned first.                      *)
DestroyPeer(p) ==
    /\ p \in live
    /\ live' = live \ {p}
    /\ pool' = pool \o [i \in 1..Len(p.ports) |-> p.ports[Len(p.ports) - i + 1]]
    /\ client' = [client EXCEPT ![p.client].at = "gone"]
    /\ UNCHANGED <<server, factory, faults>>

(* PeerFactory::close(): ::shutdown(), and then halt is set. *)
ShutFactory(s) ==
    /\ factory[s] = "open" /\ factory' = [factory EXCEPT ![s] = "shutdown"]
    /\ UNCHANGED <<pool, server, client, live, faults>>

CloseFactory(s) ==
    /\ factory[s] = "shutdown" /\ factory' = [factory EXCEPT ![s] = "closed"]
    /\ UNCHANGED <<pool, server, client, live, faults>>

ServerStep(s) ==
    \/ AcceptReturns(s) \/ RecvType(s) \/ PoolSize(s) \/ TakePort(s) \/ WritePort(s)
    \/ AcceptPort(s) \/ CloseFactory(s) \/ \E c \in Client : AcceptClient(s, c)

SetupProgress ==
    \/ \E s \in Server : ServerStep(s)
    \/ \E c \in Client : ConnectPort(c) \/ ClientFails(c)

SetupNext ==
    \/ SetupProgress
    \/ \E c \in Client : Connect(c) \/ ClientDies(c)
    \/ \E p \in live : DestroyPeer(p)
    \/ \E s \in Server : ShutFactory(s)

SetupSpec == SetupInit /\ [][SetupNext]_setupVars

-----------------------------------------------------------------------------
Held(s) == IF server[s].at \in {"failed", "ended"} THEN {} ELSE Elems(server[s].ports)
InUse == UNION {Elems(p.ports) : p \in live}

(* Whichever threads take and return ports, no port is handed out twice.   *)
NoPortTwice ==
    /\ Distinct(pool) /\ Elems(pool) \cap InUse = {}
    /\ \A s \in Server : Held(s) \cap (Elems(pool) \cup InUse) = {}
    /\ \A s, t \in Server : s # t => Held(s) \cap Held(t) = {}
    /\ \A p, q \in live : p # q => Elems(p.ports) \cap Elems(q.ports) = {}

(* Ports come back to the pool on every path but one: a subscriber whose   *)
(* client fails between its two sockets loses the port of the first one.   *)
(* As the exception ends its manager, it loses no more than that.          *)
PortsComeBack ==
    LET lost == Port \ (Elems(pool) \cup InUse \cup UNION {Held(s) : s \in Server}) IN
    Cardinality(lost) =< Cardinality({s \in SubServer : server[s].at = "failed"})

(* Every port of the PortPool has one user at most, and comes back.        *)
PortsInv == NoPortTwice /\ PortsComeBack

(* A client that connects becomes a peer, or is told that it does not, as  *)
(* long as no client dies and nobody waits for a port.                     *)
ClientIsServed ==
    \A c \in Client : (client[c].at = "connected") ~>
        (client[c].at \in {"up", "gone"} \/ faults > 0 \/ pool = <<>>)

(* "Causes any outstanding and subsequent calls to `accept()` to return a  *)
(* default-constructed peer" (close(), PeerFactory.h): accept() returns.   *)
CloseEndsAccept ==
    \A s \in Server : (factory[s] = "closed") ~> (server[s].at \in {"ended", "failed"})

=============================================================================
