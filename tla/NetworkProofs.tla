---------------------------- MODULE NetworkProofs ----------------------------
(***************************************************************************)
(* What holds of the modules that set up and use the network, and of the   *)
(* nodes, whatever the number of servers, clients and ports, of packets,   *)
(* messages, addresses, peers and nodes, and whatever the sizes of files,  *)
(* segments, buffers and counters.  The six modules share no variable:     *)
(* each has its own inductive invariant and its own theorem.               *)
(***************************************************************************)
EXTENDS PeerSetup, Mcast, Addresses, Segments, Wire, Node, ListsProofs

-----------------------------------------------------------------------------
(* Connections and ports: PeerSetup.                                       *)

(* The port that a failed server has lost, or those that a server holds. *)
Kept(s) ==
    IF server[s].at # "failed" THEN Elems(server[s].ports)
    ELSE {x \in Port : s \in SubServer /\ server[s].ports # <<>> /\ x = server[s].ports[1]}

Failed == {s \in SubServer : server[s].at = "failed"}

(* How many ports a server has taken where it is, which are different.     *)
StageOK(s, v) ==
    /\ v \in [at : ServerAt, client : Client \cup {NoClient}, left : Nat, ports : Seq(Port)]
    /\ v.at \in {"accept", "type", "ended"} => v.ports = <<>>
    /\ v.at \in {"size", "take"} => Len(v.ports) < Rounds(s)
    /\ v.at \in {"port", "temporary"} => Len(v.ports) \in 1..Rounds(s)
    /\ v.at \in {"type", "size", "take", "port", "temporary"} => v.client \in Client
    /\ v.at # "failed" => Distinct(v.ports)
    /\ v.at = "take" => v.left # 0

ServersOK == \A s \in Server : StageOK(s, server[s])
ClientsOK == \A c \in Client : Len(client[c].ports) =< 2
LiveOK == \A p \in live : Distinct(p.ports)
Covered == \A x \in Port : x \in Elems(pool) \/ x \in InUse \/ \E s \in Server : x \in Kept(s)

(* Every port is in the pool, in a peer, in a server, or is the first one  *)
(* of a subscriber's server that has failed.                               *)
PoolInv == LiveOK /\ NoPortTwice /\ Covered /\ IsFiniteSet(Failed)

SetupInv == SetupTypeOK /\ ServersOK /\ ClientsOK /\ PoolInv

-----------------------------------------------------------------------------
(* PortPool's constructor queues every port of the range once. *)
LEMMA PoolFilled == ASSUME SetupInit PROVE SetupInv
<1>a. MinPort \in Nat /\ NumPorts \in Nat /\ MaxFaults \in Nat
  BY PeerSetupAssumption
<1>b. /\ pool = [i \in 1..NumPorts |-> MinPort + i - 1] /\ live = {} /\ faults = 0
      /\ server = [s \in Server |-> Accepting] /\ factory = [s \in Server |-> "open"]
      /\ client \in [Client -> [at : {"idle"}, server : Server, ports : {<<>>}, made : {0}]]
  BY DEF SetupInit
<1>1. pool \in Seq(Port) /\ DOMAIN pool = 1..NumPorts
  <2>1. \A i \in 1..NumPorts : MinPort + i - 1 \in Port
    BY <1>a DEF Port
  <2>2. QED
    BY <1>a, <1>b, <2>1
<1>2. Distinct(pool)
  <2>1. \A i, j \in 1..NumPorts : MinPort + i - 1 = MinPort + j - 1 => i = j
    BY <1>a
  <2>2. QED
    BY <1>b, <1>1, <2>1 DEF Distinct
<1>3. ASSUME NEW x \in Port PROVE x \in Elems(pool)
  <2>1. x - MinPort + 1 \in 1..NumPorts /\ MinPort + (x - MinPort + 1) - 1 = x
    BY <1>a DEF Port
  <2>2. pool[x - MinPort + 1] = x
    BY <1>b, <2>1
  <2>3. QED
    BY <1>1, <2>1, <2>2 DEF Elems
<1>4. <<>> \in Seq(Port) /\ Elems(<<>>) = {} /\ Distinct(<<>>) /\ Len(<<>>) = 0
  BY DEF Elems, Distinct
<1>5. \A s \in Server : StageOK(s, Accepting)
  BY <1>4 DEF StageOK, Accepting, ServerAt
<1>6. ServersOK
  BY <1>b, <1>5 DEF ServersOK
<1>7. ClientsOK
  BY <1>b, <1>4 DEF ClientsOK
<1>8. SetupTypeOK
  <2>1. server \in [Server -> [at : ServerAt, client : Client \cup {NoClient}, left : Nat,
                               ports : Seq(Port)]]
    BY <1>b, <1>5 DEF StageOK
  <2>2. client \in [Client -> [at : ClientAt \cup {"up"}, server : Server, ports : Seq(Port),
                               made : 0..2]]
    <3>1. \A r \in [at : {"idle"}, server : Server, ports : {<<>>}, made : {0}] :
            r \in [at : ClientAt \cup {"up"}, server : Server, ports : Seq(Port), made : 0..2]
      <4> TAKE r \in [at : {"idle"}, server : Server, ports : {<<>>}, made : {0}]
      <4>1. r = [at |-> "idle", server |-> r.server, ports |-> <<>>, made |-> 0]
        OBVIOUS
      <4>2. r.server \in Server /\ "idle" \in ClientAt /\ 0 \in 0..2
        BY DEF ClientAt
      <4>3. QED
        BY <1>4, <4>1, <4>2
    <3>2. QED
      BY <1>b, <3>1
  <2>3. QED
    BY <1>a, <1>b, <1>1, <2>1, <2>2 DEF SetupTypeOK
<1>9. \A s \in Server : Held(s) = {} /\ server[s].at = "accept"
  BY <1>b, <1>4 DEF Held, Accepting
<1>10. InUse = {} /\ LiveOK
  BY <1>b DEF InUse, LiveOK
<1>11. NoPortTwice
  BY <1>b, <1>2, <1>9, <1>10 DEF NoPortTwice
<1>12. Failed = {} /\ IsFiniteSet(Failed)
  <2>1. Failed = {}
    BY <1>9 DEF Failed, Server
  <2>2. QED
    BY <2>1, FS_EmptySet
<1>13. QED
  BY <1>3, <1>6, <1>7, <1>8, <1>10, <1>11, <1>12 DEF SetupInv, PoolInv, Covered

(* A server that takes and returns no port keeps the accounts, wherever it *)
(* goes; if it fails, it has a port to lose only before its last one.      *)
LEMMA ServerMoves ==
  ASSUME SetupTypeOK, ServersOK, PoolInv, NEW s \in Server, NEW v, StageOK(s, v),
         server' = [server EXCEPT ![s] = v], live' = live, Elems(pool') = Elems(pool),
         Distinct(pool'), v.ports = server[s].ports,
         v.at = "failed" => server[s].at \in {"accept", "type", "size", "take"},
         v.at # "failed" => server[s].at # "failed"
  PROVE  PoolInv' /\ ServersOK'
<1>a. server[s].ports \in Seq(Port) /\ DOMAIN server = Server
  BY DEF SetupTypeOK
<1>1. server'[s] = v /\ \A t \in Server \ {s} : server'[t] = server[t]
  BY <1>a
<1>2. ServersOK'
  BY <1>1 DEF ServersOK, StageOK
<1>3. \A t \in Server : Held(t)' \subseteq Held(t)
  <2>1. server[s].at = "ended" => server[s].ports = <<>>
    BY DEF ServersOK, StageOK
  <2>2. Elems(<<>>) = {}
    BY DEF Elems
  <2>3. Held(s)' \subseteq Held(s)
    BY <1>1, <2>1, <2>2 DEF Held
  <2>4. QED
    BY <1>1, <2>3 DEF Held
<1>4. InUse' = InUse
  BY DEF InUse
<1>5. NoPortTwice'
  BY <1>3, <1>4 DEF PoolInv, NoPortTwice
<1>6. LiveOK'
  BY DEF PoolInv, LiveOK
<1>7. Kept(s) \subseteq Kept(s)'
  <2>1. CASE v.at # "failed"
    BY <1>1, <2>1 DEF Kept
  <2>2. CASE v.at = "failed"
    <3>1. Len(server[s].ports) < Rounds(s) \/ server[s].ports = <<>>
      BY <2>2 DEF ServersOK, StageOK
    <3>2. server[s].ports = <<>> \/ (Len(server[s].ports) = 1 /\ s \in SubServer)
      <4>1. Len(server[s].ports) \in Nat /\ (Len(server[s].ports) = 0 <=> server[s].ports = <<>>)
        BY <1>a
      <4>2. Rounds(s) = 1 \/ (Rounds(s) = 2 /\ s \in SubServer)
        BY DEF Rounds, Server
      <4> DEFINE n == Len(server[s].ports)
      <4>3. n \in Nat /\ (n = 0 => server[s].ports = <<>>) /\ (n < Rounds(s) \/ n = 0)
        BY <3>1, <4>1
      <4> HIDE DEF n
      <4>4. n = 0 \/ (n = 1 /\ s \in SubServer)
        BY <4>2, <4>3
      <4>5. QED
        BY <4>3, <4>4 DEF n
    <3>3. server'[s].ports = server[s].ports /\ server'[s].at = "failed"
      BY <1>1, <2>2
    <3>4. server[s].at # "failed"
      BY <2>2
    <3>5. CASE server[s].ports = <<>>
      BY <3>4, <3>5 DEF Kept, Elems
    <3>6. CASE Len(server[s].ports) = 1 /\ s \in SubServer
      <4>1. DOMAIN server[s].ports = {1} /\ server[s].ports[1] \in Port /\ server[s].ports # <<>>
        BY <1>a, <3>6
      <4>2. Elems(server[s].ports) = {server[s].ports[1]}
        BY <4>1 DEF Elems
      <4>3. QED
        BY <3>3, <3>4, <3>6, <4>1, <4>2 DEF Kept
    <3>7. QED
      BY <3>2, <3>5, <3>6
  <2>3. QED
    BY <2>1, <2>2
<1>8. \A t \in Server \ {s} : Kept(t)' = Kept(t)
  BY <1>1 DEF Kept
<1>9. Covered'
  BY <1>4, <1>7, <1>8 DEF PoolInv, Covered
<1>10. IsFiniteSet(Failed')
  <2>1. Failed' \subseteq Failed \cup {s}
    BY <1>1 DEF Failed, Server
  <2>2. IsFiniteSet(Failed \cup {s})
    BY FS_AddElement DEF PoolInv
  <2>3. QED
    BY <2>1, <2>2, FS_Subset
<1>11. QED
  BY <1>2, <1>5, <1>6, <1>9, <1>10 DEF PoolInv

-----------------------------------------------------------------------------
(* What does not touch ports, servers and peers keeps the accounts. *)
LEMMA PoolStands ==
  ASSUME SetupInv, UNCHANGED <<pool, server, live>>
  PROVE  PoolInv' /\ ServersOK'
<1>1. \A s \in Server : Held(s)' = Held(s) /\ Kept(s)' = Kept(s)
  BY DEF Held, Kept
<1>2. InUse' = InUse /\ Failed' = Failed
  BY DEF InUse, Failed
<1>3. QED
  BY <1>1, <1>2 DEF SetupInv, ServersOK, StageOK, PoolInv, LiveOK, NoPortTwice, Covered

(* Steps that only move a client or close a factory. *)
LEMMA ClientSteps ==
  ASSUME SetupInv,
         \/ \E c \in Client : Connect(c) \/ ConnectPort(c) \/ ClientFails(c) \/ ClientDies(c)
         \/ \E s \in Server : ShutFactory(s) \/ CloseFactory(s)
  PROVE  SetupInv'
<1>a. SetupTypeOK /\ ClientsOK /\ MaxFaults \in Nat
  BY PeerSetupAssumption DEF SetupInv
<1>1. UNCHANGED <<pool, server, live>>
  BY DEF Connect, ConnectPort, ClientFails, ClientDies, ShutFactory, CloseFactory
<1>2. PoolInv' /\ ServersOK'
  BY <1>1, PoolStands
<1>3. ASSUME NEW c \in Client, Connect(c) \/ ConnectPort(c) \/ ClientFails(c) \/ ClientDies(c)
      PROVE  SetupTypeOK' /\ ClientsOK'
  <2>a. /\ client \in [Client -> [at : ClientAt \cup {"up"}, server : Server,
                                  ports : Seq(Port), made : 0..2]]
        /\ Len(client[c].ports) =< 2 /\ Len(client[c].ports) \in Nat /\ faults \in 0..MaxFaults
    BY <1>a DEF SetupTypeOK, ClientsOK
  <2>1. /\ faults' = faults \/ (faults < MaxFaults /\ faults' = faults + 1)
        /\ factory' = factory
    BY <1>3 DEF Connect, ConnectPort, ClientFails, ClientDies
  <2>2. client' \in [Client -> [at : ClientAt \cup {"up"}, server : Server,
                                ports : Seq(Port), made : 0..2]]
    <3>1. CASE Connect(c)
      BY <2>a, <3>1 DEF Connect, ClientAt
    <3>2. CASE ConnectPort(c)
      <4>1. client[c].made < Len(client[c].ports) => client[c].made + 1 \in 0..2
        BY <2>a
      <4>2. QED
        BY <2>a, <3>2, <4>1 DEF ConnectPort
    <3>3. CASE ClientFails(c)
      BY <2>a, <3>3 DEF ClientFails, ClientAt
    <3>4. CASE ClientDies(c)
      BY <2>a, <3>4 DEF ClientDies, ClientAt
    <3>5. QED
      BY <1>3, <3>1, <3>2, <3>3, <3>4
  <2>3. \A d \in Client : client'[d].ports = client[d].ports
    <3>1. CASE Connect(c)
      BY <2>a, <3>1 DEF Connect
    <3>2. CASE ConnectPort(c)
      BY <2>a, <3>2 DEF ConnectPort
    <3>3. CASE ClientFails(c)
      BY <2>a, <3>3 DEF ClientFails
    <3>4. CASE ClientDies(c)
      BY <2>a, <3>4 DEF ClientDies
    <3>5. QED
      BY <1>3, <3>1, <3>2, <3>3, <3>4
  <2>4. faults' \in 0..MaxFaults
    BY <1>a, <2>a, <2>1
  <2>5. QED
    BY <1>a, <1>1, <2>1, <2>2, <2>3, <2>4 DEF SetupTypeOK, ClientsOK
<1>4. ASSUME NEW s \in Server, ShutFactory(s) \/ CloseFactory(s)
      PROVE  SetupTypeOK' /\ ClientsOK'
  BY <1>a, <1>1, <1>4 DEF ShutFactory, CloseFactory, SetupTypeOK, ClientsOK
<1>5. QED
  BY <1>2, <1>3, <1>4 DEF SetupInv

(* The server's steps that take and return no port. *)
LEMMA MovesOnly ==
  ASSUME SetupInv, NEW s \in Server,
         (\E c \in Client : AcceptClient(s, c)) \/ AcceptReturns(s) \/ RecvType(s) \/ PoolSize(s)
  PROVE  SetupInv'
<1>a. SetupTypeOK /\ ServersOK /\ ClientsOK /\ PoolInv /\ StageOK(s, server[s])
  BY DEF SetupInv, ServersOK
<1>c. UNCHANGED <<pool, factory, client, live, faults>>
  BY DEF AcceptClient, AcceptReturns, RecvType, PoolSize
<1>b. /\ UNCHANGED <<pool, factory, client, live, faults>> /\ Distinct(pool)
      /\ pool \in Seq(Port) /\ Len(pool) \in Nat
      /\ server \in [Server -> [at : ServerAt, client : Client \cup {NoClient}, left : Nat,
                                ports : Seq(Port)]]
  BY <1>a, <1>c DEF SetupTypeOK, PoolInv, NoPortTwice
<1>1. ASSUME NEW v, StageOK(s, v), server' = [server EXCEPT ![s] = v], 
             v.ports = server[s].ports,
             server[s].at \in {"accept", "type", "size", "take"}
      PROVE  SetupInv'
  <2>1. PoolInv' /\ ServersOK'
    BY <1>a, <1>b, <1>1, ServerMoves
  <2>2. server' \in [Server -> [at : ServerAt, client : Client \cup {NoClient}, left : Nat,
                                ports : Seq(Port)]]
    BY <1>b, <1>1 DEF StageOK
  <2>3. QED
    BY <1>a, <1>b, <2>1, <2>2 DEF SetupInv, SetupTypeOK, ClientsOK
<1>2. ASSUME NEW c \in Client, AcceptClient(s, c) PROVE SetupInv'
  <2> DEFINE v == [at |-> "type", client |-> c, left |-> 0, ports |-> <<>>]
  <2>2. server[s].ports = <<>> /\ server[s].at = "accept"
    BY <1>a, <1>2 DEF AcceptClient, StageOK
  <2>3. StageOK(s, v)
    <3>1. /\ v.at = "type" /\ v.client = c /\ v.ports = <<>> /\ <<>> \in Seq(Port)
          /\ v \in [at : ServerAt, client : Client \cup {NoClient}, left : Nat,
                    ports : Seq(Port)]
      BY DEF ServerAt
    <3> HIDE DEF v
    <3>2. QED
      BY <3>1 DEF StageOK, Distinct
  <2>4. v.ports = server[s].ports /\ server' = [server EXCEPT ![s] = v]
    BY <1>2, <2>2 DEF AcceptClient
  <2>5. QED
    BY <1>1, <2>2, <2>3, <2>4
<1>3. ASSUME NEW at, NEW left \in Nat, server[s].at \in {"accept", "type", "size"},
             server' = [server EXCEPT ![s].at = at, ![s].left = left],
             \/ at \in {"ended", "failed"} /\ server[s].at = "accept"
             \/ at \in {"size", "failed"} /\ server[s].at = "type"
             \/ at \in {"take", "failed"} /\ server[s].at = "size",
             at = "take" => left # 0
      PROVE  SetupInv'
  <2> DEFINE v == [server[s] EXCEPT !.at = at, !.left = left]
  <2>1. server' = [server EXCEPT ![s] = v] /\ v.ports = server[s].ports
    BY <1>b, <1>3
  <2>2. 0 < Rounds(s) /\ Len(<<>>) = 0
    BY DEF Rounds
  <2>3. v.at = at /\ v.left = left /\ v.client = server[s].client
    BY <1>b
  <2>4. v \in [at : ServerAt, client : Client \cup {NoClient}, left : Nat, ports : Seq(Port)]
    BY <1>b, <1>3 DEF ServerAt
  <2>5. StageOK(s, v)
    <3> HIDE DEF v
    <3>1. QED
      BY <1>a, <1>3, <2>1, <2>2, <2>3, <2>4 DEF StageOK
  <2> HIDE DEF v
  <2>6. QED
    BY <1>1, <1>3, <2>1, <2>5
<1>4. CASE AcceptReturns(s)
  <2>1. server[s].left \in Nat /\ server[s].at = "accept"
    BY <1>b, <1>4 DEF AcceptReturns
  <2>2. PICK at \in {"ended", "failed"} : server' = [server EXCEPT ![s].at = at]
    BY <1>4 DEF AcceptReturns
  <2>3. server' = [server EXCEPT ![s].at = at, ![s].left = server[s].left]
    BY <1>b, <2>2
  <2>4. QED
    BY <1>3, <2>1, <2>2, <2>3
<1>5. CASE RecvType(s)
  <2>1. server[s].left \in Nat /\ server[s].at = "type"
    BY <1>b, <1>5 DEF RecvType
  <2>2. PICK at \in {"size", "failed"} : server' = [server EXCEPT ![s].at = at]
    BY <1>5 DEF RecvType
  <2>3. server' = [server EXCEPT ![s].at = at, ![s].left = server[s].left]
    BY <1>b, <2>2
  <2>4. QED
    BY <1>3, <2>1, <2>2, <2>3
<1>6. CASE PoolSize(s)
  <2>1. server[s].at = "size"
    BY <1>6 DEF PoolSize
  <2>2. PICK at \in {"take", "failed"} :
               /\ server' = [server EXCEPT ![s].at = at, ![s].left = Len(pool)]
               /\ at = "take" => pool # <<>>
    BY <1>6 DEF PoolSize
  <2>3. at = "take" => Len(pool) # 0
    BY <1>b, <2>2
  <2>4. QED
    BY <1>3, <1>b, <2>1, <2>2, <2>3
<1>7. QED
  BY <1>2, <1>4, <1>5, <1>6

-----------------------------------------------------------------------------
(* How the types and the stages of servers are kept by a step that changes *)
(* one server.                                                             *)
LEMMA OneServer ==
  ASSUME SetupInv, NEW s \in Server, NEW v, StageOK(s, v), server' = [server EXCEPT ![s] = v],
         pool' \in Seq(Port), live' \subseteq [client : Client, ports : Seq(Port)],
         faults' \in 0..MaxFaults, UNCHANGED <<factory, client>>
  PROVE  /\ SetupTypeOK' /\ ServersOK' /\ ClientsOK'
         /\ server'[s] = v /\ \A t \in Server \ {s} : server'[t] = server[t]
<1>a. SetupTypeOK /\ ServersOK /\ ClientsOK
  BY DEF SetupInv
<1>b. server \in [Server -> [at : ServerAt, client : Client \cup {NoClient}, left : Nat,
                             ports : Seq(Port)]]
  BY <1>a DEF SetupTypeOK
<1>1. server'[s] = v /\ \A t \in Server \ {s} : server'[t] = server[t]
  BY <1>b
<1>2. server' \in [Server -> [at : ServerAt, client : Client \cup {NoClient}, left : Nat,
                              ports : Seq(Port)]]
  BY <1>b DEF StageOK
<1>3. ServersOK'
  BY <1>a, <1>1 DEF ServersOK, StageOK
<1>4. QED
  BY <1>a, <1>1, <1>2, <1>3 DEF SetupTypeOK, ClientsOK

(* PortPool::take(), by one of the servers that share the pool; or the     *)
(* port at the front goes to the back.                                     *)
LEMMA PortTaken == ASSUME SetupInv, NEW s \in Server, TakePort(s) PROVE SetupInv'
<1>a. /\ SetupTypeOK /\ ServersOK /\ ClientsOK /\ PoolInv /\ StageOK(s, server[s])
      /\ MaxFaults \in Nat
  BY PeerSetupAssumption DEF SetupInv, ServersOK
<1>b. /\ server[s].at = "take" /\ pool # <<>> /\ UNCHANGED <<factory, client, live>>
      /\ pool \in Seq(Port) /\ faults \in 0..MaxFaults
      /\ live \subseteq [client : Client, ports : Seq(Port)]
      /\ server[s] \in [at : ServerAt, client : Client \cup {NoClient}, left : Nat,
                        ports : Seq(Port)]
      /\ DOMAIN server = Server
  BY <1>a DEF TakePort, SetupTypeOK
<1> DEFINE h == Head(pool)
           t == Tail(pool)
<1>c. /\ h \in Port /\ t \in Seq(Port) /\ h \in Elems(pool) /\ Elems(pool) = {h} \cup Elems(t)
      /\ Distinct(t) /\ h \notin Elems(t)
  BY <1>a, <1>b, HeadTailElems DEF PoolInv, NoPortTwice
<1>1. CASE /\ pool' = t /\ UNCHANGED faults
           /\ server' = [server EXCEPT ![s].at = "port", ![s].ports = Append(@, h)]
  <2> DEFINE old == server[s].ports
             v == [server[s] EXCEPT !.at = "port", !.ports = Append(old, h)]
  <2>1. Held(s) = Elems(old) /\ h \notin Elems(old)
    BY <1>a, <1>b, <1>c DEF Held, PoolInv, NoPortTwice
  <2>2. /\ Append(old, h) \in Seq(Port) /\ Elems(Append(old, h)) = Elems(old) \cup {h}
        /\ Distinct(Append(old, h))
    BY <1>a, <1>b, <1>c, <2>1, AppendElems DEF StageOK
  <2>3. Len(old) \in Nat /\ Len(Append(old, h)) = Len(old) + 1 /\ Len(old) < Rounds(s)
    BY <1>a, <1>b, <1>c DEF StageOK
  <2>4. Len(Append(old, h)) \in 1..Rounds(s)
    BY <2>3 DEF Rounds
  <2>5. /\ v.at = "port" /\ v.ports = Append(old, h) /\ v.client = server[s].client
        /\ v \in [at : ServerAt, client : Client \cup {NoClient}, left : Nat, ports : Seq(Port)]
    BY <1>b, <2>2 DEF ServerAt
  <2>6. StageOK(s, v)
    <3> HIDE DEF v, old
    <3>1. QED
      BY <1>a, <1>b, <2>2, <2>4, <2>5 DEF StageOK
  <2>7. server' = [server EXCEPT ![s] = v]
    BY <1>1, <1>b
  <2> HIDE DEF v
  <2>8. /\ SetupTypeOK' /\ ServersOK' /\ ClientsOK'
        /\ server'[s] = v /\ \A u \in Server \ {s} : server'[u] = server[u]
    BY <1>b, <1>c, <1>1, <2>6, <2>7, OneServer
  <2> HIDE DEF old, h, t
  <2>9. /\ Held(s)' = Elems(old) \cup {h} /\ Kept(s)' = Elems(old) \cup {h}
        /\ \A u \in Server \ {s} : Held(u)' = Held(u) /\ Kept(u)' = Kept(u)
        /\ Kept(s) = Elems(old)
    BY <1>b, <2>2, <2>5, <2>8 DEF Held, Kept, old
  <2>10. InUse' = InUse /\ LiveOK'
    BY <1>a, <1>b DEF InUse, LiveOK, PoolInv
  <2>11. Elems(pool') = Elems(t) /\ Distinct(pool') /\ h \in Elems(pool)
    BY <1>c, <1>1
  <2>12. /\ \A u \in Server \ {s} : Held(u)' \cap Held(s)' = {}
         /\ \A u \in Server : Held(u)' \cap (Elems(pool') \cup InUse) = {}
         /\ Elems(pool') \cap InUse = {}
    BY <1>a, <1>c, <2>1, <2>9, <2>11 DEF PoolInv, NoPortTwice
  <2>13. NoPortTwice'
    BY <1>a, <1>b, <2>9, <2>10, <2>11, <2>12 DEF PoolInv, NoPortTwice
  <2>14. Covered'
    BY <1>a, <1>c, <2>9, <2>10, <2>11 DEF PoolInv, Covered
  <2>15. Failed' \subseteq Failed
    BY <2>5, <2>8 DEF Failed, Server
  <2>16. IsFiniteSet(Failed')
    BY <1>a, <2>15, FS_Subset DEF PoolInv
  <2>17. QED
    BY <2>8, <2>10, <2>13, <2>14, <2>16 DEF SetupInv, PoolInv
<1>2. CASE /\ faults < MaxFaults /\ faults' = faults + 1 /\ pool' = Append(t, h)
           /\ server' = [server EXCEPT ![s].left = @ - 1,
                                       ![s].at = IF server[s].left = 1 THEN "failed" ELSE @]
  <2>1. /\ Append(t, h) \in Seq(Port) /\ Elems(Append(t, h)) = Elems(pool)
        /\ Distinct(Append(t, h))
    <3> HIDE DEF h, t
    <3>1. QED
      BY <1>c, AppendElems
  <2> DEFINE at == IF server[s].left = 1 THEN "failed" ELSE "take"
             left == server[s].left - 1
             v == [server[s] EXCEPT !.left = left, !.at = at]
  <2>2. left \in Nat /\ at \in {"failed", "take"} /\ (at = "take" => left # 0)
    BY <1>a, <1>b, <1>2 DEF StageOK
  <2>3. server' = [server EXCEPT ![s] = v]
    BY <1>2, <1>b
  <2> HIDE DEF left, at
  <2>4. /\ v.at = at /\ v.left = left /\ v.ports = server[s].ports
        /\ v.client = server[s].client
        /\ v \in [at : ServerAt, client : Client \cup {NoClient}, left : Nat, ports : Seq(Port)]
    BY <1>b, <2>2 DEF ServerAt
  <2> HIDE DEF v
  <2>5. StageOK(s, v)
    BY <1>a, <1>b, <2>2, <2>4 DEF StageOK
  <2>6. faults' \in 0..MaxFaults
    BY <1>a, <1>b, <1>2
  <2>7. SetupTypeOK' /\ ServersOK' /\ ClientsOK'
    BY <1>b, <1>2, <2>1, <2>3, <2>5, <2>6, OneServer
  <2>8. PoolInv'
    BY <1>a, <1>b, <1>2, <2>1, <2>2, <2>3, <2>4, <2>5, ServerMoves
  <2>9. QED
    BY <2>7, <2>8 DEF SetupInv
<1>3. QED
  BY <1>1, <1>2 DEF TakePort

(* noteSock.write(port), or PortPool::add() of the last port if it throws. *)
LEMMA PortWritten == ASSUME SetupInv, NEW s \in Server, WritePort(s) PROVE SetupInv'
<1> DEFINE c == server[s].client
           old == server[s].ports
<1>a. /\ SetupTypeOK /\ ServersOK /\ ClientsOK /\ PoolInv /\ StageOK(s, server[s])
  BY DEF SetupInv, ServersOK
<1>b. /\ server[s].at = "port" /\ UNCHANGED <<factory, live, faults>>
      /\ pool \in Seq(Port) /\ faults \in 0..MaxFaults
      /\ live \subseteq [client : Client, ports : Seq(Port)]
      /\ client \in [Client -> [at : ClientAt \cup {"up"}, server : Server, ports : Seq(Port),
                                made : 0..2]]
      /\ server[s] \in [at : ServerAt, client : Client \cup {NoClient}, left : Nat,
                        ports : Seq(Port)]
      /\ server \in [Server -> [at : ServerAt, client : Client \cup {NoClient}, left : Nat,
                                ports : Seq(Port)]]
  BY <1>a DEF WritePort, SetupTypeOK
<1>c. /\ c \in Client /\ old \in Seq(Port) /\ Len(old) \in 1..Rounds(s) /\ Distinct(old)
      /\ Rounds(s) = 1 \/ (Rounds(s) = 2 /\ s \in SubServer)
  BY <1>a, <1>b DEF StageOK, Rounds, Server
<1>1. CASE /\ server' = [server EXCEPT ![s].at = "temporary"] /\ UNCHANGED pool
           /\ client' = [client EXCEPT ![c].ports = old]
  <2> DEFINE v == [server[s] EXCEPT !.at = "temporary"]
  <2>1. server' = [server EXCEPT ![s] = v]
    BY <1>1, <1>b
  <2>2. /\ v.at = "temporary" /\ v.ports = server[s].ports /\ v.client = server[s].client
        /\ v \in [at : ServerAt, client : Client \cup {NoClient}, left : Nat, ports : Seq(Port)]
    BY <1>b DEF ServerAt
  <2> HIDE DEF v
  <2>3. StageOK(s, v)
    BY <1>a, <1>b, <2>2 DEF StageOK
  <2>4. PoolInv' /\ ServersOK'
    BY <1>a, <1>b, <1>1, <2>1, <2>2, <2>3, ServerMoves DEF PoolInv, NoPortTwice
  <2> HIDE DEF c, old
  <2>5. client' \in [Client -> [at : ClientAt \cup {"up"}, server : Server, ports : Seq(Port),
                                made : 0..2]]
    BY <1>b, <1>c, <1>1
  <2>6. \A d \in Client : client'[d].ports = client[d].ports \/ client'[d].ports = old
    BY <1>b, <1>1
  <2>7. Len(old) =< 2
    BY <1>c
  <2>8. ClientsOK'
    BY <1>a, <2>6, <2>7 DEF ClientsOK
  <2>9. server' \in [Server -> [at : ServerAt, client : Client \cup {NoClient}, left : Nat,
                                ports : Seq(Port)]]
    BY <1>b, <2>1, <2>2
  <2>10. QED
    BY <1>a, <1>b, <1>1, <2>4, <2>5, <2>8, <2>9 DEF SetupInv, SetupTypeOK
<1>2. CASE /\ pool' = Append(pool, old[Len(old)]) /\ UNCHANGED client
           /\ server' = [server EXCEPT ![s].at = "failed"]
  <2> DEFINE v == [server[s] EXCEPT !.at = "failed"]
             x == old[Len(old)]
  <2>1. server' = [server EXCEPT ![s] = v]
    BY <1>2, <1>b
  <2>2. /\ v.at = "failed" /\ v.ports = server[s].ports /\ v.client = server[s].client
        /\ v \in [at : ServerAt, client : Client \cup {NoClient}, left : Nat, ports : Seq(Port)]
    BY <1>b DEF ServerAt
  <2> HIDE DEF v
  <2>3. StageOK(s, v)
    BY <1>a, <1>b, <2>2 DEF StageOK
  <2>4. x \in Port /\ x \in Elems(old)
    <3>1. Len(old) \in DOMAIN old
      BY <1>c
    <3>2. QED
      BY <1>c, <3>1 DEF Elems
  <2>5. Held(s) = Elems(old) /\ Kept(s) = Elems(old) /\ x \notin Elems(pool)
    BY <1>a, <1>b, <2>4 DEF Held, Kept, PoolInv, NoPortTwice
  <2>6. /\ Append(pool, x) \in Seq(Port) /\ Elems(Append(pool, x)) = Elems(pool) \cup {x}
        /\ Distinct(Append(pool, x))
    <3> HIDE DEF x
    <3>1. QED
      BY <1>a, <1>b, <2>4, <2>5, AppendElems DEF PoolInv, NoPortTwice
  <2>7. /\ SetupTypeOK' /\ ServersOK' /\ ClientsOK'
        /\ server'[s] = v /\ \A u \in Server \ {s} : server'[u] = server[u]
    BY <1>b, <1>2, <2>1, <2>3, <2>6, OneServer
  <2>8. \A y \in Elems(old) : y = x \/ (y = old[1] /\ s \in SubServer)
    <3> DEFINE n == Len(old)
    <3>1. DOMAIN old = 1..n /\ n \in 1..Rounds(s)
      BY <1>c
    <3> HIDE DEF n, old
    <3>2. \A i \in 1..n : i = n \/ (i = 1 /\ s \in SubServer)
      BY <1>c, <3>1
    <3>3. x = old[n]
      BY DEF n, x
    <3>4. \A y \in Elems(old) : \E i \in 1..n : y = old[i]
      BY <3>1 DEF Elems
    <3> HIDE DEF x
    <3>5. QED
      BY <3>2, <3>3, <3>4
  <2>9. old # <<>>
    BY <1>c
  <2> HIDE DEF x
  <2>10. /\ Held(s)' = {} /\ \A y \in Elems(old) : y = x \/ y \in Kept(s)'
         /\ \A u \in Server \ {s} : Held(u)' = Held(u) /\ Kept(u)' = Kept(u)
    <3>1. server'[s].at = "failed" /\ server'[s].ports = old
      BY <2>2, <2>7
    <3>2. Elems(old) \subseteq Port
      BY <1>c, ElemsInSet
    <3>3. QED
      BY <2>7, <2>8, <2>9, <3>1, <3>2 DEF Held, Kept
  <2>11. InUse' = InUse /\ LiveOK' /\ Elems(pool') = Elems(pool) \cup {x} /\ Distinct(pool')
    BY <1>a, <1>b, <1>2, <2>6 DEF InUse, LiveOK, PoolInv, x
  <2>12. \A u \in Server \ {s} : x \notin Held(u)
    BY <1>a, <2>4, <2>5 DEF PoolInv, NoPortTwice
  <2>13. x \notin InUse
    BY <1>a, <2>4, <2>5 DEF PoolInv, NoPortTwice
  <2>14. \A u \in Server : Held(u)' \cap (Elems(pool') \cup InUse) = {}
    BY <1>a, <2>10, <2>11, <2>12 DEF PoolInv, NoPortTwice
  <2>15. NoPortTwice'
    <3>1. Elems(pool') \cap InUse' = {}
      BY <1>a, <2>11, <2>13 DEF PoolInv, NoPortTwice
    <3>2. \A u, w \in Server : u # w => Held(u)' \cap Held(w)' = {}
      BY <1>a, <2>10 DEF PoolInv, NoPortTwice
    <3>3. \A u \in Server : Held(u)' \cap (Elems(pool') \cup InUse') = {}
      BY <2>11, <2>14
    <3>4. \A q, r \in live' : q # r => Elems(q.ports) \cap Elems(r.ports) = {}
      BY <1>a, <1>b DEF PoolInv, NoPortTwice
    <3>5. QED
      BY <2>11, <3>1, <3>2, <3>3, <3>4 DEF NoPortTwice
  <2>16. Covered'
    BY <1>a, <2>5, <2>10, <2>11 DEF PoolInv, Covered
  <2>17. IsFiniteSet(Failed')
    <3>1. Failed' \subseteq Failed \cup {s}
      BY <2>7 DEF Failed, Server
    <3>2. IsFiniteSet(Failed \cup {s})
      BY <1>a, FS_AddElement DEF PoolInv
    <3>3. QED
      BY <3>1, <3>2, FS_Subset
  <2>18. QED
    BY <2>7, <2>11, <2>15, <2>16, <2>17 DEF SetupInv, PoolInv
<1>3. QED
  BY <1>1, <1>2 DEF WritePort

(* The last temporary server's accept() makes the peer: the ports pass     *)
(* from the server to it.                                                  *)
LEMMA PortAccepted == ASSUME SetupInv, NEW s \in Server, AcceptPort(s) PROVE SetupInv'
<1> DEFINE c == server[s].client
           old == server[s].ports
           p == [client |-> c, ports |-> old]
<1>a. /\ SetupTypeOK /\ ServersOK /\ ClientsOK /\ PoolInv /\ StageOK(s, server[s])
  BY DEF SetupInv, ServersOK
<1>b. /\ server[s].at = "temporary" /\ UNCHANGED <<pool, factory, client, faults>>
      /\ pool \in Seq(Port) /\ faults \in 0..MaxFaults
      /\ live \subseteq [client : Client, ports : Seq(Port)]
      /\ server[s] \in [at : ServerAt, client : Client \cup {NoClient}, left : Nat,
                        ports : Seq(Port)]
      /\ DOMAIN server = Server
  BY <1>a DEF AcceptPort, SetupTypeOK
<1>c. /\ c \in Client /\ old \in Seq(Port) /\ Len(old) \in 1..Rounds(s) /\ Distinct(old)
  BY <1>a, <1>b DEF StageOK
<1>1. CASE /\ client[c].made < Rounds(s) /\ client[c].made = Len(old)
           /\ server' = [server EXCEPT ![s].at = "size"] /\ UNCHANGED live
  <2> DEFINE v == [server[s] EXCEPT !.at = "size"]
  <2>1. server' = [server EXCEPT ![s] = v]
    BY <1>1, <1>b
  <2>2. /\ v.at = "size" /\ v.ports = server[s].ports /\ v.client = server[s].client
        /\ v \in [at : ServerAt, client : Client \cup {NoClient}, left : Nat, ports : Seq(Port)]
    BY <1>b DEF ServerAt
  <2> HIDE DEF v
  <2>3. StageOK(s, v)
    BY <1>a, <1>b, <1>1, <2>2 DEF StageOK
  <2>4. PoolInv'
    BY <1>a, <1>b, <1>1, <2>1, <2>2, <2>3, ServerMoves DEF PoolInv, NoPortTwice
  <2>5. SetupTypeOK' /\ ServersOK' /\ ClientsOK'
    BY <1>b, <1>1, <2>1, <2>3, OneServer
  <2>6. QED
    BY <2>4, <2>5 DEF SetupInv
<1>2. CASE live' = live \cup {p} /\ server' = [server EXCEPT ![s] = Accepting]
  <2> HIDE DEF c, old
  <2>1. p \in [client : Client, ports : Seq(Port)] /\ p.ports = old
    BY <1>c
  <2>2. StageOK(s, Accepting) /\ Accepting.ports = <<>> /\ Accepting.at = "accept"
    BY DEF StageOK, Accepting, ServerAt, Distinct
  <2>3. /\ SetupTypeOK' /\ ServersOK' /\ ClientsOK'
        /\ server'[s] = Accepting /\ \A u \in Server \ {s} : server'[u] = server[u]
    <3>1. live' \subseteq [client : Client, ports : Seq(Port)]
      BY <1>b, <1>2, <2>1
    <3>2. QED
      BY <1>b, <1>2, <2>2, <3>1, OneServer
  <2>4. Held(s) = Elems(old) /\ Kept(s) = Elems(old)
    BY <1>b DEF Held, Kept, old
  <2>5. /\ Held(s)' = {} /\ Kept(s)' = {}
        /\ \A u \in Server \ {s} : Held(u)' = Held(u) /\ Kept(u)' = Kept(u)
    <3>1. Elems(<<>>) = {}
      BY DEF Elems
    <3>2. QED
      BY <2>2, <2>3, <3>1 DEF Held, Kept
  <2> HIDE DEF p
  <2>6. InUse' = InUse \cup Elems(old)
    BY <1>2, <2>1 DEF InUse
  <2>7. LiveOK'
    BY <1>a, <1>2, <1>c, <2>1 DEF LiveOK, PoolInv
  <2>8. \A q \in live : Elems(q.ports) \cap Elems(old) = {}
    <3>1. \A q \in live : Elems(q.ports) \subseteq InUse
      BY DEF InUse
    <3>2. QED
      BY <1>a, <2>4, <3>1 DEF PoolInv, NoPortTwice
  <2>9. \A q, r \in live' : q # r => Elems(q.ports) \cap Elems(r.ports) = {}
    BY <1>a, <1>2, <2>1, <2>8 DEF PoolInv, NoPortTwice
  <2>10. NoPortTwice'
    <3>1. Elems(pool') \cap InUse' = {}
      BY <1>a, <1>b, <2>4, <2>6 DEF PoolInv, NoPortTwice
    <3>2. \A u \in Server : Held(u)' \cap (Elems(pool') \cup InUse') = {}
      BY <1>a, <1>b, <2>4, <2>5, <2>6 DEF PoolInv, NoPortTwice
    <3>3. \A u, w \in Server : u # w => Held(u)' \cap Held(w)' = {}
      BY <1>a, <2>5 DEF PoolInv, NoPortTwice
    <3>4. QED
      BY <1>a, <1>b, <2>9, <3>1, <3>2, <3>3 DEF PoolInv, NoPortTwice
  <2>11. Covered'
    BY <1>a, <1>b, <2>4, <2>5, <2>6 DEF PoolInv, Covered
  <2>12. Failed' \subseteq Failed
    BY <2>2, <2>3 DEF Failed, Server
  <2>13. IsFiniteSet(Failed')
    BY <1>a, <2>12, FS_Subset DEF PoolInv
  <2>14. QED
    BY <2>3, <2>7, <2>10, <2>11, <2>13 DEF SetupInv, PoolInv
<1>3. QED
  BY <1>1, <1>2 DEF AcceptPort

(* A peer's destructor returns its ports, the last one first. *)
LEMMA PeerDestroyed == ASSUME SetupInv, NEW p \in live, DestroyPeer(p) PROVE SetupInv'
<1> DEFINE ps == p.ports
           r == [i \in 1..Len(ps) |-> ps[Len(ps) - i + 1]]
<1>a. /\ SetupTypeOK /\ ServersOK /\ ClientsOK /\ PoolInv
  BY DEF SetupInv
<1>b. /\ live' = live \ {p} /\ pool' = pool \o r /\ UNCHANGED <<server, factory, faults>>
      /\ client' = [client EXCEPT ![p.client].at = "gone"]
  BY DEF DestroyPeer
<1>c. /\ pool \in Seq(Port) /\ ps \in Seq(Port) /\ Distinct(ps)
      /\ live \subseteq [client : Client, ports : Seq(Port)]
      /\ client \in [Client -> [at : ClientAt \cup {"up"}, server : Server, ports : Seq(Port),
                                made : 0..2]]
  BY <1>a DEF SetupTypeOK, PoolInv, LiveOK
<1> HIDE DEF ps
<1>d. r \in Seq(Port) /\ Elems(r) = Elems(ps) /\ Distinct(r)
  <2>1. \A q : q = r => q \in Seq(Port) /\ Elems(q) = Elems(ps) /\ Distinct(q)
    BY <1>c, Reversed
  <2>2. QED
    BY <2>1
<1> HIDE DEF r
<1>e. Elems(ps) \subseteq InUse
  BY DEF InUse, ps
<1>1. pool' \in Seq(Port) /\ Elems(pool') = Elems(pool) \cup Elems(ps)
  BY <1>b, <1>c, <1>d, ConcatElems
<1>2. Distinct(pool')
  <2>1. Distinct(pool) /\ Elems(pool) \cap Elems(r) = {}
    BY <1>a, <1>d, <1>e DEF PoolInv, NoPortTwice
  <2>2. QED
    BY <1>b, <1>c, <1>d, <2>1, ConcatDistinct
<1>3. \A q \in live \ {p} : Elems(q.ports) \cap Elems(ps) = {}
  BY <1>a DEF PoolInv, NoPortTwice, ps
<1>4. InUse' \subseteq InUse /\ InUse' \cap Elems(ps) = {} /\ InUse \subseteq InUse' \cup Elems(ps)
  BY <1>b, <1>3 DEF InUse, ps
<1>5. \A s \in Server : Held(s)' = Held(s) /\ Kept(s)' = Kept(s)
  BY <1>b DEF Held, Kept
<1>6. NoPortTwice'
  <2>1. Elems(pool') \cap InUse' = {}
    BY <1>a, <1>1, <1>4 DEF PoolInv, NoPortTwice
  <2>2. \A s \in Server : Held(s)' \cap (Elems(pool') \cup InUse') = {}
    BY <1>a, <1>e, <1>1, <1>4, <1>5 DEF PoolInv, NoPortTwice
  <2>3. \A q, t \in live' : q # t => Elems(q.ports) \cap Elems(t.ports) = {}
    BY <1>a, <1>b DEF PoolInv, NoPortTwice
  <2>4. QED
    BY <1>a, <1>2, <1>5, <2>1, <2>2, <2>3 DEF PoolInv, NoPortTwice
<1>7. Covered'
  BY <1>a, <1>1, <1>4, <1>5 DEF PoolInv, Covered
<1>8. LiveOK' /\ Failed' = Failed /\ ServersOK'
  BY <1>a, <1>b DEF PoolInv, LiveOK, Failed, ServersOK, StageOK
<1>9. client' \in [Client -> [at : ClientAt \cup {"up"}, server : Server, ports : Seq(Port),
                              made : 0..2]]
  BY <1>b, <1>c DEF ClientAt
<1>10. \A d \in Client : client'[d].ports = client[d].ports
  BY <1>b, <1>c
<1>11. SetupTypeOK' /\ ClientsOK'
  BY <1>a, <1>b, <1>1, <1>9, <1>10 DEF SetupTypeOK, ClientsOK
<1>12. QED
  BY <1>a, <1>6, <1>7, <1>8, <1>11 DEF SetupInv, PoolInv

-----------------------------------------------------------------------------
(* A port that is nowhere is the first one of a subscriber's server that   *)
(* has failed: no more ports are lost than servers have failed.            *)
LEMMA FewAreLost == ASSUME SetupInv PROVE PortsComeBack
<1> DEFINE lost == Port \ (Elems(pool) \cup InUse \cup UNION {Held(s) : s \in Server})
           first == [s \in Failed |-> server[s].ports[1]]
           img == {first[s] : s \in Failed}
<1>1. ASSUME NEW x \in lost PROVE x \in img
  <2>1. PICK s \in Server : x \in Kept(s)
    BY DEF SetupInv, PoolInv, Covered
  <2>2. x \notin Held(s)
    OBVIOUS
  <2>3. server[s].at # "ended"
    <3>1. server[s].at = "ended" => server[s].ports = <<>>
      BY DEF SetupInv, ServersOK, StageOK
    <3>2. QED
      BY <2>1, <3>1 DEF Kept, Elems
  <2>4. server[s].at = "failed" /\ s \in SubServer /\ x = server[s].ports[1]
    BY <2>1, <2>2, <2>3 DEF Kept, Held
  <2>5. QED
    BY <2>4 DEF Failed
<1>2. IsFiniteSet(Failed)
  BY DEF SetupInv, PoolInv
<1>3. first \in Surjection(Failed, img)
  <2>1. first \in [Failed -> img] /\ \A y \in img : \E s \in Failed : first[s] = y
    OBVIOUS
  <2> HIDE DEF first, img
  <2>2. QED
    BY <2>1, Fun_IsSurj
<1> HIDE DEF first, img
<1>4. IsFiniteSet(img) /\ Cardinality(img) =< Cardinality(Failed)
  BY <1>2, <1>3, FS_Surjection
<1>5. lost \subseteq img
  BY <1>1
<1> HIDE DEF lost
<1>6. IsFiniteSet(lost) /\ Cardinality(lost) =< Cardinality(img)
  BY <1>4, <1>5, FS_Subset
<1>7. Cardinality(lost) \in Nat /\ Cardinality(img) \in Nat /\ Cardinality(Failed) \in Nat
  BY <1>2, <1>4, <1>6, FS_CardinalityType
<1>8. Cardinality(lost) =< Cardinality(Failed)
  BY <1>4, <1>6, <1>7
<1>9. QED
  BY <1>8 DEF PortsComeBack, lost, Failed

(* The accounts hold at every step of PeerFactory, PeerProto and PortPool. *)
LEMMA PortsAccounted == SetupSpec => []SetupInv
<1>1. SetupInit => SetupInv
  BY PoolFilled
<1>2. SetupInv /\ [SetupNext]_setupVars => SetupInv'
  <2> SUFFICES ASSUME SetupInv, [SetupNext]_setupVars PROVE SetupInv'
    OBVIOUS
  <2>1. ASSUME NEW s \in Server, ServerStep(s) PROVE SetupInv'
    <3>1. \/ (\E c \in Client : AcceptClient(s, c)) \/ AcceptReturns(s) \/ RecvType(s)
          \/ PoolSize(s) \/ TakePort(s) \/ WritePort(s) \/ AcceptPort(s) \/ CloseFactory(s)
      BY <2>1 DEF ServerStep
    <3>2. QED
      BY <3>1, MovesOnly, PortTaken, PortWritten, PortAccepted, ClientSteps
  <2>2. CASE SetupProgress
    BY <2>1, <2>2, ClientSteps DEF SetupProgress
  <2>3. CASE \E c \in Client : Connect(c) \/ ClientDies(c)
    BY <2>3, ClientSteps
  <2>4. CASE \E p \in live : DestroyPeer(p)
    BY <2>4, PeerDestroyed
  <2>5. CASE \E s \in Server : ShutFactory(s)
    BY <2>5, ClientSteps
  <2>6. CASE UNCHANGED setupVars
    <3>1. UNCHANGED <<pool, server, factory, client, live, faults>>
      BY <2>6 DEF setupVars
    <3>2. PoolInv' /\ ServersOK'
      BY <3>1, PoolStands
    <3>3. QED
      BY <3>1, <3>2 DEF SetupInv, SetupTypeOK, ClientsOK
  <2>7. QED
    BY <2>2, <2>3, <2>4, <2>5, <2>6 DEF SetupNext
<1>3. QED
  BY <1>1, <1>2, PTL DEF SetupSpec

(* However many servers share a PortPool and whoever dies when, no port    *)
(* has two users, and every port comes back, except for one for each       *)
(* subscriber's server whose client fails between its two sockets.         *)
THEOREM PortsSound == SetupSpec => []PortsInv
<1>1. SetupInv => PortsInv
  BY FewAreLost DEF SetupInv, PoolInv, PortsInv
<1>2. QED
  BY <1>1, PortsAccounted, PTL

-----------------------------------------------------------------------------
(* The multicast: Mcast.                                                   *)

(* The fields take the same number of bytes on both sides, as they are     *)
(* aligned already.                                                        *)
LEMMA FieldSizes ==
  /\ AddPeek(0, 2) = 2 /\ AddWrite(0, 2) = 2
  /\ PeekFields(2, "prodInfo") = 12 /\ PeekFields(2, "dataSeg") = 16
  /\ \A var \in Nat : PacketSize("prodInfo", var) = 12 + var
  /\ \A var \in Nat : PacketSize("dataSeg", var) = 16 + var
<1>1. /\ PadLen(0, 2) = 0 /\ PadLen(2, 2) = 0
      /\ PadLen(4, 4) = 0 /\ PadLen(8, 4) = 0 /\ PadLen(12, 4) = 0
  BY DEF PadLen
<1>2. /\ CommonFields[1] = 2 /\ CommonFields[2] = 4 /\ CommonFields[3] = 4
      /\ Fields("prodInfo") = CommonFields /\ Fields("dataSeg") = Append(CommonFields, 4)
  BY DEF CommonFields, Fields
<1>3. /\ Fields("dataSeg")[1] = 2 /\ Fields("dataSeg")[2] = 4
      /\ Fields("dataSeg")[3] = 4 /\ Fields("dataSeg")[4] = 4
  BY <1>2 DEF CommonFields
<1>4. /\ AddPeek(0, 2) = 2 /\ AddPeek(2, 2) = 4 /\ AddPeek(4, 4) = 8
      /\ AddPeek(8, 4) = 12 /\ AddPeek(12, 4) = 16
  BY <1>1 DEF AddPeek
<1>5. /\ AddWrite(0, 2) = 2 /\ AddWrite(2, 2) = 4 /\ AddWrite(4, 4) = 8
      /\ AddWrite(8, 4) = 12 /\ AddWrite(12, 4) = 16
  BY <1>1 DEF AddWrite
<1>6. PeekFields(2, "prodInfo") = 12 /\ PeekFields(2, "dataSeg") = 16
  BY <1>2, <1>3, <1>4 DEF PeekFields
<1>7. WriteFields(2, "prodInfo") = 12 /\ WriteFields(2, "dataSeg") = 16
  BY <1>2, <1>3, <1>5 DEF WriteFields
<1>8. QED
  BY <1>4, <1>5, <1>6, <1>7 DEF PacketSize

(* Packets of the sender are as long as the fields and the data in them. *)
GoodPacket ==
    {packet \in [kind : Kind, var : Nat, size : Nat] :
        /\ packet.kind = "prodInfo" => packet.size = 12 + packet.var
        /\ packet.kind = "dataSeg" => packet.size = 16 + packet.var}

McastTypes ==
    /\ net \in Seq(GoodPacket) /\ buffer \in Seq(GoodPacket) /\ skip \in Nat
    /\ arrived \in Nat /\ Len(buffer) =< arrived

(* The number of packets that have left the buffer. *)
Gone == arrived - Len(buffer)

(* Where the receiver is in the packet at the head of its buffer. *)
PlaceInv ==
    /\ rcvr = "fixed" => buffer # <<>> /\ Head(buffer).kind # "other" /\ skip = 2
    /\ rcvr = "name" => buffer # <<>> /\ Head(buffer).kind = "prodInfo" /\ skip = 12
    /\ rcvr = "hereIs" =>
        /\ buffer # <<>>
        /\ \/ Head(buffer).kind = "prodInfo" /\ skip = Head(buffer).size
           \/ Head(buffer).kind = "dataSeg" /\ skip = 16
    /\ rcvr = "discard" /\ skip # 0 => buffer # <<>>

(* The packet before the one that is discarded unseen has been handled. *)
SeenInv ==
    /\ rcvr \notin {"returned", "failed"} => \A i \in 1..Gone : {i - 1, i} \cap seen # {}
    /\ rcvr = "discard" /\ skip = 0 => Gone \in seen

RcvrInv == McastTypes /\ PlaceInv /\ SeenInv

(* What the sender and the network do leaves the receiver where it is. *)
LEMMA NetworkSteps ==
  ASSUME RcvrInv, net' \in Seq(GoodPacket), UNCHANGED <<rcvr, skip, seen>>,
         \/ UNCHANGED <<buffer, arrived>>
         \/ \E x \in GoodPacket : buffer' = Append(buffer, x) /\ arrived' = arrived + 1
  PROVE  RcvrInv'
<1>1. CASE UNCHANGED <<buffer, arrived>>
  BY <1>1 DEF RcvrInv, McastTypes, PlaceInv, SeenInv, Gone
<1>2. ASSUME NEW x \in GoodPacket, buffer' = Append(buffer, x), arrived' = arrived + 1
      PROVE  RcvrInv'
  <2>1. /\ buffer' \in Seq(GoodPacket) /\ Len(buffer') = Len(buffer) + 1 /\ buffer' # <<>>
        /\ Len(buffer) \in Nat /\ arrived \in Nat
        /\ buffer # <<>> => Head(buffer') = Head(buffer)
    BY <1>2 DEF RcvrInv, McastTypes
  <2>2. Gone' = Gone
    BY <1>2, <2>1 DEF Gone
  <2>3. McastTypes'
    BY <1>2, <2>1 DEF RcvrInv, McastTypes
  <2>4. PlaceInv'
    BY <2>1 DEF RcvrInv, PlaceInv
  <2>5. SeenInv'
    BY <2>2 DEF RcvrInv, SeenInv
  <2>6. QED
    BY <2>3, <2>4, <2>5 DEF RcvrInv
<1>3. QED
  BY <1>1, <1>2

(* A packet that leaves the network. *)
LEMMA RemainingTyped ==
  ASSUME RcvrInv, NEW i \in DOMAIN net
  PROVE  Remaining(i) \in Seq(GoodPacket) /\ net[i] \in GoodPacket
<1>1. /\ net \in Seq(GoodPacket) /\ i \in 1..Len(net) /\ Len(net) \in Nat
      /\ DOMAIN net = 1..Len(net) /\ \A j \in 1..Len(net) : net[j] \in GoodPacket
  BY DEF RcvrInv, McastTypes
<1>2. i - 1 \in 0..Len(net)
  BY <1>1
<1>3. SubSeq(net, 1, i - 1) \in Seq(GoodPacket)
  BY <1>1, <1>2, PrefixElems
<1>4. SubSeq(net, i + 1, Len(net)) \in Seq(GoodPacket)
  <2>1. \A j \in (i + 1) .. Len(net) : net[j] \in GoodPacket
    BY <1>1
  <2>2. i + 1 \in 1..(Len(net) + 1) /\ Len(net) \in (i + 1 - 1) .. Len(net)
    BY <1>1
  <2>3. QED
    BY <1>1, <2>1, <2>2, SubSeqProperties
<1>5. QED
  BY <1>1, <1>3, <1>4, ConcatElems DEF Remaining

(* The sender's and the network's actions. *)
LEMMA SenderSteps ==
  ASSUME RcvrInv,
         \/ \E var \in VarSizes : Multicast("prodInfo", var) \/ Multicast("dataSeg", var)
         \/ \E size \in RuntSizes : Runt(size)
         \/ \E i \in DOMAIN net : Lose(i) \/ Duplicate(i) \/ Arrive(i)
         \/ Shutdown \/ SetHalt
  PROVE  RcvrInv'
<1>a. net \in Seq(GoodPacket) /\ VarSizes \subseteq Nat /\ RuntSizes \subseteq Nat
  BY McastAssumption DEF RcvrInv, McastTypes
<1>1. ASSUME NEW var \in VarSizes, NEW kind \in {"prodInfo", "dataSeg"}, Multicast(kind, var)
      PROVE  RcvrInv'
  <2> DEFINE x == [kind |-> kind, var |-> var, size |-> PacketSize(kind, var)]
  <2>1. x \in GoodPacket
    <3>1. kind = "prodInfo" => PacketSize(kind, var) = 12 + var
      BY <1>a, FieldSizes
    <3>2. kind = "dataSeg" => PacketSize(kind, var) = 16 + var
      BY <1>a, FieldSizes
    <3>3. var \in Nat /\ 12 + var \in Nat /\ 16 + var \in Nat
      BY <1>a
    <3>4. QED
      BY <3>1, <3>2, <3>3 DEF GoodPacket, Kind
  <2>2. UNCHANGED <<buffer, rcvr, skip, arrived, seen>>
    BY <1>1 DEF Multicast
  <2>3. net' = Append(net, x) \/ net' = net
    BY <1>1 DEF Multicast
  <2> HIDE DEF x
  <2>4. net' \in Seq(GoodPacket)
    BY <1>a, <2>1, <2>3
  <2>5. QED
    BY <2>2, <2>4, NetworkSteps
<1>2. ASSUME NEW size \in RuntSizes, Runt(size) PROVE RcvrInv'
  <2> DEFINE x == [kind |-> "other", var |-> 0, size |-> size]
  <2>1. x \in GoodPacket
    BY <1>a DEF GoodPacket, Kind
  <2>2. net' = Append(net, x) /\ UNCHANGED <<buffer, rcvr, skip, arrived, seen>>
    BY <1>2 DEF Runt
  <2> HIDE DEF x
  <2>3. net' \in Seq(GoodPacket)
    BY <1>a, <2>1, <2>2
  <2>4. QED
    BY <2>2, <2>3, NetworkSteps
<1>3. ASSUME NEW i \in DOMAIN net, Lose(i) \/ Duplicate(i) \/ Arrive(i) PROVE RcvrInv'
  <2>1. Remaining(i) \in Seq(GoodPacket) /\ net[i] \in GoodPacket
    BY RemainingTyped
  <2>2. net' \in Seq(GoodPacket)
    <3>1. net' = Remaining(i) \/ net' = Append(net, net[i])
      BY <1>3 DEF Lose, Duplicate, Arrive
    <3>2. Append(net, net[i]) \in Seq(GoodPacket)
      BY <1>a, <2>1, AppendElems
    <3>3. QED
      BY <2>1, <3>1, <3>2
  <2>3. /\ UNCHANGED <<rcvr, skip, seen>>
        /\ \/ UNCHANGED <<buffer, arrived>>
           \/ buffer' = Append(buffer, net[i]) /\ arrived' = arrived + 1
    BY <1>3 DEF Lose, Duplicate, Arrive
  <2>4. QED
    BY <2>1, <2>2, <2>3, NetworkSteps
<1>4. CASE Shutdown \/ SetHalt
  <2>1. UNCHANGED <<net, buffer, rcvr, skip, arrived, seen>>
    BY <1>4 DEF Shutdown, SetHalt, netVars
  <2>2. QED
    BY <1>a, <2>1, NetworkSteps
<1>5. QED
  BY <1>1, <1>2, <1>3, <1>4

(* peek(): the receiver goes on in the packet, or returns. *)
LEMMA PeekSteps == ASSUME RcvrInv, PeekId \/ PeekFixed \/ PeekName PROVE RcvrInv'
<1>a. /\ UNCHANGED <<net, arrived, seen>> /\ buffer \in Seq(GoodPacket) /\ skip \in Nat
      /\ arrived \in Nat /\ Len(buffer) =< arrived
  BY DEF PeekId, PeekFixed, PeekName, PeekStep, netVars, RcvrInv, McastTypes
<1>b. buffer # <<>> => /\ Head(buffer) \in GoodPacket /\ Tail(buffer) \in Seq(GoodPacket)
                       /\ Len(Tail(buffer)) =< Len(buffer)
                       /\ Head(buffer).var \in Nat /\ Head(buffer).kind \in Kind
                       /\ Head(buffer).kind = "prodInfo"
                            => Head(buffer).size = 12 + Head(buffer).var
  <2>1. buffer # <<>> => /\ Head(buffer) \in GoodPacket /\ Tail(buffer) \in Seq(GoodPacket)
                         /\ Len(Tail(buffer)) = Len(buffer) - 1
    BY <1>a
  <2>2. Len(buffer) \in Nat
    BY <1>a
  <2>3. QED
    BY <2>1, <2>2 DEF GoodPacket
<1>1. ASSUME rcvr' = "returned", buffer' = buffer \/ (buffer # <<>> /\ buffer' = Tail(buffer)),
             skip' \in Nat
      PROVE  RcvrInv'
  <2>1. Len(buffer) \in Nat /\ Len(buffer') \in Nat /\ Len(buffer') =< Len(buffer)
    BY <1>a, <1>b, <1>1
  <2>2. McastTypes'
    BY <1>a, <1>b, <1>1, <2>1 DEF RcvrInv, McastTypes
  <2>3. QED
    BY <1>1, <2>2 DEF RcvrInv, PlaceInv, SeenInv
<1>2. ASSUME NEW next, NEW nbytes \in Nat, PeekTo(nbytes, next)
      PROVE  \/ RcvrInv'
             \/ /\ buffer' = buffer /\ buffer # <<>> /\ rcvr' = next /\ skip' = nbytes
                /\ nbytes =< Head(buffer).size
  BY <1>a, <1>1, <1>2 DEF PeekTo
<1>3. ASSUME buffer' = buffer, skip' \in Nat, rcvr' # "discard" \/ skip' # 0,
             rcvr \notin {"returned", "failed"}, PlaceInv'
      PROVE  RcvrInv'
  BY <1>a, <1>3 DEF RcvrInv, McastTypes, SeenInv, Gone
<1>4. CASE PeekId
  <2> DEFINE next == IF buffer # <<>> /\ Head(buffer).kind # "other" THEN "fixed" ELSE "discard"
  <2>1. PeekTo(2, next) /\ rcvr = "id"
    BY <1>4, FieldSizes DEF PeekId, PeekStep
  <2>2. CASE /\ buffer' = buffer /\ buffer # <<>> /\ rcvr' = next /\ skip' = 2
    <3>1. PlaceInv'
      BY <2>2 DEF PlaceInv
    <3>2. QED
      BY <1>3, <2>1, <2>2, <3>1
  <2> HIDE DEF next
  <2>3. QED
    BY <1>2, <2>1, <2>2
<1>5. CASE PeekFixed
  <2> DEFINE kind == Head(buffer).kind
             next == IF kind = "prodInfo" THEN "name" ELSE "hereIs"
             nbytes == IF kind = "prodInfo" THEN 12 ELSE 16
  <2>1. /\ PeekTo(PeekFields(skip, kind), next) /\ rcvr = "fixed"
        /\ buffer # <<>>
    BY <1>5 DEF PeekFixed, PeekStep
  <2>2. kind \in {"prodInfo", "dataSeg"} /\ skip = 2
    BY <1>b, <2>1 DEF RcvrInv, PlaceInv, Kind
  <2>3. PeekFields(skip, kind) = nbytes
    BY <2>2, FieldSizes
  <2>4. CASE buffer' = buffer /\ rcvr' = next /\ skip' = nbytes
    <3>1. PlaceInv'
      BY <2>1, <2>2, <2>4 DEF PlaceInv
    <3>2. QED
      BY <1>3, <2>1, <2>4, <3>1
  <2>5. nbytes \in Nat /\ PeekTo(nbytes, next)
    BY <2>1, <2>3
  <2> HIDE DEF next, nbytes
  <2>6. QED
    BY <1>2, <2>4, <2>5
<1>6. CASE PeekName
  <2> DEFINE nbytes == skip + Head(buffer).var
  <2>1. PeekTo(nbytes, "hereIs") /\ rcvr = "name"
    BY <1>6 DEF PeekName, PeekStep
  <2>2. buffer # <<>> /\ Head(buffer).kind = "prodInfo" /\ skip = 12
    BY <2>1 DEF RcvrInv, PlaceInv
  <2>3. nbytes = Head(buffer).size /\ nbytes \in Nat
    BY <1>b, <2>2
  <2>4. CASE buffer' = buffer /\ rcvr' = "hereIs" /\ skip' = nbytes
    <3>1. PlaceInv'
      BY <2>2, <2>3, <2>4 DEF PlaceInv
    <3>2. QED
      BY <1>3, <2>1, <2>3, <2>4, <3>1
  <2> HIDE DEF nbytes
  <2>5. QED
    BY <1>2, <2>1, <2>3, <2>4
<1>7. QED
  BY <1>4, <1>5, <1>6

(* The packet that was received is handled; the discard() of the loop may  *)
(* take one that was not.                                                  *)
LEMMA HandleSteps == ASSUME RcvrInv, HereIsMcast \/ Discard PROVE RcvrInv'
<1>a. /\ UNCHANGED <<net, arrived>> /\ buffer \in Seq(GoodPacket) /\ skip \in Nat
      /\ net \in Seq(GoodPacket)
      /\ arrived \in Nat /\ Len(buffer) =< arrived /\ Len(buffer) \in Nat
  BY DEF HereIsMcast, Discard, netVars, RcvrInv, McastTypes
<1>b. buffer # <<>> => /\ Tail(buffer) \in Seq(GoodPacket) /\ Len(buffer) # 0
                       /\ Len(Tail(buffer)) = Len(buffer) - 1
  BY <1>a
<1>c. Gone \in Nat /\ Current = Gone + 1
  BY <1>a DEF Gone, Current
<1>d. buffer # <<>> /\ buffer' = Tail(buffer) => Gone' = Gone + 1 /\ Len(buffer') =< arrived'
  BY <1>a, <1>b DEF Gone
<1>1. CASE HereIsMcast
  <2>1. /\ rcvr = "hereIs" /\ buffer # <<>> /\ seen' = seen \cup {Gone + 1}
        /\ \/ rcvr' = "discard" /\ buffer' = Tail(buffer) /\ skip' = 0
           \/ rcvr' = "failed" /\ UNCHANGED <<buffer, skip>>
    BY <1>1, <1>c DEF HereIsMcast, RcvrInv, PlaceInv
  <2>2. McastTypes'
    BY <1>a, <1>b, <1>d, <2>1 DEF McastTypes
  <2>3. PlaceInv'
    BY <2>1 DEF PlaceInv
  <2>4. SeenInv'
    <3>1. CASE rcvr' = "failed"
      BY <3>1 DEF SeenInv
    <3>2. CASE rcvr' = "discard" /\ buffer' = Tail(buffer) /\ skip' = 0
      <4>1. Gone' = Gone + 1 /\ Gone' \in seen'
        BY <1>d, <2>1, <3>2
      <4>2. \A i \in 1..Gone : {i - 1, i} \cap seen # {}
        BY <2>1 DEF RcvrInv, SeenInv
      <4>3. \A i \in 1..(Gone + 1) : i \in 1..Gone \/ i = Gone + 1
        BY <1>c
      <4>4. \A i \in 1..Gone' : {i - 1, i} \cap seen' # {}
        BY <2>1, <4>1, <4>2, <4>3
      <4>5. QED
        BY <4>1, <4>4 DEF SeenInv
    <3>3. QED
      BY <2>1, <3>1, <3>2
  <2>5. QED
    BY <2>2, <2>3, <2>4 DEF RcvrInv
<1>2. CASE Discard
  <2>1. /\ rcvr = "discard" /\ rcvr' = "id" /\ skip' = 0
        /\ buffer' = IF buffer = <<>> THEN buffer ELSE Tail(buffer)
        /\ seen' = IF skip # 0 THEN seen \cup {Gone + 1} ELSE seen
    BY <1>2, <1>c DEF Discard
  <2>2. McastTypes'
    BY <1>a, <1>b, <1>d, <2>1 DEF McastTypes
  <2>3. PlaceInv'
    BY <2>1 DEF PlaceInv
  <2>4. \A i \in 1..Gone : {i - 1, i} \cap seen # {}
    BY <2>1 DEF RcvrInv, SeenInv
  <2>5. \A i \in 1..Gone : {i - 1, i} \cap seen' # {}
    BY <2>1, <2>4
  <2>6. SeenInv'
    <3>1. CASE buffer = <<>>
      <4>1. Gone' = Gone
        BY <1>a, <2>1, <3>1 DEF Gone
      <4>2. QED
        BY <2>1, <2>5, <4>1 DEF SeenInv
    <3>2. CASE buffer # <<>>
      <4>1. Gone' = Gone + 1
        BY <1>d, <2>1, <3>2
      <4>2. Gone \in seen' \/ Gone + 1 \in seen'
        BY <2>1 DEF RcvrInv, SeenInv
      <4>3. (Gone + 1) - 1 = Gone
        BY <1>c
      <4>4. \A i \in 1..(Gone + 1) : i \in 1..Gone \/ i = Gone + 1
        BY <1>c
      <4>5. \A i \in 1..Gone' : {i - 1, i} \cap seen' # {}
        BY <2>5, <4>1, <4>2, <4>3, <4>4
      <4>6. QED
        BY <2>1, <4>5 DEF SeenInv
    <3>3. QED
      BY <3>1, <3>2
  <2>7. QED
    BY <2>2, <2>3, <2>6 DEF RcvrInv
<1>3. QED
  BY <1>1, <1>2

(* Whatever the network loses, repeats or reorders, the receiver reads     *)
(* every packet as the sender has laid it out, and of two packets in a row *)
(* it handles one.                                                         *)
THEOREM ReceptionSound == McastSpec => []McastInv
<1>1. McastInit => RcvrInv
  <2> SUFFICES ASSUME McastInit PROVE RcvrInv
    OBVIOUS
  <2>1. /\ net = <<>> /\ buffer = <<>> /\ rcvr = "id" /\ skip = 0 /\ arrived = 0 /\ seen = {}
    BY DEF McastInit
  <2>2. Gone = 0
    <3>1. Len(<<>>) = 0
      OBVIOUS
    <3>2. Len(buffer) = 0
      BY <2>1, <3>1
    <3>3. arrived - Len(buffer) = 0 - 0
      BY <2>1, <3>2
    <3>4. QED
      BY <3>3 DEF Gone
  <2>3. QED
    BY <2>1, <2>2 DEF RcvrInv, McastTypes, PlaceInv, SeenInv
<1>2. RcvrInv /\ [McastNext]_mcastVars => RcvrInv'
  <2> SUFFICES ASSUME RcvrInv, [McastNext]_mcastVars PROVE RcvrInv'
    OBVIOUS
  <2>1. CASE McastNext
    BY <2>1, SenderSteps, PeekSteps, HandleSteps DEF McastNext, RcvrStep
  <2>2. CASE UNCHANGED mcastVars
    <3>1. UNCHANGED <<net, buffer, rcvr, skip, arrived, seen>>
      BY <2>2 DEF mcastVars, netVars
    <3>2. net \in Seq(GoodPacket)
      BY DEF RcvrInv, McastTypes
    <3>3. QED
      BY <3>1, <3>2, NetworkSteps
  <2>3. QED
    BY <2>1, <2>2
<1>3. RcvrInv => McastInv
  <2> SUFFICES ASSUME RcvrInv PROVE McastInv
    OBVIOUS
  <2>1. LayoutsAgree
    <3> SUFFICES ASSUME rcvr = "hereIs"
                 PROVE  LET packet == Head(buffer) IN
                        skip + (IF packet.kind = "dataSeg" THEN packet.var ELSE 0) = packet.size
      BY DEF LayoutsAgree
    <3>1. Head(buffer) \in GoodPacket
      BY DEF RcvrInv, McastTypes, PlaceInv
    <3>2. skip \in Nat /\ (\/ Head(buffer).kind = "prodInfo" /\ skip = Head(buffer).size
                           \/ Head(buffer).kind = "dataSeg" /\ skip = 16)
      BY DEF RcvrInv, McastTypes, PlaceInv
    <3>3. QED
      BY <3>1, <3>2 DEF GoodPacket
  <2>2. AtMostEveryOtherIsLost
    BY DEF RcvrInv, SeenInv, AtMostEveryOtherIsLost, Gone
  <2>3. QED
    BY <2>1, <2>2 DEF McastInv
<1>4. QED
  BY <1>1, <1>2, <1>3, PTL DEF McastSpec

-----------------------------------------------------------------------------
(* Addresses of servers and peers: Addresses.                              *)

(* Addresses of servers: the names are known to getaddrinfo(). *)
Address ==
    {a \in [inet : [kind : InetKind, val : Nat], port : 0..PortMax] :
        a.inet.kind = "name" => a.inet.val \in DOMAIN Lookup}

(* The kinds of addresses in the order that the three types define. *)
Before(a, b) ==
    \/ a.kind = "inet4" /\ b.kind # "inet4"
    \/ a.kind = "inet6" /\ b.kind = "name"
    \/ a.kind = b.kind /\ a.val < b.val

(* An operator that asks its right operand gives the same order. *)
LEMMA LessIsBefore ==
  ASSUME NEW a \in [kind : InetKind, val : Nat], NEW b \in [kind : InetKind, val : Nat]
  PROVE  InetLess(a, b) <=> Before(a, b)
<1>1. /\ a.kind \in {"inet4", "inet6", "name"} /\ a.val \in Nat
      /\ b.kind \in {"inet4", "inet6", "name"} /\ b.val \in Nat
  BY DEF InetKind
<1>2. TypedLess(b, a) <=> Before(b, a)
  <2>1. CASE b.kind = "inet4"
    BY <1>1, <2>1 DEF TypedLess, Inet4Less, Before
  <2>2. CASE b.kind = "inet6"
    BY <1>1, <2>2 DEF TypedLess, Inet6Less, Before
  <2>3. CASE b.kind = "name"
    BY <1>1, <2>3 DEF TypedLess, NameLess, Before
  <2>4. QED
    BY <1>1, <2>1, <2>2, <2>3
<1>3. QED
  BY <1>1, <1>2 DEF InetLess, InetEqual, Before

(* SockAddr's order is total, and its equality is the identity of the      *)
(* address and the port.                                                   *)
LEMMA SockOrder ==
  ASSUME NEW a \in Address, NEW b \in Address
  PROVE  /\ ~(SockLess(a, b) /\ SockLess(b, a))
         /\ SockEqual(a, b) <=> a = b
         /\ SockLess(a, b) \/ SockLess(b, a) \/ a = b
         /\ \A c \in Address : SockLess(a, b) /\ SockLess(b, c) => SockLess(a, c)
<1>a. Byte \in Nat \ {0} /\ PortMax \in Int
  BY AddressesAssumption DEF PortMax
<1>1. ASSUME NEW x \in Address
      PROVE  /\ x.inet \in [kind : InetKind, val : Nat] /\ x.port \in Nat
             /\ x.inet.kind \in {"inet4", "inet6", "name"} /\ x.inet.val \in Nat
  BY <1>a DEF Address, InetKind
<1>2. \A x, y \in Address :
         SockLess(x, y) <=> Before(x.inet, y.inet)
                            \/ (~Before(y.inet, x.inet) /\ x.port < y.port)
  BY <1>1, LessIsBefore DEF SockLess
<1>3. \A x, y \in Address : ~Before(x.inet, y.inet) /\ ~Before(y.inet, x.inet)
                               => x.inet.kind = y.inet.kind /\ x.inet.val = y.inet.val
  BY <1>1 DEF Before
<1>4. \A x, y \in Address :
         x.inet.kind = y.inet.kind /\ x.inet.val = y.inet.val /\ x.port = y.port => x = y
  BY DEF Address
<1>5. \A x, y \in Address : ~(Before(x.inet, y.inet) /\ Before(y.inet, x.inet))
  BY <1>1 DEF Before
<1>6. \A x, y \in Address : ~(SockLess(x, y) /\ SockLess(y, x))
  BY <1>1, <1>2, <1>5
<1>7. \A x, y \in Address : SockLess(x, y) \/ SockLess(y, x) \/ x = y
  BY <1>1, <1>2, <1>3, <1>4
<1>8. ASSUME NEW c \in Address, SockLess(a, b), SockLess(b, c) PROVE SockLess(a, c)
  BY <1>1, <1>2, <1>8 DEF Before
<1>9. ~SockLess(a, a)
  BY <1>6
<1>10. QED
  BY <1>6, <1>7, <1>8, <1>9 DEF SockEqual

(* A quotient and a remainder are what they are. *)
LEMMA DivMod ==
  ASSUME NEW B \in Nat \ {0}, NEW q \in Nat, NEW r \in 0..(B - 1)
  PROVE  (q * B + r) \div B = q /\ (q * B + r) % B = r
OBVIOUS

(* htons() twice. *)
LEMMA HtonTwice ==
  ASSUME NEW port \in 0..PortMax
  PROVE  Hton(port) \in 0..PortMax /\ Hton(Hton(port)) = port
<1> DEFINE q == port \div Byte
           r == port % Byte
<1>a. Byte \in Nat \ {0}
  BY AddressesAssumption
<1>1. q \in 0..(Byte - 1) /\ r \in 0..(Byte - 1) /\ port = q * Byte + r
  BY <1>a DEF PortMax
<1>2. Hton(port) = r * Byte + q
  BY DEF Hton
<1> HIDE DEF q, r
<1>3. Hton(Hton(port)) = q * Byte + r
  <2> DEFINE h == r * Byte + q
  <2>1. h \div Byte = r /\ h % Byte = q
    BY <1>a, <1>1, DivMod
  <2>2. Hton(port) = h
    BY <1>2
  <2> HIDE DEF h
  <2>3. QED
    BY <2>1, <2>2 DEF Hton
<1>4. r * Byte + q \in 0..PortMax
  BY <1>a, <1>1 DEF PortMax
<1>5. QED
  BY <1>1, <1>2, <1>3, <1>4

-----------------------------------------------------------------------------
(* What get_sockaddr() yields. *)
LEMMA StorageOfAddress ==
  ASSUME NEW b \in Address, HasStorage(b)
  PROVE  /\ Storage(b) = [family |-> "AF_INET", port |-> Hton(b.port), val |-> Storage(b).val]
         /\ Storage(b).val \in Nat
<1>1. b.inet \in [kind : InetKind, val : Nat] /\ b.inet.kind \in {"inet4", "inet6", "name"}
  BY DEF Address, InetKind
<1>2. CASE b.inet.kind = "inet4"
  BY <1>1, <1>2 DEF Storage, Inet4Storage
<1>3. CASE b.inet.kind = "inet6"
  BY <1>1, <1>3 DEF Storage, Inet6Storage
<1>4. CASE b.inet.kind = "name"
  <2> DEFINE name == b.inet.val
             list == Lookup[name]
             keep == Inet4s(name)
             i == Source(keep, 1)
  <2>1. Storage(b) = [family |-> "AF_INET", port |-> Hton(b.port), val |-> list[i].val]
    BY <1>4 DEF Storage, NameStorage
  <2>2. list \in Seq([kind : {"inet4", "inet6"}, val : Nat])
    BY <1>4, AddressesAssumption DEF Address
  <2>3. keep # {} /\ keep \subseteq DOMAIN list
    BY <1>4 DEF HasStorage, Inet4s
  <2> HIDE DEF list, keep
  <2>4. DOMAIN list = 1..Len(list) /\ Len(list) \in Nat
    BY <2>2
  <2>5. IsFiniteSet(keep) /\ Cardinality(keep) # 0 /\ Cardinality(keep) \in Nat
    <3>1. IsFiniteSet(1..Len(list))
      BY <2>4, FS_Interval
    <3>2. IsFiniteSet(keep)
      BY <2>3, <2>4, <3>1, FS_Subset
    <3>3. QED
      BY <2>3, <3>2, FS_EmptySet, FS_CardinalityType
  <2>6. 1 \in 1..Cardinality(keep)
    BY <2>5
  <2>7. \E k \in keep : Place(keep, k) = 1
    BY <2>3, <2>4, <2>6, PlaceIsSurjection
  <2>8. i \in keep
    BY <2>7 DEF Source
  <2> HIDE DEF i
  <2>9. list[i].val \in Nat
    <3>1. i \in 1..Len(list)
      BY <2>3, <2>4, <2>8
    <3> DEFINE Entry == [kind : {"inet4", "inet6"}, val : Nat]
    <3>2. \A e \in Entry : e.val \in Nat
      OBVIOUS
    <3>3. list \in Seq(Entry)
      BY <2>2
    <3> HIDE DEF Entry
    <3>4. list[i] \in Entry
      BY <3>1, <3>3
    <3>5. QED
      BY <3>2, <3>4
  <2>10. QED
    BY <2>1, <2>9
<1>5. QED
  BY <1>1, <1>2, <1>3, <1>4

(* A connection leads where its socket says that it leads. *)
LEMMA RemoteEndpoint ==
  ASSUME NEW a \in Address, HasStorage(a), NEW rmt, rmt = FromStorage(Storage(a))
  PROVE  rmt \in Address /\ HasStorage(rmt) /\ Endpoint(rmt) = Endpoint(a)
<1> DEFINE v == Storage(a).val
<1>1. v \in Nat /\ Storage(a) = [family |-> "AF_INET", port |-> Hton(a.port), val |-> v]
  BY StorageOfAddress
<1>2. a.port \in 0..PortMax /\ Hton(Hton(a.port)) = a.port
  BY HtonTwice DEF Address
<1>3. Storage(a).family = "AF_INET" /\ Storage(a).port = Hton(a.port)
  BY <1>1
<1>4. rmt = [inet |-> [kind |-> "inet4", val |-> v], port |-> a.port]
  BY <1>2, <1>3 DEF FromStorage
<1> HIDE DEF v
<1>5. rmt \in Address /\ HasStorage(rmt)
  BY <1>1, <1>2, <1>4 DEF Address, InetKind, HasStorage
<1>6. Storage(rmt).val = v
  <2>1. rmt.inet.kind = "inet4" /\ rmt.inet.val = v
    BY <1>4
  <2>2. Storage(rmt) = Inet4Storage(rmt)
    BY <2>1 DEF Storage
  <2>3. QED
    BY <2>1, <2>2 DEF Inet4Storage
<1>7. QED
  BY <1>4, <1>5, <1>6 DEF Endpoint, v

(* A part of 1..n that has no gaps is an interval. *)
LEMMA NoGaps ==
  ASSUME NEW n \in Nat, NEW P, P \subseteq 1..n,
         \A i \in P : \A k \in 1..i : k \in P
  PROVE  P = 1..Cardinality(P) /\ Cardinality(P) \in 0..n
<1> DEFINE N == Cardinality(P)
<1>1. IsFiniteSet(1..n) /\ Cardinality(1..n) = n
  BY FS_Interval
<1>2. IsFiniteSet(P) /\ N =< n /\ N \in Nat
  BY <1>1, FS_Subset, FS_CardinalityType
<1>3. ASSUME NEW i \in P PROVE Place(P, i) = i /\ i =< N
  <2>a. i \in 1..n /\ \A k \in P : k \in 1..n
    OBVIOUS
  <2>1. {k \in P : k =< i} = 1..i
    <3>1. \A k \in P : k =< i => k \in 1..i
      BY <2>a
    <3>2. \A k \in 1..i : k \in P /\ k =< i
      BY <1>3, <2>a
    <3>3. QED
      BY <3>1, <3>2
  <2>2. Cardinality(1..i) = i
    BY FS_Interval
  <2>3. 1..i \subseteq P
    BY <1>3
  <2>4. Cardinality(1..i) =< N
    BY <1>2, <2>3, FS_Subset
  <2>5. QED
    BY <2>1, <2>2, <2>4 DEF Place
<1>4. ASSUME NEW j \in 1..N PROVE j \in P
  <2>1. \E i \in P : Place(P, i) = j
    BY PlaceIsSurjection
  <2>2. QED
    BY <1>3, <2>1
<1>5. P \subseteq 1..N
  BY <1>2, <1>3
<1>6. 1..N \subseteq P
  BY <1>4
<1>7. N \in 0..n
  BY <1>2
<1>8. P = 1..N
  BY <1>5, <1>6
<1>9. QED
  BY <1>7, <1>8

(* Lists of addresses. *)
LEMMA AddressesConcat ==
  \A s, t \in Seq(Address) :
     /\ s \o t \in Seq(Address) /\ Len(s \o t) = Len(s) + Len(t)
     /\ \A i \in 1..Len(s) : (s \o t)[i] = s[i]
     /\ \A i \in 1..Len(t) : (s \o t)[Len(s) + i] = t[i]
<1> TAKE s, t \in Seq(Address)
<1>1. s \o t \in Seq(Address) /\ Len(s \o t) = Len(s) + Len(t)
  BY ConcatAt
<1>2. \A i \in 1..Len(s) : (s \o t)[i] = s[i]
  BY ConcatAt
<1>3. \A i \in 1..Len(t) : (s \o t)[Len(s) + i] = t[i]
  BY ConcatAt
<1>4. QED
  BY <1>1, <1>2, <1>3

(* Keys in order. *)
Ordered(keys) == \A i, j \in DOMAIN keys : i < j => SockLess(keys[i], keys[j])

(* std::set::insert() keeps the order. *)
LEMMA InsertedInOrder ==
  ASSUME NEW keys \in Seq(Address), Ordered(keys), NEW a \in Address
  PROVE  Inserted(keys, a) \in Seq(Address) /\ Ordered(Inserted(keys, a))
<1> DEFINE P == {i \in DOMAIN keys : SockLess(keys[i], a)}
           m == Position(keys, a)
           n == Len(keys)
<1>1. n \in Nat /\ DOMAIN keys = 1..n /\ \A i \in 1..n : keys[i] \in Address
  OBVIOUS
<1>2. P \subseteq 1..n
  OBVIOUS
<1>3. ASSUME NEW i \in P, NEW k \in 1..i PROVE k \in P
  <2>1. i \in 1..n /\ SockLess(keys[i], a)
    OBVIOUS
  <2>2. k \in 1..n /\ (k = i \/ k < i)
    BY <1>1, <2>1
  <2>3. CASE k < i
    BY <1>1, <2>1, <2>2, <2>3, SockOrder DEF Ordered
  <2>4. QED
    BY <2>1, <2>2, <2>3
<1>4. P = 1..m /\ m \in 0..n
  <2>1. m = Cardinality(P)
    BY DEF Position
  <2> HIDE DEF m, P
  <2>2. P = 1..Cardinality(P) /\ Cardinality(P) \in 0..n
    BY <1>1, <1>2, <1>3, NoGaps
  <2>3. QED
    BY <2>1, <2>2
<1>5. \A i \in 1..n : SockLess(keys[i], a) <=> i =< m
  <2>1. \A i \in 1..n : SockLess(keys[i], a) <=> i \in P
    BY <1>1
  <2> HIDE DEF P, m
  <2>2. QED
    BY <1>1, <1>4, <2>1
<1>6. CASE Contains(keys, a)
  BY <1>6 DEF Inserted
<1>7. CASE ~Contains(keys, a)
  <2> DEFINE l == SubSeq(keys, 1, m)
             r == SubSeq(keys, m + 1, n)
             la == l \o <<a>>
             new == la \o r
  <2>1. Inserted(keys, a) = new
    BY <1>7 DEF Inserted
  <2>2. \A i \in (m + 1)..n : SockLess(a, keys[i])
    <3>1. m + 1 > n \/ SockLess(a, keys[m + 1])
      BY <1>1, <1>4, <1>7 DEF Contains
    <3> HIDE DEF m, n
    <3> SUFFICES ASSUME NEW i \in (m + 1)..n PROVE SockLess(a, keys[i])
      OBVIOUS
    <3>2. SockLess(a, keys[m + 1]) /\ m + 1 \in 1..n /\ i \in 1..n /\ (i = m + 1 \/ m + 1 < i)
      BY <1>1, <1>4, <3>1
    <3>3. CASE m + 1 < i
      BY <1>1, <3>2, <3>3, SockOrder DEF Ordered
    <3>4. QED
      BY <3>2, <3>3
  <2> HIDE DEF m, n, P
  <2>3. /\ l \in Seq(Address) /\ Len(l) = m /\ \A i \in 1..m : l[i] = keys[i]
    BY <1>1, <1>4, PrefixElems, SubSeqProperties DEF n
  <2>4. /\ r \in Seq(Address) /\ Len(r) = n - m /\ \A i \in 1..(n - m) : r[i] = keys[m + i]
    BY <1>4, SuffixAt DEF n
  <2> HIDE DEF l, r
  <2>5. /\ la \in Seq(Address) /\ Len(la) = m + 1 /\ la[m + 1] = a
        /\ \A i \in 1..m : la[i] = keys[i]
    <3> DEFINE one == <<a>>
    <3>1. one \in Seq(Address) /\ Len(one) = 1 /\ one[1] = a /\ 1 \in 1..1
      OBVIOUS
    <3> HIDE DEF one
    <3>a. /\ l \o one \in Seq(Address) /\ Len(l \o one) = Len(l) + Len(one)
          /\ \A i \in 1..Len(l) : (l \o one)[i] = l[i]
          /\ \A i \in 1..Len(one) : (l \o one)[Len(l) + i] = one[i]
      BY <2>3, <3>1, AddressesConcat
    <3>2. /\ l \o one \in Seq(Address) /\ Len(l \o one) = m + 1
          /\ \A i \in 1..m : (l \o one)[i] = l[i]
          /\ \A i \in 1..1 : (l \o one)[m + i] = one[i]
      BY <2>3, <3>1, <3>a
    <3>3. QED
      BY <2>3, <3>1, <3>2 DEF one
  <2> HIDE DEF la
  <2>6. /\ new \in Seq(Address) /\ Len(new) = m + 1 + (n - m)
        /\ \A i \in 1..(m + 1) : new[i] = la[i]
        /\ \A i \in 1..(n - m) : new[m + 1 + i] = r[i]
    <3>1. /\ new \in Seq(Address) /\ Len(new) = Len(la) + Len(r)
          /\ \A i \in 1..Len(la) : new[i] = la[i]
          /\ \A i \in 1..Len(r) : new[Len(la) + i] = r[i]
      BY <2>4, <2>5, AddressesConcat
    <3> HIDE DEF new
    <3>2. QED
      BY <2>4, <2>5, <3>1
  <2>a. Len(new) = n + 1
    BY <1>1, <1>4, <2>6
  <2> HIDE DEF new
  <2>7. ASSUME NEW i \in 1..(n + 1)
        PROVE  /\ i =< m => new[i] = keys[i]
               /\ i = m + 1 => new[i] = a
               /\ i > m + 1 => i - 1 \in (m + 1)..n /\ new[i] = keys[i - 1]
    <3>1. i =< m => i \in 1..(m + 1) /\ i \in 1..m
      BY <1>1, <1>4
    <3>2. i > m + 1 => /\ i - (m + 1) \in 1..(n - m) /\ m + (i - (m + 1)) = i - 1
                       /\ m + 1 + (i - (m + 1)) = i /\ i - 1 \in (m + 1)..n
      BY <1>1, <1>4
    <3>3. i = m + 1 => i \in 1..(m + 1)
      BY <1>1, <1>4
    <3>4. QED
      BY <2>4, <2>5, <2>6, <3>1, <3>2, <3>3
  <2>8. ASSUME NEW i \in 1..(n + 1), NEW j \in 1..(n + 1), i < j
        PROVE  SockLess(new[i], new[j])
    <3>1. CASE j =< m
      <4>1. new[i] = keys[i] /\ new[j] = keys[j] /\ i \in 1..n /\ j \in 1..n
        BY <1>1, <1>4, <2>7, <2>8, <3>1
      <4>2. QED
        BY <1>1, <2>8, <4>1 DEF Ordered
    <3>2. CASE j = m + 1
      <4>1. new[i] = keys[i] /\ new[j] = a /\ i \in 1..n /\ i =< m
        BY <1>1, <1>4, <2>7, <2>8, <3>2
      <4>2. QED
        BY <1>5, <4>1
    <3>3. CASE j > m + 1
      <4>1. new[j] = keys[j - 1] /\ j - 1 \in (m + 1)..n
        BY <2>7, <3>3
      <4>2. CASE i =< m
        <5>1. new[i] = keys[i] /\ i \in 1..n /\ j - 1 \in 1..n /\ i < j - 1
          BY <1>1, <1>4, <2>7, <3>3, <4>2
        <5>2. QED
          BY <1>1, <4>1, <5>1 DEF Ordered
      <4>3. CASE i = m + 1
        BY <2>2, <2>7, <4>1, <4>3
      <4>4. CASE i > m + 1
        <5>1. new[i] = keys[i - 1] /\ i - 1 \in 1..n /\ j - 1 \in 1..n /\ i - 1 < j - 1
          BY <1>1, <1>4, <2>7, <2>8, <3>3, <4>4
        <5>2. QED
          BY <1>1, <4>1, <5>1 DEF Ordered
      <4>5. QED
        BY <1>1, <1>4, <4>2, <4>3, <4>4
    <3>4. QED
      BY <1>1, <1>4, <3>1, <3>2, <3>3
  <2>9. QED
    BY <2>1, <2>6, <2>a, <2>8 DEF Ordered
<1>8. QED
  BY <1>6, <1>7

-----------------------------------------------------------------------------
(* Each server is reached in at most one way: from the pool, from the      *)
(* address that was popped, or by a peer.                                  *)
Reach(a) == a # Null /\ HasStorage(a)

PeerOK(p) ==
    /\ DOMAIN p = {"id", "from", "rmt", "net"}
    /\ p.from \in Address /\ HasStorage(p.from)
    /\ p.rmt \in Address /\ HasStorage(p.rmt) /\ Endpoint(p.rmt) = Endpoint(p.from)

AddrTypes ==
    /\ specs \subseteq Specs /\ servers \in Seq(Address)
    /\ addrPool \in Seq(Address \cup {Null}) /\ srvrAddr \in Address \cup {Null}
    /\ manager \in {"parsing", "running", "failed", "crashed"}
    /\ table \in [BOOLEAN -> Seq(Address)]

(* Before the manager starts, there are no connections. *)
ParsingInv ==
    manager = "parsing" =>
        /\ addrPool = <<>> /\ srvrAddr = Null /\ peers = {}
        /\ table[TRUE] = <<>> /\ table[FALSE] = <<>>

NoSame == ~ \E a, b \in Elems(servers) : SameRemote(a, b)

RoutesInv ==
    NoSame /\ manager # "crashed" =>
        /\ \A i, j \in DOMAIN addrPool :
              i # j /\ Reach(addrPool[i]) /\ Reach(addrPool[j])
                 => Endpoint(addrPool[i]) # Endpoint(addrPool[j])
        /\ \A i \in DOMAIN addrPool :
              Reach(addrPool[i]) /\ Reach(srvrAddr) => Endpoint(addrPool[i]) # Endpoint(srvrAddr)
        /\ \A i \in DOMAIN addrPool, p \in peers :
              Reach(addrPool[i]) => Endpoint(addrPool[i]) # Endpoint(p.rmt)
        /\ \A p \in peers : Reach(srvrAddr) => Endpoint(srvrAddr) # Endpoint(p.rmt)
        /\ \A p, q \in peers : p # q => Endpoint(p.rmt) # Endpoint(q.rmt)

(* A key is in the bucket of its hash. *)
BucketInv == \A bit \in BOOLEAN : \A a \in Elems(table[bit]) : HashBit(a) = bit

AddrInv ==
    /\ AddrTypes /\ Ordered(servers) /\ (\A p \in peers : PeerOK(p))
    /\ ParsingInv /\ RoutesInv /\ BucketInv /\ TableIsExact

(* A specification is parsed into an address, or throws. *)
LEMMA ParsedAddress ==
  ASSUME NEW spec \in Specs, ~Throws(spec)
  PROVE  Parsed(spec) \in Address
<1>1. /\ spec.inet \in [kind : InetKind, val : Nat] /\ spec.port \in Nat
      /\ spec.inet.kind = "name" => spec.inet.val \in DOMAIN Lookup
  BY AddressesAssumption
<1>2. PortMax \in Int
  BY AddressesAssumption DEF PortMax
<1>3. spec.port \in 0..PortMax
  BY <1>1, <1>2 DEF Throws
<1>4. QED
  BY <1>1, <1>3 DEF Parsed, Address

(* The set of servers is made. *)
LEMMA ServerEntered ==
  ASSUME AddrInv, NEW spec \in specs, EnterServer(spec)
  PROVE  AddrInv'
<1>1. /\ manager = "parsing" /\ specs' \subseteq specs
      /\ UNCHANGED <<addrPool, manager, srvrAddr, peers, table>>
      /\ servers' = IF Throws(spec) THEN servers ELSE Inserted(servers, Parsed(spec))
      /\ servers \in Seq(Address) /\ Ordered(servers) /\ spec \in Specs
  BY DEF EnterServer, AddrInv, AddrTypes
<1>2. servers' \in Seq(Address) /\ Ordered(servers')
  <2>1. CASE Throws(spec)
    BY <1>1, <2>1
  <2>2. CASE ~Throws(spec)
    BY <1>1, <2>2, ParsedAddress, InsertedInOrder
  <2>3. QED
    BY <2>1, <2>2
<1>3. AddrTypes'
  BY <1>1, <1>2 DEF AddrInv, AddrTypes
<1>4. peers = {} /\ addrPool = <<>> /\ table[TRUE] = <<>> /\ table[FALSE] = <<>>
  BY <1>1 DEF AddrInv, ParsingInv
<1>5. ParsingInv' /\ RoutesInv' /\ BucketInv' /\ (\A p \in peers' : PeerOK(p))
  <2>1. \A bit \in BOOLEAN : Elems(table[bit]) = {}
    <3>1. Elems(<<>>) = {}
      BY DEF Elems
    <3>2. Elems(table[TRUE]) = {} /\ Elems(table[FALSE]) = {}
      BY <1>4, <3>1
    <3>3. \A bit \in BOOLEAN : bit = TRUE \/ bit = FALSE
      OBVIOUS
    <3>4. QED
      BY <3>2, <3>3
  <2>2. DOMAIN addrPool = {}
    BY <1>4
  <2>3. BucketInv'
    BY <1>1, <2>1 DEF BucketInv
  <2>4. RoutesInv'
    BY <1>1, <1>4, <2>2 DEF RoutesInv
  <2>5. QED
    BY <1>1, <1>4, <2>3, <2>4 DEF AddrInv, ParsingInv
<1>6. TableIsExact'
  BY <1>1, <1>4 DEF TableIsExact, Elems
<1>7. QED
  BY <1>2, <1>3, <1>5, <1>6 DEF AddrInv

(* The pool is filled from the set. *)
LEMMA PoolFromServers == ASSUME AddrInv, FillPool PROVE AddrInv'
<1>1. /\ manager = "parsing" /\ manager' = "running" /\ addrPool' = servers
      /\ UNCHANGED <<specs, servers, srvrAddr, peers, table>>
      /\ servers \in Seq(Address) /\ Ordered(servers)
      /\ srvrAddr = Null /\ peers = {} /\ table[TRUE] = <<>> /\ table[FALSE] = <<>>
  BY DEF FillPool, AddrInv, AddrTypes, ParsingInv
<1>2. servers \in Seq(Address \cup {Null})
  BY <1>1
<1>3. AddrTypes'
  BY <1>1, <1>2 DEF AddrInv, AddrTypes
<1>4. ASSUME NoSame, NEW i \in DOMAIN servers, NEW j \in DOMAIN servers, i # j,
             Reach(servers[i]), Reach(servers[j])
      PROVE  Endpoint(servers[i]) # Endpoint(servers[j])
  <2>1. servers[i] \in Address /\ servers[j] \in Address /\ i \in Nat /\ j \in Nat
    BY <1>1
  <2>2. SockLess(servers[i], servers[j]) \/ SockLess(servers[j], servers[i])
    BY <1>1, <1>4, <2>1 DEF Ordered
  <2>3. servers[i] # servers[j]
    BY <2>1, <2>2, SockOrder
  <2>4. servers[i] \in Elems(servers) /\ servers[j] \in Elems(servers)
    BY DEF Elems
  <2>5. QED
    BY <1>4, <2>3, <2>4 DEF NoSame, SameRemote, Reach
<1>5. RoutesInv'
  <2>1. NoSame' = NoSame
    BY <1>1 DEF NoSame
  <2>2. ~Reach(srvrAddr)
    BY <1>1 DEF Reach
  <2>3. QED
    BY <1>1, <1>4, <2>1, <2>2 DEF RoutesInv, Reach
<1>6. TableIsExact' /\ ParsingInv' /\ BucketInv'
  BY <1>1 DEF AddrInv, TableIsExact, ParsingInv, BucketInv
<1>7. QED
  BY <1>1, <1>3, <1>5, <1>6 DEF AddrInv

(* An address goes out of the pool, and back if it cannot be reached now.  *)
LEMMA ServerPopped == ASSUME AddrInv, PopServer PROVE AddrInv'
<1> DEFINE h == Head(addrPool)
           t == Tail(addrPool)
<1>1. /\ manager = "running" /\ srvrAddr = Null /\ addrPool # <<>>
      /\ srvrAddr' = h /\ addrPool' = t
      /\ UNCHANGED <<specs, servers, manager, peers, table>>
      /\ addrPool \in Seq(Address \cup {Null})
  BY DEF PopServer, AddrInv, AddrTypes
<1>2. /\ h \in Address \cup {Null} /\ t \in Seq(Address \cup {Null}) /\ h = addrPool[1]
      /\ 1 \in DOMAIN addrPool
      /\ \A i \in DOMAIN t : i + 1 \in DOMAIN addrPool /\ t[i] = addrPool[i + 1] /\ i + 1 # 1
      /\ \A i, j \in DOMAIN t : i # j => i + 1 # j + 1
  <2>1. /\ DOMAIN addrPool = 1..Len(addrPool) /\ Len(addrPool) \in Nat /\ Len(addrPool) # 0
        /\ t \in Seq(Address \cup {Null}) /\ Len(t) = Len(addrPool) - 1
        /\ \A i \in 1..(Len(addrPool) - 1) : t[i] = addrPool[i + 1]
    BY <1>1
  <2>2. DOMAIN t = 1..(Len(addrPool) - 1)
    BY <2>1
  <2>3. h = addrPool[1] /\ h \in Address \cup {Null}
    BY <1>1
  <2> HIDE DEF h, t
  <2>4. QED
    BY <2>1, <2>2, <2>3
<1> HIDE DEF h, t
<1>3. AddrTypes'
  BY <1>1, <1>2 DEF AddrInv, AddrTypes
<1>4. RoutesInv'
  <2>1. NoSame' = NoSame
    BY <1>1 DEF NoSame
  <2> SUFFICES ASSUME NoSame PROVE RoutesInv'
    BY <2>1 DEF RoutesInv
  <2>2. /\ \A i, j \in DOMAIN addrPool :
              i # j /\ Reach(addrPool[i]) /\ Reach(addrPool[j])
                 => Endpoint(addrPool[i]) # Endpoint(addrPool[j])
        /\ \A i \in DOMAIN addrPool, p \in peers :
              Reach(addrPool[i]) => Endpoint(addrPool[i]) # Endpoint(p.rmt)
        /\ \A p, q \in peers : p # q => Endpoint(p.rmt) # Endpoint(q.rmt)
    BY <1>1 DEF AddrInv, RoutesInv
  <2>3. /\ \A i, j \in DOMAIN t :
              i # j /\ Reach(t[i]) /\ Reach(t[j]) => Endpoint(t[i]) # Endpoint(t[j])
        /\ \A i \in DOMAIN t : Reach(t[i]) /\ Reach(h) => Endpoint(t[i]) # Endpoint(h)
        /\ \A i \in DOMAIN t, p \in peers : Reach(t[i]) => Endpoint(t[i]) # Endpoint(p.rmt)
        /\ \A p \in peers : Reach(h) => Endpoint(h) # Endpoint(p.rmt)
    BY <1>2, <2>2
  <2>4. QED
    BY <1>1, <2>2, <2>3 DEF RoutesInv, Reach
<1>5. TableIsExact' /\ ParsingInv' /\ BucketInv'
  BY <1>1 DEF AddrInv, TableIsExact, ParsingInv, BucketInv
<1>6. QED
  BY <1>1, <1>3, <1>4, <1>5 DEF AddrInv

(* What the end of the pool changes. *)
LEMMA Pooled ==
  ASSUME AddrInv, NEW a \in Address \cup {Null}, addrPool' = Append(addrPool, a)
  PROVE  /\ addrPool' \in Seq(Address \cup {Null})
         /\ DOMAIN addrPool' = DOMAIN addrPool \cup {Len(addrPool) + 1}
         /\ Len(addrPool) + 1 \notin DOMAIN addrPool /\ addrPool'[Len(addrPool) + 1] = a
         /\ \A i \in DOMAIN addrPool : addrPool'[i] = addrPool[i]
<1>1. addrPool \in Seq(Address \cup {Null}) /\ Len(addrPool) \in Nat
  BY DEF AddrInv, AddrTypes
<1>2. DOMAIN addrPool = 1..Len(addrPool)
  BY <1>1
<1>3. /\ addrPool' \in Seq(Address \cup {Null}) /\ Len(addrPool') = Len(addrPool) + 1
      /\ \A i \in 1..Len(addrPool) : addrPool'[i] = addrPool[i]
      /\ addrPool'[Len(addrPool) + 1] = a
  BY <1>1
<1>4. DOMAIN addrPool' = 1..(Len(addrPool) + 1)
  BY <1>1, <1>3
<1>5. QED
  BY <1>1, <1>2, <1>3, <1>4

(* TcpClntSock() throws. *)
LEMMA ConnectFailed ==
  ASSUME AddrInv, NEW fatal \in BOOLEAN, ConnectError(fatal)
  PROVE  AddrInv'
<1>1. /\ manager = "running" /\ srvrAddr # Null /\ srvrAddr' = Null
      /\ \/ manager' = "failed" /\ UNCHANGED addrPool
         \/ addrPool' = Append(addrPool, srvrAddr) /\ UNCHANGED manager
      /\ UNCHANGED <<specs, servers, peers, table>>
      /\ srvrAddr \in Address \cup {Null} /\ addrPool \in Seq(Address \cup {Null})
  BY DEF ConnectError, AddrInv, AddrTypes
<1>2. ~Reach(srvrAddr)' /\ NoSame' = NoSame /\ \A a : Reach(a)' = Reach(a)
  BY <1>1 DEF Reach, NoSame
<1>3. CASE manager' = "failed" /\ UNCHANGED addrPool
  <2>1. AddrTypes'
    BY <1>1, <1>3 DEF AddrInv, AddrTypes
  <2>2. RoutesInv'
    BY <1>1, <1>2, <1>3 DEF AddrInv, RoutesInv
  <2>3. TableIsExact' /\ ParsingInv' /\ BucketInv'
    BY <1>1, <1>3 DEF AddrInv, TableIsExact, ParsingInv, BucketInv
  <2>4. QED
    BY <1>1, <2>1, <2>2, <2>3 DEF AddrInv
<1>4. CASE addrPool' = Append(addrPool, srvrAddr) /\ UNCHANGED manager
  <2> DEFINE n == Len(addrPool) + 1
  <2>1. /\ addrPool' \in Seq(Address \cup {Null}) /\ DOMAIN addrPool' = DOMAIN addrPool \cup {n}
        /\ n \notin DOMAIN addrPool /\ addrPool'[n] = srvrAddr
        /\ \A i \in DOMAIN addrPool : addrPool'[i] = addrPool[i]
    BY <1>1, <1>4, Pooled
  <2> HIDE DEF n
  <2>2. AddrTypes'
    BY <1>1, <1>4, <2>1 DEF AddrInv, AddrTypes
  <2>3. RoutesInv'
    BY <1>1, <1>2, <1>4, <2>1 DEF AddrInv, RoutesInv
  <2>4. TableIsExact' /\ ParsingInv' /\ BucketInv'
    BY <1>1, <1>4 DEF AddrInv, TableIsExact, ParsingInv, BucketInv
  <2>5. QED
    BY <1>1, <2>2, <2>3, <2>4 DEF AddrInv
<1>5. QED
  BY <1>1, <1>3, <1>4

(* The bucket of a hash, and the other one. *)
LEMMA Buckets == \A bit \in BOOLEAN : bit = TRUE \/ bit = FALSE
OBVIOUS

(* The connection is made: the remote address of the socket is a key that  *)
(* no other peer has.                                                      *)
LEMMA ServerConnected == ASSUME AddrInv, ConnectServer PROVE AddrInv'
<1> DEFINE rmt == FromStorage(Storage(srvrAddr))
           p == [id |-> NewId, from |-> srvrAddr, rmt |-> rmt, net |-> "open"]
           bit == HashBit(rmt)
<1>1. /\ manager = "running" /\ srvrAddr # Null /\ srvrAddr' = Null /\ HasStorage(srvrAddr)
      /\ peers' = peers \cup {p} /\ table' = [table EXCEPT ![bit] = Enter(@, rmt)]
      /\ UNCHANGED <<specs, servers, addrPool, manager>>
      /\ srvrAddr \in Address
  BY DEF ConnectServer, AddrInv, AddrTypes
<1>2. rmt \in Address /\ HasStorage(rmt) /\ Endpoint(rmt) = Endpoint(srvrAddr)
  BY <1>1, RemoteEndpoint
<1>3. /\ DOMAIN p = {"id", "from", "rmt", "net"} /\ p.from = srvrAddr /\ p.rmt = rmt
      /\ bit \in BOOLEAN
  BY DEF HashBit
<1> HIDE DEF p, rmt
<1>4. PeerOK(p)
  BY <1>1, <1>2, <1>3 DEF PeerOK
<1>5. table \in [BOOLEAN -> Seq(Address)]
  BY DEF AddrInv, AddrTypes
<1>6. /\ Enter(table[bit], rmt) \in Seq(Address)
      /\ Elems(Enter(table[bit], rmt)) \subseteq Elems(table[bit]) \cup {rmt}
      /\ rmt \notin Elems(table[bit])
            => Elems(Enter(table[bit], rmt)) = Elems(table[bit]) \cup {rmt}
  <2> DEFINE keys == table[bit]
  <2>1. keys \in Seq(Address)
    BY <1>3, <1>5
  <2>2. \A i \in DOMAIN keys : keys[i] \in Address
    BY <2>1
  <2>3. (\E i \in DOMAIN keys : SockEqual(keys[i], rmt)) <=> rmt \in Elems(keys)
    BY <1>2, <2>2, SockOrder DEF Elems
  <2> HIDE DEF keys
  <2>4. Append(keys, rmt) \in Seq(Address) /\ Elems(Append(keys, rmt)) = Elems(keys) \cup {rmt}
    BY <1>2, <2>1, AppendElems
  <2>5. QED
    BY <2>1, <2>3, <2>4 DEF Enter, keys
<1> HIDE DEF bit
<1>7. /\ table'[bit] = Enter(table[bit], rmt)
      /\ \A b \in BOOLEAN : b # bit => table'[b] = table[b]
  BY <1>1, <1>3, <1>5
<1>8. AddrTypes'
  <2>1. table' \in [BOOLEAN -> Seq(Address)]
    BY <1>1, <1>5, <1>6
  <2>2. QED
    BY <1>1, <2>1 DEF AddrInv, AddrTypes
<1>9. BucketInv'
  <2>1. HashBit(rmt) = bit
    BY DEF bit
  <2>2. QED
    BY <1>6, <1>7, <2>1 DEF AddrInv, BucketInv
<1>10. RoutesInv'
  <2>1. NoSame' = NoSame
    BY <1>1 DEF NoSame
  <2>2. Endpoint(p.rmt) = Endpoint(srvrAddr) /\ Reach(srvrAddr) /\ ~Reach(srvrAddr')
    BY <1>1, <1>2, <1>3 DEF Reach
  <2>3. QED
    BY <1>1, <2>1, <2>2 DEF AddrInv, RoutesInv, Reach
<1>11. TableIsExact'
  <2> SUFFICES ASSUME NoSame
               PROVE  Elems(table'[TRUE]) \cup Elems(table'[FALSE]) = {q.rmt : q \in peers'}
    BY <1>1 DEF TableIsExact, NoSame
  <2>1. Elems(table[TRUE]) \cup Elems(table[FALSE]) = {q.rmt : q \in peers}
    BY <1>1 DEF AddrInv, TableIsExact, NoSame
  <2>2. \A q \in peers : Endpoint(q.rmt) # Endpoint(rmt)
    BY <1>1, <1>2 DEF AddrInv, RoutesInv, Reach
  <2>3. rmt \notin Elems(table[bit])
    <3>1. rmt \notin {q.rmt : q \in peers}
      BY <2>2
    <3>2. rmt \notin Elems(table[TRUE]) /\ rmt \notin Elems(table[FALSE])
      BY <2>1, <3>1
    <3>3. bit = TRUE \/ bit = FALSE
      BY <1>3, Buckets
    <3>4. QED
      BY <3>2, <3>3
  <2>4. Elems(table'[bit]) = Elems(table[bit]) \cup {rmt}
    BY <1>6, <1>7, <2>3
  <2>5. \A b \in BOOLEAN : b # bit => Elems(table'[b]) = Elems(table[b])
    BY <1>7
  <2>6. {q.rmt : q \in peers'} = {q.rmt : q \in peers} \cup {rmt}
    BY <1>1, <1>3
  <2>7. CASE bit = TRUE
    BY <2>1, <2>4, <2>5, <2>6, <2>7
  <2>8. CASE bit = FALSE
    BY <2>1, <2>4, <2>5, <2>6, <2>8
  <2>9. QED
    BY <1>3, <2>7, <2>8, Buckets
<1>12. ParsingInv'
  BY <1>1 DEF ParsingInv
<1>13. QED
  BY <1>1, <1>4, <1>8, <1>9, <1>10, <1>11, <1>12 DEF AddrInv

(* A socket is shut down by one end or both. *)
LEMMA PeerShut == ASSUME AddrInv, NEW p \in peers, PeerShutsDown(p) PROVE AddrInv'
<1>1. PICK left \in {"lingers", "closed"} :
        /\ peers' = (peers \ {p}) \cup {[p EXCEPT !.net = left]}
        /\ UNCHANGED <<specs, servers, addrPool, manager, srvrAddr, table>>
  BY DEF PeerShutsDown
<1> DEFINE q == [p EXCEPT !.net = left]
<1>2. PeerOK(p)
  BY DEF AddrInv
<1>3. q.rmt = p.rmt /\ q.from = p.from /\ DOMAIN q = {"id", "from", "rmt", "net"}
  BY <1>2 DEF PeerOK
<1> HIDE DEF q
<1>4. peers' = (peers \ {p}) \cup {q} /\ PeerOK(q)
  BY <1>1, <1>2, <1>3 DEF PeerOK, q
<1>5. NoSame' = NoSame
  BY <1>1 DEF NoSame
<1>6. {r.rmt : r \in peers'} = {r.rmt : r \in peers}
  BY <1>3, <1>4
<1>7. RoutesInv'
  <2>1. \A a : Reach(a)' = Reach(a)
    BY DEF Reach
  <2> SUFFICES ASSUME NoSame, manager # "crashed" PROVE RoutesInv'
    BY <1>1, <1>5 DEF RoutesInv
  <2>2. \A r, s \in peers' : r # s => Endpoint(r.rmt) # Endpoint(s.rmt)
    BY <1>3, <1>4 DEF AddrInv, RoutesInv
  <2>3. \A i \in DOMAIN addrPool, r \in peers' :
           Reach(addrPool[i]) => Endpoint(addrPool[i]) # Endpoint(r.rmt)
    BY <1>3, <1>4 DEF AddrInv, RoutesInv
  <2>4. \A r \in peers' : Reach(srvrAddr) => Endpoint(srvrAddr) # Endpoint(r.rmt)
    BY <1>3, <1>4 DEF AddrInv, RoutesInv
  <2>5. QED
    BY <1>1, <2>2, <2>3, <2>4 DEF AddrInv, RoutesInv, Reach
<1>8. TableIsExact'
  BY <1>1, <1>6 DEF AddrInv, TableIsExact
<1>9. ParsingInv' /\ BucketInv' /\ AddrTypes'
  BY <1>1, <1>4 DEF AddrInv, ParsingInv, BucketInv, AddrTypes
<1>10. QED
  BY <1>1, <1>4, <1>7, <1>8, <1>9 DEF AddrInv

(* erase() removes a key and no other. *)
LEMMA ErasedKey ==
  ASSUME NEW keys \in Seq(Address), NEW a \in Address
  PROVE  Erased(keys, a) \in Seq(Address) /\ Elems(Erased(keys, a)) = Elems(keys) \ {a}
<1>1. \A i \in DOMAIN keys : keys[i] \in Address
  OBVIOUS
<1>2. \A i \in DOMAIN keys : SockEqual(keys[i], a) <=> keys[i] = a
  BY <1>1, SockOrder
<1>3. {i \in DOMAIN keys : ~SockEqual(keys[i], a)} = {i \in DOMAIN keys : keys[i] # a}
  BY <1>2
<1>4. Erased(keys, a) = Without(keys, a)
  BY <1>3 DEF Erased, Without
<1>5. QED
  BY <1>4, WithoutProperties, WithoutKeeps

(* stopped() and stopped2(): the remote address goes back to the pool. *)
LEMMA PeerStopped == ASSUME AddrInv, NEW p \in peers, ServerStopped(p) PROVE AddrInv'
<1> DEFINE rmt == GetRmtAddr(p)
           bit == HashBit(rmt)
           n == Len(addrPool) + 1
<1>1. /\ manager = "running" /\ peers' = peers \ {p} /\ addrPool' = Append(addrPool, rmt)
      /\ \/ rmt = Null /\ manager' = "crashed" /\ UNCHANGED table
         \/ /\ rmt # Null /\ UNCHANGED manager
            /\ table' = [table EXCEPT ![bit] = Erased(@, rmt)]
      /\ UNCHANGED <<specs, servers, srvrAddr>>
  BY DEF ServerStopped
<1>2. PeerOK(p) /\ (rmt # Null => rmt = p.rmt)
  BY DEF AddrInv, GetRmtAddr
<1>3. rmt \in Address \cup {Null} /\ bit \in BOOLEAN
  BY <1>2 DEF PeerOK, HashBit
<1>4. table \in [BOOLEAN -> Seq(Address)]
  BY DEF AddrInv, AddrTypes
<1> HIDE DEF rmt
<1>5. /\ addrPool' \in Seq(Address \cup {Null}) /\ DOMAIN addrPool' = DOMAIN addrPool \cup {n}
      /\ n \notin DOMAIN addrPool /\ addrPool'[n] = rmt
      /\ \A i \in DOMAIN addrPool : addrPool'[i] = addrPool[i]
  BY <1>1, <1>3, Pooled
<1> HIDE DEF n
<1>6. \A q \in peers' : PeerOK(q)
  BY <1>1 DEF AddrInv
<1>7. NoSame' = NoSame
  BY <1>1 DEF NoSame
<1>8. CASE rmt = Null /\ manager' = "crashed" /\ UNCHANGED table
  <2>1. AddrTypes'
    BY <1>1, <1>5, <1>8 DEF AddrInv, AddrTypes
  <2>2. RoutesInv' /\ TableIsExact' /\ ParsingInv'
    BY <1>8 DEF RoutesInv, TableIsExact, ParsingInv
  <2>3. BucketInv'
    BY <1>8 DEF AddrInv, BucketInv
  <2>4. QED
    BY <1>1, <1>6, <2>1, <2>2, <2>3 DEF AddrInv
<1>9. CASE rmt # Null /\ UNCHANGED manager /\ table' = [table EXCEPT ![bit] = Erased(@, rmt)]
  <2>1. rmt \in Address /\ rmt = p.rmt /\ HashBit(rmt) = bit
    BY <1>2, <1>3, <1>9
  <2> HIDE DEF bit
  <2>2. table[bit] \in Seq(Address)
    BY <1>3, <1>4
  <2>3. /\ Erased(table[bit], rmt) \in Seq(Address)
        /\ Elems(Erased(table[bit], rmt)) = Elems(table[bit]) \ {rmt}
    BY <2>1, <2>2, ErasedKey
  <2>4. /\ table'[bit] = Erased(table[bit], rmt)
        /\ \A b \in BOOLEAN : b # bit => table'[b] = table[b]
    BY <1>3, <1>4, <1>9
  <2>5. AddrTypes'
    <3>1. table' \in [BOOLEAN -> Seq(Address)]
      BY <1>4, <1>9, <2>3
    <3>2. QED
      BY <1>1, <1>5, <1>9, <3>1 DEF AddrInv, AddrTypes
  <2>6. BucketInv'
    BY <2>3, <2>4 DEF AddrInv, BucketInv
  <2>7. ParsingInv'
    BY <1>1, <1>9 DEF ParsingInv
  <2>8. RoutesInv'
    <3> SUFFICES ASSUME NoSame PROVE RoutesInv'
      BY <1>7 DEF RoutesInv
    <3>1. /\ \A i \in DOMAIN addrPool :
                Reach(addrPool[i]) => Endpoint(addrPool[i]) # Endpoint(rmt)
          /\ Reach(srvrAddr) => Endpoint(srvrAddr) # Endpoint(rmt)
          /\ \A q \in peers \ {p} : Endpoint(rmt) # Endpoint(q.rmt)
      BY <1>1, <2>1 DEF AddrInv, RoutesInv
    <3>2. /\ \A i, j \in DOMAIN addrPool :
                i # j /\ Reach(addrPool[i]) /\ Reach(addrPool[j])
                   => Endpoint(addrPool[i]) # Endpoint(addrPool[j])
          /\ \A i \in DOMAIN addrPool :
                Reach(addrPool[i]) /\ Reach(srvrAddr)
                   => Endpoint(addrPool[i]) # Endpoint(srvrAddr)
          /\ \A i \in DOMAIN addrPool, q \in peers :
                Reach(addrPool[i]) => Endpoint(addrPool[i]) # Endpoint(q.rmt)
      BY <1>1 DEF AddrInv, RoutesInv
    <3>3. \A i, j \in DOMAIN addrPool' :
             i # j /\ Reach(addrPool'[i]) /\ Reach(addrPool'[j])
                => Endpoint(addrPool'[i]) # Endpoint(addrPool'[j])
      BY <1>5, <3>1, <3>2
    <3>4. \A i \in DOMAIN addrPool' :
             Reach(addrPool'[i]) /\ Reach(srvrAddr)
                => Endpoint(addrPool'[i]) # Endpoint(srvrAddr)
      BY <1>5, <3>1, <3>2
    <3>5. \A i \in DOMAIN addrPool', q \in peers' :
             Reach(addrPool'[i]) => Endpoint(addrPool'[i]) # Endpoint(q.rmt)
      BY <1>1, <1>5, <3>1, <3>2
    <3>6. /\ \A q \in peers' : Reach(srvrAddr) => Endpoint(srvrAddr) # Endpoint(q.rmt)
          /\ \A q, r \in peers' : q # r => Endpoint(q.rmt) # Endpoint(r.rmt)
      BY <1>1 DEF AddrInv, RoutesInv
    <3>7. QED
      BY <1>1, <3>3, <3>4, <3>5, <3>6 DEF RoutesInv, Reach
  <2>9. TableIsExact'
    <3> SUFFICES ASSUME NoSame
                 PROVE  Elems(table'[TRUE]) \cup Elems(table'[FALSE]) = {q.rmt : q \in peers'}
      BY <1>1 DEF TableIsExact, NoSame
    <3>1. Elems(table[TRUE]) \cup Elems(table[FALSE]) = {q.rmt : q \in peers}
      BY <1>1 DEF AddrInv, TableIsExact, NoSame
    <3>2. \A q \in peers \ {p} : q.rmt # rmt
      BY <1>1, <2>1 DEF AddrInv, RoutesInv
    <3>3. {q.rmt : q \in peers'} = {q.rmt : q \in peers} \ {rmt}
      BY <1>1, <2>1, <3>2
    <3>4. \A b \in BOOLEAN : b # bit => rmt \notin Elems(table[b])
      BY <2>1 DEF AddrInv, BucketInv
    <3>5. \A b \in BOOLEAN : Elems(table'[b]) = Elems(table[b]) \ {rmt}
      BY <2>3, <2>4, <3>4
    <3>6. Elems(table'[TRUE]) = Elems(table[TRUE]) \ {rmt}
          /\ Elems(table'[FALSE]) = Elems(table[FALSE]) \ {rmt}
      BY <3>5
    <3>7. QED
      BY <3>1, <3>3, <3>6
  <2>10. QED
    BY <1>1, <1>6, <2>5, <2>6, <2>7, <2>8, <2>9 DEF AddrInv
<1>10. QED
  BY <1>1, <1>8, <1>9

(* Whatever kinds of addresses are mixed, the set of servers is in order,  *)
(* what goes back to the pool leads where the server was, and the table of *)
(* peers has their addresses and no others.                                *)
THEOREM AddressesSound == AddrSpec => []AddressesInv
<1>1. AddrInit => AddrInv
  <2> SUFFICES ASSUME AddrInit PROVE AddrInv
    OBVIOUS
  <2>1. /\ specs \subseteq Specs /\ servers = <<>> /\ addrPool = <<>> /\ manager = "parsing"
        /\ srvrAddr = Null /\ peers = {} /\ table = [bit \in BOOLEAN |-> <<>>]
    BY DEF AddrInit
  <2>2. Elems(<<>>) = {} /\ DOMAIN <<>> = {}
    BY DEF Elems
  <2>3. table[TRUE] = <<>> /\ table[FALSE] = <<>> /\ \A bit \in BOOLEAN : table[bit] = <<>>
    BY <2>1
  <2>4. AddrTypes /\ Ordered(servers)
    BY <2>1, <2>2 DEF AddrTypes, Ordered
  <2>5. RoutesInv /\ TableIsExact
    BY <2>1, <2>2, <2>3 DEF RoutesInv, TableIsExact
  <2>6. ParsingInv /\ BucketInv
    BY <2>1, <2>2, <2>3 DEF ParsingInv, BucketInv
  <2>7. QED
    BY <2>1, <2>4, <2>5, <2>6 DEF AddrInv
<1>2. AddrInv /\ [AddrStep]_addrVars => AddrInv'
  <2> SUFFICES ASSUME AddrInv, [AddrStep]_addrVars PROVE AddrInv'
    OBVIOUS
  <2>1. CASE AddrStep
    BY <2>1, ServerEntered, PoolFromServers, ServerPopped, ServerConnected, ConnectFailed,
       PeerShut, PeerStopped DEF AddrStep
  <2>2. CASE UNCHANGED addrVars
    <3>1. UNCHANGED <<specs, servers, addrPool, manager, srvrAddr, peers, table>>
      BY <2>2 DEF addrVars
    <3>2. NoSame' = NoSame
      BY <3>1 DEF NoSame
    <3>3. QED
      BY <3>1, <3>2 DEF AddrInv, AddrTypes, ParsingInv, RoutesInv, BucketInv, TableIsExact, Reach
  <2>3. QED
    BY <2>1, <2>2
<1>3. AddrInv => AddressesInv
  <2> SUFFICES ASSUME AddrInv PROVE AddressesInv
    OBVIOUS
  <2>1. ServersAreOrdered
    <3>1. \A i \in DOMAIN servers : servers[i] \in Address
      BY DEF AddrInv, AddrTypes
    <3>2. QED
      BY <3>1, SockOrder DEF AddrInv, Ordered, ServersAreOrdered
  <2>2. RemoteIsTheServer
    BY DEF AddrInv, PeerOK, RemoteIsTheServer
  <2>3. QED
    BY <2>1, <2>2 DEF AddrInv, AddressesInv
<1>4. QED
  BY <1>1, <1>2, <1>3, PTL DEF AddrSpec

-----------------------------------------------------------------------------
(* Segments of product-files: Segments.                                    *)

(* A number between two multiples. *)
LEMMA Quotient ==
  ASSUME NEW T \in Nat \ {0}, NEW b \in Nat, NEW i \in Nat
  PROVE  b \div T = i <=> i * T =< b /\ b < i * T + T
<1> DEFINE q == b \div T
           r == b % T
<1>1. q \in Nat /\ r \in 0..(T - 1) /\ b = q * T + r
  OBVIOUS
<1> HIDE DEF q, r
<1>2. ASSUME i * T =< b, b < i * T + T PROVE q = i
  <2>1. i < q => i * T + T =< q * T
    BY <1>1
  <2>2. q < i => q * T + T =< i * T
    BY <1>1
  <2>3. ~(i < q)
    BY <1>1, <1>2, <2>1
  <2>4. ~(q < i)
    BY <1>1, <1>2, <2>2
  <2>5. QED
    BY <1>1, <2>3, <2>4
<1>3. QED
  BY <1>1, <1>2 DEF q

(* How many segments a product of P bytes has. *)
LEMMA Cut ==
  ASSUME NEW P \in Nat, NEW T \in Nat \ {0}, NEW n, n = (P + T - 1) \div T
  PROVE  n \in Nat /\ P =< n * T /\ n * T < P + T
<1>1. P + T - 1 \in Nat
  OBVIOUS
<1> DEFINE b == P + T - 1
<1>2. n \in Nat /\ b \in Nat
  BY <1>1
<1> HIDE DEF b
<1>3. n * T =< b /\ b < n * T + T
  BY <1>2, Quotient DEF b
<1> DEFINE nT == n * T
<1>4. nT \in Nat
  BY <1>2
<1> HIDE DEF nT
<1>5. nT =< P + T - 1 /\ P + T - 1 < nT + T
  BY <1>3 DEF nT, b
<1>6. P =< nT /\ nT < P + T
  BY <1>4, <1>5
<1>7. QED
  BY <1>2, <1>6 DEF nT

(* The first segments are whole, and the last one is what is left. *)
LEMMA Lengths ==
  ASSUME NEW P \in Nat, NEW T \in Nat \ {0}, NEW i \in Nat, i * T < P
  PROVE  LET n == (P + T - 1) \div T
             last == IF P % T # 0 THEN P % T ELSE T
         IN  /\ i < n
             /\ i + 1 < n => i * T + T < P
             /\ ~(i + 1 < n) => last = P - i * T /\ P =< i * T + T
<1> DEFINE n == (P + T - 1) \div T
           last == IF P % T # 0 THEN P % T ELSE T
<1>a. last = IF P % T # 0 THEN P % T ELSE T
  OBVIOUS
<1>1. n \in Nat /\ P =< n * T /\ n * T < P + T
  BY Cut
<1> HIDE DEF n, last
<1>2. i < n
  <2>1. n =< i => n * T =< i * T
    BY <1>1
  <2>2. QED
    BY <1>1, <2>1
<1>3. ASSUME i + 1 < n PROVE i * T + T < P
  <2>1. i + 2 =< n
    BY <1>1, <1>3
  <2>2. (i + 2) * T =< n * T
    BY <1>1, <2>1
  <2>3. (i + 2) * T = i * T + T + T
    OBVIOUS
  <2> DEFINE iT == i * T
             nT == n * T
  <2>4. iT \in Nat /\ nT \in Nat /\ iT + T + T =< nT /\ nT < P + T
    BY <1>1, <2>2, <2>3
  <2> HIDE DEF iT, nT
  <2>5. iT + T < P
    BY <2>4
  <2>6. QED
    BY <2>5 DEF iT
<1>4. ASSUME ~(i + 1 < n) PROVE last = P - i * T /\ P =< i * T + T
  <2>1. n = i + 1
    BY <1>1, <1>2, <1>4
  <2>2. n * T = i * T + T
    BY <2>1
  <2> DEFINE iT == i * T
             rest == P - iT
  <2>3. iT \in Nat /\ iT < P /\ P =< iT + T
    BY <1>1, <2>2
  <2>4. rest \in 1..T /\ P = iT + rest
    <3> HIDE DEF iT
    <3>1. QED
      BY <2>3
  <2> HIDE DEF rest
  <2>5. CASE rest = T
    <3>1. P = n * T /\ n \in Nat
      BY <1>1, <2>2, <2>4, <2>5
    <3>2. P % T = 0
      BY <3>1
    <3>3. QED
      BY <1>a, <2>3, <2>5, <3>2 DEF rest
  <2>6. CASE rest # T
    <3>1. rest \in 0..(T - 1) /\ rest # 0
      BY <2>4, <2>6
    <3>2. P % T = rest
      BY <2>4, <3>1
    <3>3. QED
      BY <1>a, <2>3, <3>1, <3>2 DEF rest
  <2>7. QED
    BY <2>5, <2>6
<1>5. QED
  BY <1>2, <1>3, <1>4 DEF n, last

(* The next multiple of a segment-size. *)
LEMMA NextMultiple ==
  ASSUME NEW T \in Nat \ {0}, NEW off \in Nat, off % T = 0
  PROVE  off = (off \div T) * T /\ (off + T) % T = 0
<1>1. off = (off \div T) * T
  OBVIOUS
<1> DEFINE q == off \div T
<1>2. q \in Nat /\ off + T = (q + 1) * T
  BY <1>1
<1>3. ((q + 1) * T) % T = 0
  BY <1>2
<1>4. QED
  BY <1>1, <1>2, <1>3

(* What the sizes are, and what the constructors of both ends refused.     *)
SizesInv ==
    /\ fileSize \in Nat
    /\ pubSegSize \in 0..(SegSizeLimit - 1) /\ subSegSize \in 0..(SegSizeLimit - 1)
    /\ offset \in Nat
    /\ sending \in Status /\ saving \in Status
    /\ sending \in {"running", "done"} => ~CannotCut(pubSegSize)
    /\ saving # "new" => ~CannotCut(pubSegSize)
    /\ saving \in {"running", "done"} => ~CannotCut(subSegSize)

(* What runSender() has sent: each segment starts at a multiple of the     *)
(* publisher's segment-size, and is whole unless the file ends in it.      *)
SentInv ==
    /\ \A seg \in segs : /\ pubSegSize > 0 /\ seg.offset \in Nat /\ seg.offset < ProdSize
                         /\ seg.size \in Nat
    /\ Fits =>
        /\ pubSegSize > 0 => offset % pubSegSize = 0
        /\ \A seg \in segs :
            /\ seg.offset % pubSegSize = 0
            /\ seg.size = IF seg.offset + pubSegSize > ProdSize THEN ProdSize - seg.offset
                          ELSE pubSegSize

(* What the subscriber has saved: as many segments as it has counted, and  *)
(* of each of them every byte that the file has, once.                     *)
SavedInv ==
    /\ IsFiniteSet(haveSegs) /\ segCount = Cardinality(haveSegs)
    /\ haveSegs \subseteq 0..(NumSegs(subSegSize) - 1)
    /\ haveSegs # {} => subSegSize > 0
    /\ DOMAIN bytes = 0..(ProdSizeLimit - 1)
    /\ Fits => \A b \in DOMAIN bytes : bytes[b] =
        IF subSegSize > 0 /\ b < ProdSize /\ b \div subSegSize \in haveSegs THEN 1 ELSE 0

(* The inductive invariant of the segments. *)
SegInv == SizesInv /\ SentInv /\ SavedInv /\ SentIsAccepted

(* The sizes never change, nor what is derived from them. *)
LEMMA SizesStay ==
  ASSUME UNCHANGED <<fileSize, pubSegSize, subSegSize>>
  PROVE  /\ ProdSize' = ProdSize /\ (Fits' <=> Fits)
         /\ NumSegs(subSegSize)' = NumSegs(subSegSize)
         /\ CannotCut(pubSegSize)' <=> CannotCut(pubSegSize)
         /\ CannotCut(subSegSize)' <=> CannotCut(subSegSize)
<1>1. ProdSize' = ProdSize
  BY DEF ProdSize
<1>2. QED
  BY <1>1 DEF Fits, NumSegs, CannotCut, Wrapped

(* A product fits in a ProdSize, and its number of segments is not         *)
(* affected by the wrapping of one, if Fits.                               *)
LEMMA Unwrapped ==
  ASSUME SizesInv
  PROVE  /\ ProdSize \in Nat /\ ProdSize < ProdSizeLimit
         /\ \A segSize \in {pubSegSize, subSegSize} : Fits /\ segSize > 0 =>
                /\ NumSegs(segSize) = (ProdSize + segSize - 1) \div segSize
                /\ \A off \in Nat : off < ProdSize => Wrapped(off + segSize) = off + segSize
<1>1. ProdSize \in Nat /\ ProdSize < ProdSizeLimit
  BY SegmentsAssumption DEF SizesInv, ProdSize
<1>2. ASSUME NEW segSize \in {pubSegSize, subSegSize}, Fits, segSize > 0
      PROVE  /\ NumSegs(segSize) = (ProdSize + segSize - 1) \div segSize
             /\ \A off \in Nat : off < ProdSize => Wrapped(off + segSize) = off + segSize
  <2>1. segSize \in Nat \ {0} /\ ProdSize + segSize - 1 < ProdSizeLimit
    BY <1>2, SegmentsAssumption DEF SizesInv, Fits
  <2>2. ProdSizeLimit \in Nat \ {0}
    BY SegmentsAssumption
  <2>3. \A n \in Nat : n < ProdSizeLimit => Wrapped(n) = n
    BY <2>2 DEF Wrapped
  <2>4. ProdSize + segSize - 1 \in Nat
    BY <1>1, <2>1
  <2>5. Wrapped(ProdSize + segSize - 1) = ProdSize + segSize - 1
    BY <2>1, <2>3, <2>4
  <2>6. ASSUME NEW off \in Nat, off < ProdSize
        PROVE  off + segSize \in Nat /\ off + segSize < ProdSizeLimit
    BY <1>1, <2>1, <2>2, <2>6
  <2>7. QED
    BY <2>1, <2>3, <2>5, <2>6 DEF NumSegs
<1>3. QED
  BY <1>1, <1>2

(* The invariant holds in the initial states. *)
LEMMA SegStart == SegInit => SegInv
<1> SUFFICES ASSUME SegInit PROVE SegInv
  OBVIOUS
<1>1. SizesInv
  BY SegmentsAssumption DEF SegInit, SizesInv, Status
<1>2. SentInv
  BY <1>1 DEF SegInit, SentInv, SizesInv
<1>3. SavedInv
  BY FS_EmptySet DEF SegInit, SavedInv
<1>4. SentIsAccepted
  BY DEF SegInit, SentIsAccepted
<1>5. QED
  BY <1>1, <1>2, <1>3, <1>4 DEF SegInv

(* The publisher's end. *)
LEMMA SenderActs == ASSUME SegInv, OpenSnd \/ SendSeg \/ EndOfSegs PROVE SegInv'
<1>a. /\ UNCHANGED <<fileSize, pubSegSize, subVars>>
      /\ UNCHANGED <<saving, haveSegs, segCount, bytes, subSegSize>>
  BY DEF OpenSnd, SendSeg, EndOfSegs, subVars
<1>b. SizesInv /\ SentInv /\ SavedInv /\ SentIsAccepted
  BY DEF SegInv
<1>c. /\ ProdSize' = ProdSize /\ (Fits' <=> Fits)
      /\ NumSegs(subSegSize)' = NumSegs(subSegSize)
      /\ CannotCut(pubSegSize)' <=> CannotCut(pubSegSize)
      /\ CannotCut(subSegSize)' <=> CannotCut(subSegSize)
  BY <1>a, SizesStay
<1>d. ProdSize \in Nat /\ pubSegSize \in Nat /\ offset \in Nat
  BY <1>b, Unwrapped, SegmentsAssumption DEF SizesInv
<1>e. SavedInv'
  BY <1>a, <1>b, <1>c DEF SavedInv
<1>f. SentIsAccepted'
  BY <1>a, <1>b, <1>c DEF SentIsAccepted
<1>1. CASE OpenSnd \/ EndOfSegs
  <2>1. UNCHANGED <<offset, segs>>
    BY <1>1 DEF OpenSnd, EndOfSegs
  <2>2. /\ sending' \in Status
        /\ sending' \in {"running", "done"} => ~CannotCut(pubSegSize)
    <3>1. CASE OpenSnd
      BY <3>1 DEF OpenSnd, Status
    <3>2. CASE EndOfSegs
      BY <1>b, <3>2 DEF EndOfSegs, Status, SizesInv
    <3>3. QED
      BY <1>1, <3>1, <3>2
  <2>3. SizesInv'
    BY <1>a, <1>b, <1>c, <2>1, <2>2 DEF SizesInv
  <2>4. SentInv'
    BY <1>a, <1>b, <1>c, <2>1 DEF SentInv
  <2>5. QED
    BY <1>e, <1>f, <2>3, <2>4 DEF SegInv
<1>2. CASE SendSeg
  <2>1. sending = "running" /\ offset < ProdSize /\ ~CannotCut(pubSegSize)
    BY <1>2, <1>b DEF SendSeg, SizesInv
  <2>2. pubSegSize > 0 /\ pubSegSize \in Nat \ {0} /\ pubSegSize < SegSizeLimit
    BY <1>b, <1>d, <2>1, SegmentsAssumption DEF CannotCut, SizesInv
  <2>3. CASE ~Vetted(offset, pubSegSize)
    <3>1. sending' = "failed" /\ UNCHANGED <<segs, offset>>
      BY <1>2, <2>3 DEF SendSeg
    <3>2. SizesInv'
      BY <1>a, <1>b, <1>c, <3>1 DEF SizesInv, Status
    <3>3. SentInv'
      BY <1>a, <1>b, <1>c, <3>1 DEF SentInv
    <3>4. QED
      BY <1>e, <1>f, <3>2, <3>3 DEF SegInv
  <2>4. CASE Vetted(offset, pubSegSize)
    <3> DEFINE new == [offset |-> offset, size |-> GetSegSize(offset, pubSegSize)]
    <3>1. /\ segs' = segs \cup {new} /\ offset' = Wrapped(offset + pubSegSize)
          /\ sending' = sending
      BY <1>2, <2>4 DEF SendSeg
    <3>2. ProdSizeLimit \in Nat \ {0} /\ SegSizeLimit \in Nat \ {0}
      BY SegmentsAssumption
    <3>3. GetSegSize(offset, pubSegSize) \in Nat
      <4>1. ProdSize - offset \in Nat
        BY <1>d, <2>1
      <4>2. (ProdSize - offset) % SegSizeLimit \in Nat
        BY <3>2, <4>1
      <4>3. QED
        BY <1>d, <4>2 DEF GetSegSize
    <3>4. offset' \in Nat
      BY <1>d, <3>1, <3>2 DEF Wrapped
    <3>5. SizesInv'
      BY <1>a, <1>b, <1>c, <3>1, <3>4 DEF SizesInv
    <3>6. ASSUME Fits
          PROVE  /\ offset' % pubSegSize = 0 /\ offset % pubSegSize = 0
                 /\ GetSegSize(offset, pubSegSize)
                        = IF offset + pubSegSize > ProdSize THEN ProdSize - offset ELSE pubSegSize
      <4>1. Wrapped(offset + pubSegSize) = offset + pubSegSize
        BY <1>b, <1>d, <2>1, <2>2, <3>6, Unwrapped
      <4>2. offset % pubSegSize = 0
        BY <1>d, <2>1, <2>4 DEF Vetted
      <4>3. (offset + pubSegSize) % pubSegSize = 0
        BY <1>d, <2>2, <4>2, NextMultiple
      <4>4. ASSUME offset + pubSegSize > ProdSize
            PROVE  (ProdSize - offset) % SegSizeLimit = ProdSize - offset
        <5>1. ProdSize - offset \in Nat /\ ProdSize - offset < SegSizeLimit
          BY <1>d, <2>1, <2>2, <3>2, <4>4
        <5>2. QED
          BY <3>2, <5>1
      <4>5. QED
        BY <3>1, <4>1, <4>2, <4>3, <4>4 DEF GetSegSize
    <3>7. new.offset = offset /\ new.size = GetSegSize(offset, pubSegSize)
      OBVIOUS
    <3> HIDE DEF new
    <3>8. SentInv'
      <4>1. \A seg \in segs : /\ pubSegSize > 0 /\ seg.offset \in Nat /\ seg.offset < ProdSize
                              /\ seg.size \in Nat
        BY <1>b DEF SentInv
      <4>2. \A seg \in segs' : /\ pubSegSize > 0 /\ seg.offset \in Nat /\ seg.offset < ProdSize
                               /\ seg.size \in Nat
        BY <1>d, <2>1, <2>2, <3>1, <3>3, <3>7, <4>1
      <4>3. ASSUME Fits
            PROVE  \A seg \in segs' :
                    /\ seg.offset % pubSegSize = 0
                    /\ seg.size = IF seg.offset + pubSegSize > ProdSize
                                  THEN ProdSize - seg.offset ELSE pubSegSize
        BY <1>b, <3>1, <3>6, <3>7, <4>3 DEF SentInv
      <4>4. Fits => offset' % pubSegSize = 0
        BY <3>6
      <4>5. QED
        BY <1>a, <1>c, <4>2, <4>3, <4>4 DEF SentInv
    <3>9. QED
      BY <1>e, <1>f, <3>5, <3>8 DEF SegInv
  <2>5. QED
    BY <2>3, <2>4
<1>3. QED
  BY <1>1, <1>2

(* The subscriber's end, except for the saving of segments. *)
LEMMA ReceiverActs == ASSUME SegInv, OpenRcv \/ SaveInfo \/ FinishRcv PROVE SegInv'
<1>a. UNCHANGED <<fileSize, pubSegSize, offset, sending, segs, subSegSize, haveSegs, segCount,
                  bytes>>
  BY DEF OpenRcv, SaveInfo, FinishRcv, pubVars
<1>b. SizesInv /\ SentInv /\ SavedInv /\ SentIsAccepted
  BY DEF SegInv
<1>c. /\ ProdSize' = ProdSize /\ (Fits' <=> Fits)
      /\ NumSegs(subSegSize)' = NumSegs(subSegSize)
      /\ CannotCut(pubSegSize)' <=> CannotCut(pubSegSize)
      /\ CannotCut(subSegSize)' <=> CannotCut(subSegSize)
  BY <1>a, SizesStay
<1>1. SentInv' /\ SavedInv'
  BY <1>a, <1>b, <1>c DEF SentInv, SavedInv
<1>2. CASE OpenRcv
  <2>1. /\ ~CannotCut(pubSegSize)
        /\ saving' = IF CannotCut(subSegSize) THEN "failed" ELSE "running"
    BY <1>2, <1>b DEF OpenRcv, SizesInv
  <2>2. SizesInv'
    BY <1>a, <1>b, <1>c, <2>1 DEF SizesInv, Status
  <2>3. SentIsAccepted'
    BY <1>a, <1>c, <2>1 DEF SentIsAccepted
  <2>4. QED
    BY <1>1, <2>2, <2>3 DEF SegInv
<1>3. CASE SaveInfo \/ FinishRcv
  <2>1. saving = "running" /\ saving' \in {"running", "done"}
    BY <1>3 DEF SaveInfo, FinishRcv
  <2>2. SizesInv'
    BY <1>a, <1>b, <1>c, <2>1 DEF SizesInv, Status
  <2>3. SentIsAccepted'
    BY <1>a, <1>b, <1>c, <2>1 DEF SentIsAccepted
  <2>4. QED
    BY <1>1, <2>2, <2>3 DEF SegInv
<1>4. QED
  BY <1>2, <1>3

(* The segment that the subscriber expects at an offset that passes vet(): *)
(* its index exists, its bytes are those of the index, and it is the one   *)
(* that the publisher sends, if their segment-sizes are the same.          *)
LEMMA Expected ==
  ASSUME SizesInv, Fits, subSegSize > 0, NEW off \in Nat, Vetted(off, subSegSize)
  PROVE  LET i == SegIndex(off, subSegSize)
             size == SegLen(off, subSegSize)
         IN  /\ i \in Nat /\ i < NumSegs(subSegSize)
             /\ size = IF off + subSegSize > ProdSize THEN ProdSize - off ELSE subSegSize
             /\ \A b \in Nat : b \in off..(off + size - 1)
                                    <=> b < ProdSize /\ b \div subSegSize = i
<1> DEFINE T == subSegSize
           P == ProdSize
           i == off \div T
           n == NumSegs(T)
           last == LastSegSize(T)
<1>1. T \in Nat \ {0} /\ P \in Nat /\ n = (P + T - 1) \div T
  BY Unwrapped, SegmentsAssumption DEF SizesInv
<1>2. off < P /\ off % T = 0
  BY <1>1 DEF Vetted
<1>3. off = i * T /\ i \in Nat
  BY <1>1, <1>2, NextMultiple
<1>4. last = IF P % T # 0 THEN P % T ELSE T
  BY <1>1 DEF LastSegSize
<1> HIDE DEF T, P, i, n, last
<1>5. i < n /\ (i + 1 < n => off + T < P) /\ (~(i + 1 < n) => last = P - off /\ P =< off + T)
  <2>1. i * T < P
    BY <1>2, <1>3
  <2>2. /\ i < n /\ (i + 1 < n => i * T + T < P)
        /\ (~(i + 1 < n) => last = P - i * T /\ P =< i * T + T)
    BY <1>1, <1>3, <1>4, <2>1, Lengths
  <2>3. QED
    BY <1>3, <2>2
<1> DEFINE size == IF i + 1 < n THEN T ELSE last
<1>6. size = IF off + T > P THEN P - off ELSE T
  <2>1. n \in Nat
    BY <1>1, Cut
  <2>2. CASE i + 1 < n
    BY <1>1, <1>5, <2>2
  <2>3. CASE ~(i + 1 < n)
    BY <1>1, <1>2, <1>5, <2>3
  <2>4. QED
    BY <2>2, <2>3
<1>7. ASSUME NEW b \in Nat
      PROVE  b \in off..(off + size - 1) <=> b < P /\ b \div T = i
  <2> HIDE DEF size
  <2>1. b \div T = i <=> off =< b /\ b < off + T
    BY <1>1, <1>3, Quotient
  <2>2. CASE off + T > P
    BY <1>1, <1>2, <1>6, <2>1, <2>2
  <2>3. CASE ~(off + T > P)
    BY <1>1, <1>2, <1>6, <2>1, <2>3
  <2>4. QED
    BY <2>2, <2>3
<1>8. SegIndex(off, T) = i /\ SegLen(off, T) = size
  BY DEF SegIndex, SegLen, i, n, last
<1> HIDE DEF size
<1>9. QED
  BY <1>3, <1>5, <1>6, <1>7, <1>8 DEF T, P, n

(* One more segment is saved, or refused. *)
LEMMA SaveActs == ASSUME SegInv, NEW seg \in segs, SaveSeg(seg) PROVE SegInv'
<1>a. UNCHANGED <<fileSize, pubSegSize, offset, sending, segs, subSegSize, pathIsName>>
  BY DEF SaveSeg, pubVars
<1>b. SizesInv /\ SentInv /\ SavedInv /\ SentIsAccepted
  BY DEF SegInv
<1>c. /\ ProdSize' = ProdSize /\ (Fits' <=> Fits)
      /\ NumSegs(subSegSize)' = NumSegs(subSegSize)
      /\ CannotCut(pubSegSize)' <=> CannotCut(pubSegSize)
      /\ CannotCut(subSegSize)' <=> CannotCut(subSegSize)
  BY <1>a, SizesStay
<1>d. SentInv'
  BY <1>a, <1>b, <1>c DEF SentInv
<1>e. /\ saving = "running" /\ ~CannotCut(subSegSize) /\ seg.offset \in Nat
      /\ seg.offset < ProdSize /\ pubSegSize > 0
  BY <1>b DEF SaveSeg, SizesInv, SentInv
<1>f. ProdSize \in Nat /\ subSegSize > 0 /\ subSegSize \in Nat \ {0}
  <2>1. ProdSize \in Nat /\ subSegSize \in Nat
    BY <1>b, Unwrapped, SegmentsAssumption DEF SizesInv
  <2>2. QED
    BY <1>e, <2>1 DEF CannotCut
<1> DEFINE i == SegIndex(seg.offset, subSegSize)
           ok == Vetted(seg.offset, subSegSize) /\ seg.size = SegLen(seg.offset, subSegSize)
<1>1. CASE ~ok \/ i >= NumSegs(subSegSize)
  <2>1. saving' \in {"failed", "undefined"} /\ UNCHANGED <<haveSegs, segCount, bytes>>
    BY <1>1 DEF SaveSeg
  <2>2. SizesInv'
    BY <1>a, <1>b, <1>c, <1>e, <2>1 DEF SizesInv, Status
  <2>3. SavedInv'
    BY <1>a, <1>b, <1>c, <2>1 DEF SavedInv
  <2>4. SentIsAccepted'
    <3> SUFFICES ASSUME Fits, pubSegSize = subSegSize PROVE FALSE
      BY <1>a, <1>c DEF SentIsAccepted
    <3>1. Vetted(seg.offset, subSegSize)
      BY <1>b, <1>e, <1>f DEF SentInv, Vetted
    <3>2. /\ i \in Nat /\ i < NumSegs(subSegSize)
          /\ SegLen(seg.offset, subSegSize) = IF seg.offset + subSegSize > ProdSize
                                              THEN ProdSize - seg.offset ELSE subSegSize
      BY <1>b, <1>e, <1>f, <3>1, Expected
    <3>3. seg.size = SegLen(seg.offset, subSegSize)
      BY <1>b, <3>2 DEF SentInv
    <3>4. NumSegs(subSegSize) \in Nat
      BY <1>b, <1>f, Unwrapped, Cut
    <3>5. QED
      BY <1>1, <3>1, <3>2, <3>3, <3>4
  <2>5. QED
    BY <1>d, <2>2, <2>3, <2>4 DEF SegInv
<1>2. CASE ok /\ ~(i >= NumSegs(subSegSize))
  <2>1. /\ i \notin haveSegs /\ haveSegs' = haveSegs \cup {i} /\ segCount' = segCount + 1
        /\ bytes' = [b \in DOMAIN bytes |->
                IF b \in seg.offset..(seg.offset + seg.size - 1) THEN bytes[b] + 1
                ELSE bytes[b]]
        /\ saving' = saving
    BY <1>2 DEF SaveSeg
  <2>2. SizesInv'
    BY <1>a, <1>b, <1>c, <2>1 DEF SizesInv
  <2>3. SentIsAccepted'
    BY <1>a, <1>b, <1>c, <2>1 DEF SentIsAccepted
  <2>4. IsFiniteSet(haveSegs') /\ segCount' = Cardinality(haveSegs')
    BY <1>b, <2>1, FS_AddElement DEF SavedInv
  <2>5. i \in Nat
    BY <1>e, <1>f DEF SegIndex
  <2>6. NumSegs(subSegSize) \in Int
    <3>1. Wrapped(ProdSize + subSegSize - 1) \in Nat
      BY <1>f, SegmentsAssumption DEF Wrapped
    <3>2. QED
      BY <1>f, <3>1 DEF NumSegs
  <2>7. haveSegs' \subseteq 0..(NumSegs(subSegSize)' - 1)
    <3> HIDE DEF i
    <3>1. i \in 0..(NumSegs(subSegSize) - 1)
      BY <1>2, <2>5, <2>6
    <3>2. QED
      BY <1>b, <1>c, <2>1, <3>1 DEF SavedInv
  <2>8. DOMAIN bytes' = DOMAIN bytes /\ DOMAIN bytes = 0..(ProdSizeLimit - 1)
    BY <1>b, <2>1 DEF SavedInv
  <2>9. ASSUME Fits, NEW b \in DOMAIN bytes
        PROVE  bytes'[b] =
            IF subSegSize > 0 /\ b < ProdSize /\ b \div subSegSize \in haveSegs' THEN 1 ELSE 0
    <3>1. bytes[b] = IF subSegSize > 0 /\ b < ProdSize /\ b \div subSegSize \in haveSegs
                     THEN 1 ELSE 0
      BY <1>b, <2>9 DEF SavedInv
    <3>2. b \in Nat
      BY <2>8, SegmentsAssumption
    <3>3. b \in seg.offset..(seg.offset + seg.size - 1) <=> b < ProdSize /\ b \div subSegSize = i
      BY <1>2, <1>b, <1>e, <1>f, <2>9, <3>2, Expected
    <3>4. bytes'[b] = IF b < ProdSize /\ b \div subSegSize = i THEN bytes[b] + 1 ELSE bytes[b]
      BY <2>1, <3>3
    <3> HIDE DEF i
    <3>5. CASE b < ProdSize /\ b \div subSegSize = i
      BY <1>f, <2>1, <3>1, <3>4, <3>5
    <3>6. CASE ~(b < ProdSize /\ b \div subSegSize = i)
      BY <1>f, <2>1, <3>1, <3>4, <3>6
    <3>7. QED
      BY <3>5, <3>6
  <2>10. SavedInv'
    BY <1>a, <1>c, <1>f, <2>4, <2>7, <2>8, <2>9 DEF SavedInv
  <2>11. QED
    BY <1>d, <2>2, <2>3, <2>10 DEF SegInv
<1>3. QED
  BY <1>1, <1>2

(* As many segments as there are indexes: every index. *)
LEMMA AllIndexes ==
  ASSUME NEW n \in Nat, NEW S \in SUBSET (0..(n - 1)), Cardinality(S) = n
  PROVE  S = 0..(n - 1)
<1>1. IsFiniteSet(0..(n - 1)) /\ Cardinality(0..(n - 1)) = n
  <2>1. CASE n = 0
    BY <2>1, FS_Interval, FS_EmptySet
  <2>2. CASE n # 0
    BY <2>2, FS_Interval
  <2>3. QED
    BY <2>1, <2>2
<1>2. QED
  BY <1>1, FS_Subset

(* A product that is taken to be complete has each of its bytes, once,     *)
(* whatever the segment-sizes of the two repositories, and a subscriber    *)
(* with the publisher's segment-size accepts every segment.                *)
THEOREM SegmentsSound == SegSpec => []SegmentsInv
<1>1. SegInv /\ [SegStep]_segVars => SegInv'
  <2> SUFFICES ASSUME SegInv, [SegStep]_segVars PROVE SegInv'
    OBVIOUS
  <2>1. CASE SegStep
    BY <2>1, SenderActs, ReceiverActs, SaveActs DEF SegStep
  <2>2. CASE UNCHANGED segVars
    <3>1. UNCHANGED <<fileSize, pubSegSize, subSegSize, offset, sending, segs, saving,
                      haveSegs, segCount, bytes>>
      BY <2>2 DEF segVars, pubVars, subVars
    <3>2. /\ ProdSize' = ProdSize /\ (Fits' <=> Fits)
          /\ NumSegs(subSegSize)' = NumSegs(subSegSize)
          /\ CannotCut(pubSegSize)' <=> CannotCut(pubSegSize)
          /\ CannotCut(subSegSize)' <=> CannotCut(subSegSize)
      BY <3>1, SizesStay
    <3>3. SizesInv'
      BY <3>1, <3>2 DEF SegInv, SizesInv
    <3>4. SentInv'
      BY <3>1, <3>2 DEF SegInv, SentInv
    <3>5. SavedInv' /\ SentIsAccepted'
      BY <3>1, <3>2 DEF SegInv, SavedInv, SentIsAccepted
    <3>6. QED
      BY <3>3, <3>4, <3>5 DEF SegInv
  <2>3. QED
    BY <2>1, <2>2
<1>2. SegInv => SegmentsInv
  <2> SUFFICES ASSUME SegInv, Fits, RcvIsComplete, NEW b \in DOMAIN bytes
               PROVE  bytes[b] = (IF b < ProdSize THEN 1 ELSE 0)
    BY DEF SegInv, SegmentsInv, CompleteIsWhole
  <2>1. /\ bytes[b] = IF subSegSize > 0 /\ b < ProdSize /\ b \div subSegSize \in haveSegs
                      THEN 1 ELSE 0
        /\ Cardinality(haveSegs) = NumSegs(subSegSize)
        /\ haveSegs \subseteq 0..(NumSegs(subSegSize) - 1)
        /\ ~CannotCut(subSegSize) /\ b \in 0..(ProdSizeLimit - 1)
    BY DEF SegInv, SavedInv, SizesInv, RcvIsComplete
  <2>2. SizesInv /\ ProdSize \in Nat /\ subSegSize \in Nat /\ b \in Nat
    BY <2>1, Unwrapped, SegmentsAssumption DEF SegInv, SizesInv
  <2>3. CASE ~(b < ProdSize)
    BY <2>1, <2>3
  <2>4. CASE b < ProdSize
    <3>1. subSegSize > 0 /\ subSegSize \in Nat \ {0}
      BY <2>1, <2>2, <2>4 DEF CannotCut
    <3> DEFINE T == subSegSize
               n == NumSegs(T)
               i == b \div T
               iT == i * T
    <3>2. n = (ProdSize + T - 1) \div T /\ n \in Nat
      BY <2>2, <3>1, Unwrapped, Cut
    <3>3. i \in Nat /\ iT =< b
      BY <2>2, <3>1, Quotient
    <3>4. iT < ProdSize
      <4>1. iT \in Nat
        BY <3>1, <3>3
      <4> HIDE DEF iT
      <4>2. QED
        BY <2>2, <2>4, <3>3, <4>1
    <3>5. i < n
      BY <2>2, <3>1, <3>2, <3>3, <3>4, Lengths
    <3> HIDE DEF n, i
    <3>6. haveSegs = 0..(n - 1)
      BY <2>1, <3>2, AllIndexes DEF n
    <3>7. i \in haveSegs
      BY <3>2, <3>3, <3>5, <3>6
    <3>8. QED
      BY <2>1, <2>4, <3>1, <3>7 DEF i
  <2>5. QED
    BY <2>3, <2>4
<1>3. QED
  BY <1>1, <1>2, SegStart, PTL DEF SegSpec

-----------------------------------------------------------------------------
(* Messages on a connection, byte by byte: Wire.  That the messages are    *)
(* read in order is no invariant that a step keeps by itself: one must say *)
(* what every byte is that the two ends have before them.  It is a history *)
(* of whole fields, with their padding, from the place where the receiver  *)
(* is to that where the sender is; the counters agree with the positions   *)
(* in it modulo the widths of the fields, not by value, since each wraps   *)
(* around by itself.                                                       *)

Sendable == {msg \in Messages : msg.kind \in UNION {MessageKind[c] : c \in DOMAIN MessageKind}}
FieldName == {"msgId", "length", "index", "prodSize", "offset", "name", "data"}
FieldType == [name : FieldName, width : Nat, aligned : BOOLEAN]
Mark == {ByteOf(msg, field, i) : msg \in Messages, field \in FieldType, i \in Nat} \cup {Padding}

AllFields(msg) == <<MsgId>> \o Header(msg) \o Data(msg)
NumFields(msg) == Len(AllFields(msg))

(* The fields of which something is carried: a name or data may be empty. *)
Count(msg) ==
    IF AllFields(msg)[NumFields(msg)].width = 0 THEN NumFields(msg) - 1 ELSE NumFields(msg)

(* Two positions in a stream at which values are aligned alike. *)
Agree(m, n) == \E q \in Int : m = n + 4 * q

(* What is left of a list of fields. *)
Rest(fs, all) ==
    /\ fs \in Seq(FieldType) /\ Len(fs) =< Len(all)
    /\ \A i \in 1..Len(fs) : fs[i] = all[Len(all) - Len(fs) + i]

(* A place in what is sent: a message and a field of it.  The one after    *)
(* the last field is in the next message.                                  *)
Norm(m, f) == IF m \in 1..Len(sent) /\ f > Count(sent[m]) THEN <<m + 1, 1>> ELSE <<m, f>>

(* How many fields of the message being received were read. *)
FieldsRead ==
    IF reader = "msgId" THEN 0
    ELSE IF reader = "header" THEN 1 + Len(Header(Reading)) - Len(want)
    ELSE NumFields(Reading) - Len(want)
ReaderAt == Norm(Len(got) + 1, FieldsRead + 1)
WriterAt ==
    IF sent = <<>> THEN <<1, 1>>
    ELSE Norm(Len(sent), NumFields(sent[Len(sent)]) - Len(fields) + 1)

(* A field with what aligns it, where pos bytes went before it. *)
PieceLen(field, pos) == PadTo(pos, field) + field.width
PieceByte(msg, field, pos, i) ==
    IF i =< PadTo(pos, field) THEN Padding ELSE ByteOf(msg, field, i - PadTo(pos, field))

(* What is between the two ends. *)
Carried == (inp \o pipe) \o out

(* The k-th field of a history F of places, which ends at position c[k] of *)
(* the connection's bytes, is among those that are carried, which begin    *)
(* after position base.                                                    *)
PieceOK(k, c, F, base) ==
    LET msg == sent[F[k][1]]
        field == AllFields(msg)[F[k][2]]
    IN  /\ F[k][1] \in 1..Len(sent) /\ F[k][2] \in 1..Count(msg)
        /\ F[k + 1] = Norm(F[k][1], F[k][2] + 1)
        /\ c[k] = c[k - 1] + PieceLen(field, c[k - 1])
        /\ \A i \in 1..PieceLen(field, c[k - 1]) :
              Carried[c[k - 1] - base + i] = PieceByte(msg, field, c[k - 1], i)

History(lo, hi, c, F) ==
    /\ lo =< hi
    /\ \A j, k \in lo..hi : j =< k => c[j] =< c[k]
    /\ Len(Carried) = c[hi] - c[lo]
    /\ F[lo + 1] = ReaderAt /\ F[hi + 1] = WriterAt
    /\ \A k \in lo + 1..hi : PieceOK(k, c, F, c[lo])
    /\ Agree(bytesRead - Len(inp), c[lo]) /\ Agree(bytesWritten + Len(out), c[hi])

(* The bytes between the two ends are the fields between the places where  *)
(* the ends are.                                                           *)
FlowInv ==
    \E lo, hi \in Nat : \E c \in [Nat -> Nat] : \E F \in [Nat -> Nat \X Nat] : History(lo, hi, c, F)

(* The connection has ended, and the receiver has taken all of it. *)
OverInv ==
    /\ ~open
    /\ \/ reader = "ended"
       \/ reader = "msgId" /\ want = <<MsgId>> /\ inp = <<>> /\ pipe = <<>>

(* A segment was left unread: nothing is known of the bytes from there on. *)
Skipped == \E msg \in Elems(sent) : msg.num \in unread

WireTypes ==
    /\ sent \in Seq(Sendable) /\ unsent \subseteq Sendable
    /\ sent = <<>> => fields = <<>>
    /\ sent # <<>> => Rest(fields, AllFields(sent[Len(sent)]))
    /\ inp \in Seq(Mark) /\ pipe \in Seq(Mark) /\ out \in Seq(Mark)
    /\ bytesRead \in Nat /\ bytesWritten \in Nat

ReaderInv ==
    /\ got \in Seq(Sendable) /\ Len(got) =< Len(sent)
    /\ \A i \in 1..Len(got) : got[i] = sent[i]
    /\ reader \in {"msgId", "header", "data", "ended"}
    /\ reader = "msgId" => want = <<MsgId>>
    /\ reader = "header" => Len(got) < Len(sent) /\ Rest(want, Header(Reading))
    /\ reader = "data" => Len(got) < Len(sent) /\ Rest(want, Data(Reading))

WireInv ==
    /\ WireTypes
    /\ Skipped \/ (ReaderInv /\ (OverInv \/ (FlowInv /\ reader # "ended")))

(* A header has one field to four; data, which a segment has, is one; only *)
(* a name and data are not aligned, and they come last.                    *)
LEMMA Layout ==
  ASSUME NEW msg \in Sendable
  PROVE  LET all == AllFields(msg)
             head == Header(msg)
             N == NumFields(msg)
         IN  /\ all \in Seq(FieldType) /\ head \in Seq(FieldType) /\ Data(msg) \in Seq(FieldType)
             /\ N \in Nat /\ N >= 2 /\ N = 1 + Len(head) + Len(Data(msg))
             /\ all[1] = MsgId
             /\ \A i \in 1..Len(head) : all[1 + i] = head[i]
             /\ \A i \in 1..Len(Data(msg)) : all[1 + Len(head) + i] = Data(msg)[i]
             /\ \A i \in 1..N - 1 : all[i].aligned /\ all[i].width \in {2, 4}
             /\ all[N].aligned => all[N].width \in {2, 4}
             /\ Data(msg) = <<>> \/ Len(Data(msg)) = 1
<1> DEFINE head == Header(msg)
           data == Data(msg)
           name == Raw("name", msg.var)
<1>1. /\ msg.var \in Nat
      /\ msg.kind \in {"PROD_INFO_NOTICE", "DATA_SEG_NOTICE", "PROD_INFO_REQUEST",
                       "DATA_SEG_REQUEST", "PROD_INFO", "DATA_SEG"}
  BY WireAssumption DEF Sendable, MessageKind
<1>2. /\ MsgId \in FieldType /\ MsgId.aligned /\ MsgId.width = 2
  BY DEF MsgId, FieldType, FieldName, Field
<1>f. \A n \in {"length", "index", "prodSize", "offset"}, w \in {2, 4} :
          Field(n, w) \in FieldType /\ Field(n, w).aligned /\ Field(n, w).width = w
  BY DEF FieldType, FieldName, Field
<1>r. \A n \in {"name", "data"} : LET f == Raw(n, msg.var) IN f \in FieldType /\ f.aligned = FALSE
  BY <1>1 DEF FieldType, FieldName, Raw
<1>3. /\ head \in Seq(FieldType) /\ Len(head) \in 1..4
      /\ \A i \in 1..Len(head) - 1 : head[i].aligned /\ head[i].width \in {2, 4}
      /\ head[Len(head)].aligned => head[Len(head)].width \in {2, 4}
      /\ msg.kind = "DATA_SEG" => head[Len(head)].aligned
  <2>1. CASE msg.kind \in {"PROD_INFO_NOTICE", "PROD_INFO_REQUEST"}
    <3>1. head = <<Field("index", 4)>>
      BY <2>1 DEF Header
    <3> HIDE DEF head
    <3> QED
      BY <3>1, <1>f, <2>1
  <2>2. CASE msg.kind \in {"DATA_SEG_NOTICE", "DATA_SEG_REQUEST"}
    <3>1. head = <<Field("index", 4), Field("offset", 4)>>
      BY <2>2 DEF Header
    <3> HIDE DEF head
    <3> QED
      BY <3>1, <1>f, <2>2
  <2>3. CASE msg.kind = "PROD_INFO"
    <3>1. head = <<Field("length", 2), Field("index", 4), Field("prodSize", 4), name>>
      BY <2>3 DEF Header
    <3>2. name \in FieldType /\ name.aligned = FALSE
      BY <1>r
    <3> HIDE DEF head, name
    <3> QED
      BY <3>1, <3>2, <1>f, <2>3
  <2>4. CASE msg.kind = "DATA_SEG"
    <3>1. head = <<Field("length", 2), Field("index", 4), Field("prodSize", 4), Field("offset", 4)>>
      BY <2>4 DEF Header
    <3> HIDE DEF head
    <3> QED
      BY <3>1, <1>f, <2>4
  <2> QED
    BY <1>1, <2>1, <2>2, <2>3, <2>4
<1>4. /\ data \in Seq(FieldType)
      /\ \/ data = <<>>
         \/ Len(data) = 1 /\ data[1].aligned = FALSE /\ msg.kind = "DATA_SEG"
      /\ data = <<>> => Len(data) = 0
  <2>1. CASE msg.kind = "DATA_SEG"
    <3>1. data = <<Raw("data", msg.var)>>
      BY <2>1 DEF Data
    <3>2. Raw("data", msg.var) \in FieldType /\ Raw("data", msg.var).aligned = FALSE
      BY <1>r
    <3> HIDE DEF data
    <3> QED
      BY <2>1, <3>1, <3>2
  <2>2. CASE msg.kind # "DATA_SEG"
    BY <2>2 DEF Data
  <2> QED
    BY <2>1, <2>2
<1> DEFINE start == <<MsgId>> \o head
           all == start \o data
<1>5. AllFields(msg) = all
  BY DEF AllFields
<1> HIDE DEF head, data
<1>6. /\ start \in Seq(FieldType) /\ Len(start) = 1 + Len(head)
      /\ start[1] = MsgId /\ \A i \in 1..Len(head) : start[1 + i] = head[i]
  <2>1. <<MsgId>> \in Seq(FieldType) /\ Len(<<MsgId>>) = 1 /\ <<MsgId>>[1] = MsgId
    BY <1>2
  <2> QED
    BY <1>3, <2>1, ConcatAt
<1> HIDE DEF start
<1>7. /\ all \in Seq(FieldType) /\ Len(all) = 1 + Len(head) + Len(data)
      /\ \A i \in 1..1 + Len(head) : all[i] = start[i]
      /\ \A i \in 1..Len(data) : all[1 + Len(head) + i] = data[i]
  BY <1>4, <1>6, ConcatAt
<1> HIDE DEF all
<1>8. /\ all[1] = MsgId
      /\ \A i \in 1..Len(head) : all[1 + i] = head[i]
  BY <1>3, <1>6, <1>7
<1>9. \A i \in 1..Len(all) - 1 : all[i].aligned /\ all[i].width \in {2, 4}
  <2> SUFFICES ASSUME NEW i \in 1..Len(all) - 1 PROVE all[i].aligned /\ all[i].width \in {2, 4}
    OBVIOUS
  <2>1. CASE i = 1
    BY <2>1, <1>2, <1>8
  <2>2. CASE i # 1
    <3>1. i - 1 \in 1..Len(head) /\ all[i] = head[i - 1]
      <4>1. i - 1 \in 1..Len(head)
        BY <2>2, <1>3, <1>4, <1>7
      <4>2. all[1 + (i - 1)] = head[i - 1]
        BY <4>1, <1>8
      <4> QED
        BY <4>1, <4>2
    <3>2. CASE i - 1 < Len(head)
      BY <3>1, <3>2, <1>3
    <3>3. CASE i - 1 = Len(head)
      BY <3>1, <3>3, <1>3, <1>4, <1>7
    <3> QED
      BY <3>1, <3>2, <3>3, <1>3
  <2> QED
    BY <2>1, <2>2
<1>10. all[Len(all)].aligned => all[Len(all)].width \in {2, 4}
  <2>1. CASE data = <<>>
    BY <2>1, <1>3, <1>4, <1>7, <1>8
  <2>2. CASE data # <<>>
    <3>1. Len(all) = 1 + Len(head) + 1 /\ all[1 + Len(head) + 1] = data[1]
      BY <2>2, <1>4, <1>7
    <3> QED
      BY <2>2, <3>1, <1>4
  <2> QED
    BY <2>1, <2>2
<1>11. /\ head = Header(msg) /\ data = Data(msg)
       /\ NumFields(msg) = Len(all)
  BY <1>5 DEF NumFields, head, data
<1> QED
  BY <1>3, <1>4, <1>5, <1>7, <1>8, <1>9, <1>10, <1>11

(* A field that is aligned has two bytes or four; only the last field of a *)
(* message may be empty, and then it is not one of those counted.          *)
LEMMA FieldFacts ==
  ASSUME NEW msg \in Sendable
  PROVE  /\ Count(msg) \in 1..NumFields(msg)
         /\ \A i \in 1..NumFields(msg) :
               LET field == AllFields(msg)[i]
               IN  /\ field \in FieldType /\ field.width \in Nat /\ field.aligned \in BOOLEAN
                   /\ field.aligned => field.width \in {2, 4}
                   /\ i =< Count(msg) => field.width > 0
                   /\ i > Count(msg) => field.width = 0 /\ ~field.aligned /\ i = NumFields(msg)
<1> DEFINE all == AllFields(msg)
           N == NumFields(msg)
<1>1. /\ all \in Seq(FieldType) /\ N \in Nat /\ N >= 2
      /\ \A i \in 1..N - 1 : all[i].aligned /\ all[i].width \in {2, 4}
      /\ all[N].aligned => all[N].width \in {2, 4}
  BY Layout
<1>2. \A i \in 1..N : all[i] \in FieldType
  BY <1>1 DEF NumFields
<1>3. \A i \in 1..N : all[i].width \in Nat /\ all[i].aligned \in BOOLEAN
  BY <1>2 DEF FieldType
<1>4. Count(msg) = IF all[N].width = 0 THEN N - 1 ELSE N
  BY DEF Count
<1> HIDE DEF all, N
<1>5. Count(msg) \in 1..N
  BY <1>1, <1>4
<1>6. ASSUME NEW i \in 1..N
      PROVE  /\ all[i] \in FieldType /\ all[i].width \in Nat /\ all[i].aligned \in BOOLEAN
             /\ all[i].aligned => all[i].width \in {2, 4}
             /\ i =< Count(msg) => all[i].width > 0
             /\ i > Count(msg) => all[i].width = 0 /\ ~all[i].aligned /\ i = N
  <2>1. CASE i = N
    BY <2>1, <1>1, <1>2, <1>3, <1>4
  <2>2. CASE i # N
    <3>1. i \in 1..N - 1
      BY <2>2, <1>1
    <3>2. all[i].aligned /\ all[i].width \in {2, 4}
      BY <3>1, <1>1
    <3>3. i =< Count(msg)
      BY <3>1, <1>1, <1>4
    <3>4. Count(msg) \in Nat /\ i \in Nat /\ ~(i > Count(msg)) /\ all[i].width > 0
      BY <3>2, <3>3, <1>1, <1>5
    <3> QED
      BY <3>2, <3>4, <1>2, <1>3
  <2> QED
    BY <2>1, <2>2
<1> QED
  BY <1>5, <1>6 DEF all, N

(* The counters wrap around at a multiple of the widths of the fields.     *)
LEMMA CounterWraps ==
  ASSUME NEW x \in Nat
  PROVE  x % CounterLimit \in Nat /\ Agree(x % CounterLimit, x)
<1>1. CounterLimit \in Nat \ {0} /\ CounterLimit % 4 = 0
  BY WireAssumption
<1> DEFINE C == CounterLimit
           d == x \div C
           b == C \div 4
<1>2. x % C \in Nat /\ d \in Int /\ x % C = x - C * d
  BY <1>1
<1>3. b \in Int /\ C = 4 * b
  BY <1>1
<1> HIDE DEF C, d, b
<1>4. C * d = 4 * (b * d)
  BY <1>2, <1>3
<1> DEFINE p == b * d
<1>5. p \in Int /\ C * d = 4 * p
  BY <1>2, <1>3, <1>4
<1> HIDE DEF p
<1>6. -p \in Int /\ x % C = x + 4 * (-p)
  BY <1>2, <1>5
<1> QED
  BY <1>2, <1>6 DEF Agree, C

(* Positions that agree still do when both move. *)
LEMMA AgreeMoves ==
  /\ \A m \in Int : Agree(m, m)
  /\ \A l, m, n \in Int : Agree(l, m) /\ Agree(m, n) => Agree(l, n)
  /\ \A m, n, d \in Int : Agree(m, n) => Agree(m + d, n + d) /\ Agree(m - d, n - d)
<1>1. ASSUME NEW m \in Int PROVE Agree(m, m)
  <2>1. m = m + 4 * 0
    OBVIOUS
  <2> QED
    BY <2>1 DEF Agree
<1>2. ASSUME NEW l \in Int, NEW m \in Int, NEW n \in Int, Agree(l, m), Agree(m, n)
      PROVE  Agree(l, n)
  <2>1. PICK p \in Int : l = m + 4 * p
    BY <1>2 DEF Agree
  <2>2. PICK q \in Int : m = n + 4 * q
    BY <1>2 DEF Agree
  <2>3. l = n + 4 * (p + q) /\ p + q \in Int
    BY <2>1, <2>2
  <2> QED
    BY <2>3 DEF Agree
<1>3. ASSUME NEW m \in Int, NEW n \in Int, NEW d \in Int, Agree(m, n)
      PROVE  Agree(m + d, n + d) /\ Agree(m - d, n - d)
  BY <1>3 DEF Agree
<1> QED
  BY <1>1, <1>2, <1>3

(* Values are aligned alike at positions that agree. *)
LEMMA AlignedAlike ==
  ASSUME NEW m \in Int, NEW n \in Int, Agree(m, n), NEW field \in FieldType,
         field.width \in Nat, field.aligned => field.width \in {2, 4}
  PROVE  PadTo(m, field) = PadTo(n, field) /\ PadTo(n, field) \in Nat
<1>1. PICK q \in Int : m = n + 4 * q
  BY DEF Agree
<1>2. CASE field.aligned /\ field.width = 2
  <2>1. (2 - m) % 2 = (2 - n) % 2 /\ (2 - n) % 2 \in Nat
    BY <1>1
  <2> QED
    BY <1>2, <2>1 DEF PadTo
<1>3. CASE field.aligned /\ field.width = 4
  <2>1. (4 - m) % 4 = (4 - n) % 4 /\ (4 - n) % 4 \in Nat
    BY <1>1
  <2> QED
    BY <1>3, <2>1 DEF PadTo
<1>4. CASE ~field.aligned
  BY <1>4 DEF PadTo
<1> QED
  BY <1>2, <1>3, <1>4

(* Bytes that go from one list to another remain in their order.           *)
LEMMA BytesMove ==
  \A s, t \in Seq(Mark) : \A n \in 0..Len(t) :
     /\ SubSeq(t, 1, n) \in Seq(Mark) /\ SubSeq(t, n + 1, Len(t)) \in Seq(Mark)
     /\ Len(SubSeq(t, 1, n)) = n /\ Len(SubSeq(t, n + 1, Len(t))) = Len(t) - n
     /\ (s \o SubSeq(t, 1, n)) \o SubSeq(t, n + 1, Len(t)) = s \o t
<1> SUFFICES ASSUME NEW s \in Seq(Mark), NEW t \in Seq(Mark), NEW n \in 0..Len(t)
             PROVE  /\ SubSeq(t, 1, n) \in Seq(Mark) /\ SubSeq(t, n + 1, Len(t)) \in Seq(Mark)
                    /\ Len(SubSeq(t, 1, n)) = n /\ Len(SubSeq(t, n + 1, Len(t))) = Len(t) - n
                    /\ (s \o SubSeq(t, 1, n)) \o SubSeq(t, n + 1, Len(t)) = s \o t
  OBVIOUS
<1> DEFINE front == SubSeq(t, 1, n)
           back == SubSeq(t, n + 1, Len(t))
<1>1. front \in Seq(Mark) /\ Len(front) = n
  BY PrefixElems
<1>2. back \in Seq(Mark) /\ Len(back) = Len(t) - n
  BY SuffixAt
<1>3. front \o back = SubSeq(t, 1, Len(t))
  <2>1. 1 \in 1..Len(t) + 1 /\ n \in 1 - 1 .. Len(t) /\ Len(t) \in n .. Len(t)
    OBVIOUS
  <2> QED
    BY <2>1, ConcatAdjacentSubSeq
<1>4. front \o back = t
  BY <1>3, SubSeqFull
<1> HIDE DEF front, back
<1>5. (s \o front) \o back = s \o (front \o back)
  <2>1. s \in Seq(Mark) /\ front \in Seq(Mark) /\ back \in Seq(Mark)
    BY <1>1, <1>2
  <2> QED
    BY <2>1, ConcatAssociative
<1>6. (s \o front) \o back = s \o t
  BY <1>4, <1>5
<1> QED
  BY <1>1, <1>2, <1>6 DEF front, back

(* What is left of a list of fields, after its first. *)
LEMMA RestOfRest ==
  ASSUME NEW all \in Seq(FieldType), NEW fs, Rest(fs, all), fs # <<>>
  PROVE  /\ Rest(Tail(fs), all) /\ Len(Tail(fs)) = Len(fs) - 1
         /\ Len(fs) \in 1..Len(all)
         /\ Head(fs) = all[Len(all) - Len(fs) + 1]
<1>1. /\ fs \in Seq(FieldType) /\ Len(fs) \in Nat /\ Len(fs) >= 1
      /\ Len(fs) =< Len(all) /\ Len(all) \in Nat
  BY DEF Rest
<1>2. /\ Head(fs) = fs[1] /\ Tail(fs) \in Seq(FieldType) /\ Len(Tail(fs)) = Len(fs) - 1
      /\ \A i \in 1..Len(fs) - 1 : Tail(fs)[i] = fs[i + 1]
  BY <1>1, HeadTailProperties
<1>3. fs[1] = all[Len(all) - Len(fs) + 1]
  BY <1>1 DEF Rest
<1>4. ASSUME NEW i \in 1..Len(fs) - 1 PROVE Tail(fs)[i] = all[Len(all) - (Len(fs) - 1) + i]
  <2>1. i + 1 \in 1..Len(fs) /\ Tail(fs)[i] = fs[i + 1]
    BY <1>1, <1>2
  <2>2. fs[i + 1] = all[Len(all) - Len(fs) + (i + 1)]
    BY <2>1 DEF Rest
  <2>3. Len(all) - Len(fs) + (i + 1) = Len(all) - (Len(fs) - 1) + i
    BY <1>1
  <2> QED
    BY <2>1, <2>2, <2>3
<1> QED
  BY <1>1, <1>2, <1>3, <1>4 DEF Rest

(* A field and what aligns it have finitely many bytes. *)
LEMMA PieceIsFinite ==
  ASSUME NEW msg \in Sendable, NEW j \in 1..NumFields(msg), NEW pos \in Nat
  PROVE  LET field == AllFields(msg)[j]
         IN  PadTo(pos, field) \in Nat /\ field.width \in Nat /\ PieceLen(field, pos) \in Nat
<1> DEFINE field == AllFields(msg)[j]
<1>1. /\ field \in FieldType /\ field.width \in Nat
      /\ field.aligned => field.width \in {2, 4}
  BY FieldFacts
<1> HIDE DEF field
<1>2. pos \in Int /\ Agree(pos, pos)
  BY AgreeMoves
<1>3. PadTo(pos, field) \in Nat
  BY <1>1, <1>2, AlignedAlike
<1> QED
  BY <1>1, <1>3 DEF PieceLen, field

(* The bytes of a list that is appended to another follow those of it. *)
LEMMA ConcatMarks ==
  \A s, t \in Seq(Mark) :
     LET st == s \o t
     IN  /\ st \in Seq(Mark) /\ Len(st) = Len(s) + Len(t)
         /\ \A i \in 1..Len(s) : st[i] = s[i]
         /\ \A i \in 1..Len(t) : st[Len(s) + i] = t[i]
BY ConcatAt

(* The receiver is at the field that is next in the message.               *)
LEMMA WantedField ==
  ASSUME WireTypes, ReaderInv, reader \in {"msgId", "header", "data"}, Len(got) < Len(sent)
  PROVE  /\ Reading \in Sendable /\ FieldsRead \in 0..NumFields(Reading)
         /\ reader = "msgId" => FieldsRead = 0
         /\ want # <<>> => /\ FieldsRead + 1 \in 1..NumFields(Reading)
                           /\ Head(want) = AllFields(Reading)[FieldsRead + 1]
         /\ reader = "header" /\ want = <<>> =>
               FieldsRead = IF Data(Reading) = <<>> THEN NumFields(Reading)
                            ELSE NumFields(Reading) - 1
         /\ reader = "data" /\ want = <<>> => FieldsRead = NumFields(Reading)
<1>1. Reading \in Sendable
  BY DEF WireTypes, ReaderInv, Reading
<1> DEFINE all == AllFields(Reading)
           head == Header(Reading)
           data == Data(Reading)
           N == NumFields(Reading)
<1>2. /\ all \in Seq(FieldType) /\ head \in Seq(FieldType) /\ data \in Seq(FieldType)
      /\ N \in Nat /\ N >= 2 /\ N = 1 + Len(head) + Len(data) /\ all[1] = MsgId
      /\ \A i \in 1..Len(head) : all[1 + i] = head[i]
      /\ \A i \in 1..Len(data) : all[1 + Len(head) + i] = data[i]
      /\ data = <<>> \/ Len(data) = 1
      /\ Len(head) \in Nat /\ Len(data) \in Nat
      /\ data = <<>> => Len(data) = 0
  BY <1>1, Layout
<1>3. CASE reader = "msgId"
  <2>1. FieldsRead = 0 /\ want = <<MsgId>>
    BY <1>3 DEF FieldsRead, ReaderInv
  <2> HIDE DEF all, head, data, N
  <2>2. Head(want) = MsgId
    BY <2>1
  <2>3. FieldsRead \in 0..N /\ FieldsRead + 1 \in 1..N /\ Head(want) = all[FieldsRead + 1]
    BY <2>1, <2>2, <1>2
  <2> QED
    BY <2>1, <2>3, <1>1, <1>3 DEF all, N
<1>4. CASE reader = "header"
  <2>1. FieldsRead = 1 + Len(head) - Len(want) /\ Rest(want, head)
    BY <1>4 DEF FieldsRead, ReaderInv
  <2>2. want # <<>> => Len(want) \in 1..Len(head) /\ Head(want) = head[Len(head) - Len(want) + 1]
    BY <2>1, <1>2, RestOfRest
  <2>3. want = <<>> => Len(want) = 0
    OBVIOUS
  <2>4. Len(want) \in 0..Len(head)
    BY <2>1, <1>2 DEF Rest
  <2> HIDE DEF all, head, data, N
  <2>5. FieldsRead \in 0..N
    BY <2>1, <2>4, <1>2
  <2>6. ASSUME want # <<>> PROVE FieldsRead + 1 \in 1..N /\ Head(want) = all[FieldsRead + 1]
    <3>1. Len(head) - Len(want) + 1 \in 1..Len(head)
      BY <2>2, <2>6, <1>2
    <3>2. all[1 + (Len(head) - Len(want) + 1)] = head[Len(head) - Len(want) + 1]
      BY <3>1, <1>2
    <3>3. 1 + (Len(head) - Len(want) + 1) = FieldsRead + 1
      BY <2>1, <2>4, <1>2
    <3> QED
      BY <2>2, <2>5, <2>6, <3>1, <3>2, <3>3, <1>2
  <2>7. want = <<>> => FieldsRead = IF data = <<>> THEN N ELSE N - 1
    BY <2>1, <2>3, <1>2
  <2> QED
    BY <2>5, <2>6, <2>7, <1>1, <1>4 DEF all, data, N
<1>5. CASE reader = "data"
  <2>1. FieldsRead = N - Len(want) /\ Rest(want, data)
    BY <1>5 DEF FieldsRead, ReaderInv
  <2>2. want # <<>> => Len(want) \in 1..Len(data) /\ Head(want) = data[Len(data) - Len(want) + 1]
    BY <2>1, <1>2, RestOfRest
  <2>3. want = <<>> => Len(want) = 0
    OBVIOUS
  <2>4. Len(want) \in 0..Len(data)
    BY <2>1, <1>2 DEF Rest
  <2> HIDE DEF all, head, data, N
  <2>5. FieldsRead \in 0..N
    BY <2>1, <2>4, <1>2
  <2>6. ASSUME want # <<>> PROVE FieldsRead + 1 \in 1..N /\ Head(want) = all[FieldsRead + 1]
    <3>1. Len(want) = 1 /\ Len(data) = 1
      BY <2>2, <2>6, <1>2
    <3>2. Head(want) = data[1] /\ all[1 + Len(head) + 1] = data[1]
      BY <2>2, <2>6, <3>1, <1>2
    <3>3. FieldsRead + 1 = 1 + Len(head) + 1
      BY <2>1, <3>1, <1>2
    <3> QED
      BY <3>1, <3>2, <3>3, <1>2
  <2>7. want = <<>> => FieldsRead = N
    BY <2>1, <2>3, <1>2
  <2> QED
    BY <2>5, <2>6, <2>7, <1>1, <1>5 DEF all, N
<1> QED
  BY <1>3, <1>4, <1>5

(* When a field has been read, the receiver is at the next. *)
LEMMA NextField ==
  ASSUME WireTypes, ReaderInv, reader \in {"msgId", "header", "data"}, Len(got) < Len(sent),
         want # <<>>, UNCHANGED <<sent, got>>,
         want' = IF reader = "msgId" THEN Header(Reading) ELSE Tail(want),
         reader' = IF reader = "msgId" THEN "header" ELSE reader
  PROVE  ReaderInv' /\ FieldsRead' = FieldsRead + 1 /\ Reading' = Reading
<1>1. Reading \in Sendable /\ Reading' = Reading
  BY DEF WireTypes, ReaderInv, Reading
<1>2. /\ Header(Reading) \in Seq(FieldType) /\ Data(Reading) \in Seq(FieldType)
      /\ NumFields(Reading) \in Nat
  BY <1>1, Layout
<1>3. /\ got' \in Seq(Sendable) /\ Len(got') < Len(sent')
      /\ \A i \in 1..Len(got') : got'[i] = sent'[i]
  BY DEF ReaderInv
<1>4. CASE reader = "msgId"
  <2>1. reader' = "header" /\ want' = Header(Reading) /\ Len(want') \in Nat
    BY <1>2, <1>4
  <2>2. Rest(want', Header(Reading))
    <3>1. Rest(Header(Reading), Header(Reading))
      BY <1>2 DEF Rest
    <3> QED
      BY <2>1, <3>1
  <2>3. FieldsRead = 0 /\ FieldsRead' = 1
    BY <2>1, <1>1, <1>4 DEF FieldsRead
  <2> QED
    BY <2>1, <2>2, <2>3, <1>1, <1>3 DEF ReaderInv
<1>5. CASE reader = "header"
  <2>1. Rest(want, Header(Reading)) /\ reader' = "header" /\ want' = Tail(want)
    BY <1>5 DEF ReaderInv
  <2>2. Rest(want', Header(Reading)) /\ Len(want') = Len(want) - 1 /\ Len(want) \in Nat
    BY <2>1, <1>2, RestOfRest
  <2>3. FieldsRead' = FieldsRead + 1
    BY <2>1, <2>2, <1>1, <1>2, <1>5 DEF FieldsRead
  <2> QED
    BY <2>1, <2>2, <2>3, <1>1, <1>3 DEF ReaderInv
<1>6. CASE reader = "data"
  <2>1. Rest(want, Data(Reading)) /\ reader' = "data" /\ want' = Tail(want)
    BY <1>6 DEF ReaderInv
  <2>2. Rest(want', Data(Reading)) /\ Len(want') = Len(want) - 1 /\ Len(want) \in Nat
    BY <2>1, <1>2, RestOfRest
  <2>3. FieldsRead' = FieldsRead + 1
    BY <2>1, <2>2, <1>1, <1>2, <1>6 DEF FieldsRead
  <2> QED
    BY <2>1, <2>2, <2>3, <1>1, <1>3 DEF ReaderInv
<1> QED
  BY <1>4, <1>5, <1>6

(* Where the bytes that are carried, the places of the ends and what was   *)
(* sent before remain, the history does.                                   *)
LEMMA FlowKept ==
  ASSUME WireTypes, FlowInv, Carried' = Carried,
         ReaderAt' = ReaderAt, WriterAt' = WriterAt,
         sent' \in Seq(Sendable), Len(sent) =< Len(sent'),
         \A m \in 1..Len(sent) : sent'[m] = sent[m],
         \A x \in Nat : Agree(bytesRead - Len(inp), x) => Agree(bytesRead' - Len(inp'), x),
         \A x \in Nat : Agree(bytesWritten + Len(out), x) => Agree(bytesWritten' + Len(out'), x)
  PROVE  FlowInv'
<1>1. PICK lo \in Nat, hi \in Nat, c \in [Nat -> Nat], F \in [Nat -> Nat \X Nat] :
         History(lo, hi, c, F)
  BY DEF FlowInv
<1>2. \A k \in lo + 1..hi : PieceOK(k, c, F, c[lo])'
  <2> SUFFICES ASSUME NEW k \in lo + 1..hi PROVE PieceOK(k, c, F, c[lo])'
    OBVIOUS
  <2>1. PieceOK(k, c, F, c[lo])
    BY <1>1 DEF History
  <2>2. F[k][1] \in 1..Len(sent) /\ F[k][1] \in 1..Len(sent') /\ sent'[F[k][1]] = sent[F[k][1]]
    <3>1. F[k][1] \in 1..Len(sent)
      BY <2>1 DEF PieceOK
    <3>2. Len(sent) \in Nat /\ Len(sent') \in Nat
      <4>1. sent \in Seq(Sendable)
        BY DEF WireTypes
      <4> QED
        BY <4>1, LenProperties
    <3>3. \A m \in 1..Len(sent) : m \in 1..Len(sent') /\ sent'[m] = sent[m]
      BY <3>2
    <3> QED
      BY <3>1, <3>3, Zenon
  <2>3. Norm(F[k][1], F[k][2] + 1)' = Norm(F[k][1], F[k][2] + 1)
    BY <2>2 DEF Norm
  <2> QED
    BY <2>1, <2>2, <2>3 DEF PieceOK
<1>3. c[lo] \in Nat /\ c[hi] \in Nat
  OBVIOUS
<1>4. History(lo, hi, c, F)'
  BY <1>1, <1>2, <1>3 DEF History
<1> QED
  BY <1>4 DEF FlowInv

(* What is carried begins with what the receiver has of a field. *)
LEMMA CarriedParts ==
  ASSUME WireTypes
  PROVE  LET rest == pipe \o out
         IN  /\ Carried \in Seq(Mark) /\ rest \in Seq(Mark)
             /\ Carried = inp \o rest /\ <<>> \o rest = rest
             /\ Len(Carried) = Len(inp) + Len(rest)
             /\ \A i \in 1..Len(inp) : Carried[i] = inp[i]
             /\ \A i \in 1..Len(rest) : Carried[Len(inp) + i] = rest[i]
             /\ Len(inp) \in Nat /\ Len(rest) \in Nat /\ Len(out) \in Nat
<1> DEFINE rest == pipe \o out
<1>1. inp \in Seq(Mark) /\ pipe \in Seq(Mark) /\ out \in Seq(Mark)
  BY DEF WireTypes
<1>2. rest \in Seq(Mark)
  BY <1>1, ConcatAt
<1>3. Carried = inp \o rest
  BY <1>1, ConcatAssociative DEF Carried
<1> HIDE DEF rest
<1>4. <<>> \o rest = rest
  BY <1>2, ConcatEmptySeq
<1>5. /\ inp \o rest \in Seq(Mark) /\ Len(inp \o rest) = Len(inp) + Len(rest)
      /\ \A i \in 1..Len(inp) : (inp \o rest)[i] = inp[i]
      /\ \A i \in 1..Len(rest) : (inp \o rest)[Len(inp) + i] = rest[i]
  BY <1>1, <1>2, ConcatAt
<1>6. Len(inp) \in Nat /\ Len(rest) \in Nat /\ Len(out) \in Nat
  BY <1>1, <1>2
<1> QED
  BY <1>2, <1>3, <1>4, <1>5, <1>6 DEF rest

(* The field that the receiver wants is well-formed, also if its message   *)
(* has not been begun: then it is the identifier.                          *)
LEMMA WantedIsField ==
  ASSUME WireTypes, ReaderInv, reader \in {"msgId", "header", "data"}, want # <<>>
  PROVE  LET field == Head(want)
         IN  /\ field \in FieldType /\ field.width \in Nat
             /\ field.aligned => field.width \in {2, 4}
             /\ reader = "msgId" => field.width = 2
             /\ field.width = 0 => Len(got) < Len(sent) /\ ~field.aligned
             /\ Len(got) < Len(sent) =>
                   /\ Reading \in Sendable /\ FieldsRead \in Nat
                   /\ FieldsRead + 1 \in 1..NumFields(Reading)
                   /\ field = AllFields(Reading)[FieldsRead + 1]
                   /\ field.width > 0 => FieldsRead + 1 =< Count(Reading)
                   /\ field.width = 0 => /\ FieldsRead + 1 = NumFields(Reading)
                                         /\ FieldsRead + 1 > Count(Reading)
             /\ ~(Len(got) < Len(sent)) => reader = "msgId" /\ FieldsRead = 0
<1> DEFINE field == Head(want)
<1>1. CASE Len(got) < Len(sent)
  <2>1. /\ Reading \in Sendable /\ FieldsRead \in 0..NumFields(Reading)
        /\ FieldsRead + 1 \in 1..NumFields(Reading)
        /\ field = AllFields(Reading)[FieldsRead + 1]
    BY <1>1, WantedField
  <2> DEFINE i == FieldsRead + 1
             N == NumFields(Reading)
  <2>2. /\ N \in Nat /\ N >= 2 /\ Count(Reading) \in 1..N
        /\ field \in FieldType /\ field.width \in Nat /\ field.aligned \in BOOLEAN
        /\ field.aligned => field.width \in {2, 4}
        /\ i =< Count(Reading) => field.width > 0
        /\ i > Count(Reading) => field.width = 0 /\ ~field.aligned /\ i = N
    BY <2>1, FieldFacts, Layout
  <2> HIDE DEF field, N
  <2>3. i \in Nat /\ (i =< Count(Reading) \/ i > Count(Reading))
    BY <2>1, <2>2
  <2>4. reader = "msgId" => field = MsgId
    BY DEF ReaderInv, field
  <2>5. reader = "msgId" => field.width = 2
    BY <2>4 DEF MsgId, Field
  <2>6. FieldsRead \in Nat
    BY <2>1, <2>2 DEF N
  <2> QED
    BY <1>1, <2>1, <2>2, <2>3, <2>5, <2>6 DEF field, N
<1>2. CASE ~(Len(got) < Len(sent))
  <2>1. reader = "msgId" /\ FieldsRead = 0 /\ want = <<MsgId>>
    BY <1>2 DEF ReaderInv, FieldsRead
  <2>2. field = MsgId
    BY <2>1
  <2> HIDE DEF field
  <2>3. field \in FieldType /\ field.width = 2
    BY <2>2 DEF MsgId, Field, FieldType, FieldName
  <2> QED
    BY <1>2, <2>1, <2>3 DEF field
<1> QED
  BY <1>1, <1>2

(* The receiver has all the bytes of a field: they are those of the field  *)
(* that was written first of those carried, so it goes on with the next.   *)
LEMMA EndFieldKeeps ==
  ASSUME WireTypes, ReaderInv, FlowInv, EndField
  PROVE  ReaderInv' /\ FlowInv'
<1> DEFINE field == Head(want)
           w == field.width
           rest == pipe \o out
           r == FieldsRead + 1
<1>1. /\ reader \in {"msgId", "header", "data"} /\ want # <<>> /\ Len(inp) = Need /\ inp' = <<>>
      /\ UNCHANGED <<sent, fields, out, bytesWritten, pipe, bytesRead>>
      /\ IsValue(field) =>
            /\ want' = IF reader = "msgId" THEN Header(Reading) ELSE Tail(want)
            /\ reader' = IF reader = "msgId" THEN "header" ELSE reader
            /\ got' = got
  BY DEF EndField, sndVars
<1>2. PICK lo \in Nat, hi \in Nat, c \in [Nat -> Nat], F \in [Nat -> Nat \X Nat] :
         History(lo, hi, c, F)
  BY DEF FlowInv
<1>3. /\ field \in FieldType /\ w \in Nat
      /\ field.aligned => w \in {2, 4}
  BY <1>1, WantedIsField
<1>4. /\ reader = "msgId" => w = 2
      /\ w = 0 => Len(got) < Len(sent) /\ ~field.aligned
      /\ Len(got) < Len(sent) =>
            /\ Reading \in Sendable /\ FieldsRead \in Nat /\ r \in 1..NumFields(Reading)
            /\ field = AllFields(Reading)[r]
            /\ w > 0 => r =< Count(Reading)
            /\ w = 0 => r = NumFields(Reading) /\ r > Count(Reading)
      /\ ~(Len(got) < Len(sent)) => FieldsRead = 0
  BY <1>1, WantedIsField
<1>5. /\ Carried \in Seq(Mark) /\ rest \in Seq(Mark)
      /\ Carried = inp \o rest /\ <<>> \o rest = rest
      /\ Len(Carried) = Len(inp) + Len(rest)
      /\ \A i \in 1..Len(inp) : Carried[i] = inp[i]
      /\ \A i \in 1..Len(rest) : Carried[Len(inp) + i] = rest[i]
      /\ Len(inp) \in Nat /\ Len(rest) \in Nat /\ Len(out) \in Nat
  BY CarriedParts
<1>6. /\ lo =< hi /\ Len(Carried) = c[hi] - c[lo] /\ c[lo] \in Nat /\ c[hi] \in Nat
      /\ \A j, k \in lo..hi : j =< k => c[j] =< c[k]
      /\ F[lo + 1] = ReaderAt /\ F[hi + 1] = WriterAt
      /\ \A k \in lo + 1..hi : PieceOK(k, c, F, c[lo])
      /\ Agree(bytesRead - Len(inp), c[lo]) /\ Agree(bytesWritten + Len(out), c[hi])
  BY <1>2 DEF History
<1>7. /\ bytesRead \in Nat /\ bytesWritten \in Nat
      /\ inp \in Seq(Mark) /\ pipe \in Seq(Mark) /\ out \in Seq(Mark)
      /\ Len(sent) \in Nat /\ Len(got) \in Nat /\ sent \in Seq(Sendable) /\ Len(got) =< Len(sent)
  <2>1. sent \in Seq(Sendable) /\ got \in Seq(Sendable)
    BY DEF WireTypes, ReaderInv
  <2>2. Len(sent) \in Nat /\ Len(got) \in Nat
    BY <2>1, LenProperties
  <2> QED
    BY <2>1, <2>2 DEF WireTypes, ReaderInv
<1>s. bytesRead \in Nat /\ Len(inp) \in Nat /\ Len(rest) \in Nat /\ c[lo] \in Nat /\ c[hi] \in Nat
  BY <1>5, <1>6, <1>7
<1>t. c[hi] - c[lo] = Len(inp) + Len(rest)
  BY <1>5, <1>6
<1>8. /\ Len(inp) = PieceLen(field, c[lo]) /\ PadTo(c[lo], field) \in Nat
      /\ Len(inp) = PadTo(c[lo], field) + w
  <2> DEFINE m == bytesRead - Len(inp)
             n == c[lo]
  <2>1. m \in Int /\ n \in Int /\ Agree(m, n)
    BY <1>s, <1>6
  <2> HIDE DEF field, m, n
  <2>2. PadTo(m, field) = PadTo(n, field) /\ PadTo(n, field) \in Nat
    BY <2>1, <1>3, AlignedAlike
  <2> QED
    BY <2>2, <1>1 DEF Need, PieceLen, m, n, field
<1>9. IF Len(inp) = 0 THEN Carried' = Carried ELSE Carried' = rest
  <2>1. Carried' = <<>> \o rest
    <3>1. Carried' = (<<>> \o pipe) \o out
      BY <1>1 DEF Carried
    <3>2. <<>> \in Seq(Mark)
      OBVIOUS
    <3> QED
      BY <3>1, <3>2, <1>7, ConcatAssociative
  <2>2. Len(inp) = 0 => inp = <<>>
    BY <1>7
  <2> QED
    BY <2>1, <2>2, <1>5
<1>10. CASE w > 0
  <2> HIDE DEF field, rest, w
  <2>1. lo < hi
    <3>1. Len(inp) > 0
      BY <1>3, <1>8, <1>10
    <3>2. lo # hi
      BY <3>1, <1>s, <1>5, <1>6
    <3> QED
      BY <3>2, <1>6
  <2>2. lo + 1 \in lo + 1..hi /\ (lo + 1) - 1 = lo /\ lo + 1 \in Nat /\ hi \in Nat
    BY <2>1
  <2>3. /\ F[lo + 1][1] \in 1..Len(sent)
        /\ F[lo + 2] = Norm(F[lo + 1][1], F[lo + 1][2] + 1)
        /\ LET f == AllFields(sent[F[lo + 1][1]])[F[lo + 1][2]]
           IN  /\ c[lo + 1] = c[lo] + PieceLen(f, c[lo])
               /\ \A i \in 1..PieceLen(f, c[lo]) :
                     Carried[c[lo] - c[lo] + i] = PieceByte(sent[F[lo + 1][1]], f, c[lo], i)
    <3>1. PieceOK(lo + 1, c, F, c[lo])
      BY <2>2, <1>6
    <3>2. (lo + 1) + 1 = lo + 2
      OBVIOUS
    <3> QED
      BY <2>2, <3>1, <3>2 DEF PieceOK
  <2>4. Len(got) < Len(sent) /\ F[lo + 1] = <<Len(got) + 1, r>>
    <3>1. F[lo + 1] = Norm(Len(got) + 1, r)
      BY <1>6 DEF ReaderAt
    <3>2. CASE Len(got) < Len(sent)
      <4>1. ~(r > Count(sent[Len(got) + 1]))
        <5>1. r =< Count(Reading) /\ r \in Nat /\ Reading \in Sendable
          BY <3>2, <1>4, <1>10
        <5>2. Count(Reading) \in Nat
          BY <5>1, FieldFacts, Layout
        <5> QED
          BY <5>1, <5>2 DEF Reading
      <4> QED
        BY <3>1, <3>2, <4>1 DEF Norm
    <3>3. CASE ~(Len(got) < Len(sent))
      <4>1. Len(got) + 1 \notin 1..Len(sent)
        BY <3>3, <1>7
      <4>2. F[lo + 1] = <<Len(got) + 1, r>>
        BY <3>1, <4>1 DEF Norm
      <4> QED
        BY <4>1, <4>2, <2>3
    <3> QED
      BY <3>2, <3>3
  <2>5. /\ F[lo + 1][1] = Len(got) + 1 /\ F[lo + 1][2] = r
        /\ sent[F[lo + 1][1]] = Reading /\ AllFields(Reading)[r] = field
    <3>1. F[lo + 1][1] = Len(got) + 1 /\ F[lo + 1][2] = r
      BY <2>4
    <3>2. sent[F[lo + 1][1]] = Reading
      BY <3>1 DEF Reading
    <3>3. AllFields(Reading)[r] = field
      BY <2>4, <1>4
    <3> QED
      BY <3>1, <3>2, <3>3
  <2>6. /\ c[lo + 1] = c[lo] + Len(inp)
        /\ \A i \in 1..Len(inp) : inp[i] = PieceByte(Reading, field, c[lo], i)
    <3>1. /\ c[lo + 1] = c[lo] + PieceLen(field, c[lo])
          /\ \A i \in 1..PieceLen(field, c[lo]) :
                Carried[c[lo] - c[lo] + i] = PieceByte(Reading, field, c[lo], i)
      BY <2>3, <2>5
    <3>2. \A i \in 1..Len(inp) : c[lo] - c[lo] + i = i
      BY <1>5, <1>6
    <3> QED
      BY <3>1, <3>2, <1>5, <1>8
  <2>7. IsValue(field)
    <3> DEFINE pad == PadTo(c[lo], field)
               from == Len(inp) - w + 1
    <3>1. Len(inp) = pad + w /\ pad \in Nat /\ from = pad + 1
      BY <1>3, <1>8
    <3> HIDE DEF pad, from
    <3>2. \A i \in 1..w : inp[pad + i] = ByteOf(Reading, field, i)
      <4> SUFFICES ASSUME NEW i \in 1..w PROVE inp[pad + i] = ByteOf(Reading, field, i)
        OBVIOUS
      <4>1. pad + i \in 1..Len(inp) /\ ~(pad + i =< pad) /\ (pad + i) - pad = i
        BY <3>1, <1>3
      <4>2. inp[pad + i] = PieceByte(Reading, field, c[lo], pad + i)
        BY <4>1, <2>6
      <4> QED
        BY <4>1, <4>2 DEF PieceByte, pad
    <3>3. SubSeq(inp, from, Len(inp)) = [i \in 1..w |-> ByteOf(Reading, field, i)]
      <4>1. SubSeq(inp, from, Len(inp)) = [i \in 1..Len(inp) - from + 1 |-> inp[from + i - 1]]
        BY <3>1, <1>3, <1>5, <1>7
      <4>2. Len(inp) - from + 1 = w /\ \A i \in 1..w : from + i - 1 = pad + i
        BY <3>1, <1>3
      <4> QED
        BY <4>1, <4>2, <3>2
    <3> QED
      BY <2>4, <3>3 DEF IsValue, from, w
  <2>8. ReaderInv' /\ FieldsRead' = r /\ Reading' = Reading /\ got' = got
    <3>1. /\ want' = IF reader = "msgId" THEN Header(Reading) ELSE Tail(want)
          /\ reader' = IF reader = "msgId" THEN "header" ELSE reader
          /\ got' = got
      BY <2>7, <1>1 DEF field
    <3> QED
      BY <3>1, <2>4, <1>1, NextField
  <2>9. F[(lo + 1) + 1] = ReaderAt'
    <3>1. ReaderAt' = Norm(Len(got) + 1, r + 1)
      BY <2>8, <1>1 DEF ReaderAt, Norm
    <3> QED
      BY <3>1, <2>3, <2>5
  <2>10. WriterAt' = WriterAt
    BY <1>1 DEF WriterAt, Norm
  <2>11. /\ Carried' = rest /\ Len(rest) = c[hi] - c[lo + 1]
    <3>1. Len(inp) # 0
      BY <1>3, <1>8, <1>10
    <3>2. Len(rest) = c[hi] - c[lo + 1]
      <4> DEFINE x == c[lo]
                 y == c[hi]
                 l == Len(inp)
                 n == Len(rest)
      <4>1. /\ x \in Nat /\ y \in Nat /\ l \in Nat /\ n \in Nat /\ y - x = l + n
            /\ c[lo + 1] = x + l
        BY <1>s, <1>t, <2>6
      <4> HIDE DEF x, y, l, n
      <4>2. n = y - (x + l)
        BY <4>1
      <4> QED
        BY <4>1, <4>2 DEF y, n
    <3> QED
      BY <3>1, <3>2, <1>9
  <2>12. \A j, k \in lo + 1..hi : j =< k => c[j] =< c[k]
    BY <1>6
  <2>13. ASSUME NEW k \in (lo + 1) + 1..hi PROVE PieceOK(k, c, F, c[lo + 1])'
    <3> DEFINE m == sent[F[k][1]]
               f == AllFields(m)[F[k][2]]
               n == PieceLen(f, c[k - 1])
    <3>1. /\ k \in lo + 1..hi /\ k - 1 \in lo + 1..hi /\ k - 1 \in Nat /\ lo + 1 =< k - 1
          /\ k - 1 =< k /\ k =< hi /\ k \in Nat /\ lo + 1 \in Nat
          /\ k \in lo..hi /\ k - 1 \in lo..hi /\ hi \in lo..hi /\ lo + 1 \in lo + 1..hi
      OBVIOUS
    <3>2. /\ F[k][1] \in 1..Len(sent) /\ F[k][2] \in 1..Count(m)
          /\ F[k + 1] = Norm(F[k][1], F[k][2] + 1)
          /\ c[k] = c[k - 1] + n
          /\ \A i \in 1..n : Carried[c[k - 1] - c[lo] + i] = PieceByte(m, f, c[k - 1], i)
      BY <3>1, <1>6 DEF PieceOK
    <3>3. /\ c[lo + 1] =< c[k - 1] /\ c[k] =< c[hi]
          /\ c[k - 1] \in Nat /\ c[k] \in Nat /\ c[lo + 1] \in Nat
      <4>1. c[k - 1] \in Nat /\ c[k] \in Nat /\ c[lo + 1] \in Nat
        BY <3>1
      <4>2. c[lo + 1] =< c[k - 1]
        BY <3>1, <2>12
      <4>3. c[k] =< c[hi]
        BY <3>1, <1>6
      <4> QED
        BY <4>1, <4>2, <4>3
    <3> HIDE DEF n, m, f
    <3>4. ASSUME NEW i \in 1..n
          PROVE  rest[c[k - 1] - c[lo + 1] + i] = PieceByte(m, f, c[k - 1], i)
      <4> DEFINE x == c[k - 1] - c[lo + 1] + i
      <4>1. n \in Int /\ i =< n /\ i >= 1 /\ i \in Int
        <5>1. n \in Nat
          <6>1. m \in Sendable /\ F[k][2] \in 1..NumFields(m)
            <7>1. m \in Sendable
              <8>1. \A j \in 1..Len(sent) : sent[j] \in Sendable
                BY <1>7, ElementOfSeq
              <8> QED
                BY <8>1, <3>2 DEF m
            <7>2. /\ Count(m) \in 1..NumFields(m) /\ NumFields(m) \in Nat
              BY <7>1, FieldFacts, Layout
            <7>3. \A j \in 1..Count(m) : j \in 1..NumFields(m)
              BY <7>2
            <7> QED
              BY <7>1, <7>3, <3>2, Zenon
          <6> QED
            BY <6>1, <3>3, PieceIsFinite DEF f, n
        <5> QED
          BY <5>1
      <4>2. x \in 1..Len(rest) /\ Len(inp) + x = c[k - 1] - c[lo] + i
        <5>1. c[k] = c[k - 1] + n /\ Len(rest) = c[hi] - c[lo + 1] /\ c[lo + 1] = c[lo] + Len(inp)
          BY <3>2, <2>6, <2>11
        <5> DEFINE a == c[k - 1]
                   b == c[lo + 1]
                   y == c[hi]
                   z == c[lo]
                   l == Len(inp)
                   q == Len(rest)
        <5>2. /\ a \in Nat /\ b \in Nat /\ y \in Nat /\ z \in Nat /\ l \in Nat /\ q \in Nat
              /\ a + n =< y /\ b =< a /\ q = y - b /\ b = z + l
          BY <5>1, <3>3, <1>s
        <5> HIDE DEF a, b, y, z, l, q
        <5>3. a - b + i \in 1..q /\ l + (a - b + i) = a - z + i
          BY <4>1, <5>2
        <5> QED
          BY <5>3 DEF a, b, y, z, l, q
      <4> HIDE DEF x
      <4>3. Carried[Len(inp) + x] = rest[x]
        BY <4>2, <1>5
      <4>4. Carried[c[k - 1] - c[lo] + i] = PieceByte(m, f, c[k - 1], i)
        BY <3>2
      <4> QED
        BY <4>2, <4>3, <4>4 DEF x
    <3>5. Norm(F[k][1], F[k][2] + 1)' = Norm(F[k][1], F[k][2] + 1) /\ sent' = sent
      BY <1>1 DEF Norm
    <3> QED
      BY <3>2, <3>4, <3>5, <2>11 DEF PieceOK, n, m, f
  <2>14. Agree(bytesRead' - Len(inp'), c[lo + 1]) /\ Agree(bytesWritten' + Len(out'), c[hi])
    <3>1. bytesRead - Len(inp) \in Int /\ (bytesRead - Len(inp)) + Len(inp) = bytesRead
      BY <1>s
    <3>2. Agree(bytesRead, c[lo] + Len(inp))
      <4> DEFINE l == Len(inp)
                 m == bytesRead - l
                 n == c[lo]
      <4>1. m \in Int /\ n \in Int /\ l \in Int /\ m + l = bytesRead /\ Agree(m, n)
        BY <3>1, <1>s, <1>6
      <4> HIDE DEF m, n, l
      <4>2. Agree(m + l, n + l)
        BY <4>1, AgreeMoves
      <4> QED
        BY <4>1, <4>2 DEF n, l
    <3>3. Len(inp') = 0 /\ bytesRead' - 0 = bytesRead
      BY <1>1, <1>7
    <3> QED
      BY <3>2, <3>3, <2>6, <1>1, <1>6
  <2>15. History(lo + 1, hi, c, F)'
    <3>1. lo + 1 =< hi
      BY <2>1
    <3> QED
      BY <3>1, <2>9, <2>10, <2>11, <2>12, <2>13, <2>14, <1>6 DEF History
  <2> QED
    BY <2>2, <2>8, <2>15 DEF FlowInv
<1>11. CASE w = 0
  <2> HIDE DEF field, rest, w
  <2>1. Len(got) < Len(sent) /\ Len(inp) = 0 /\ inp = <<>>
    <3>1. PadTo(c[lo], field) = 0
      BY <1>4, <1>11 DEF PadTo
    <3>2. Len(inp) = 0
      BY <3>1, <1>8, <1>11 DEF PieceLen, w
    <3> QED
      BY <3>2, <1>4, <1>7, <1>11
  <2>2. IsValue(field)
    <3>1. SubSeq(inp, Len(inp) - w + 1, Len(inp)) = <<>>
      BY <2>1, <1>11
    <3>2. [i \in 1..w |-> ByteOf(Reading, field, i)] = <<>>
      BY <1>11
    <3> QED
      BY <2>1, <3>1, <3>2 DEF IsValue, w
  <2>3. ReaderInv' /\ FieldsRead' = r /\ Reading' = Reading /\ got' = got
    <3>1. /\ want' = IF reader = "msgId" THEN Header(Reading) ELSE Tail(want)
          /\ reader' = IF reader = "msgId" THEN "header" ELSE reader
          /\ got' = got
      BY <2>2, <1>1 DEF field
    <3> QED
      BY <3>1, <2>1, <1>1, NextField
  <2>4. ReaderAt' = ReaderAt
    <3>1. ReaderAt = Norm(Len(got) + 1, r) /\ ReaderAt' = Norm(Len(got) + 1, r + 1)
      BY <2>3, <1>1 DEF ReaderAt, Norm
    <3>2. Len(got) + 1 \in 1..Len(sent)
      <4>1. Len(got) \in Nat /\ Len(sent) \in Nat /\ Len(got) < Len(sent)
        BY <2>1, <1>7
      <4> DEFINE g == Len(got)
                 n == Len(sent)
      <4>2. g \in Nat /\ n \in Nat /\ g < n
        BY <4>1
      <4> HIDE DEF g, n
      <4>3. g + 1 \in 1..n
        BY <4>2
      <4> QED
        BY <4>3 DEF g, n
    <3>3. r > Count(sent[Len(got) + 1]) /\ r + 1 > Count(sent[Len(got) + 1])
      <4>1. r > Count(Reading) /\ r \in Nat /\ Reading \in Sendable
        BY <2>1, <1>4, <1>11
      <4>2. Count(Reading) \in Nat
        BY <4>1, FieldFacts, Layout
      <4> QED
        BY <4>1, <4>2 DEF Reading
    <3> QED
      BY <3>1, <3>2, <3>3 DEF Norm
  <2>5. WriterAt' = WriterAt
    BY <1>1 DEF WriterAt, Norm
  <2>6. Carried' = Carried
    BY <2>1, <1>9
  <2>7. /\ \A x \in Nat : Agree(bytesRead - Len(inp), x) => Agree(bytesRead' - Len(inp'), x)
        /\ \A x \in Nat : Agree(bytesWritten + Len(out), x) => Agree(bytesWritten' + Len(out'), x)
    BY <2>1, <1>1
  <2>8. FlowInv'
    <3>1. /\ sent' \in Seq(Sendable) /\ Len(sent) =< Len(sent')
        /\ \A m \in 1..Len(sent) : sent'[m] = sent[m]
      BY <1>1, <1>7
    <3> QED
      BY <2>4, <2>5, <2>6, <2>7, <3>1, FlowKept
  <2> QED
    BY <2>3, <2>8
<1> QED
  BY <1>3, <1>10, <1>11

(* What is written of a field: what aligns it, and its bytes. *)
LEMMA FieldBytes ==
  ASSUME NEW msg \in Sendable, NEW field \in FieldType, NEW pad \in Nat, NEW w \in Nat
  PROVE  LET bs == [i \in 1..pad |-> Padding] \o [i \in 1..w |-> ByteOf(msg, field, i)]
         IN  /\ bs \in Seq(Mark) /\ Len(bs) = pad + w
             /\ \A i \in 1..pad + w :
                   bs[i] = IF i =< pad THEN Padding ELSE ByteOf(msg, field, i - pad)
             /\ pad = 0 /\ w = 0 => bs = <<>>
<1> DEFINE s == [i \in 1..pad |-> Padding]
           t == [i \in 1..w |-> ByteOf(msg, field, i)]
           bs == s \o t
<1>1. s \in Seq(Mark) /\ Len(s) = pad /\ \A i \in 1..pad : s[i] = Padding
  <2>1. Padding \in Mark
    BY DEF Mark
  <2> QED
    BY <2>1
<1>2. t \in Seq(Mark) /\ Len(t) = w /\ \A i \in 1..w : t[i] = ByteOf(msg, field, i)
  <2>1. \A i \in 1..w : ByteOf(msg, field, i) \in Mark
    BY DEF Mark, Sendable
  <2> QED
    BY <2>1
<1> HIDE DEF s, t
<1>3. /\ bs \in Seq(Mark) /\ Len(bs) = pad + w
      /\ \A i \in 1..pad : bs[i] = s[i]
      /\ \A i \in 1..w : bs[pad + i] = t[i]
  <2>1. /\ bs \in Seq(Mark) /\ Len(bs) = Len(s) + Len(t)
        /\ \A i \in 1..Len(s) : bs[i] = s[i]
        /\ \A i \in 1..Len(t) : bs[Len(s) + i] = t[i]
    BY <1>1, <1>2, ConcatMarks
  <2>2. Len(s) = pad /\ Len(t) = w
    BY <1>1, <1>2
  <2> HIDE DEF bs
  <2> QED
    BY <2>1, <2>2
<1> HIDE DEF bs
<1>4. ASSUME NEW i \in 1..pad + w
      PROVE  bs[i] = IF i =< pad THEN Padding ELSE ByteOf(msg, field, i - pad)
  <2>1. CASE i =< pad
    BY <2>1, <1>1, <1>3
  <2>2. CASE ~(i =< pad)
    <3>1. i - pad \in 1..w /\ pad + (i - pad) = i
      BY <2>2
    <3>2. bs[pad + (i - pad)] = t[i - pad] /\ t[i - pad] = ByteOf(msg, field, i - pad)
      BY <3>1, <1>2, <1>3
    <3> QED
      BY <2>2, <3>1, <3>2
  <2> QED
    BY <2>1, <2>2
<1>5. pad = 0 /\ w = 0 => bs = <<>>
  BY <1>3
<1> QED
  BY <1>3, <1>4, <1>5 DEF bs, s, t

(* The sender is at the field that is next in the message. *)
LEMMA WrittenField ==
  ASSUME WireTypes, fields # <<>>
  PROVE  LET L == Len(sent)
             msg == sent[L]
             f == NumFields(msg) - Len(fields) + 1
         IN  /\ sent # <<>> /\ L \in 1..Len(sent) /\ msg \in Sendable
             /\ f \in 1..NumFields(msg) /\ Head(fields) = AllFields(msg)[f]
             /\ WriterAt = Norm(L, f)
             /\ Rest(Tail(fields), AllFields(msg)) /\ NumFields(msg) - Len(Tail(fields)) + 1 = f + 1
<1> DEFINE L == Len(sent)
           msg == sent[L]
           f == NumFields(msg) - Len(fields) + 1
<1>1. sent # <<>> /\ sent \in Seq(Sendable) /\ Rest(fields, AllFields(msg))
  BY DEF WireTypes
<1>2. L \in Nat \ {0}
  BY <1>1, EmptySeq
<1>3. L \in 1..Len(sent)
  BY <1>2
<1>4. msg \in Sendable
  BY <1>1, <1>3, ElementOfSeq
<1> HIDE DEF msg, L
<1>5. /\ AllFields(msg) \in Seq(FieldType) /\ NumFields(msg) \in Nat
      /\ NumFields(msg) = Len(AllFields(msg))
  BY <1>4, Layout DEF NumFields
<1>6. /\ Rest(Tail(fields), AllFields(msg)) /\ Len(Tail(fields)) = Len(fields) - 1
      /\ Len(fields) \in 1..NumFields(msg) /\ Head(fields) = AllFields(msg)[f]
  BY <1>1, <1>5, RestOfRest
<1>7. WriterAt = Norm(L, f)
  BY <1>1 DEF WriterAt, L, msg
<1> DEFINE n == NumFields(msg)
           l == Len(fields)
           k == Len(Tail(fields))
<1>8. n \in Nat /\ l \in 1..n /\ k = l - 1
  BY <1>5, <1>6
<1> HIDE DEF n, l, k
<1>9. n - l + 1 \in 1..n /\ n - k + 1 = (n - l + 1) + 1
  BY <1>8
<1> QED
  BY <1>1, <1>3, <1>4, <1>6, <1>7, <1>9 DEF n, l, k, msg, L

(* A field is added to those that are carried. *)
LEMMA BeginFieldKeeps ==
  ASSUME WireTypes, FlowInv, BeginField
  PROVE  FlowInv' /\ out' \in Seq(Mark)
<1> DEFINE L == Len(sent)
           msg == sent[L]
           N == NumFields(msg)
           f == N - Len(fields) + 1
           field == Head(fields)
           w == field.width
<1>1. /\ out = <<>> /\ fields # <<>> /\ fields' = Tail(fields)
      /\ out' = [i \in 1..PadTo(bytesWritten, field) |-> Padding]
                \o [i \in 1..w |-> ByteOf(msg, field, i)]
      /\ UNCHANGED <<sent, bytesWritten, pipe, reader, want, inp, bytesRead, got>>
  BY DEF BeginField, rcvVars
<1>2. PICK lo \in Nat, hi \in Nat, c \in [Nat -> Nat], F \in [Nat -> Nat \X Nat] :
         History(lo, hi, c, F)
  BY DEF FlowInv
<1>3. /\ L \in 1..Len(sent) /\ L = Len(sent) /\ sent[L] = msg /\ msg \in Sendable
      /\ f \in 1..N /\ field = AllFields(msg)[f]
      /\ WriterAt = Norm(L, f) /\ sent # <<>> /\ N - Len(Tail(fields)) + 1 = f + 1
  BY <1>1, WrittenField
<1>4. WriterAt' = Norm(L, f + 1)
  BY <1>1, <1>3 DEF WriterAt, Norm
<1> HIDE DEF L, msg
<1>5. /\ field \in FieldType /\ w \in Nat
      /\ field.aligned => w \in {2, 4}
      /\ f =< Count(msg) => w > 0
      /\ f > Count(msg) => w = 0 /\ ~field.aligned /\ f = N
      /\ Count(msg) \in 1..N /\ N \in Nat
  <2> HIDE DEF f, field
  <2> QED
    BY <1>3, FieldFacts, Layout DEF N, w
<1> HIDE DEF N, f, field, w, msg, L
<1>6. f \in Nat /\ Count(msg) \in Nat /\ (f =< Count(msg) \/ f > Count(msg))
  <2> DEFINE ct == Count(msg)
  <2>1. f \in 1..N /\ ct \in 1..N /\ N \in Nat
    BY <1>3, <1>5
  <2> HIDE DEF ct
  <2>2. f \in Nat /\ ct \in Nat /\ (f =< ct \/ f > ct)
    BY <2>1
  <2> QED
    BY <2>2 DEF ct
<1> DEFINE end == c[hi]
           start == c[lo]
           pad == PadTo(end, field)
           n == pad + w
<1>7. /\ lo =< hi /\ Len(Carried) = end - start /\ end \in Nat /\ start \in Nat
      /\ \A j, k \in lo..hi : j =< k => c[j] =< c[k]
      /\ F[lo + 1] = ReaderAt /\ F[hi + 1] = WriterAt
      /\ \A k \in lo + 1..hi : PieceOK(k, c, F, start)
      /\ Agree(bytesRead - Len(inp), start) /\ Agree(bytesWritten + Len(out), end)
  BY <1>2 DEF History
<1>8. /\ inp \in Seq(Mark) /\ pipe \in Seq(Mark) /\ out \in Seq(Mark) /\ bytesWritten \in Nat
      /\ sent \in Seq(Sendable)
  BY DEF WireTypes
<1> HIDE DEF end, start
<1>9. Agree(bytesWritten, end) /\ PadTo(bytesWritten, field) = pad /\ pad \in Nat
  <2>1. bytesWritten + Len(out) = bytesWritten
    BY <1>1, <1>8
  <2>2. Agree(bytesWritten, end) /\ bytesWritten \in Int /\ end \in Int
    BY <2>1, <1>7, <1>8
  <2> QED
    BY <2>2, <1>5, AlignedAlike DEF w
<1> HIDE DEF pad
<1>10. /\ out' \in Seq(Mark) /\ Len(out') = n /\ n \in Nat
       /\ \A i \in 1..n : out'[i] = IF i =< pad THEN Padding ELSE ByteOf(msg, field, i - pad)
       /\ pad = 0 /\ w = 0 => out' = <<>>
       /\ n = pad + w
  <2>1. out' = [i \in 1..pad |-> Padding] \o [i \in 1..w |-> ByteOf(msg, field, i)]
    BY <1>1, <1>9
  <2>2. n \in Nat
    BY <1>5, <1>9
  <2>3. msg \in Sendable /\ field \in FieldType /\ pad \in Nat /\ w \in Nat
    BY <1>3, <1>5, <1>9
  <2> QED
    <3> DEFINE bs == [i \in 1..pad |-> Padding] \o [i \in 1..w |-> ByteOf(msg, field, i)]
    <3>1. /\ bs \in Seq(Mark) /\ Len(bs) = pad + w
          /\ \A i \in 1..pad + w : bs[i] = IF i =< pad THEN Padding ELSE ByteOf(msg, field, i - pad)
          /\ pad = 0 /\ w = 0 => bs = <<>>
      BY <2>3, FieldBytes
    <3>2. out' = bs /\ n = pad + w
      BY <2>1 DEF n
    <3> HIDE DEF bs
    <3> QED
      BY <2>2, <3>1, <3>2
<1> HIDE DEF n
<1> DEFINE S == inp \o pipe
<1>11. S \in Seq(Mark) /\ Carried = S /\ Carried' = S \o out'
  <2>1. S \in Seq(Mark)
    BY <1>8, ConcatAt
  <2>2. Carried = S \o <<>> /\ Carried' = S \o out'
    BY <1>1 DEF Carried
  <2> QED
    BY <2>1, <2>2, ConcatEmptySeq
<1> HIDE DEF S
<1>12. /\ Len(Carried') = Len(S) + n
       /\ \A i \in 1..Len(S) : Carried'[i] = S[i]
       /\ \A i \in 1..n : Carried'[Len(S) + i] = out'[i]
  <2> DEFINE o == out'
             both == S \o o
  <2>1. /\ Len(both) = Len(S) + Len(o)
        /\ \A i \in 1..Len(S) : both[i] = S[i]
        /\ \A i \in 1..Len(o) : both[Len(S) + i] = o[i]
    <3>1. S \in Seq(Mark) /\ o \in Seq(Mark)
      BY <1>10, <1>11
    <3> HIDE DEF o
    <3> QED
      BY <3>1, ConcatMarks
  <2>2. Carried' = both /\ Len(o) = n
    BY <1>10, <1>11
  <2> HIDE DEF both
  <2> QED
    BY <2>1, <2>2
<1>13. ReaderAt' = ReaderAt
  BY <1>1 DEF ReaderAt, FieldsRead, Reading, Norm
<1>14. CASE w = 0
  <2>1. f > Count(msg) /\ ~field.aligned
    BY <1>5, <1>6, <1>14
  <2>2. pad = 0
    BY <2>1 DEF PadTo, pad
  <2>3. out' = out /\ Carried' = Carried
    <3>1. out' = <<>>
      BY <2>2, <1>10, <1>14
    <3> QED
      BY <3>1, <1>1 DEF Carried
  <2>4. WriterAt' = WriterAt
    <3>1. f + 1 > Count(msg)
      BY <2>1, <1>6
    <3> QED
      BY <2>1, <3>1, <1>3, <1>4 DEF Norm
  <2>5. /\ \A x \in Nat : Agree(bytesRead - Len(inp), x) => Agree(bytesRead' - Len(inp'), x)
        /\ \A x \in Nat : Agree(bytesWritten + Len(out), x) => Agree(bytesWritten' + Len(out'), x)
    BY <2>3, <1>1
  <2>6. /\ sent' \in Seq(Sendable) /\ Len(sent) =< Len(sent')
        /\ \A m \in 1..Len(sent) : sent'[m] = sent[m]
    BY <1>1, <1>8
  <2> QED
    BY <2>3, <2>4, <2>5, <2>6, <1>10, <1>13, FlowKept
<1>15. CASE w > 0
  <2>1. f =< Count(msg) /\ WriterAt = <<L, f>>
    <3>1. f =< Count(msg) /\ ~(f > Count(msg))
      BY <1>5, <1>6, <1>15
    <3> QED
      BY <3>1, <1>3 DEF Norm
  <2>2. WriterAt' \in Nat \X Nat
    <3>1. L \in Nat
      BY <1>3
    <3>2. WriterAt' = <<L + 1, 1>> \/ WriterAt' = <<L, f + 1>>
      BY <1>4 DEF Norm
    <3>3. L + 1 \in Nat /\ f + 1 \in Nat
      BY <3>1, <1>6
    <3>4. CASE WriterAt' = <<L + 1, 1>>
      BY <3>3, <3>4
    <3>5. CASE WriterAt' = <<L, f + 1>>
      BY <3>1, <3>3, <3>5
    <3> QED
      BY <3>2, <3>4, <3>5
  <2>c. PICK c2 \in [Nat -> Nat] :
           c2[hi + 1] = end + n /\ \A k \in Nat : k # hi + 1 => c2[k] = c[k]
    <3> DEFINE g == [c EXCEPT ![hi + 1] = end + n]
    <3>1. hi + 1 \in Nat /\ end + n \in Nat
      <4>1. end \in Nat /\ n \in Nat
        BY <1>7, <1>10
      <4> QED
        BY <4>1
    <3>2. g \in [Nat -> Nat] /\ g[hi + 1] = end + n /\ \A k \in Nat : k # hi + 1 => g[k] = c[k]
      BY <3>1
    <3> HIDE DEF g
    <3> QED
      BY <3>2
  <2>f. PICK F2 \in [Nat -> Nat \X Nat] :
           F2[hi + 2] = WriterAt' /\ \A k \in Nat : k # hi + 2 => F2[k] = F[k]
    <3> DEFINE g == [F EXCEPT ![hi + 2] = WriterAt']
    <3>1. hi + 2 \in Nat
      OBVIOUS
    <3>2. /\ g \in [Nat -> Nat \X Nat] /\ g[hi + 2] = WriterAt'
          /\ \A k \in Nat : k # hi + 2 => g[k] = F[k]
      BY <3>1, <2>2
    <3> HIDE DEF g
    <3> QED
      BY <3>2
  <2>3. /\ c2[hi + 1] = end + n /\ \A k \in Nat : k # hi + 1 => c2[k] = c[k]
        /\ F2[hi + 2] = WriterAt' /\ \A k \in Nat : k # hi + 2 => F2[k] = F[k]
    BY <2>c, <2>f
  <2>4. c2[hi] = end /\ c2[lo] = start
    <3>1. hi # hi + 1 /\ lo # hi + 1
      BY <1>7
    <3> QED
      BY <3>1, <2>3 DEF end, start
  <2>5. /\ lo =< hi + 1 /\ Len(Carried') = c2[hi + 1] - c2[lo]
        /\ F2[lo + 1] = ReaderAt' /\ F2[(hi + 1) + 1] = WriterAt'
    <3>1. lo + 1 # hi + 2 /\ lo + 1 \in Nat /\ (hi + 1) + 1 = hi + 2 /\ lo =< hi + 1
      BY <1>7
    <3>2. Len(Carried') = (end + n) - start
      BY <1>7, <1>10, <1>11, <1>12
    <3> QED
      BY <3>1, <3>2, <2>3, <2>4, <1>7, <1>13
  <2>6. ASSUME NEW j \in lo..hi + 1, NEW k \in lo..hi + 1, j =< k PROVE c2[j] =< c2[k]
    <3>1. CASE k = hi + 1
      <4>1. CASE j = hi + 1
        BY <3>1, <4>1, <2>3, <1>7, <1>10
      <4>2. CASE j # hi + 1
        <5>1. j \in lo..hi /\ j \in Nat /\ hi \in lo..hi /\ j =< hi
          BY <4>2, <1>7
        <5>2. c2[j] = c[j] /\ c[j] =< c[hi]
          BY <5>1, <4>2, <2>3, <1>7
        <5>3. c[j] \in Nat /\ c[hi] = end
          BY <5>1 DEF end
        <5> DEFINE a == c[j]
        <5>4. a \in Nat /\ a =< end
          BY <5>2, <5>3
        <5> HIDE DEF a
        <5>5. a =< end + n
          BY <5>4, <1>7, <1>10
        <5> QED
          BY <5>2, <5>5, <3>1, <2>3 DEF a
      <4> QED
        BY <4>1, <4>2
    <3>2. CASE k # hi + 1
      <4>1. j \in lo..hi /\ k \in lo..hi /\ j \in Nat /\ k \in Nat /\ j # hi + 1
        BY <3>2, <2>6
      <4> QED
        BY <4>1, <3>2, <2>3, <2>6, <1>7
    <3> QED
      BY <3>1, <3>2
  <2>7. ASSUME NEW k \in lo + 1..hi PROVE PieceOK(k, c2, F2, c2[lo])'
    <3> DEFINE m == sent[F[k][1]]
               g == AllFields(m)[F[k][2]]
               len == PieceLen(g, c[k - 1])
    <3>1. /\ k \in Nat /\ k - 1 \in Nat /\ k + 1 \in Nat /\ k # hi + 1 /\ k - 1 # hi + 1
          /\ k # hi + 2 /\ k + 1 # hi + 2
          /\ k - 1 \in lo..hi /\ k \in lo..hi /\ lo \in lo..hi /\ hi \in lo..hi
          /\ lo =< k - 1 /\ k =< hi
      OBVIOUS
    <3>2. /\ F[k][1] \in 1..Len(sent) /\ F[k][2] \in 1..Count(m)
          /\ F[k + 1] = Norm(F[k][1], F[k][2] + 1)
          /\ c[k] = c[k - 1] + len
          /\ \A i \in 1..len : Carried[c[k - 1] - start + i] = PieceByte(m, g, c[k - 1], i)
      BY <1>7 DEF PieceOK
    <3>3. c2[k] = c[k] /\ c2[k - 1] = c[k - 1] /\ F2[k] = F[k] /\ F2[k + 1] = F[k + 1]
      BY <3>1, <2>3
    <3>4. len \in Nat
      <4>1. m \in Sendable
        <5>1. \A j \in 1..Len(sent) : sent[j] \in Sendable
          BY <1>8, ElementOfSeq
        <5> QED
          BY <5>1, <3>2
      <4> HIDE DEF m
      <4>2. Count(m) \in 1..NumFields(m) /\ NumFields(m) \in Nat
        BY <4>1, FieldFacts, Layout
      <4>3. \A j \in 1..Count(m) : j \in 1..NumFields(m)
        BY <4>2
      <4>4. F[k][2] \in 1..NumFields(m)
        BY <3>2, <4>3, Zenon
      <4>5. c[k - 1] \in Nat
        BY <3>1
      <4> QED
        BY <4>1, <4>4, <4>5, PieceIsFinite
    <3> HIDE DEF m, g, len
    <3>5. ASSUME NEW i \in 1..len
          PROVE  Carried'[c[k - 1] - start + i] = PieceByte(m, g, c[k - 1], i)
      <4> DEFINE a == c[k - 1]
                 b == c[k]
                 l == Len(S)
                 x == a - start + i
      <4>1. start =< a /\ b =< end
        BY <3>1, <1>7 DEF start, end
      <4>2. a \in Nat /\ b \in Nat /\ l = end - start /\ b = a + len
        BY <3>1, <3>2, <1>7, <1>11
      <4> HIDE DEF a, b, l
      <4>3. x \in 1..l
        BY <4>1, <4>2, <3>4, <1>7
      <4> HIDE DEF x
      <4>4. Carried'[x] = S[x] /\ Carried[x] = S[x]
        BY <4>3, <1>11, <1>12 DEF l
      <4>5. Carried[x] = PieceByte(m, g, a, i)
        BY <3>2 DEF x, a
      <4> QED
        BY <4>4, <4>5 DEF x, a
    <3>6. Norm(F[k][1], F[k][2] + 1)' = Norm(F[k][1], F[k][2] + 1) /\ sent' = sent
      BY <1>1 DEF Norm
    <3> QED
      BY <3>2, <3>3, <3>5, <3>6, <2>4 DEF PieceOK, m, g, len
  <2>8. PieceOK(hi + 1, c2, F2, c2[lo])'
    <3> DEFINE k == hi + 1
    <3>1. k \in Nat /\ k # hi + 2 /\ k - 1 = hi /\ k + 1 = hi + 2 /\ k - 1 # hi + 1
      OBVIOUS
    <3>2. F2[k] = <<L, f>> /\ c2[k] = end + n /\ c2[k - 1] = end /\ F2[k + 1] = WriterAt'
      BY <3>1, <2>1, <2>3, <2>4, <1>7
    <3>3. F2[k][1] = L /\ F2[k][2] = f
      BY <3>2
    <3>4. /\ L \in 1..Len(sent') /\ f \in 1..Count(sent'[L])
          /\ AllFields(sent'[L])[f] = field /\ sent'[L] = msg
      BY <2>1, <1>1, <1>3, <1>6
    <3>5. F2[k + 1] = Norm(F2[k][1], F2[k][2] + 1)'
      <4>1. Norm(F2[k][1], F2[k][2] + 1)' = Norm(F2[k][1], F2[k][2] + 1)
        BY <1>1 DEF Norm
      <4> QED
        BY <4>1, <3>2, <3>3, <1>4
    <3>6. PieceLen(field, end) = n
      BY DEF PieceLen, pad, w, n
    <3>7. ASSUME NEW i \in 1..n PROVE Carried'[end - start + i] = PieceByte(msg, field, end, i)
      <4>1. Len(S) = end - start
        BY <1>7, <1>11
      <4>2. Carried'[Len(S) + i] = out'[i]
        BY <1>12
      <4>3. out'[i] = PieceByte(msg, field, end, i)
        BY <1>10 DEF PieceByte, pad, n
      <4> QED
        BY <4>1, <4>2, <4>3
    <3> HIDE DEF k
    <3>8. c2[lo] = start
      BY <2>4
    <3>9. PieceOK(k, c2, F2, c2[lo])'
      BY <3>2, <3>3, <3>4, <3>5, <3>6, <3>7, <3>8 DEF PieceOK
    <3> QED
      BY <3>9 DEF k
  <2>9. \A k \in lo + 1..hi + 1 : PieceOK(k, c2, F2, c2[lo])'
    <3> SUFFICES ASSUME NEW k \in lo + 1..hi + 1 PROVE PieceOK(k, c2, F2, c2[lo])'
      OBVIOUS
    <3>1. k \in lo + 1..hi \/ k = hi + 1
      OBVIOUS
    <3> QED
      BY <3>1, <2>7, <2>8
  <2>10. Agree(bytesRead' - Len(inp'), c2[lo]) /\ Agree(bytesWritten' + Len(out'), c2[hi + 1])
    <3>1. Agree(bytesRead' - Len(inp'), c2[lo])
      BY <2>4, <1>1, <1>7
    <3>2. Agree(bytesWritten + n, end + n)
      <4>1. bytesWritten \in Int /\ end \in Int /\ n \in Int
        BY <1>7, <1>8, <1>10
      <4> QED
        BY <4>1, <1>9, AgreeMoves
    <3> QED
      BY <3>1, <3>2, <2>3, <1>1, <1>10
  <2>11. History(lo, hi + 1, c2, F2)'
    BY <2>5, <2>6, <2>9, <2>10 DEF History
  <2>12. hi + 1 \in Nat
    OBVIOUS
  <2> QED
    BY <2>3, <2>11, <2>12, <1>10 DEF FlowInv
<1> QED
  BY <1>5, <1>14, <1>15

(* A new message has nothing written of it: the writer is where it was. *)
LEMMA BeginMessageKeeps ==
  ASSUME WireTypes, ReaderInv, FlowInv, reader # "ended", NEW new \in unsent, BeginMessage(new)
  PROVE  /\ sent' \in Seq(Sendable) /\ sent' # <<>> /\ Rest(fields', AllFields(sent'[Len(sent')]))
         /\ ReaderInv' /\ FlowInv'
<1> DEFINE L == Len(sent)
           all == AllFields(new)
<1>1. /\ fields = <<>> /\ sent' = Append(sent, new) /\ fields' = all
      /\ UNCHANGED <<out, bytesWritten, pipe, reader, want, inp, bytesRead, got>>
  BY DEF BeginMessage, rcvVars, AllFields
<1>2. /\ sent \in Seq(Sendable) /\ new \in Sendable /\ got \in Seq(Sendable)
  BY DEF WireTypes, ReaderInv
<1>3. /\ sent' \in Seq(Sendable) /\ sent' # <<>> /\ Len(sent') = L + 1 /\ L \in Nat
      /\ \A m \in 1..L : sent'[m] = sent[m]
      /\ sent'[L + 1] = new
  BY <1>1, <1>2, AppendProperties
<1>4. /\ all \in Seq(FieldType) /\ NumFields(new) \in Nat /\ NumFields(new) >= 2
      /\ Len(all) = NumFields(new)
  BY <1>2, Layout DEF NumFields
<1> DEFINE N == NumFields(new)
<1> HIDE DEF all, N
<1>5. Rest(all, all)
  BY <1>4 DEF Rest
<1>6. Rest(fields', AllFields(sent'[Len(sent')]))
  BY <1>1, <1>3, <1>5 DEF all
<1> DEFINE g == Len(got)
<1>7. g \in Nat /\ g =< L /\ L \in Nat
  BY <1>2, <1>3 DEF ReaderInv
<1>8. \A m \in 1..L : Norm(m, 1) = <<m, 1>>
  <2> SUFFICES ASSUME NEW m \in 1..L PROVE Norm(m, 1) = <<m, 1>>
    OBVIOUS
  <2>1. sent[m] \in Sendable
    BY <1>2, ElementOfSeq
  <2> DEFINE ct == Count(sent[m])
             n == NumFields(sent[m])
  <2>2. ct \in 1..n /\ n \in Nat
    BY <2>1, FieldFacts, Layout
  <2> HIDE DEF ct, n
  <2>3. ~(1 > ct)
    BY <2>2
  <2> QED
    BY <2>3 DEF Norm, ct
<1>n. ~(1 > Count(new))
  <2> DEFINE ct == Count(new)
  <2>1. ct \in 1..N /\ N \in Nat
    BY <1>2, <1>4, FieldFacts DEF N
  <2> HIDE DEF ct
  <2>2. ~(1 > ct)
    BY <2>1
  <2> QED
    BY <2>2 DEF ct
<1>m. \A l \in Nat : l = L + 1 => Norm(l, 1)' = <<l, 1>>
  BY <1>3, <1>n DEF Norm
<1>9. WriterAt = <<L + 1, 1>> /\ WriterAt' = <<L + 1, 1>>
  <2>1. \A l \in Nat : l = L + 1 => WriterAt' = Norm(l, 1)'
    <3> SUFFICES ASSUME NEW l \in Nat, l = L + 1 PROVE WriterAt' = Norm(l, 1)'
      OBVIOUS
    <3>1. N - Len(all) + 1 = 1
      BY <1>4 DEF N
    <3>2. WriterAt' = Norm(Len(sent), NumFields(sent[Len(sent)]) - Len(fields) + 1)'
      BY <1>3 DEF WriterAt
    <3>3. Len(sent') = l /\ NumFields(sent'[Len(sent')]) - Len(fields') + 1 = 1
      BY <3>1, <1>1, <1>3 DEF N
    <3> QED
      BY <3>2, <3>3 DEF Norm
  <2>3. WriterAt' = <<L + 1, 1>>
    <3>1. L + 1 \in Nat
      BY <1>3
    <3> QED
      BY <2>1, <1>m, <3>1
  <2>4. CASE sent = <<>>
    <3>1. L = 0
      BY <2>4
    <3> QED
      BY <2>3, <2>4, <3>1 DEF WriterAt
  <2>5. CASE sent # <<>>
    <3> DEFINE msg == sent[L]
               n == NumFields(msg)
               ct == Count(msg)
    <3>1. L \in 1..L /\ msg \in Sendable
      <4>1. L \in Nat \ {0}
        BY <2>5, <1>2, EmptySeq
      <4>2. L \in 1..L
        BY <4>1
      <4> QED
        BY <4>2, <1>2, ElementOfSeq
    <3>2. WriterAt = Norm(L, n - 0 + 1)
      <4>1. Len(fields) = 0
        BY <1>1
      <4> QED
        BY <2>5, <4>1 DEF WriterAt
    <3>3. n \in Nat /\ ct \in 1..n
      BY <3>1, FieldFacts, Layout
    <3> HIDE DEF n, ct
    <3>4. n - 0 + 1 > ct
      BY <3>3
    <3> QED
      BY <2>3, <3>1, <3>2, <3>4 DEF Norm, ct
  <2> QED
    BY <2>4, <2>5
<1>10. /\ g < L => Reading' = Reading /\ g + 1 \in 1..L /\ g + 1 \in 1..L + 1
       /\ ~(g < L) => reader = "msgId" /\ g = L
  <2>1. CASE g < L
    <3>1. g + 1 \in 1..L /\ g + 1 \in 1..L + 1
      BY <2>1, <1>7
    <3> QED
      BY <2>1, <3>1, <1>1, <1>3 DEF Reading
  <2>2. CASE ~(g < L)
    BY <2>2, <1>7 DEF ReaderInv
  <2> QED
    BY <2>1, <2>2
<1>11. ReaderAt' = ReaderAt
  <2>1. CASE g < L
    <3>1. FieldsRead' = FieldsRead
      BY <2>1, <1>1, <1>10 DEF FieldsRead
    <3>2. ReaderAt' = Norm(g + 1, FieldsRead + 1)'
      BY <1>1 DEF ReaderAt
    <3> QED
      BY <2>1, <3>1, <3>2, <1>1, <1>3, <1>10 DEF Norm, ReaderAt
  <2>2. CASE ~(g < L)
    <3>1. reader = "msgId" /\ g = L /\ FieldsRead = 0 /\ FieldsRead' = 0
      BY <2>2, <1>1, <1>10 DEF FieldsRead
    <3>2. ReaderAt = Norm(L + 1, 1)
      BY <3>1 DEF ReaderAt
    <3>3. L + 1 \notin 1..L /\ L + 1 \in Nat
      BY <1>7
    <3>4. ReaderAt = <<L + 1, 1>>
      BY <3>2, <3>3 DEF Norm
    <3>5. \A l \in Nat : l = L + 1 => ReaderAt' = Norm(l, 1)'
      <4> SUFFICES ASSUME NEW l \in Nat, l = L + 1 PROVE ReaderAt' = Norm(l, 1)'
        OBVIOUS
      <4>1. ReaderAt' = Norm(Len(got) + 1, FieldsRead + 1)'
        BY DEF ReaderAt
      <4>2. Len(got') + 1 = l /\ FieldsRead' + 1 = 1
        BY <3>1, <1>1
      <4> QED
        BY <4>1, <4>2 DEF Norm
    <3> QED
      BY <3>3, <3>4, <3>5, <1>m
  <2> QED
    BY <2>1, <2>2
<1>12. ReaderInv'
  <2>1. Len(got') =< Len(sent') /\ \A i \in 1..Len(got') : got'[i] = sent'[i]
    <3>1. \A i \in 1..g : i \in 1..L
      BY <1>7
    <3>2. g =< L + 1
      BY <1>7
    <3> QED
      BY <3>1, <3>2, <1>1, <1>3 DEF ReaderInv
  <2>2. g < L => Len(got') < Len(sent') /\ Reading' = Reading
    BY <1>1, <1>3, <1>7, <1>10
  <2> QED
    BY <2>1, <2>2, <1>1, <1>2 DEF ReaderInv
<1>13. FlowInv'
  <2>1. Carried' = Carried
    BY <1>1 DEF Carried
  <2>2. L =< Len(sent')
    BY <1>3
  <2> QED
    BY <2>1, <2>2, <1>1, <1>3, <1>9, <1>11, FlowKept
<1> QED
  BY <1>3, <1>6, <1>12, <1>13

(* A message that is begun has all its fields before it. *)
LEMMA BeginMessageTypes ==
  ASSUME WireTypes, NEW new \in unsent, BeginMessage(new)
  PROVE  WireTypes'
<1>1. /\ sent' = Append(sent, new) /\ fields' = AllFields(new) /\ unsent' \subseteq unsent
      /\ UNCHANGED <<out, bytesWritten, pipe, inp, bytesRead>>
  BY DEF BeginMessage, rcvVars, AllFields
<1>2. sent \in Seq(Sendable) /\ new \in Sendable
  BY DEF WireTypes
<1>3. sent' \in Seq(Sendable) /\ sent' # <<>> /\ sent'[Len(sent')] = new
  BY <1>1, <1>2, AppendProperties
<1>4. Rest(AllFields(new), AllFields(new))
  BY <1>2, Layout DEF Rest
<1> QED
  BY <1>1, <1>3, <1>4 DEF WireTypes

(* The bytes of a field, with what aligns it, are written next. *)
LEMMA BeginFieldTypes ==
  ASSUME WireTypes, BeginField
  PROVE  WireTypes'
<1> DEFINE L == Len(sent)
           msg == sent[L]
           field == Head(fields)
           pad == PadTo(bytesWritten, field)
           f == NumFields(msg) - Len(fields) + 1
<1>1. /\ fields # <<>> /\ fields' = Tail(fields)
      /\ out' = [i \in 1..pad |-> Padding] \o [i \in 1..field.width |-> ByteOf(msg, field, i)]
      /\ UNCHANGED <<unsent, sent, bytesWritten, pipe, inp, bytesRead>>
  BY DEF BeginField, rcvVars
<1>2. /\ sent # <<>> /\ msg \in Sendable /\ Rest(Tail(fields), AllFields(msg))
      /\ f \in 1..NumFields(msg) /\ field = AllFields(msg)[f] /\ bytesWritten \in Nat
  BY <1>1, WrittenField DEF WireTypes
<1>3. pad \in Nat /\ field.width \in Nat /\ field \in FieldType
  <2> HIDE DEF msg, field, f
  <2>1. PadTo(bytesWritten, AllFields(msg)[f]) \in Nat /\ AllFields(msg)[f].width \in Nat
    BY <1>2, PieceIsFinite
  <2>2. AllFields(msg)[f] \in FieldType
    BY <1>2, FieldFacts
  <2> QED
    BY <2>1, <2>2, <1>2
<1>4. out' \in Seq(Mark)
  <2> HIDE DEF msg, field, pad
  <2>1. \A m \in Sendable, g \in FieldType, p \in Nat, w \in Nat :
           [i \in 1..p |-> Padding] \o [i \in 1..w |-> ByteOf(m, g, i)] \in Seq(Mark)
    BY FieldBytes
  <2> QED
    BY <2>1, <1>1, <1>2, <1>3
<1> QED
  BY <1>1, <1>2, <1>4 DEF WireTypes

(* What read() or write() takes from one list and appends to another.      *)
LEMMA SomeBytes ==
  ASSUME NEW s \in Seq(Mark), NEW t \in Seq(Mark), NEW n \in Nat, n =< Len(t), NEW u \in Nat
  PROVE  LET front == SubSeq(t, 1, n)
             back == SubSeq(t, n + 1, Len(t))
         IN  /\ s \o front \in Seq(Mark) /\ back \in Seq(Mark)
             /\ Len(s \o front) = Len(s) + n /\ Len(back) = Len(t) - n
             /\ (s \o front) \o back = s \o t
             /\ (u + n) % CounterLimit \in Nat
             /\ Agree(((u + n) % CounterLimit) - (Len(s) + n), u - Len(s))
             /\ Agree(((u + n) % CounterLimit) + (Len(t) - n), u + Len(t))
<1> DEFINE front == SubSeq(t, 1, n)
           back == SubSeq(t, n + 1, Len(t))
           v == (u + n) % CounterLimit
           l == Len(s)
           m == Len(t)
<1>1. n \in 0..Len(t) /\ l \in Nat /\ m \in Nat
  OBVIOUS
<1>2. /\ front \in Seq(Mark) /\ back \in Seq(Mark) /\ Len(front) = n /\ Len(back) = m - n
      /\ (s \o front) \o back = s \o t
  BY <1>1, BytesMove
<1>3. v \in Nat /\ Agree(v, u + n)
  <2>1. u + n \in Nat
    OBVIOUS
  <2> QED
    BY <2>1, CounterWraps
<1>i. v \in Int /\ u + n \in Int /\ l + n \in Int /\ m - n \in Int
  BY <1>1, <1>3
<1> HIDE DEF front, back, v, l, m
<1>4. s \o front \in Seq(Mark) /\ Len(s \o front) = l + n
  BY <1>2, ConcatMarks DEF l
<1>5. Agree(v - (l + n), u - l)
  <2>1. Agree(v - (l + n), (u + n) - (l + n))
    BY <1>i, <1>3, AgreeMoves
  <2>2. (u + n) - (l + n) = u - l
    BY <1>1
  <2> QED
    BY <2>1, <2>2
<1>6. Agree(v + (m - n), u + m)
  <2>1. Agree(v + (m - n), (u + n) + (m - n))
    BY <1>i, <1>3, AgreeMoves
  <2>2. (u + n) + (m - n) = u + m
    BY <1>1
  <2> QED
    BY <2>1, <2>2
<1> QED
  BY <1>2, <1>3, <1>4, <1>5, <1>6 DEF front, back, v, l, m

(* Bytes go from the sender to the connection. *)
LEMMA WriteSomeKeeps ==
  ASSUME WireTypes, NEW n \in Nat, WriteSome(n)
  PROVE  /\ WireTypes' /\ Carried' = Carried
         /\ \A x \in Nat : Agree(bytesWritten + Len(out), x) => Agree(bytesWritten' + Len(out'), x)
<1>1. /\ n =< Len(out) /\ pipe' = pipe \o SubSeq(out, 1, n) /\ out' = SubSeq(out, n + 1, Len(out))
      /\ bytesWritten' = (bytesWritten + n) % CounterLimit
      /\ UNCHANGED <<unsent, sent, fields, inp, bytesRead>>
  BY DEF WriteSome, rcvVars
<1>2. inp \in Seq(Mark) /\ pipe \in Seq(Mark) /\ out \in Seq(Mark) /\ bytesWritten \in Nat
  BY DEF WireTypes
<1>3. /\ pipe' \in Seq(Mark) /\ out' \in Seq(Mark) /\ Len(out') = Len(out) - n
      /\ pipe' \o out' = pipe \o out /\ bytesWritten' \in Nat
      /\ Agree(bytesWritten' + (Len(out) - n), bytesWritten + Len(out))
  BY <1>1, <1>2, SomeBytes
<1>4. Carried' = Carried
  <2>1. Carried = inp \o (pipe \o out)
    BY <1>2, ConcatAssociative DEF Carried
  <2>2. (inp \o pipe') \o out' = inp \o (pipe' \o out')
    <3> DEFINE p == pipe'
               o == out'
    <3>1. inp \in Seq(Mark) /\ p \in Seq(Mark) /\ o \in Seq(Mark)
      BY <1>2, <1>3
    <3> HIDE DEF p, o
    <3>2. (inp \o p) \o o = inp \o (p \o o)
      BY <3>1, ConcatAssociative
    <3> QED
      BY <3>2 DEF p, o
  <2>3. Carried' = (inp \o pipe') \o out'
    BY <1>1 DEF Carried
  <2> QED
    BY <2>1, <2>2, <2>3, <1>3
<1>5. ASSUME NEW x \in Nat, Agree(bytesWritten + Len(out), x)
      PROVE  Agree(bytesWritten' + Len(out'), x)
  <2> DEFINE a == bytesWritten' + (Len(out) - n)
             b == bytesWritten + Len(out)
  <2>1. a \in Int /\ b \in Int /\ Agree(a, b) /\ Agree(b, x) /\ bytesWritten' + Len(out') = a
    BY <1>2, <1>3, <1>5
  <2> HIDE DEF a, b
  <2>2. Agree(a, x)
    BY <2>1, AgreeMoves
  <2> QED
    BY <2>1, <2>2
<1> QED
  BY <1>1, <1>3, <1>4, <1>5 DEF WireTypes

(* Bytes go from the connection to the receiver. *)
LEMMA ReadSomeKeeps ==
  ASSUME WireTypes, NEW n \in Nat, ReadSome(n)
  PROVE  /\ WireTypes' /\ Carried' = Carried
         /\ \A x \in Nat : Agree(bytesRead - Len(inp), x) => Agree(bytesRead' - Len(inp'), x)
<1>1. /\ n =< Len(pipe) /\ inp' = inp \o SubSeq(pipe, 1, n)
      /\ pipe' = SubSeq(pipe, n + 1, Len(pipe))
      /\ bytesRead' = (bytesRead + n) % CounterLimit
      /\ UNCHANGED <<unsent, sent, fields, out, bytesWritten>>
  BY DEF ReadSome, sndVars
<1>2. inp \in Seq(Mark) /\ pipe \in Seq(Mark) /\ bytesRead \in Nat
  BY DEF WireTypes
<1>3. /\ inp' \in Seq(Mark) /\ pipe' \in Seq(Mark) /\ Len(inp') = Len(inp) + n
      /\ inp' \o pipe' = inp \o pipe /\ bytesRead' \in Nat
      /\ Agree(bytesRead' - (Len(inp) + n), bytesRead - Len(inp))
  BY <1>1, <1>2, SomeBytes
<1>4. Carried' = Carried
  BY <1>1, <1>3 DEF Carried
<1>5. ASSUME NEW x \in Nat, Agree(bytesRead - Len(inp), x)
      PROVE  Agree(bytesRead' - Len(inp'), x)
  <2> DEFINE a == bytesRead' - (Len(inp) + n)
             b == bytesRead - Len(inp)
  <2>1. a \in Int /\ b \in Int /\ Agree(a, b) /\ Agree(b, x) /\ bytesRead' - Len(inp') = a
    BY <1>2, <1>3, <1>5
  <2> HIDE DEF a, b
  <2>2. Agree(a, x)
    BY <2>1, AgreeMoves
  <2> QED
    BY <2>1, <2>2
<1> QED
  BY <1>1, <1>3, <1>4, <1>5 DEF WireTypes

(* Every step keeps the types of what is sent and carried. *)
LEMMA WireTypesKept ==
  ASSUME WireTypes, WireNext
  PROVE  WireTypes'
<1>1. ASSUME NEW new \in unsent, BeginMessage(new) PROVE WireTypes'
  BY <1>1, BeginMessageTypes
<1>2. CASE BeginField
  BY <1>2, BeginFieldTypes
<1>3. ASSUME NEW n \in 1..SocketBuffer, WriteSome(n) PROVE WireTypes'
  <2>1. n \in Nat
    BY WireAssumption
  <2> QED
    BY <2>1, <1>3, WriteSomeKeeps
<1>4. ASSUME NEW n \in 1..SocketBuffer, ReadSome(n) PROVE WireTypes'
  <2>1. n \in Nat
    BY WireAssumption
  <2> QED
    BY <2>1, <1>4, ReadSomeKeeps
<1>5. ASSUME inp' = inp \/ inp' = <<>>,
             UNCHANGED <<unsent, sent, fields, out, bytesWritten, pipe, bytesRead>>
      PROVE  WireTypes'
  <2>1. inp' \in Seq(Mark)
    <3>1. inp \in Seq(Mark) /\ <<>> \in Seq(Mark)
      BY DEF WireTypes
    <3> QED
      BY <1>5, <3>1
  <2>2. Rest(fields, AllFields(sent[Len(sent)]))' <=> Rest(fields, AllFields(sent[Len(sent)]))
    BY <1>5
  <2> QED
    BY <1>5, <2>1, <2>2 DEF WireTypes
<1>6. CASE EndField
  BY <1>5, <1>6 DEF EndField, sndVars
<1>7. CASE HandleMessage
  BY <1>5, <1>7 DEF HandleMessage, sndVars
<1>8. CASE HereIs
  BY <1>5, <1>8 DEF HereIs, sndVars
<1>9. CASE EndData
  BY <1>5, <1>9 DEF EndData, sndVars
<1>10. CASE Eof
  BY <1>5, <1>10 DEF Eof, sndVars
<1>11. CASE ShutdownConn
  BY <1>5, <1>11 DEF ShutdownConn, sndVars, rcvVars
<1>12. ASSUME NEW msg \in Messages, McastSaves(msg) PROVE WireTypes'
  BY <1>5, <1>12 DEF McastSaves, sndVars, rcvVars
<1> QED
  BY <1>1, <1>2, <1>3, <1>4, <1>6, <1>7, <1>8, <1>9, <1>10, <1>11, <1>12
     DEF WireNext, WriteStep, ReadStep

(* The first field of a message is never empty. *)
LEMMA FirstField ==
  ASSUME sent \in Seq(Sendable), NEW m \in Nat
  PROVE  Norm(m, 1) = <<m, 1>>
<1>1. CASE m \in 1..Len(sent)
  <2> DEFINE ct == Count(sent[m])
             n == NumFields(sent[m])
  <2>1. sent[m] \in Sendable
    BY <1>1, ElementOfSeq
  <2>2. ct \in 1..n /\ n \in Nat
    BY <2>1, FieldFacts, Layout
  <2> HIDE DEF ct, n
  <2>3. ~(1 > ct)
    BY <2>2
  <2> QED
    BY <2>3 DEF Norm, ct
<1>2. CASE m \notin 1..Len(sent)
  BY <1>2 DEF Norm
<1> QED
  BY <1>1, <1>2

(* The message that was read is added to those received. *)
LEMMA NextMessageReads ==
  ASSUME WireTypes, ReaderInv, Len(got) < Len(sent), NextMessage, UNCHANGED sent
  PROVE  /\ ReaderInv' /\ reader' = "msgId" /\ want' = <<MsgId>>
         /\ Len(got') = Len(got) + 1
<1> DEFINE g == Len(got)
           L == Len(sent)
<1>1. got \in Seq(Sendable) /\ sent \in Seq(Sendable) /\ g \in Nat /\ L \in Nat
  BY DEF WireTypes, ReaderInv
<1>2. g + 1 \in 1..L /\ Reading = sent[g + 1] /\ Reading \in Sendable
  <2>1. g + 1 \in 1..L
    BY <1>1
  <2> QED
    BY <1>1, <2>1, ElementOfSeq DEF Reading
<1>3. /\ reader' = "msgId" /\ want' = <<MsgId>> /\ got' = Append(got, Reading)
  BY DEF NextMessage
<1>4. /\ got' \in Seq(Sendable) /\ Len(got') = g + 1 /\ got'[g + 1] = Reading
      /\ \A i \in 1..g : got'[i] = got[i]
  BY <1>1, <1>2, <1>3, AppendProperties
<1>5. \A i \in 1..g + 1 : got'[i] = sent[i]
  <2> SUFFICES ASSUME NEW i \in 1..g + 1 PROVE got'[i] = sent[i]
    OBVIOUS
  <2>1. i \in 1..g \/ i = g + 1
    BY <1>1
  <2>2. \A j \in 1..g : got[j] = sent[j]
    BY DEF ReaderInv
  <2> QED
    BY <2>1, <2>2, <1>2, <1>4
<1>6. Len(got') =< Len(sent')
  BY <1>1, <1>4
<1> QED
  BY <1>3, <1>4, <1>5, <1>6 DEF ReaderInv

(* All of a message was read: the next field is the first of the next one. *)
LEMMA NextMessageKeeps ==
  ASSUME WireTypes, ReaderInv, FlowInv, reader \in {"header", "data"}, want = <<>>,
         FieldsRead = NumFields(Reading), NextMessage,
         UNCHANGED <<sent, fields, out, bytesWritten, pipe, inp, bytesRead>>
  PROVE  ReaderInv' /\ FlowInv'
<1> DEFINE g == Len(got)
           N == NumFields(Reading)
           ct == Count(Reading)
<1>1. g < Len(sent)
  BY DEF ReaderInv
<1>2. ReaderInv' /\ reader' = "msgId" /\ Len(got') = g + 1
  BY <1>1, NextMessageReads
<1>3. /\ got \in Seq(Sendable) /\ sent \in Seq(Sendable) /\ sent' = sent
      /\ g \in Nat /\ g + 1 \in 1..Len(sent) /\ g + 2 \in Nat /\ Len(got') + 1 = g + 2
  <2>1. got \in Seq(Sendable) /\ sent \in Seq(Sendable) /\ sent' = sent
    BY DEF WireTypes, ReaderInv
  <2>2. g \in Nat /\ Len(sent) \in Nat
    BY <2>1
  <2> QED
    BY <2>1, <2>2, <1>1, <1>2
<1>4. ReaderAt = <<g + 2, 1>>
  <2>1. N \in Nat /\ ct \in 1..N
    <3>1. Reading \in Sendable
      BY <1>1, WantedField
    <3> QED
      BY <3>1, FieldFacts, Layout
  <2>2. ReaderAt = Norm(g + 1, N + 1)
    BY DEF ReaderAt
  <2> HIDE DEF N, ct
  <2>3. N + 1 > ct /\ (g + 1) + 1 = g + 2
    BY <2>1, <1>3
  <2>4. ReaderAt = <<(g + 1) + 1, 1>>
    BY <2>2, <2>3, <1>3 DEF Norm, Reading, ct
  <2> QED
    BY <2>3, <2>4
<1>5. ReaderAt' = <<g + 2, 1>>
  <2>1. FieldsRead' = 0
    BY <1>2 DEF FieldsRead
  <2>2. ReaderAt' = Norm(Len(got) + 1, FieldsRead + 1)'
    BY DEF ReaderAt
  <2>3. \A m, f \in Nat : Norm(m, f)' = Norm(m, f)
    BY <1>3 DEF Norm
  <2>4. Norm(g + 2, 1) = <<g + 2, 1>>
    BY <1>3, FirstField
  <2>5. ReaderAt' = Norm(g + 2, 1)
    BY <2>1, <2>2, <1>3 DEF Norm
  <2> QED
    BY <2>4, <2>5
<1>6. FlowInv'
  <2>1. Carried' = Carried /\ WriterAt' = WriterAt
    BY DEF Carried, WriterAt, Norm
  <2>2. Len(sent) =< Len(sent')
    BY <1>3
  <2> QED
    BY <2>1, <2>2, <1>3, <1>4, <1>5, FlowKept
<1> QED
  BY <1>2, <1>6

(* A segment that the repository does not have: its data is read next. *)
LEMMA DataIsNext ==
  ASSUME WireTypes, ReaderInv, FlowInv, HereIs, Reading.num \notin have
  PROVE  ReaderInv' /\ FlowInv' /\ reader' = "data"
<1> DEFINE g == Len(got)
           N == NumFields(Reading)
           data == Data(Reading)
<1>1. /\ reader = "header" /\ want = <<>> /\ data # <<>>
      /\ reader' = "data" /\ want' = data
      /\ UNCHANGED <<sent, fields, out, bytesWritten, pipe, inp, bytesRead, got>>
  BY DEF HereIs, sndVars
<1>2. g < Len(sent) /\ got \in Seq(Sendable) /\ sent \in Seq(Sendable) /\ Reading' = Reading
  BY <1>1 DEF ReaderInv, WireTypes, Reading
<1>3. Reading \in Sendable /\ FieldsRead = N - 1
  BY <1>1, <1>2, WantedField
<1>4. data \in Seq(FieldType) /\ Len(data) = 1 /\ N \in Nat
  BY <1>1, <1>3, Layout
<1>5. FieldsRead' = FieldsRead
  <2>1. FieldsRead' = NumFields(Reading)' - Len(want')
    BY <1>1 DEF FieldsRead
  <2> QED
    BY <2>1, <1>1, <1>2, <1>3, <1>4
<1>6. ReaderInv'
  <2>1. Rest(want, Data(Reading))'
    <3>1. Rest(data, data)
      BY <1>4 DEF Rest
    <3> QED
      BY <3>1, <1>1, <1>2
  <2> QED
    BY <2>1, <1>1, <1>2 DEF ReaderInv
<1>7. FlowInv'
  <2>1. Carried' = Carried /\ WriterAt' = WriterAt
    BY <1>1 DEF Carried, WriterAt, Norm
  <2>2. ReaderAt' = ReaderAt
    BY <1>1, <1>5 DEF ReaderAt, Norm
  <2>3. Len(sent) =< Len(sent')
    BY <1>1, <1>2
  <2> QED
    BY <2>1, <2>2, <2>3, <1>1, <1>2, FlowKept
<1> QED
  BY <1>1, <1>6, <1>7

(* Once the connection is over the receiver can only find that it is.      *)
LEMMA OverStays ==
  ASSUME WireTypes, ReaderInv, OverInv, WireNext
  PROVE  ReaderInv' /\ OverInv'
<1>1. ~open /\ ~BeginField /\ ~ShutdownConn
  BY DEF OverInv, BeginField, ShutdownConn
<1>2. /\ \A msg \in unsent : ~BeginMessage(msg)
      /\ \A n \in 1..SocketBuffer : ~WriteSome(n)
  BY <1>1 DEF BeginMessage, WriteSome
<1>3. reader \in {"msgId", "ended"}
  BY DEF OverInv
<1>4. ~HandleMessage /\ ~HereIs /\ ~EndData
  BY <1>3 DEF HandleMessage, HereIs, EndData
<1>5. ASSUME NEW n \in 1..SocketBuffer PROVE ~ReadSome(n)
  <2>1. pipe = <<>> => Len(pipe) = 0
    OBVIOUS
  <2>2. n \in Nat /\ n > 0
    BY WireAssumption
  <2> QED
    BY <2>1, <2>2 DEF OverInv, ReadSome
<1>6. ~EndField
  <2> SUFFICES ASSUME EndField PROVE FALSE
    OBVIOUS
  <2>1. reader = "msgId" /\ want = <<MsgId>> /\ inp = <<>> /\ Len(inp) = Need
    BY DEF OverInv, EndField
  <2>2. Head(want) = MsgId /\ MsgId.width = 2 /\ MsgId.aligned
    BY <2>1 DEF MsgId, Field
  <2>3. Need = PadTo(bytesRead, MsgId) + 2
    <3>1. Len(inp) = 0 /\ bytesRead \in Nat
      BY <2>1 DEF WireTypes
    <3>2. bytesRead - Len(inp) = bytesRead
      BY <3>1
    <3> QED
      BY <2>2, <3>2 DEF Need
  <2>4. PadTo(bytesRead, MsgId) \in Nat
    <3>1. bytesRead \in Nat
      BY DEF WireTypes
    <3>2. (2 - bytesRead) % 2 \in Nat
      BY <3>1
    <3> QED
      BY <3>2, <2>2 DEF PadTo
  <2>5. Len(inp) = 0
    BY <2>1
  <2> QED
    BY <2>1, <2>3, <2>4, <2>5
<1>7. CASE Eof
  <2>1. /\ reader = "msgId" /\ reader' = "ended" /\ UNCHANGED <<open, sent, got>>
    BY <1>7, <1>3 DEF Eof, sndVars
  <2> QED
    BY <2>1, <1>1 DEF OverInv, ReaderInv
<1>8. ASSUME NEW msg \in Messages, McastSaves(msg) PROVE ReaderInv' /\ OverInv'
  <2>1. UNCHANGED <<open, reader, want, inp, pipe, sent, got>>
    BY <1>8 DEF McastSaves, sndVars, rcvVars
  <2> QED
    BY <2>1, <1>3 DEF OverInv, ReaderInv
<1> QED
  BY <1>1, <1>2, <1>4, <1>5, <1>6, <1>7, <1>8 DEF WireNext, WriteStep, ReadStep

(* While the connection lasts, every step leaves the fields between the    *)
(* places of the ends, or skips data.                                      *)
LEMMA FlowStays ==
  ASSUME WireTypes, ReaderInv, FlowInv, reader # "ended", WireNext
  PROVE  Skipped' \/ (ReaderInv' /\ (OverInv' \/ (FlowInv' /\ reader' # "ended")))
<1>s. sent \in Seq(Sendable)
  BY DEF WireTypes
<1>l. Len(sent) =< Len(sent)
  BY <1>s
<1>u. ASSUME UNCHANGED <<sent, reader, want, got>>
      PROVE  ReaderInv' /\ ReaderAt' = ReaderAt /\ reader' # "ended"
  BY <1>u DEF ReaderInv, Reading, ReaderAt, FieldsRead, Norm
<1>w. ASSUME UNCHANGED <<sent, fields>> PROVE WriterAt' = WriterAt
  BY <1>w DEF WriterAt, Norm
<1>1. ASSUME NEW new \in unsent, BeginMessage(new) PROVE ReaderInv' /\ FlowInv' /\ reader' # "ended"
  <2>1. reader' = reader
    BY <1>1 DEF BeginMessage, rcvVars
  <2> QED
    BY <2>1, <1>1, BeginMessageKeeps
<1>2. CASE BeginField
  <2>1. UNCHANGED <<sent, reader, want, got>>
    BY <1>2 DEF BeginField, rcvVars
  <2> QED
    BY <2>1, <1>2, <1>u, BeginFieldKeeps
<1>3. ASSUME NEW n \in 1..SocketBuffer, WriteSome(n)
      PROVE  ReaderInv' /\ FlowInv' /\ reader' # "ended"
  <2>1. UNCHANGED <<sent, fields, reader, want, got, inp, bytesRead>>
    BY <1>3 DEF WriteSome, rcvVars
  <2>2. n \in Nat
    BY WireAssumption
  <2>3. /\ Carried' = Carried
        /\ \A x \in Nat : Agree(bytesWritten + Len(out), x) => Agree(bytesWritten' + Len(out'), x)
    BY <2>2, <1>3, WriteSomeKeeps
  <2>4. FlowInv'
    BY <2>1, <2>3, <1>s, <1>l, <1>u, <1>w, FlowKept
  <2> QED
    BY <2>1, <2>4, <1>u
<1>4. ASSUME NEW n \in 1..SocketBuffer, ReadSome(n)
      PROVE  ReaderInv' /\ FlowInv' /\ reader' # "ended"
  <2>1. UNCHANGED <<sent, fields, reader, want, got, out, bytesWritten>>
    BY <1>4 DEF ReadSome, sndVars
  <2>2. n \in Nat
    BY WireAssumption
  <2>3. /\ Carried' = Carried
        /\ \A x \in Nat : Agree(bytesRead - Len(inp), x) => Agree(bytesRead' - Len(inp'), x)
    BY <2>2, <1>4, ReadSomeKeeps
  <2>4. FlowInv'
    BY <2>1, <2>3, <1>s, <1>l, <1>u, <1>w, FlowKept
  <2> QED
    BY <2>1, <2>4, <1>u
<1>5. CASE EndField
  <2>1. reader' # "ended"
    BY <1>5 DEF EndField
  <2> QED
    BY <2>1, <1>5, EndFieldKeeps
<1>6. CASE HandleMessage
  <2>1. /\ reader = "header" /\ want = <<>> /\ Data(Reading) = <<>> /\ NextMessage
        /\ UNCHANGED <<sent, fields, out, bytesWritten, pipe, inp, bytesRead>>
    BY <1>6 DEF HandleMessage, sndVars
  <2>2. Len(got) < Len(sent)
    BY <2>1 DEF ReaderInv
  <2>3. FieldsRead = NumFields(Reading)
    BY <2>1, <2>2, WantedField
  <2>4. reader' # "ended"
    BY <2>1 DEF NextMessage
  <2> QED
    BY <2>1, <2>3, <2>4, NextMessageKeeps
<1>7. CASE HereIs
  <2>1. CASE Reading.num \in have
    <3>1. unread' = unread \cup {Reading.num} /\ sent' = sent /\ reader = "header"
      BY <2>1, <1>7 DEF HereIs, sndVars
    <3>2. Reading \in Elems(sent)
      <4>1. Len(got) < Len(sent) /\ got \in Seq(Sendable)
        BY <3>1 DEF ReaderInv
      <4>2. Len(got) + 1 \in DOMAIN sent
        BY <4>1, <1>s
      <4> QED
        BY <4>2 DEF Reading, Elems
    <3> QED
      BY <3>1, <3>2 DEF Skipped
  <2>2. CASE Reading.num \notin have
    BY <2>2, <1>7, DataIsNext
  <2> QED
    BY <2>1, <2>2
<1>8. CASE EndData
  <2>1. /\ reader = "data" /\ want = <<>> /\ NextMessage
        /\ UNCHANGED <<sent, fields, out, bytesWritten, pipe, inp, bytesRead>>
    BY <1>8 DEF EndData, sndVars
  <2>2. Len(got) < Len(sent)
    BY <2>1 DEF ReaderInv
  <2>3. FieldsRead = NumFields(Reading)
    BY <2>1, <2>2, WantedField
  <2>4. reader' # "ended"
    BY <2>1 DEF NextMessage
  <2> QED
    BY <2>1, <2>3, <2>4, NextMessageKeeps
<1>9. CASE Eof
  <2>1. ~open' /\ inp' = <<>> /\ pipe' = <<>> /\ sent' = sent
    BY <1>9 DEF Eof, sndVars
  <2>2. CASE reader = "data"
    <3>1. NextMessage /\ Len(got) < Len(sent)
      BY <2>2, <1>9 DEF Eof, ReaderInv
    <3>2. ReaderInv' /\ reader' = "msgId" /\ want' = <<MsgId>>
      BY <2>1, <3>1, NextMessageReads
    <3> QED
      BY <2>1, <3>2 DEF OverInv
  <2>3. CASE reader # "data"
    <3>1. reader' = "ended" /\ got' = got
      BY <2>3, <1>9 DEF Eof
    <3> QED
      BY <2>1, <3>1 DEF OverInv, ReaderInv
  <2> QED
    BY <2>2, <2>3
<1>10. ASSUME UNCHANGED <<sndVars, pipe, rcvVars>> PROVE ReaderInv' /\ FlowInv' /\ reader' # "ended"
  <2>1. UNCHANGED <<sent, fields, reader, want, got, inp, bytesRead, out, bytesWritten, pipe>>
    BY <1>10 DEF sndVars, rcvVars
  <2>2. Carried' = Carried
    BY <2>1 DEF Carried
  <2>3. FlowInv'
    BY <2>1, <2>2, <1>s, <1>l, <1>u, <1>w, FlowKept
  <2> QED
    BY <2>1, <2>3, <1>u
<1>11. CASE ShutdownConn
  BY <1>10, <1>11 DEF ShutdownConn
<1>12. ASSUME NEW msg \in Messages, McastSaves(msg)
      PROVE  ReaderInv' /\ FlowInv' /\ reader' # "ended"
  BY <1>10, <1>12 DEF McastSaves
<1> QED
  BY <1>1, <1>2, <1>3, <1>4, <1>5, <1>6, <1>7, <1>8, <1>9, <1>11, <1>12
     DEF WireNext, WriteStep, ReadStep

(* Data that was left unread remains so. *)
LEMMA SkippedStays ==
  ASSUME WireTypes, Skipped, WireNext
  PROVE  Skipped'
<1>1. PICK msg \in Elems(sent) : msg.num \in unread
  BY DEF Skipped
<1>2. Elems(sent) \subseteq Elems(sent')
  <2>1. ASSUME NEW new \in unsent, BeginMessage(new) PROVE Elems(sent) \subseteq Elems(sent')
    <3>1. sent' = Append(sent, new) /\ sent \in Seq(Sendable) /\ new \in Sendable
      BY <2>1 DEF BeginMessage, WireTypes
    <3> QED
      BY <3>1, AppendElems
  <2>2. ASSUME ~(\E new \in unsent : BeginMessage(new)) PROVE sent' = sent
    BY <2>2 DEF WireNext, WriteStep, ReadStep, BeginField, WriteSome, ReadSome, EndField,
                HandleMessage, HereIs, EndData, Eof, ShutdownConn, McastSaves, sndVars, rcvVars
  <2> QED
    BY <2>1, <2>2
<1>3. unread \subseteq unread'
  BY DEF WireNext, WriteStep, ReadStep, BeginMessage, BeginField, WriteSome, ReadSome, EndField,
         HandleMessage, HereIs, EndData, Eof, ShutdownConn, McastSaves, sndVars, rcvVars
<1> QED
  BY <1>1, <1>2, <1>3 DEF Skipped

(* Nothing is carried at first, and the counters of both ends are alike.   *)
LEMMA WireStarts == WireInit => WireInv
<1> SUFFICES ASSUME WireInit PROVE WireInv
  OBVIOUS
<1>1. /\ conn \in DOMAIN MessageKind /\ unsent = {msg \in Messages : msg.kind \in MessageKind[conn]}
      /\ sent = <<>> /\ fields = <<>> /\ out = <<>> /\ pipe = <<>> /\ inp = <<>> /\ got = <<>>
      /\ bytesWritten = Handshakes[conn] /\ bytesRead = Handshakes[conn]
      /\ reader = "msgId" /\ want = <<MsgId>>
  BY DEF WireInit
<1> DEFINE h == Handshakes[conn]
<1>2. h \in Nat
  BY <1>1, WireAssumption
<1>3. /\ sent \in Seq(Sendable) /\ got \in Seq(Sendable) /\ inp \in Seq(Mark) /\ pipe \in Seq(Mark)
      /\ out \in Seq(Mark) /\ Len(sent) = 0 /\ Len(got) = 0 /\ Len(inp) = 0 /\ Len(out) = 0
  BY <1>1
<1>4. WireTypes
  <2>1. unsent \subseteq Sendable
    BY <1>1 DEF Sendable
  <2> QED
    BY <2>1, <1>1, <1>2, <1>3 DEF WireTypes
<1>5. ReaderInv
  BY <1>1, <1>3 DEF ReaderInv
<1>6. FlowInv
  <2> DEFINE c == [k \in Nat |-> h]
             F == [k \in Nat |-> <<1, 1>>]
  <2>1. c \in [Nat -> Nat] /\ F \in [Nat -> Nat \X Nat] /\ c[0] = h /\ F[1] = <<1, 1>>
    BY <1>2
  <2> HIDE DEF c, F
  <2>2. Len(Carried) = 0
    <3>1. Carried = <<>>
      BY <1>1, <1>3, ConcatEmptySeq DEF Carried
    <3> QED
      BY <3>1
  <2>3. ReaderAt = <<1, 1>> /\ WriterAt = <<1, 1>>
    <3>1. FieldsRead = 0 /\ Len(got) + 1 = 1 /\ 1 \notin 1..Len(sent)
      BY <1>1, <1>3 DEF FieldsRead
    <3> QED
      BY <3>1, <1>1 DEF ReaderAt, WriterAt, Norm
  <2>4. Agree(bytesRead - Len(inp), c[0]) /\ Agree(bytesWritten + Len(out), c[0])
    <3>1. bytesRead - Len(inp) = h /\ bytesWritten + Len(out) = h /\ h \in Int
      BY <1>1, <1>2, <1>3
    <3> HIDE DEF h
    <3> QED
      BY <3>1, <2>1, AgreeMoves
  <2>5. \A j, k \in 0..0 : c[j] =< c[k]
    BY <2>1, <1>2
  <2>6. c[0] - c[0] = 0 /\ 0 + 1 = 1 /\ 0 + 1..0 = {}
    BY <2>1, <1>2
  <2>7. History(0, 0, c, F)
    <3>1. Len(Carried) = c[0] - c[0] /\ F[0 + 1] = ReaderAt /\ F[0 + 1] = WriterAt /\ 0 =< 0
      <4>1. Len(Carried) = c[0] - c[0]
        BY <2>2, <2>6
      <4>2. F[0 + 1] = <<1, 1>>
        <5>1. 0 + 1 = 1
          OBVIOUS
        <5> QED
          BY <5>1, <2>1
      <4> QED
        BY <4>1, <4>2, <2>3
    <3>2. \A k \in 0 + 1..0 : PieceOK(k, c, F, c[0])
      BY <2>6
    <3> QED
      BY <2>4, <2>5, <3>1, <3>2 DEF History
  <2> QED
    BY <2>1, <2>7 DEF FlowInv
<1> QED
  BY <1>1, <1>4, <1>5, <1>6 DEF WireInv

(* Every message is read as it was written, in order, however the bytes    *)
(* are divided between the calls of write() and read() and the counters    *)
(* wrap around, unless a segment's data was left in the connection.        *)
THEOREM MessagesAreRead == WireSpec => []ReadAsWritten
<1>1. WireInit => WireInv
  BY WireStarts
<1>2. WireInv /\ [WireNext]_wireVars => WireInv'
  <2> SUFFICES ASSUME WireInv, [WireNext]_wireVars PROVE WireInv'
    OBVIOUS
  <2>1. CASE WireNext
    <3>1. WireTypes'
      BY <2>1, WireTypesKept DEF WireInv
    <3>2. CASE Skipped
      BY <2>1, <3>1, <3>2, SkippedStays DEF WireInv
    <3>3. CASE ReaderInv /\ OverInv
      BY <2>1, <3>1, <3>3, OverStays DEF WireInv
    <3>4. CASE ReaderInv /\ FlowInv /\ reader # "ended"
      BY <2>1, <3>1, <3>4, FlowStays DEF WireInv
    <3> QED
      BY <3>2, <3>3, <3>4 DEF WireInv
  <2>2. CASE UNCHANGED wireVars
    <3>1. UNCHANGED <<unsent, sent, fields, out, bytesWritten, pipe, open, reader, want, inp,
                      bytesRead, got, unread>>
      BY <2>2 DEF wireVars, sndVars, rcvVars
    <3>2. WireTypes'
      BY <3>1 DEF WireInv, WireTypes
    <3>3. Skipped => Skipped'
      BY <3>1 DEF Skipped
    <3>4. ReaderInv => ReaderInv'
      BY <3>1 DEF ReaderInv, Reading
    <3>5. OverInv => OverInv'
      BY <3>1 DEF OverInv
    <3>6. FlowInv => FlowInv'
      <4>1. Carried' = Carried /\ ReaderAt' = ReaderAt /\ WriterAt' = WriterAt
        BY <3>1 DEF Carried, ReaderAt, WriterAt, FieldsRead, Reading, Norm
      <4>2. sent \in Seq(Sendable) /\ Len(sent) =< Len(sent)
        BY DEF WireInv, WireTypes
      <4> QED
        BY <3>1, <4>1, <4>2, FlowKept DEF WireInv
    <3> QED
      BY <3>1, <3>2, <3>3, <3>4, <3>5, <3>6 DEF WireInv
  <2> QED
    BY <2>1, <2>2
<1>3. WireInv => ReadAsWritten
  <2> SUFFICES ASSUME WireInv, ~Skipped PROVE InOrder
    BY DEF ReadAsWritten, Skipped
  <2>1. ReaderInv /\ sent \in Seq(Sendable)
    BY DEF WireInv, WireTypes
  <2>2. /\ got \in Seq(Sendable) /\ Len(got) =< Len(sent) /\ \A i \in 1..Len(got) : got[i] = sent[i]
        /\ Len(got) \in Nat /\ Len(sent) \in Nat
    BY <2>1 DEF ReaderInv
  <2>3. SubSeq(sent, 1, Len(got)) = [i \in 1..Len(got) |-> sent[i]]
    BY <2>1, <2>2
  <2>4. got = [i \in 1..Len(got) |-> got[i]]
    BY <2>2
  <2> QED
    BY <2>2, <2>3, <2>4 DEF InOrder
<1> QED
  BY <1>1, <1>2, <1>3, PTL DEF WireSpec

-----------------------------------------------------------------------------
(* The life of a node: Node.                                               *)

(* The threads of a node that were started and not yet joined are the      *)
(* first of those it has; the others have not begun, or are over.          *)
LifeOK(n) ==
    /\ main[n] = "start" =>
          /\ joinable[n] \in {0, 1} /\ ~throws[n]
          /\ \A i \in {1, 2} : i > joinable[n] => subtask[n][Started(n)[i]] = "none"
    /\ main[n] = "wait" => joinable[n] = 2 /\ ~throws[n]
    /\ main[n] \in {"stop", "join"} => joinable[n] \in {1, 2}
    /\ main[n] \in {"returned", "destroyed"} => joinable[n] = 0
    /\ main[n] \in {"stop", "join", "returned", "destroyed"} => throws[n] \/ done[n]
    /\ throws[n] => exPtr[n] \/ \E i \in {1, 2} : subtask[n][Started(n)[i]] = "none"
    /\ \A t \in Subtask : subtask[n][t] \in {"runs", "fails"} =>
          \E i \in {1, 2} : i =< joinable[n] /\ t = Started(n)[i]

NodeInv == NodeTypeOK /\ \A n \in Nodes : LifeOK(n)

(* A node has two threads, which are different. *)
LEMMA StartedTwo ==
  \A n \in Nodes :
     Started(n)[1] \in Subtask /\ Started(n)[2] \in Subtask /\ Started(n)[1] # Started(n)[2]
BY DEF Started, Subtask

(* No step of a node, or of one of its threads, disturbs its order.        *)
LEMMA NodeStepKeeps ==
  ASSUME NodeInv, NodeNext
  PROVE  NodeInv'
<1>1. NodeTypeOK /\ \A n \in Nodes : LifeOK(n)
  BY DEF NodeInv
<1> DEFINE first(n) == Started(n)[1]
           second(n) == Started(n)[2]
<1>2. \A n \in Nodes : first(n) \in Subtask /\ second(n) \in Subtask /\ first(n) # second(n)
  BY StartedTwo
<1>3. ASSUME NEW n \in Nodes, MainStep(n) PROVE NodeInv'
  <2>1. CASE StartThread(n)
    <3>1. joinable[n] \in {0, 1} /\ main[n] = "start"
      BY <1>1, <2>1 DEF LifeOK, StartThread
    <3> DEFINE t == Started(n)[joinable[n] + 1]
    <3>2. t \in Subtask /\ (joinable[n] = 0 => t = first(n)) /\ (joinable[n] = 1 => t = second(n))
      BY <3>1, <1>2
    <3>3. /\ subtask' = [subtask EXCEPT ![n][t] = "runs"]
          /\ joinable' = [joinable EXCEPT ![n] = @ + 1]
          /\ main' = [main EXCEPT ![n] = IF joinable[n] = 1 THEN "wait" ELSE @]
          /\ UNCHANGED <<stopping, exPtr, done, throws>>
      BY <2>1 DEF StartThread
    <3> HIDE DEF t
    <3>4. NodeTypeOK'
      BY <1>1, <3>1, <3>2, <3>3 DEF NodeTypeOK
    <3>5. ASSUME NEW m \in Nodes, m # n PROVE LifeOK(m)'
      <4>1. /\ subtask'[m] = subtask[m] /\ joinable'[m] = joinable[m] /\ main'[m] = main[m]
        BY <1>1, <3>3, <3>5 DEF NodeTypeOK
      <4> QED
        BY <1>1, <4>1, <3>3 DEF LifeOK
    <3>6. LifeOK(n)'
      <4>1. /\ subtask'[n][t] = "runs" /\ \A s \in Subtask \ {t} : subtask'[n][s] = subtask[n][s]
            /\ joinable'[n] = joinable[n] + 1
            /\ main'[n] = IF joinable[n] = 1 THEN "wait" ELSE "start"
        BY <1>1, <3>1, <3>2, <3>3 DEF NodeTypeOK
      <4>2. CASE joinable[n] = 0
        BY <1>1, <1>2, <3>1, <3>2, <3>3, <4>1, <4>2 DEF LifeOK
      <4>3. CASE joinable[n] = 1
        BY <1>1, <1>2, <3>1, <3>2, <3>3, <4>1, <4>3 DEF LifeOK
      <4> QED
        BY <3>1, <4>2, <4>3
    <3> QED
      BY <3>4, <3>5, <3>6 DEF NodeInv
  <2>2. CASE CannotStart(n)
    BY <1>1, <1>2, <2>2 DEF NodeInv, NodeTypeOK, LifeOK, CannotStart
  <2>3. CASE WaitUntilDone(n)
    BY <1>1, <1>2, <2>3 DEF NodeInv, NodeTypeOK, LifeOK, WaitUntilDone
  <2>4. CASE StopThread(n)
    <3>1. Last(n) \in Subtask
      BY <1>1, <1>2, <2>4 DEF Last, LifeOK, StopThread
    <3> QED
      BY <1>1, <1>2, <2>4, <3>1 DEF NodeInv, NodeTypeOK, LifeOK, StopThread
  <2>5. CASE JoinThread(n)
    <3>1. /\ joinable[n] \in {1, 2} /\ main[n] = "join"
          /\ subtask[n][Last(n)] = "ended"
          /\ joinable' = [joinable EXCEPT ![n] = @ - 1]
          /\ main' = [main EXCEPT ![n] = IF joinable[n] = 1 THEN "returned" ELSE "stop"]
          /\ UNCHANGED <<subtask, stopping, exPtr, done, throws>>
      BY <1>1, <2>5 DEF LifeOK, JoinThread
    <3>2. NodeTypeOK'
      BY <1>1, <3>1 DEF NodeTypeOK
    <3>3. /\ joinable'[n] = joinable[n] - 1
          /\ main'[n] = IF joinable[n] = 1 THEN "returned" ELSE "stop"
          /\ \A m \in Nodes \ {n} : joinable'[m] = joinable[m] /\ main'[m] = main[m]
      BY <1>1, <3>1 DEF NodeTypeOK
    <3>4. LifeOK(n)'
      <4>1. CASE joinable[n] = 1
        BY <1>1, <1>2, <3>1, <3>3, <4>1 DEF LifeOK, Last
      <4>2. CASE joinable[n] = 2
        BY <1>1, <1>2, <3>1, <3>3, <4>2 DEF LifeOK, Last
      <4> QED
        BY <3>1, <4>1, <4>2
    <3>5. ASSUME NEW m \in Nodes \ {n} PROVE LifeOK(m)'
      BY <1>1, <3>1, <3>3 DEF LifeOK
    <3> QED
      BY <3>2, <3>4, <3>5 DEF NodeInv
  <2> QED
    BY <1>3, <2>1, <2>2, <2>3, <2>4, <2>5 DEF MainStep
<1>4. ASSUME NEW n \in Nodes, DestroyNode(n) PROVE NodeInv'
  BY <1>1, <1>4 DEF NodeInv, NodeTypeOK, LifeOK, DestroyNode
<1>5. ASSUME NEW n \in Nodes, HaltNode(n) PROVE NodeInv'
  BY <1>1, <1>5 DEF NodeInv, NodeTypeOK, LifeOK, HaltNode
<1>6. ASSUME NEW n \in Nodes, NEW t \in Subtask, SubtaskThrows(n, t) PROVE NodeInv'
  BY <1>1, <1>2, <1>6 DEF NodeInv, NodeTypeOK, LifeOK, SubtaskThrows
<1>7. ASSUME NEW n \in Nodes, NEW t \in Subtask, SetException(n, t) PROVE NodeInv'
  BY <1>1, <1>2, <1>7 DEF NodeInv, NodeTypeOK, LifeOK, SetException
<1>8. ASSUME NEW n \in Nodes, NEW t \in Subtask, SubtaskReturns(n, t) PROVE NodeInv'
  BY <1>1, <1>2, <1>8 DEF NodeInv, NodeTypeOK, LifeOK, SubtaskReturns
<1> QED
  BY <1>3, <1>4, <1>5, <1>6, <1>7, <1>8 DEF NodeNext, NodeProgress, SubtaskStep

(* A node that has returned, or is destroyed, has joined all its threads,  *)
(* also when one of them could not be started or has failed; and it has    *)
(* returned only because it was halted or something failed (operator() and *)
(* the destructors, node/Node.cpp).                                        *)
THEOREM NodesAreSound == NodeSpec => [](ThreadsEndWithNode /\ ReturnsIfHalted)
<1>1. NodeInit => NodeInv
  BY StartedTwo DEF NodeInit, NodeInv, NodeTypeOK, LifeOK
<1>2. NodeInv /\ [NodeNext]_nodeVars => NodeInv'
  <2>1. NodeInv /\ NodeNext => NodeInv'
    BY NodeStepKeeps
  <2>2. NodeInv /\ UNCHANGED nodeVars => NodeInv'
    BY DEF NodeInv, NodeTypeOK, LifeOK, nodeVars
  <2> QED
    BY <2>1, <2>2
<1>3. NodeInv => ThreadsEndWithNode /\ ReturnsIfHalted
  <2> SUFFICES ASSUME NodeInv PROVE ThreadsEndWithNode /\ ReturnsIfHalted
    OBVIOUS
  <2>1. ThreadsEndWithNode
    BY DEF NodeInv, NodeTypeOK, LifeOK, ThreadsEndWithNode
  <2>2. ReturnsIfHalted
    BY DEF NodeInv, NodeTypeOK, LifeOK, ReturnsIfHalted
  <2> QED
    BY <2>1, <2>2
<1> QED
  BY <1>1, <1>2, <1>3, PTL DEF NodeSpec

=============================================================================
