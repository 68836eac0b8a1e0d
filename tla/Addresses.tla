------------------------------ MODULE Addresses ------------------------------
(***************************************************************************)
(* Addresses of remote servers: InetAddr and SockAddr (main/inet), on      *)
(* their way through a subscriber.  Specifications become socket addresses *)
(* in a std::set, which fills the pool; the connector takes one, creates a *)
(* socket and connects it; the remote address of the resulting peer, which *)
(* is asked of the socket, is the peer's key in P2pMgr::Impl::peers and    *)
(* goes back to the pool when the peer stops.                              *)
(*                                                                         *)
(* An Internet address is its kind and a number, in the order of the       *)
(* address's bytes or the name's characters.  Ports have two digits to the *)
(* base of Byte.  The delays of the pool are in ServerPool.                *)
(***************************************************************************)
EXTENDS Lists, Integers, FiniteSets

CONSTANTS
    Byte,      \* 256
    Specs,     \* specifications of socket addresses
    Lookup,    \* the addresses that getaddrinfo() has for the name numbered n
    Null,      \* SockAddr()
    MaxPeers

PortMax == Byte * Byte - 1  \* USHRT_MAX

(* What the characters of a specification are, the address that inet_pton()*)
(* or the name stands for, the port, and whether there are more characters.*)
InetKind == {"inet4", "inet6", "name"}
ASSUME AddressesAssumption ==
    /\ Byte \in Nat \ {0} /\ MaxPeers \in Nat \ {0}
    /\ \A spec \in Specs :
         /\ spec.chars \in {"digits", "brackets", "ident"}
         /\ spec.inet \in [kind : InetKind, val : Nat]
         /\ spec.inet.kind = "name" => spec.inet.val \in DOMAIN Lookup
         /\ spec.port \in Nat /\ spec.excess \in BOOLEAN
    /\ \A n \in DOMAIN Lookup : Lookup[n] \in Seq([kind : {"inet4", "inet6"}, val : Nat])

VARIABLES
    specs,    \* specifications that are not yet parsed
    servers,  \* std::set<SockAddr>
    addrPool,     \* the pool of servers
    manager,  \* what the subscriber does
    srvrAddr, \* the address that connect() has popped
    peers,    \* peers that have not been reported to stopped()
    table     \* P2pMgr::Impl::peers: the keys in each bucket

addrVars == <<specs, servers, addrPool, manager, srvrAddr, peers, table>>

AddrInit ==
    /\ specs \in SUBSET Specs /\ servers = <<>> /\ addrPool = <<>>
    /\ manager = "parsing" /\ srvrAddr = Null
    /\ peers = {} /\ table = [bit \in BOOLEAN |-> <<>>]

-----------------------------------------------------------------------------
(* The operators of Inet4Addr, Inet6Addr and NameAddr, whose right operand *)
(* has one of these types, ...                                             *)
InetEqual(a, b) == a.kind = b.kind /\ a.val = b.val

Inet4Less(a, b) == b.kind # "inet4" \/ a.val < b.val

(* Mutant of Inet6Less: an IPv6 address is not less than a name. *)
NamesAreUnordered(a, b) == b.kind = "inet6" /\ a.val < b.val

Inet6Less(a, b) == b.kind = "name" \/ (b.kind = "inet6" /\ a.val < b.val)

NameLess(a, b) == b.kind = "name" /\ a.val < b.val

TypedLess(a, b) ==
    CASE a.kind = "inet4" -> Inet4Less(a, b)
      [] a.kind = "inet6" -> Inet6Less(a, b)
      [] a.kind = "name" -> NameLess(a, b)

(* ... and the ones that find that type out by asking the right operand. *)
InetLess(a, b) == ~TypedLess(b, a) /\ ~InetEqual(b, a)

SockLess(a, b) ==
    IF InetLess(a.inet, b.inet) THEN TRUE
    ELSE IF InetLess(b.inet, a.inet) THEN FALSE
    ELSE a.port < b.port
SockEqual(a, b) == ~(SockLess(a, b) \/ SockLess(b, a))

(* std::hash<SockAddr> returns a bool: whether the hash of the address and *)
(* that of the port, each the number itself, differ.                       *)
HashBit(a) == a.inet.val # a.port

-----------------------------------------------------------------------------
(* SockAddr(spec): the three patterns of parseSpec(), which throws if      *)
(* characters are left or the port is too large.  Digits and dots are an   *)
(* IPv4 address or nothing.                                                *)
Throws(spec) ==
    \/ spec.excess \/ spec.port > PortMax
    \/ spec.chars = "digits" /\ spec.inet.kind # "inet4"
    \/ spec.chars = "brackets" /\ spec.inet.kind # "inet6"
Parsed(spec) == [inet |-> spec.inet, port |-> spec.port]

Hton(port) == (port % Byte) * Byte + port \div Byte

(* get_sockaddr() of the three types.  Inet6Addr says that its family is   *)
(* AF_INET.  A name without an IPv4 address throws, as getaddrinfo() fails.*)
Inet4Storage(a) == [family |-> "AF_INET", port |-> Hton(a.port), val |-> a.inet.val]
Inet6Storage(a) == [family |-> "AF_INET", port |-> Hton(a.port), val |-> a.inet.val]
Inet4s(name) == {i \in DOMAIN Lookup[name] : Lookup[name][i].kind = "inet4"}
NameStorage(a) ==
    LET name == a.inet.val IN
    [family |-> "AF_INET", port |-> Hton(a.port),
     val |-> Lookup[name][Source(Inet4s(name), 1)].val]

HasStorage(a) == IF a.inet.kind = "name" THEN Inet4s(a.inet.val) # {} ELSE TRUE
Storage(a) ==
    CASE a.inet.kind = "inet4" -> Inet4Storage(a)
      [] a.inet.kind = "inet6" -> Inet6Storage(a)
      [] a.inet.kind = "name" -> NameStorage(a)

(* socket(): the family that the socket is created with. *)
Family(a) == IF a.inet.kind = "inet6" THEN "AF_INET6" ELSE "AF_INET"

(* SockAddr(storage) *)
FromStorage(storage) ==
    [inet |-> [kind |-> IF storage.family = "AF_INET" THEN "inet4" ELSE "inet6",
               val |-> storage.val],
     port |-> Hton(storage.port)]

(* Where a connection to an address leads. *)
Endpoint(a) == <<Storage(a).val, a.port>>

-----------------------------------------------------------------------------
(* std::set::insert(): after the keys that are less, unless it is there.   *)
Position(keys, a) == Cardinality({i \in DOMAIN keys : SockLess(keys[i], a)})
Contains(keys, a) ==
    LET i == Position(keys, a) + 1 IN i =< Len(keys) /\ ~SockLess(a, keys[i])
Inserted(keys, a) ==
    IF Contains(keys, a) THEN keys
    ELSE LET i == Position(keys, a) IN SubSeq(keys, 1, i) \o <<a>> \o SubSeq(keys, i + 1, Len(keys))

EnterServer(spec) ==
    /\ manager = "parsing" /\ spec \in specs
    /\ specs' = specs \ {spec}
    /\ servers' = IF Throws(spec) THEN servers ELSE Inserted(servers, Parsed(spec))
    /\ UNCHANGED <<addrPool, manager, srvrAddr, peers, table>>

(* ServerPool(servers), and the manager starts. *)
FillPool ==
    /\ manager = "parsing" /\ specs = {}
    /\ addrPool' = servers /\ manager' = "running"
    /\ UNCHANGED <<specs, servers, srvrAddr, peers, table>>

PopServer ==
    /\ manager = "running" /\ srvrAddr = Null /\ addrPool # <<>> /\ Cardinality(peers) < MaxPeers
    /\ srvrAddr' = Head(addrPool) /\ addrPool' = Tail(addrPool)
    /\ UNCHANGED <<specs, servers, manager, peers, table>>

(* TcpClntSock(srvrAddr).  The connection fails if it cannot be made in    *)
(* this family, which ends the manager; if the name is unknown, which may  *)
(* end it, as may an error of the network; or the address is tried later.  *)
ConnectError(fatal) ==
    /\ manager = "running" /\ srvrAddr # Null
    /\ IF srvrAddr.port = 0 THEN ~fatal
       ELSE HasStorage(srvrAddr) /\ Storage(srvrAddr).family # Family(srvrAddr) => fatal
    /\ IF fatal THEN manager' = "failed" /\ UNCHANGED addrPool
       ELSE addrPool' = Append(addrPool, srvrAddr) /\ UNCHANGED manager
    /\ srvrAddr' = Null
    /\ UNCHANGED <<specs, servers, peers, table>>

Enter(keys, a) ==
    IF \E i \in DOMAIN keys : SockEqual(keys[i], a) THEN keys ELSE Append(keys, a)
Erased(keys, a) ==
    LET keep == {i \in DOMAIN keys : ~SockEqual(keys[i], a)}
    IN  [j \in 1..Cardinality(keep) |-> keys[Source(keep, j)]]

NewId == CHOOSE n \in 1..MaxPeers : \A p \in peers : p.id # n

(* The peer is added, under the remote address of its socket. *)
ConnectServer ==
    /\ manager = "running" /\ srvrAddr # Null /\ srvrAddr.port # 0
    /\ HasStorage(srvrAddr) /\ Storage(srvrAddr).family = Family(srvrAddr)
    /\ LET rmt == FromStorage(Storage(srvrAddr)) IN
       /\ peers' = peers \cup {[id |-> NewId, from |-> srvrAddr, rmt |-> rmt, net |-> "open"]}
       /\ table' = [table EXCEPT ![HashBit(rmt)] = Enter(@, rmt)]
    /\ srvrAddr' = Null
    /\ UNCHANGED <<specs, servers, addrPool, manager>>

(* The peer stops and its socket is shut down, by both ends or by one:     *)
(* then the connection lingers, and getpeername() still knows the remote.  *)
PeerShutsDown(p) ==
    /\ p.net = "open"
    /\ \E net \in {"lingers", "closed"} : peers' = (peers \ {p}) \cup {[p EXCEPT !.net = net]}
    /\ UNCHANGED <<specs, servers, addrPool, manager, srvrAddr, table>>

GetRmtAddr(p) == IF p.net = "closed" THEN Null ELSE p.rmt

(* stopped() and stopped2(): the remote address goes back to the pool and  *)
(* is erased from the table, for which SockAddr() has no hash.             *)
ServerStopped(p) ==
    LET rmt == GetRmtAddr(p) IN
    /\ manager = "running" /\ p.net # "open"
    /\ peers' = peers \ {p}
    /\ addrPool' = Append(addrPool, rmt)
    /\ IF rmt = Null THEN manager' = "crashed" /\ UNCHANGED table
       ELSE table' = [table EXCEPT ![HashBit(rmt)] = Erased(@, rmt)] /\ UNCHANGED manager
    /\ UNCHANGED <<specs, servers, srvrAddr>>

AddrStep ==
    \/ \E spec \in specs : EnterServer(spec)
    \/ FillPool \/ PopServer \/ ConnectServer
    \/ \E fatal \in BOOLEAN : ConnectError(fatal)
    \/ \E p \in peers : PeerShutsDown(p) \/ ServerStopped(p)

AddrSpec == AddrInit /\ [][AddrStep]_addrVars

-----------------------------------------------------------------------------
(* The set of servers is in order and has no address twice, whatever kinds *)
(* are mixed: the order that the three types define together is total.     *)
ServersAreOrdered ==
    \A i, j \in DOMAIN servers : i < j =>
        SockLess(servers[i], servers[j]) /\ ~SockLess(servers[j], servers[i])

(* An address that goes back to the pool leads where the one led that was  *)
(* taken from it, though a name has become a number on the way.            *)
RemoteIsTheServer == \A p \in peers : Endpoint(p.rmt) = Endpoint(p.from)

SameRemote(a, b) == a # b /\ HasStorage(a) /\ HasStorage(b) /\ Endpoint(a) = Endpoint(b)

(* The table has the remote addresses of the peers and no others, as long  *)
(* as no two servers have the same one.                                    *)
TableIsExact ==
    (manager # "crashed" /\ ~ \E a, b \in Elems(servers) : SameRemote(a, b)) =>
       Elems(table[TRUE]) \cup Elems(table[FALSE]) = {p.rmt : p \in peers}

(* Addresses keep their identity on their way through sets, sockets, the   *)
(* pool and the manager's table (SockAddr.cpp, P2pMgr.cpp).                *)
AddressesInv == ServersAreOrdered /\ RemoteIsTheServer /\ TableIsExact

(* Statements that do not hold. *)

(* "Returns the socket address of the remote peer" (getRmtAddr(), Peer.h). *)
RemoteIsKnown == \A i \in DOMAIN addrPool : addrPool[i] # Null

(* Servers of all kinds of addresses can be connected to. *)
FamilyIsRight ==
    srvrAddr # Null /\ HasStorage(srvrAddr) => Storage(srvrAddr).family = Family(srvrAddr)

=============================================================================
