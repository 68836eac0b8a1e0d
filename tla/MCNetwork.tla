------------------------------ MODULE MCNetwork ------------------------------
(***************************************************************************)
(* Instances of the modules that set up and use the network: connections   *)
(* between peers and what they carry, the multicast, the nodes, addresses  *)
(* of servers, and segments of products.  They share nothing, so a         *)
(* behaviour is one of the subject that its initial state chooses.         *)
(***************************************************************************)
EXTENDS PeerSetup, Mcast, Node, Addresses, Segments, Wire

VARIABLE subject

vars == <<subject, setupVars, mcastVars, nodeVars, addrVars, segVars, wireVars>>

(* Two IPv4 servers and one of IPv6, by number; two names, one of which    *)
(* stands for the first server or another, and the other for an IPv6       *)
(* address only; and specifications that cannot be parsed.                 *)
Spec(chars, kind, val, port) ==
    [chars |-> chars, inet |-> [kind |-> kind, val |-> val], port |-> port, excess |-> FALSE]
MCSpecs ==
    {Spec("digits", "inet4", 1, 1), Spec("digits", "inet4", 3, 6), Spec("brackets", "inet6", 1, 6),
     Spec("ident", "name", 1, 6), Spec("ident", "name", 2, 6),
     Spec("digits", "inet6", 1, 6), Spec("digits", "inet4", 1, 16)}
MCLookup ==
    <<<<[kind |-> "inet6", val |-> 2], [kind |-> "inet4", val |-> 3]>>,
      <<[kind |-> "inet6", val |-> 1]>>>>

(* Two kinds of messages on each of the three connections of a peer.  The  *)
(* one of notices has carried the types of the nodes and a port.           *)
Message(num, kind, var) == [num |-> num, kind |-> kind, var |-> var]
MCMessages ==
    {Message(1, "PROD_INFO_NOTICE", 0), Message(2, "DATA_SEG_NOTICE", 0),
     Message(3, "PROD_INFO_REQUEST", 0), Message(4, "DATA_SEG_REQUEST", 0),
     Message(5, "PROD_INFO", 1), Message(6, "DATA_SEG", 3), Message(7, "DATA_SEG", 2)}
MCHandshakes == [note |-> 4, reqst |-> 0, chunk |-> 0]

(* While the others are studied, one initial state of a subject is enough. *)
Init ==
    /\ subject \in {"setup", "mcast", "node", "addresses", "segments", "wire"}
    /\ SetupInit /\ McastInit /\ NodeInit /\ AddrInit /\ SegInit /\ WireInit
    /\ subject # "setup" => \A c \in Client : client[c].server = CHOOSE s \in Server : TRUE
    /\ subject # "addresses" => specs = {}
    /\ subject # "segments" => fileSize = 0 /\ pubSegSize = 0 /\ subSegSize = 0
    /\ subject # "wire" => conn = "note"

Setup(A) == subject = "setup" /\ A
    /\ UNCHANGED <<subject, mcastVars, nodeVars, addrVars, segVars, wireVars>>
Multi(A) == subject = "mcast" /\ A
    /\ UNCHANGED <<subject, setupVars, nodeVars, addrVars, segVars, wireVars>>
Nodal(A) == subject = "node" /\ A
    /\ UNCHANGED <<subject, setupVars, mcastVars, addrVars, segVars, wireVars>>
Addr(A) == subject = "addresses" /\ A
    /\ UNCHANGED <<subject, setupVars, mcastVars, nodeVars, segVars, wireVars>>
Segment(A) == subject = "segments" /\ A
    /\ UNCHANGED <<subject, setupVars, mcastVars, nodeVars, addrVars, wireVars>>
Bytes(A) == subject = "wire" /\ A
    /\ UNCHANGED <<subject, setupVars, mcastVars, nodeVars, addrVars, segVars>>

Next ==
    \/ Setup(SetupNext) \/ Multi(McastNext) \/ Nodal(NodeNext)
    \/ Addr(AddrStep) \/ Segment(SegStep) \/ Bytes(WireNext)

FairSpec ==
    /\ Init /\ [][Next]_vars
    /\ WF_vars(Setup(SetupProgress))
    /\ WF_vars(Multi(RcvrStep))
    /\ WF_vars(Nodal(NodeProgress))
    /\ WF_vars(Segment(SegStep))
    /\ WF_vars(Bytes(ReadStep)) /\ WF_vars(Bytes(WriteStep))

=============================================================================
