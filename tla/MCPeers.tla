------------------------------- MODULE MCPeers -------------------------------
(***************************************************************************)
(* Instances of a connection between two peers (a publisher and a          *)
(* subscriber, which notifies the publisher of one chunk) and, of the      *)
(* earlier implementation, of the set of active peers and of a connection  *)
(* over which a product is shipped.  They share nothing, so a behaviour is *)
(* one of the subject that its initial state chooses.                      *)
(***************************************************************************)
EXTENDS PeerConn, ActivePeers, Records

Never == {FALSE}
Sometimes == BOOLEAN

MCOffers == [e \in End |-> IF e = Publisher THEN MaxId ELSE 1]
MCStrange == [n \in Node |-> IF n = ShippingNode THEN 2 ELSE 1]

CONSTANT MaxComing  \* peers that are still to come and items that are still to be got

VARIABLE subject

suiteVars == <<subject, vars, peerVars, recordVars>>

SuiteInit ==
    /\ subject \in {"connection", "set", "records"}
    /\ Init /\ ActiveInit /\ RecordsInit
    /\ Cardinality({p \in Peer : conn[p] = "new"}) + MaxNews - have <= MaxComing
    /\ subject # "set" => have = MaxNews /\ \A p \in Peer : conn[p] = "new"

Connection(A) == subject = "connection" /\ A /\ UNCHANGED <<subject, peerVars, recordVars>>
Set(A) == subject = "set" /\ A /\ UNCHANGED <<subject, vars, recordVars>>
Shipment(A) == subject = "records" /\ A /\ UNCHANGED <<subject, vars, peerVars>>

SuiteNext == Connection(Next) \/ Set(ActiveNext) \/ Shipment(RecordsNext)

SuiteSpec ==
    /\ SuiteInit /\ [][SuiteNext]_suiteVars
    /\ WF_suiteVars(Connection(ProgramStep))
    /\ \A i \in Inserter : WF_suiteVars(Set(InserterStep(i)))
    /\ \A n \in Node : WF_suiteVars(Shipment(ReceiverStep(n)))
    /\ WF_suiteVars(Shipment(NetStep))

=============================================================================
