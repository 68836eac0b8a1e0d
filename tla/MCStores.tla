------------------------------- MODULE MCStores ------------------------------
(***************************************************************************)
(* Instances of the publisher's repository (a root-directory with a file   *)
(* and a directory with another) and of the earlier implementation's       *)
(* store, its receiving threads and its deletion thread.  They share       *)
(* nothing, so a behaviour is one of the subject that its initial state    *)
(* chooses.                                                                *)
(***************************************************************************)
EXTENDS PubRepo, Receiving, TLC

CONSTANTS d1, f1, f2

(* f1 is in the directory d1, f2 in the root-directory. *)
MCParent == d1 :> Root @@ f1 :> d1 @@ f2 :> Root
MCSize == f1 :> 1 @@ f2 :> 0

(* Product 9, the last before the index wraps, has two chunks of different sizes. *)
MCProdSize == [p \in Prod |-> IF p = 9 THEN 3 ELSE 2]
MCOffered == {<<9, 1>>}

VARIABLE subject

suiteVars == <<subject, vars, recvVars>>

SuiteInit == subject \in {"publisher", "receiving"} /\ Init /\ ReceivingInit

Publishing(A) == subject = "publisher" /\ A /\ UNCHANGED <<subject, recvVars>>
Receipt(A) == subject = "receiving" /\ A /\ UNCHANGED <<subject, vars>>

SuiteNext == Publishing(Next) \/ Receipt(ReceivingNext)

SuiteSpec ==
    /\ SuiteInit /\ [][SuiteNext]_suiteVars
    /\ WF_suiteVars(Publishing(SenderStep))
    /\ WF_suiteVars(Publishing(WatcherStep /\ UNCHANGED <<repoVars, threadVars>>))
    /\ WF_suiteVars(Receipt(DeleterStep))

=============================================================================
