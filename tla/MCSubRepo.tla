----------------------------- MODULE MCSubRepo -----------------------------
(***************************************************************************)
(* Instances of the subscriber's repository and, of the earlier            *)
(* implementation, of a store from which a peer that has just connected is *)
(* told of what it lacks.  They share nothing, so a behaviour is one of    *)
(* the subject that its initial state chooses.                             *)
(***************************************************************************)
EXTENDS SubRepo, Backlog

CONSTANTS p1, p2

(* A product of two segments and an empty one. *)
TwoAndNone == [p \in Product |-> IF p = p1 THEN 2 ELSE 0]

(* Product 9, the last before the indexes wrap, has two chunks of different *)
(* sizes.  It arrives in parts and may be deleted; the others come whole,  *)
(* and stay.                                                               *)
MCProdSize == [p \in Prod |-> IF p = 9 THEN 3 ELSE 2]
MCReceived == {9}

VARIABLE subject

suiteVars == <<subject, vars, prodMapVars, backlogVars>>

SuiteInit == subject \in {"repository", "backlog"} /\ Init /\ BacklogInit

Saving(A) == subject = "repository" /\ A /\ UNCHANGED <<subject, prodMapVars, backlogVars>>
Announcing(A) ==
    /\ subject = "backlog" /\ A
    /\ \A p \in DOMAIN prods' \ MCReceived : EntryIsComplete(prods'[p])
    /\ DOMAIN prods \ MCReceived \subseteq DOMAIN prods'
    /\ UNCHANGED <<subject, vars>>

SuiteNext == Saving(Next) \/ Announcing(BacklogNext)

SuiteSpec ==
    /\ SuiteInit /\ [][SuiteNext]_suiteVars
    /\ \A t \in Thread : WF_suiteVars(Saving(TestComplete(t) \/ Finish(t)))
    /\ WF_suiteVars(Saving(GetNextProd))

=============================================================================
