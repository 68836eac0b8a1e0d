----------------------------- MODULE MCUtilities -----------------------------
(***************************************************************************)
(* Instances of the parts that the rest is built on: the executor of       *)
(* asynchronous jobs, thread objects, the classes on which threads meet,   *)
(* the pool of servers, and the table of open files.  They share nothing,  *)
(* so a behaviour is one of the subject that its initial state chooses.    *)
(***************************************************************************)
EXTENDS Executor, Threads, Rendezvous, ServerPool, LinkedProdMap

VARIABLE subject

vars == <<subject, execVars, threadVars, meetVars, serverVars, files>>

SuiteInit ==
    /\ subject \in {"executor", "threads", "meeting", "pool", "map"}
    /\ ExecInit /\ ThreadsInit /\ MeetInit /\ PoolInit /\ Init
    /\ subject # "pool" => known = {}

Jobs(A) ==
    subject = "executor" /\ A /\ UNCHANGED <<subject, threadVars, meetVars, serverVars, files>>
Objects(A) ==
    subject = "threads" /\ A /\ UNCHANGED <<subject, execVars, meetVars, serverVars, files>>
Meeting(A) ==
    subject = "meeting" /\ A /\ UNCHANGED <<subject, execVars, threadVars, serverVars, files>>
Servers(A) ==
    subject = "pool" /\ A /\ UNCHANGED <<subject, execVars, threadVars, meetVars, files>>
Files(A) ==
    subject = "map" /\ A /\ UNCHANGED <<subject, execVars, threadVars, meetVars, serverVars>>

SuiteNext ==
    Jobs(ExecNext) \/ Objects(ThreadsNext) \/ Meeting(MeetNext) \/ Servers(PoolNext) \/ Files(Next)

FairSpec ==
    /\ SuiteInit /\ [][SuiteNext]_vars
    /\ WF_vars(Jobs(ExecProgress))
    /\ WF_vars(Objects(CanceledEnds)) /\ \A u \in ThreadUser : WF_vars(Objects(ThreadUserStep(u)))
    /\ \A t \in MeetThread : WF_vars(Meeting(TestStep(t)))
    /\ WF_vars(Servers(ConnectorStep)) /\ WF_vars(Servers(PoolTick))

=============================================================================
