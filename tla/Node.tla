-------------------------------- MODULE Node ---------------------------------
(***************************************************************************)
(* The life of a node, Publisher or Subscriber (main/node/Node.cpp), from  *)
(* operator() to its destruction.                                          *)
(*                                                                         *)
(* A publisher starts the peer-to-peer manager and then its sender; a      *)
(* subscriber starts its multicast receiver and then the manager.  Each is *)
(* stopped and joined in the reverse order, also if the next one could not *)
(* be started.  A thread of the node fails on its own, or ends once it is  *)
(* halted or cancelled; what it does until then is in the other modules.   *)
(***************************************************************************)
EXTENDS Sequences, Naturals

CONSTANTS Publishers, Subscribers  \* nodes

ASSUME NodeAssumption == Publishers \cap Subscribers = {}

Nodes == Publishers \cup Subscribers

(* The threads of a node, in the order in which they are started. *)
Started(n) == IF n \in Publishers THEN <<"p2pMgr", "sender">> ELSE <<"mcastRcvr", "p2pMgr">>
Subtask == {"p2pMgr", "sender", "mcastRcvr"}

VARIABLES
    main,       \* where the thread is that executes operator()
    joinable,   \* how many threads were started and not joined
    subtask,    \* what each thread does
    stopping,   \* threads that were halted or cancelled
    exPtr,      \* Node::Impl::exPtr is set
    done,       \* Node::Impl::done
    throws      \* operator() is going to throw, or has thrown

nodeVars == <<main, joinable, subtask, stopping, exPtr, done, throws>>

NodeTypeOK ==
    /\ main \in [Nodes -> {"start", "wait", "stop", "join", "returned", "destroyed"}]
    /\ joinable \in [Nodes -> 0..2]
    /\ subtask \in [Nodes -> [Subtask -> {"none", "runs", "fails", "ended"}]]
    /\ stopping \in [Nodes -> SUBSET Subtask]
    /\ exPtr \in [Nodes -> BOOLEAN] /\ done \in [Nodes -> BOOLEAN]
    /\ throws \in [Nodes -> BOOLEAN]

NodeInit ==
    /\ main = [n \in Nodes |-> "start"]
    /\ joinable = [n \in Nodes |-> 0]
    /\ subtask = [n \in Nodes |-> [t \in Subtask |-> "none"]]
    /\ stopping = [n \in Nodes |-> {}]
    /\ exPtr = [n \in Nodes |-> FALSE] /\ done = [n \in Nodes |-> FALSE]
    /\ throws = [n \in Nodes |-> FALSE]

(* The thread that was started last and is not joined. *)
Last(n) == Started(n)[joinable[n]]

-----------------------------------------------------------------------------
(* operator(): startP2pMgr(), startSender() and startMcastRcvr(). *)
StartThread(n) ==
    LET t == Started(n)[joinable[n] + 1] IN
    /\ main[n] = "start"
    /\ subtask' = [subtask EXCEPT ![n][t] = "runs"]
    /\ joinable' = [joinable EXCEPT ![n] = @ + 1]
    /\ main' = [main EXCEPT ![n] = IF joinable[n] = 1 THEN "wait" ELSE @]
    /\ UNCHANGED <<stopping, exPtr, done, throws>>

(* The constructor of std::thread throws. *)
CannotStart(n) ==
    /\ main[n] = "start"
    /\ main' = [main EXCEPT ![n] = IF joinable[n] = 0 THEN "returned" ELSE "stop"]
    /\ throws' = [throws EXCEPT ![n] = TRUE]
    /\ UNCHANGED <<joinable, subtask, stopping, exPtr, done>>

WaitUntilDone(n) ==
    /\ main[n] = "wait" /\ (done[n] \/ exPtr[n])
    /\ main' = [main EXCEPT ![n] = "stop"]
    /\ throws' = [throws EXCEPT ![n] = ~done[n]]
    /\ UNCHANGED <<joinable, subtask, stopping, exPtr, done>>

(* stopSender(), stopP2pMgr() and stopMcastRcvr(): cancel or halt, ... *)
StopThread(n) ==
    /\ main[n] = "stop"
    /\ stopping' = [stopping EXCEPT ![n] = @ \cup {Last(n)}]
    /\ main' = [main EXCEPT ![n] = "join"]
    /\ UNCHANGED <<joinable, subtask, exPtr, done, throws>>

(* ... and join(). *)
JoinThread(n) ==
    /\ main[n] = "join" /\ subtask[n][Last(n)] = "ended"
    /\ joinable' = [joinable EXCEPT ![n] = @ - 1]
    /\ main' = [main EXCEPT ![n] = IF joinable[n] = 1 THEN "returned" ELSE "stop"]
    /\ UNCHANGED <<subtask, stopping, exPtr, done, throws>>

(* The destructors take the mutex and join what is joinable. *)
DestroyNode(n) ==
    /\ main[n] = "returned"
    /\ main' = [main EXCEPT ![n] = "destroyed"]
    /\ UNCHANGED <<joinable, subtask, stopping, exPtr, done, throws>>

HaltNode(n) ==
    /\ main[n] \notin {"returned", "destroyed"} /\ ~done[n]
    /\ done' = [done EXCEPT ![n] = TRUE]
    /\ UNCHANGED <<main, joinable, subtask, stopping, exPtr, throws>>

-----------------------------------------------------------------------------
(* runP2p(), runSender() and runMcast(): what is called throws, ... *)
SubtaskThrows(n, t) ==
    /\ subtask[n][t] = "runs"
    /\ subtask' = [subtask EXCEPT ![n][t] = "fails"]
    /\ UNCHANGED <<main, joinable, stopping, exPtr, done, throws>>

(* Mutant of SetException: nothing is told if the node has been halted. *)
NeedsTheNode(n, t) ==
    /\ subtask[n][t] = "fails" /\ main[n] \in {"start", "wait"}
    /\ exPtr' = [exPtr EXCEPT ![n] = TRUE]
    /\ subtask' = [subtask EXCEPT ![n][t] = "ended"]
    /\ UNCHANGED <<main, joinable, stopping, done, throws>>

(* ... and setException() keeps the first exception. *)
SetException(n, t) ==
    /\ subtask[n][t] = "fails"
    /\ exPtr' = [exPtr EXCEPT ![n] = TRUE]
    /\ subtask' = [subtask EXCEPT ![n][t] = "ended"]
    /\ UNCHANGED <<main, joinable, stopping, done, throws>>

(* The manager and the receiver return once they are halted, and the       *)
(* sender is cancelled in a system call.  The receiver also returns if it  *)
(* gets a packet that is too small, and nobody is told.                    *)
SubtaskReturns(n, t) ==
    /\ subtask[n][t] = "runs" /\ (t \in stopping[n] \/ t = "mcastRcvr")
    /\ subtask' = [subtask EXCEPT ![n][t] = "ended"]
    /\ UNCHANGED <<main, joinable, stopping, exPtr, done, throws>>

SubtaskStep(n, t) == SetException(n, t) \/ (t \in stopping[n] /\ SubtaskReturns(n, t))
MainStep(n) ==
    \/ StartThread(n) \/ CannotStart(n) \/ WaitUntilDone(n) \/ StopThread(n) \/ JoinThread(n)

NodeProgress == \E n \in Nodes : MainStep(n) \/ \E t \in Subtask : SubtaskStep(n, t)

NodeNext ==
    \/ NodeProgress
    \/ \E n \in Nodes : \/ HaltNode(n) \/ DestroyNode(n)
                        \/ \E t \in Subtask : SubtaskThrows(n, t) \/ SubtaskReturns(n, t)

NodeSpec == NodeInit /\ [][NodeNext]_nodeVars

-----------------------------------------------------------------------------
(* When a node is destroyed its threads have ended and been joined, even   *)
(* if one of them could not be started: the destructors, which join with   *)
(* the mutex held that setException() needs, have nothing left to do.      *)
ThreadsEndWithNode ==
    \A n \in Nodes : main[n] \in {"returned", "destroyed"} =>
        joinable[n] = 0 /\ \A t \in Subtask : subtask[n][t] \in {"none", "ended"}

(* "Doesn't return until either `halt()` is called or an exception is      *)
(* thrown": operator() throws if and only if something failed before the   *)
(* node was halted.                                                        *)
ReturnsIfHalted ==
    \A n \in Nodes : main[n] = "returned" =>
        /\ throws[n] \/ done[n]
        /\ throws[n] => exPtr[n] \/ \E t \in {Started(n)[1], Started(n)[2]} : subtask[n][t] = "none"

(* A node that is halted, or one of whose threads fails, comes to its end, *)
(* whatever the others are doing.                                          *)
NodeEnds ==
    \A n \in Nodes :
        (done[n] \/ \E t \in Subtask : subtask[n][t] = "fails")
        ~> (main[n] \in {"returned", "destroyed"})

=============================================================================
