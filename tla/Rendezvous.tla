----------------------------- MODULE Rendezvous ------------------------------
(***************************************************************************)
(* Three small classes on whose condition variable threads meet: SyncQueue *)
(* (main/misc/SyncQueue.h), Promise (main/misc/Promise.cpp) and Cue        *)
(* (main/misc/Thread.cpp).  A thread that waits is woken by a notification *)
(* or for no reason, and tests its condition again.                        *)
(***************************************************************************)
EXTENDS Naturals, Sequences

CONSTANTS
    Producer, Consumer, \* threads that call push(), and pop()
    Getter,             \* threads that wait for the promise
    Cued,               \* threads that wait for the cue
    MaxPushes           \* how often a producer calls push()

ASSUME RendezvousAssumption == MaxPushes \in Nat

VARIABLES
    obj, haveObj,  \* of the SyncQueue; the object is the number of the push
    pushes,        \* calls of push() that have begun, of each producer
    pushed, popped,
    promise,       \* what the promise has: results, exceptions, cancellation
    cued,          \* Cue::Impl::cued
    calling,       \* threads in push(), pop(), checkResult() or wait()
    waiting,       \* those of them that are blocked on the condition variable
    answer         \* what checkResult() found

syncVars == <<obj, haveObj, pushes, pushed, popped>>
promiseVars == <<promise, answer>>
meetVars == <<syncVars, promiseVars, cued, calling, waiting>>

MeetInit ==
    /\ obj = <<>> /\ haveObj = FALSE /\ pushes = [p \in Producer |-> 0]
    /\ pushed = <<>> /\ popped = <<>>
    /\ promise = {} /\ answer = [g \in Getter |-> "none"] /\ cued = FALSE
    /\ calling = {} /\ waiting = {}

(* notify_one() and notify_all(), for the threads that wait for an object. *)
NotifyOne(threads) ==
    IF waiting \cap threads = {} THEN waiting' = waiting
    ELSE \E t \in waiting \cap threads : waiting' = waiting \ {t}
NotifyAll(threads) == waiting' = waiting \ threads

Tests(t) == t \in calling \ waiting
Blocks(t) == waiting' = waiting \cup {t} /\ UNCHANGED calling

Wakeup(t) ==
    /\ t \in waiting /\ waiting' = waiting \ {t}
    /\ UNCHANGED <<syncVars, promiseVars, cued, calling>>

-----------------------------------------------------------------------------
CallPush(p) ==
    /\ p \notin calling /\ pushes[p] < MaxPushes
    /\ pushes' = [pushes EXCEPT ![p] = @ + 1] /\ calling' = calling \cup {p}
    /\ UNCHANGED <<obj, haveObj, pushed, popped, promiseVars, cued, waiting>>

Push(p) ==
    /\ Tests(p)
    /\ IF haveObj THEN Blocks(p) /\ UNCHANGED <<obj, haveObj, pushed>>
       ELSE /\ obj' = <<p, pushes[p]>> /\ haveObj' = TRUE
            /\ pushed' = Append(pushed, <<p, pushes[p]>>)
            /\ NotifyOne(Producer \cup Consumer) /\ calling' = calling \ {p}
    /\ UNCHANGED <<pushes, popped, promiseVars, cued>>

CallPop(c) ==
    /\ c \notin calling /\ calling' = calling \cup {c}
    /\ UNCHANGED <<syncVars, promiseVars, cued, waiting>>

Pop(c) ==
    /\ Tests(c)
    /\ IF ~haveObj THEN Blocks(c) /\ UNCHANGED <<haveObj, popped>>
       ELSE /\ haveObj' = FALSE /\ popped' = Append(popped, obj)
            /\ NotifyOne(Producer \cup Consumer) /\ calling' = calling \ {c}
    /\ UNCHANGED <<obj, pushes, pushed, promiseVars, cued>>

-----------------------------------------------------------------------------
(* markResult(), setException() and markCanceled() do not exclude one      *)
(* another.                                                                *)
SetPromise(what) ==
    /\ what \notin promise /\ promise' = promise \cup {what}
    /\ NotifyOne(Getter)
    /\ UNCHANGED <<syncVars, answer, cued, calling>>

CallGet(g) ==
    /\ g \notin calling /\ answer[g] = "none" /\ calling' = calling \cup {g}
    /\ UNCHANGED <<syncVars, promiseVars, cued, waiting>>

(* checkResult() *)
CheckResult(g) ==
    /\ Tests(g)
    /\ IF promise = {} THEN Blocks(g) /\ UNCHANGED answer
       ELSE /\ answer' = [answer EXCEPT ![g] =
                    CASE "exception" \in promise -> "exception"
                      [] promise \cap {"exception", "canceled"} = {"canceled"} -> "canceled"
                      [] OTHER -> "result"]
            /\ calling' = calling \ {g} /\ UNCHANGED waiting
    /\ UNCHANGED <<syncVars, promise, cued>>

-----------------------------------------------------------------------------
(* Mutant of CueThreads: only one thread is notified. *)
CuesOne ==
    /\ ~cued /\ cued' = TRUE /\ NotifyOne(Cued)
    /\ UNCHANGED <<syncVars, promiseVars, calling>>

(* Cue::Impl::cue() and wait() *)
CueThreads ==
    /\ ~cued /\ cued' = TRUE /\ NotifyAll(Cued)
    /\ UNCHANGED <<syncVars, promiseVars, calling>>

CallWait(t) ==
    /\ t \notin calling /\ ~cued /\ calling' = calling \cup {t}
    /\ UNCHANGED <<syncVars, promiseVars, cued, waiting>>

AwaitCue(t) ==
    /\ Tests(t)
    /\ IF cued THEN calling' = calling \ {t} /\ UNCHANGED waiting ELSE Blocks(t)
    /\ UNCHANGED <<syncVars, promiseVars, cued>>

TestStep(t) ==
    \/ (t \in Producer /\ Push(t))
    \/ (t \in Consumer /\ Pop(t))
    \/ (t \in Getter /\ CheckResult(t))
    \/ (t \in Cued /\ AwaitCue(t))
MeetThread == Producer \cup Consumer \cup Getter \cup Cued
MeetNext ==
    \/ \E p \in Producer : CallPush(p)
    \/ \E c \in Consumer : CallPop(c)
    \/ \E g \in Getter : CallGet(g)
    \/ \E t \in Cued : CallWait(t)
    \/ CueThreads \/ \E what \in {"result", "exception", "canceled"} : SetPromise(what)
    \/ \E t \in MeetThread : TestStep(t) \/ Wakeup(t)

MeetSpec == MeetInit /\ [][MeetNext]_meetVars

-----------------------------------------------------------------------------
(* Objects are taken in the order in which they were handed over, one at a *)
(* time and none twice.                                                    *)
PoppedInOrder ==
    /\ Len(popped) =< Len(pushed) /\ popped = SubSeq(pushed, 1, Len(popped))
    /\ Len(pushed) - Len(popped) =< 1

(* No notification is lost: a thread does not sleep while there is what it *)
(* waits for.                                                              *)
NoLostWakeup ==
    /\ haveObj => waiting \cap Consumer = {}
    /\ ~haveObj => waiting \cap Producer = {}
    /\ promise # {} => waiting \cap Getter = {}
    /\ cued => waiting \cap Cued = {}

(* Nobody is in push() for ever while there is a thread in pop(), without  *)
(* spurious wakeups too.                                                   *)
PushEnds == \A p \in Producer : []<>(p \in calling => calling \cap Consumer = {})

(* No thread waits for ever for a promise that has been kept, or broken.   *)
GetterGoesOn == \A g \in Getter : []<>(g \in calling => promise = {})

(* Nor does one wait for a cue that has been given. *)
CuedGoesOn == []<>(cued => calling \cap Cued = {})

(* No thread that has what it waits for sleeps on: push() and pop() of     *)
(* SyncQueue, checkResult() of Promise and wait() of Cue.                  *)
NobodySleepsOn == PushEnds /\ GetterGoesOn /\ CuedGoesOn

=============================================================================
