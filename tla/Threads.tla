------------------------------- MODULE Threads -------------------------------
(***************************************************************************)
(* Thread objects (main/misc/Thread.cpp, main/misc/Thread.h): constructed, *)
(* cancelled, joined and destroyed by several users, and listed in         *)
(* Thread::Impl::threads by the identifiers that the operating system      *)
(* gives them, which it uses again once a thread has been joined.          *)
(***************************************************************************)
EXTENDS Integers, FiniteSets

CONSTANTS
    Thread,   \* Thread objects
    ThreadUser,     \* threads-of-execution that use them
    Tid,      \* identifiers of threads-of-execution
    NoThread,
    NoTid

ASSUME ThreadsAssumption == NoThread \notin Thread /\ NoTid \notin Tid

VARIABLES
    os,       \* the thread-of-execution of each object
    tid,      \* its identifier
    state,    \* Thread::Impl::state
    index,    \* Thread::Impl::threadIndex
    canceled, \* objects on which pthread_cancel() was called
    listed,   \* ThreadMap::threads: the object of an identifier
    used,     \* ThreadMap::threadIndexes that are true
    doing,     \* what each user does, to which object, and why it joins
    lost,     \* objects whose joiner was cancelled
    reused    \* an identifier was listed again before it was erased

objVars == <<os, tid, state, index, canceled>>
mapVars == <<listed, used, reused>>
threadVars == <<objVars, mapVars, doing, lost>>

Doing(at, thr, last) == [at |-> at, thr |-> thr, last |-> last]
Idle == Doing("idle", NoThread, FALSE)

ThreadsInit ==
    /\ os = [t \in Thread |-> "none"] /\ tid = [t \in Thread |-> NoTid]
    /\ state = [t \in Thread |-> {}] /\ index = [t \in Thread |-> -1]
    /\ canceled = {} /\ listed = [id \in Tid |-> NoThread] /\ used = {}
    /\ doing = [u \in ThreadUser |-> Idle] /\ lost = {} /\ reused = FALSE

Constructed(t) == os[t] # "none" /\ \A u \in ThreadUser : doing[u].thr = t => doing[u].at # "adding"
Usable(t) ==
    /\ Constructed(t) /\ os[t] # "destroyed"
    /\ \A u \in ThreadUser : ~(doing[u].thr = t /\ doing[u].last)

-----------------------------------------------------------------------------
(* Impl(): the thread-of-execution is created and passes the barrier, ...  *)
Construct(u, t) ==
    /\ doing[u] = Idle /\ os[t] = "none"
    /\ \E id \in Tid :
         /\ \A s \in Thread : os[s] \in {"running", "ended"} => tid[s] # id
         /\ tid' = [tid EXCEPT ![t] = id]
    /\ os' = [os EXCEPT ![t] = "running"]
    /\ doing' = [doing EXCEPT ![u] = Doing("adding", t, FALSE)]
    /\ UNCHANGED <<state, index, canceled, mapVars, lost>>

Lowest(nums) == CHOOSE n \in 0..Cardinality(nums) : n \notin nums /\ \A k \in 0..(n - 1) : k \in nums

(* ... and ThreadMap::add() lists it, under an identifier that it asserts  *)
(* is not listed; the build may leave out the assertion.                   *)
AddThread(u) ==
    LET t == doing[u].thr
        num == Lowest(used) IN
    /\ doing[u].at = "adding"
    /\ index' = [index EXCEPT ![t] = num] /\ used' = used \cup {num}
    /\ listed' = [listed EXCEPT ![tid[t]] = t]
    /\ reused' = (reused \/ listed[tid[t]] # NoThread)
    /\ doing' = [doing EXCEPT ![u] = Idle]
    /\ UNCHANGED <<os, tid, state, canceled, lost>>

(* The callable returns or throws, or reaches a cancellation point; the    *)
(* cleanup routine setCompletedAndNotify() sets the state.                 *)
EndCallable(t) ==
    /\ os[t] = "running"
    /\ os' = [os EXCEPT ![t] = "ended"] /\ state' = [state EXCEPT ![t] = @ \cup {"completed"}]
    /\ UNCHANGED <<tid, index, canceled, mapVars, doing, lost>>

(* ensureCompleted() *)
EnsureCompleted(t) ==
    IF "completed" \in state[t] THEN UNCHANGED <<canceled, state>>
    ELSE canceled' = canceled \cup {<<t, os[t]>>} /\ state' = [state EXCEPT ![t] = @ \cup {"completed"}]

CallCancel(u, t) ==
    /\ doing[u] = Idle /\ Usable(t)
    /\ EnsureCompleted(t)
    /\ UNCHANGED <<os, tid, index, mapVars, doing, lost>>

(* cancel(threadId): ThreadMap::get() returns a pointer to the object and  *)
(* releases the list; nothing keeps the object until it is used.           *)
FindThread(u, id) ==
    /\ doing[u] = Idle /\ listed[id] # NoThread
    /\ doing' = [doing EXCEPT ![u] = Doing("found", listed[id], FALSE)]
    /\ UNCHANGED <<objVars, mapVars, lost>>

CancelFound(u) ==
    LET t == doing[u].thr IN
    /\ doing[u].at = "found"
    /\ IF os[t] = "destroyed"
       THEN /\ doing' = [doing EXCEPT ![u] = Doing("undefined", NoThread, FALSE)]
            /\ UNCHANGED <<canceled, state>>
       ELSE EnsureCompleted(t) /\ doing' = [doing EXCEPT ![u] = Idle]
    /\ UNCHANGED <<os, tid, index, mapVars, lost>>

-----------------------------------------------------------------------------
(* Mutant of EnsureJoined: two users may join. *)
JoinsAnyway(u, t, last) ==
    IF "joined" \in state[t]
    THEN doing' = [doing EXCEPT ![u] = Doing("joined", t, last)] /\ UNCHANGED state
    ELSE /\ state' = [state EXCEPT ![t] = @ \cup {"beingJoined"}]
         /\ doing' = [doing EXCEPT ![u] = Doing("joining", t, last)]

(* ensureJoined(): one user joins, and the others wait for it. *)
EnsureJoined(u, t, last) ==
    IF "joined" \in state[t] \/ "beingJoined" \in state[t]
    THEN doing' = [doing EXCEPT ![u] = Doing("waiting", t, last)] /\ UNCHANGED state
    ELSE /\ state' = [state EXCEPT ![t] = @ \cup {"beingJoined"}]
         /\ doing' = [doing EXCEPT ![u] = Doing("joining", t, last)]

JoinThread(u, t) ==
    /\ doing[u] = Idle /\ Usable(t)
    /\ EnsureJoined(u, t, FALSE)
    /\ UNCHANGED <<os, tid, index, canceled, mapVars, lost>>

(* privateJoin(), with the mutex unlocked: std::thread::join() ... *)
JoinReturns(u) ==
    LET t == doing[u].thr IN
    /\ doing[u].at = "joining" /\ os[t] = "ended"
    /\ os' = [os EXCEPT ![t] = "joined"]
    /\ doing' = [doing EXCEPT ![u].at = "erasing"]
    /\ UNCHANGED <<tid, state, index, canceled, mapVars, lost>>

(* ... and ThreadMap::erase(), with the identifier from before. *)
EraseThread(u) ==
    LET id == tid[doing[u].thr] IN
    /\ doing[u].at = "erasing"
    /\ IF listed[id] = NoThread THEN UNCHANGED <<listed, used>>
       ELSE used' = used \ {index[listed[id]]} /\ listed' = [listed EXCEPT ![id] = NoThread]
    /\ doing' = [doing EXCEPT ![u].at = "erased"]
    /\ UNCHANGED <<objVars, reused, lost>>

(* setJoined() *)
SetJoined(u) ==
    LET t == doing[u].thr IN
    /\ doing[u].at = "erased"
    /\ state' = [state EXCEPT ![t] = @ \cup {"joined"}]
    /\ doing' = [doing EXCEPT ![u].at = "joined"]
    /\ UNCHANGED <<os, tid, index, canceled, mapVars, lost>>

WaitReturns(u) ==
    /\ doing[u].at = "waiting" /\ "joined" \in state[doing[u].thr]
    /\ doing' = [doing EXCEPT ![u].at = "joined"]
    /\ UNCHANGED <<objVars, mapVars, lost>>

(* join() or the destructor returns. *)
EndJoin(u) ==
    /\ doing[u].at = "joined"
    /\ os' = IF doing[u].last THEN [os EXCEPT ![doing[u].thr] = "destroyed"] ELSE os
    /\ doing' = [doing EXCEPT ![u] = Idle]
    /\ UNCHANGED <<tid, state, index, canceled, mapVars, lost>>

(* A user is cancelled while it joins: clearBeingJoined(). *)
CancelJoiner(u) ==
    LET t == doing[u].thr IN
    /\ doing[u].at = "joining" /\ ~doing[u].last /\ lost = {}
    /\ lost' = {t} /\ state' = [state EXCEPT ![t] = @ \ {"beingJoined"}]
    /\ doing' = [doing EXCEPT ![u] = Doing("canceled", NoThread, FALSE)]
    /\ UNCHANGED <<os, tid, index, canceled, mapVars>>

(* ~Impl(), when the last owner lets go of the object. *)
DestroyThread(u, t) ==
    /\ doing[u] = Idle /\ Usable(t)
    /\ \A v \in ThreadUser : doing[v].thr = t => doing[v].at = "found"
    /\ EnsureCompleted(t)
    /\ doing' = [doing EXCEPT ![u] = Doing("destroying", t, TRUE)]
    /\ UNCHANGED <<os, tid, index, mapVars, lost>>

DestructorJoins(u) ==
    /\ doing[u].at = "destroying" /\ EnsureJoined(u, doing[u].thr, TRUE)
    /\ UNCHANGED <<os, tid, index, canceled, mapVars, lost>>

(* A callable of which nobody has asked to end may go on for ever. *)
CanceledEnds == \E t \in Thread : <<t, "running">> \in canceled /\ EndCallable(t)
ThreadUserStep(u) ==
    \/ AddThread(u) \/ JoinReturns(u) \/ EraseThread(u) \/ SetJoined(u)
    \/ WaitReturns(u) \/ EndJoin(u) \/ DestructorJoins(u)
    \/ CancelFound(u)
ThreadsNext ==
    \/ \E u \in ThreadUser : ThreadUserStep(u) \/ CancelJoiner(u)
    \/ \E u \in ThreadUser, t \in Thread :
          Construct(u, t) \/ CallCancel(u, t) \/ JoinThread(u, t) \/ DestroyThread(u, t)
    \/ \E u \in ThreadUser, id \in Tid : FindThread(u, id)
    \/ \E t \in Thread : EndCallable(t)

ThreadsSpec == ThreadsInit /\ [][ThreadsNext]_threadVars

-----------------------------------------------------------------------------
(* A thread-of-execution is cancelled while it exists, although completed, *)
(* joined and being joined are told apart by flags that other threads set. *)
OnlyLiveIsCanceled == \A c \in canceled : c[2] \in {"running", "ended"}

(* No two users join the same thread-of-execution. *)
OneJoiner ==
    \A u, v \in ThreadUser :
        (u # v /\ doing[u].thr = doing[v].thr /\ doing[u].thr # NoThread) =>
            ~ {doing[u].at, doing[v].at} \subseteq {"joining", "erasing", "erased"}

(* Exactly the threads that are constructed and not yet joined are listed, *)
(* with different indexes, and the other indexes can be used again; unless *)
(* the operating system has reused an identifier before it was erased.     *)
ListIsExact ==
    LET live == {t \in Thread : Constructed(t) /\ os[t] \in {"running", "ended"}}
        gone == {doing[u].thr : u \in {v \in ThreadUser : doing[v].at = "erasing"}} IN
    reused \/
        /\ {listed[id] : id \in Tid} \ {NoThread} = live \cup gone
        /\ \A s, t \in live \cup gone : s # t => index[s] # index[t]
        /\ used = {index[t] : t \in live \cup gone}

(* However the users of thread objects mix, they cancel and join what they *)
(* may, and the list follows (Thread.cpp).                                 *)
ThreadsInv == OnlyLiveIsCanceled /\ OneJoiner /\ ListIsExact

(* Everybody who joins or destroys a thread that was cancelled returns, if *)
(* no joiner was itself cancelled: nobody joins, or waits, for ever.       *)
JoinEnds ==
    \A u \in ThreadUser :
        []<>(doing[u].thr \in {c[1] : c \in canceled} => doing[u].at = "idle" \/ lost # {})

(* Statements that do not hold. *)

(* A thread has an entry until it is joined, and an index of its own.      *)
LiveIsListed ==
    \A t \in Thread : Constructed(t) /\ os[t] = "running" => listed[tid[t]] = t

(* The object that cancel(threadId) finds exists until it is cancelled.    *)
FoundThreadExists == \A u \in ThreadUser : doing[u].at # "undefined"

(* "Joins the thread": a user that waits is not left by a joiner that was  *)
(* cancelled.                                                              *)
WaiterReturns ==
    \A u \in ThreadUser :
        (doing[u].at = "waiting" /\ os[doing[u].thr] = "ended") ~> (doing[u].at = "idle")

=============================================================================
