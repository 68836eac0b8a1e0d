------------------------------- MODULE Executor ------------------------------
(***************************************************************************)
(* Asynchronous jobs (main/misc): Completer, which queues the futures of   *)
(* completed jobs; Executor, which runs every job on a thread of its own;  *)
(* Task and Future, a job and its outcome; and Thread, which can be        *)
(* cancelled and joined.                                                   *)
(*                                                                         *)
(* An executor joins a completed thread only when the next one completes   *)
(* or a job is submitted.  A thread can be cancelled where the job's       *)
(* function allows it (Canceler), and nowhere else.  The executor's mutex  *)
(* is explicit, as threads are joined with it held; those of Task, Future, *)
(* Thread and FutureQueue are held for one step.                           *)
(***************************************************************************)
EXTENDS Lists

CONSTANTS Job, NoJob

ASSUME ExecutorAssumption == NoJob \notin Job

VARIABLES
    thread,     \* where each job's thread is
    ending,     \* how each job's function has ended
    future,     \* what each future has: a result, an exception, a cancellation
    skipped,    \* jobs cancelled before they started (Task::Impl::cancelCalled)
    signalled,  \* threads that pthread_cancel() was called on
    completed,  \* threads with State::completed
    joined,     \* threads with State::joined, which Thread::Impl::threads lacks
    tasks,      \* Executor::Impl::tasks
    doneThread, \* Executor::Impl::doneThreadId
    closed,     \* Executor::Impl::closed
    mutex,      \* the job or "user" that holds the executor's mutex, or NoJob
    user,       \* what the executor's user does, with which job and jobs
    canceler,   \* where the call of each future's cancel() is
    completedFutures,
    taken       \* futures that take() has returned

jobVars == <<thread, ending>>
stateVars == <<skipped, signalled, completed, joined>>
poolVars == <<tasks, doneThread, closed, mutex>>
queueVars == <<completedFutures, taken>>
execVars == <<jobVars, future, stateVars, poolVars, user, canceler, queueVars>>

(* "start": before Task's operator(); "run": in the job's function;        *)
(* "queue": in addFutureToQueue(); "set": before the future is set;        *)
(* "purge", "join": in purgeDoneThreadAndSaveThisThread(); "exit": before  *)
(* setCompletedAndNotify().                                                *)
ThreadAt == {"none", "start", "run", "queue", "set", "purge", "join", "exit", "ended"}

ExecTypeOK ==
    /\ thread \in [Job -> ThreadAt]
    /\ ending \in [Job -> {"none", "result", "exception", "canceled"}]
    /\ future \in [Job -> SUBSET {"result", "exception", "canceled"}]
    /\ skipped \subseteq Job /\ signalled \subseteq Job /\ completed \subseteq Job
    /\ joined \subseteq Job /\ tasks \subseteq Job
    /\ doneThread \in tasks \cup {NoJob}
    /\ closed \in BOOLEAN /\ mutex \in Job \cup {"user", NoJob}
    /\ user \in [at : {"idle", "submit", "cancelAll", "await", "join", "destroyed"},
                 job : Job \cup {NoJob}, left : SUBSET Job]
    /\ canceler \in [Job -> {"none", "stop", "thread", "mark", "ended", "threw", "dangling"}]
    /\ completedFutures \in Seq(Job) /\ taken \subseteq Job

ExecInit ==
    /\ thread = [j \in Job |-> "none"] /\ ending = [j \in Job |-> "none"]
    /\ future = [j \in Job |-> {}]
    /\ skipped = {} /\ signalled = {} /\ completed = {} /\ joined = {}
    /\ tasks = {} /\ doneThread = NoJob /\ closed = FALSE /\ mutex = NoJob
    /\ user = [at |-> "idle", job |-> NoJob, left |-> {}]
    /\ canceler = [j \in Job |-> "none"]
    /\ completedFutures = <<>> /\ taken = {}

-----------------------------------------------------------------------------
(* removeAndDestroyDoneThread(), with the mutex held: ~Thread() waits for  *)
(* the end of the thread that completed last.                              *)
DoneThreads == {doneThread} \ {NoJob}
CanJoinDone == \A j \in DoneThreads : thread[j] = "ended"
JoinedDone == joined \cup DoneThreads

(* submit(): submitTask() takes the mutex, ... *)
Submit(j) ==
    /\ user.at = "idle" /\ thread[j] = "none" /\ ~closed /\ mutex = NoJob
    /\ mutex' = "user" /\ user' = [user EXCEPT !.at = "submit", !.job = j]
    /\ UNCHANGED <<jobVars, future, stateVars, tasks, doneThread, closed, canceler, queueVars>>

(* ... destroys the thread that is done, and creates one for the job. *)
CreateThread ==
    /\ user.at = "submit" /\ CanJoinDone
    /\ joined' = JoinedDone
    /\ tasks' = (tasks \ {doneThread}) \cup {user.job} /\ doneThread' = NoJob
    /\ thread' = [thread EXCEPT ![user.job] = "start"]
    /\ mutex' = NoJob /\ user' = [user EXCEPT !.at = "idle", !.job = NoJob]
    /\ UNCHANGED <<ending, future, skipped, signalled, completed, closed, canceler, queueVars>>

-----------------------------------------------------------------------------
(* Task's operator(): a job that was cancelled is not started.  Its future *)
(* was set by cancel().                                                    *)
StartTask(j) ==
    /\ thread[j] = "start"
    /\ thread' = [thread EXCEPT ![j] = IF j \in skipped THEN "purge" ELSE "run"]
    /\ UNCHANGED <<ending, future, stateVars, poolVars, user, canceler, queueVars>>

(* The function returns, throws, or is at a cancellation-point. *)
EndFunction(j, how) ==
    /\ thread[j] = "run" /\ (how = "canceled" => j \in signalled)
    /\ thread' = [thread EXCEPT ![j] = "queue"] /\ ending' = [ending EXCEPT ![j] = how]
    /\ UNCHANGED <<future, stateVars, poolVars, user, canceler, queueVars>>

(* The clean-up of Completer's callable: getFuture() needs the executor's  *)
(* mutex.                                                                  *)
AddFutureToQueue(j) ==
    /\ thread[j] = "queue" /\ mutex = NoJob /\ j \in tasks
    /\ completedFutures' = Append(completedFutures, j)
    /\ thread' = [thread EXCEPT ![j] = "set"]
    /\ UNCHANGED <<ending, future, stateVars, poolVars, user, canceler, taken>>

(* setResult(), setException(), or markFutureCanceled(). *)
SetFuture(j) ==
    /\ thread[j] = "set"
    /\ future' = [future EXCEPT ![j] = @ \cup {ending[j]}]
    /\ thread' = [thread EXCEPT ![j] = "purge"]
    /\ UNCHANGED <<ending, stateVars, poolVars, user, canceler, queueVars>>

(* purgeDoneThreadAndSaveThisThread() takes the mutex, ... *)
Purge(j) ==
    /\ thread[j] = "purge" /\ mutex = NoJob
    /\ thread' = [thread EXCEPT ![j] = "join"] /\ mutex' = j
    /\ UNCHANGED <<ending, future, stateVars, tasks, doneThread, closed, user, canceler, queueVars>>

(* ... joins the thread that completed before, and takes its place. *)
SaveThisThread(j) ==
    /\ thread[j] = "join" /\ CanJoinDone
    /\ joined' = JoinedDone
    /\ tasks' = tasks \ {doneThread} /\ doneThread' = j
    /\ thread' = [thread EXCEPT ![j] = "exit"] /\ mutex' = NoJob
    /\ UNCHANGED <<ending, future, skipped, signalled, completed, closed, user, canceler, queueVars>>

EndThread(j) ==
    /\ thread[j] = "exit"
    /\ thread' = [thread EXCEPT ![j] = "ended"] /\ completed' = completed \cup {j}
    /\ UNCHANGED <<ending, future, skipped, signalled, joined, poolVars, user, canceler, queueVars>>

-----------------------------------------------------------------------------
(* Future's cancel() calls Task's, through a pointer, if the future is not *)
(* set.                                                                    *)
Cancel(j) ==
    /\ thread[j] # "none" /\ canceler[j] = "none" /\ future[j] = {}
    /\ canceler' = [canceler EXCEPT ![j] = "stop"]
    /\ UNCHANGED <<jobVars, future, stateVars, poolVars, user, queueVars>>

(* The thread and the executor keep the task. *)
TaskExists(j) == j \in tasks \/ thread[j] # "ended"

(* Task::Impl::haveThreadId *)
HasStarted(j) == thread[j] # "start" /\ j \notin skipped

(* Task's cancel(): a task that has not started never will.  Otherwise its *)
(* thread is cancelled, if it may be.                                      *)
CancelTask(j) ==
    /\ canceler[j] = "stop"
    /\ \/ /\ TaskExists(j) /\ HasStarted(j)
          /\ \E mayInterrupt \in BOOLEAN :
               canceler' = [canceler EXCEPT ![j] = IF mayInterrupt THEN "thread" ELSE "ended"]
          /\ UNCHANGED <<skipped, future>>
       \/ /\ TaskExists(j) /\ ~HasStarted(j)
          /\ skipped' = skipped \cup {j}
          /\ future' = [future EXCEPT ![j] = @ \cup {"canceled"}]
          /\ canceler' = [canceler EXCEPT ![j] = "ended"]
       \/ /\ ~TaskExists(j)
          /\ canceler' = [canceler EXCEPT ![j] = "dangling"]
          /\ UNCHANGED <<skipped, future>>
    /\ UNCHANGED <<jobVars, signalled, completed, joined, poolVars, user, queueVars>>

(* ensureCompleted() *)
Signalled(jobs) == signalled \cup (jobs \ completed)

(* Thread::cancel(threadId) throws if the thread was joined. *)
CancelThread(j) ==
    /\ canceler[j] = "thread"
    /\ IF j \in joined
       THEN /\ canceler' = [canceler EXCEPT ![j] = "threw"]
            /\ UNCHANGED <<signalled, completed>>
       ELSE /\ canceler' = [canceler EXCEPT ![j] = "mark"]
            /\ signalled' = Signalled({j}) /\ completed' = completed \cup {j}
    /\ UNCHANGED <<jobVars, future, skipped, joined, poolVars, user, queueVars>>

SetCanceled(j) ==
    /\ canceler[j] = "mark"
    /\ future' = [future EXCEPT ![j] = @ \cup {"canceled"}]
    /\ canceler' = [canceler EXCEPT ![j] = "ended"]
    /\ UNCHANGED <<jobVars, stateVars, poolVars, user, queueVars>>

-----------------------------------------------------------------------------
(* shutdown(mayInterrupt) *)
ShutDown(mayInterrupt) ==
    /\ user.at = "idle" /\ mutex = NoJob
    /\ closed' = TRUE
    /\ IF mayInterrupt
       THEN user' = [user EXCEPT !.at = "cancelAll", !.left = tasks] /\ mutex' = "user"
       ELSE user' = [user EXCEPT !.at = "await"] /\ UNCHANGED mutex
    /\ UNCHANGED <<jobVars, future, stateVars, tasks, doneThread, canceler, queueVars>>

(* Mutant of CancelAll: only tasks that have not started are cancelled. *)
SparesRunning(j) ==
    /\ user.at = "cancelAll" /\ j \in user.left
    /\ skipped' = IF HasStarted(j) THEN skipped ELSE skipped \cup {j}
    /\ future' = [future EXCEPT ![j] = @ \cup {"canceled"}]
    /\ user' = [user EXCEPT !.left = @ \ {j}]
    /\ UNCHANGED <<jobVars, signalled, completed, joined, poolVars, canceler, queueVars>>

(* cancelAll(): Task's cancel(), whether or not the task has completed. *)
CancelAll(j) ==
    /\ user.at = "cancelAll" /\ j \in user.left
    /\ IF HasStarted(j)
       THEN /\ signalled' = Signalled({j}) /\ completed' = completed \cup {j}
            /\ UNCHANGED skipped
       ELSE skipped' = skipped \cup {j} /\ UNCHANGED <<signalled, completed>>
    /\ future' = [future EXCEPT ![j] = @ \cup {"canceled"}]
    /\ user' = [user EXCEPT !.left = @ \ {j}]
    /\ UNCHANGED <<jobVars, joined, poolVars, canceler, queueVars>>

ReturnFromShutDown ==
    /\ user.at = "cancelAll" /\ user.left = {}
    /\ user' = [user EXCEPT !.at = "await"] /\ mutex' = NoJob
    /\ UNCHANGED <<jobVars, future, stateVars, tasks, doneThread, closed, canceler, queueVars>>

(* awaitTermination(): with one task left, its thread is joined with the   *)
(* mutex released.                                                         *)
AwaitTermination ==
    /\ user.at = "await" /\ mutex = NoJob /\ Cardinality(tasks) =< 1
    /\ user' = [user EXCEPT !.at = "join"]
    /\ UNCHANGED <<jobVars, future, stateVars, poolVars, canceler, queueVars>>

(* The destructor then destroys what is left. *)
DestroyExecutor ==
    /\ user.at = "join" /\ \A j \in tasks : thread[j] = "ended"
    /\ user' = [user EXCEPT !.at = "destroyed"]
    /\ joined' = joined \cup tasks /\ tasks' = {} /\ doneThread' = NoJob
    /\ UNCHANGED <<jobVars, future, skipped, signalled, completed, closed, mutex, canceler, queueVars>>

(* Completer's take() *)
TakeFuture ==
    /\ completedFutures # <<>>
    /\ taken' = taken \cup {Head(completedFutures)}
    /\ completedFutures' = Tail(completedFutures)
    /\ UNCHANGED <<jobVars, future, stateVars, poolVars, user, canceler>>

-----------------------------------------------------------------------------
(* A signalled thread comes to a cancellation-point. *)
ThreadStep(j) ==
    \/ StartTask(j) \/ EndFunction(j, "canceled") \/ AddFutureToQueue(j) \/ SetFuture(j)
    \/ Purge(j) \/ SaveThisThread(j) \/ EndThread(j)
CancelStep(j) == CancelTask(j) \/ CancelThread(j) \/ SetCanceled(j)
UserStep == CreateThread \/ ReturnFromShutDown \/ AwaitTermination \/ DestroyExecutor

ExecProgress ==
    \/ UserStep \/ TakeFuture
    \/ \E j \in Job : ThreadStep(j) \/ CancelStep(j) \/ CancelAll(j)

ExecNext ==
    \/ ExecProgress
    \/ \E j \in Job : \/ Submit(j) \/ Cancel(j)
                      \/ EndFunction(j, "result") \/ EndFunction(j, "exception")
    \/ \E mayInterrupt \in BOOLEAN : ShutDown(mayInterrupt)

ExecSpec == ExecInit /\ [][ExecNext]_execVars

-----------------------------------------------------------------------------
(* "Ensures that the number of completed but unjoined threads is one at    *)
(* most" (purgeDoneThreadAndSaveThisThread()), however many jobs complete  *)
(* while others are submitted and cancelled.                               *)
AtMostOneUnjoined ==
    Cardinality({j \in Job : thread[j] \in {"exit", "ended"} /\ j \notin joined}) =< 1

(* "assert(future.hasCompleted())" (~Task::Impl()): the future of a task   *)
(* that no longer exists is set, whichever way the task ended; otherwise   *)
(* getResult() would wait for ever.                                        *)
DestroyedTaskHasCompleted ==
    \A j \in Job : thread[j] # "none" /\ ~TaskExists(j) => future[j] # {}

(* An executor whose jobs may be interrupted comes to its end: nobody      *)
(* joins a thread with a mutex held that the thread needs.                 *)
ExecutorTerminates == (user.at = "cancelAll") ~> (user.at = "destroyed")

(* "The callable's future will also be returned by take(), eventually"     *)
(* (submit(), Completer.cpp), once the callable has ended.                 *)
EndedJobIsTaken == \A j \in Job : []<>(ending[j] = "none" \/ j \in taken)

(* Jobs come to their end, for the executor that waits for them and for    *)
(* the user that waits for their futures.                                  *)
JobsEnd == ExecutorTerminates /\ EndedJobIsTaken

-----------------------------------------------------------------------------
(* Statements of the documentation that do not hold. *)

(* "Cancels the task iff the task hasn't already completed" (cancel(),     *)
(* Future.cpp): the outcome of a future is final.  shutdown() also cancels *)
(* the task that has completed last.                                       *)
OutcomeIsFinal == [][\A j \in Job : future[j] # {} => future'[j] = future[j]]_execVars

(* "Returns the next completed future" (take(), Completer.cpp).  It is     *)
(* queued before its result is set.                                        *)
TakenHasCompleted == \A j \in taken : future[j] # {}

(* cancel() calls a task that exists.  Futures do not keep their task.     *)
CanceledTaskExists == \A j \in Job : canceler[j] # "dangling"

=============================================================================
