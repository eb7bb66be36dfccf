---------------------------- MODULE RamIOService ----------------------------
(***************************************************************************)
(* The RAM I/O service (src/utils/io.cpp): one service thread that sorts   *)
(* and loads tasks, the threads that own request objects, and one thread   *)
(* that controls the service (drain, stop, run, set_sleep_time, destroy).  *)
(*                                                                         *)
(* The owner thread of every request object is identified with the object. *)
(* Code between optionalLock() and optionalUnlock() is one action of the   *)
(* owner threads; the service thread holds taskMutex while pc is "cancel"  *)
(* or "cancelnotify".  Atomic variables are read and written in the order  *)
(* of the code; setTaskStatus stores the status first and runs the         *)
(* callback afterwards, so the two are separate steps of the service.      *)
(***************************************************************************)
EXTENDS Integers, Sequences, SequencesExt

CONSTANTS
    Req,        \* request objects, each with the thread that owns it
    NoReq,      \* no request: `current` before the first task
    Priorities, \* ranks of <priority, sub_priority>; a greater one is more urgent
    Lockless,   \* desc->lockless
    SortMethod, \* desc->sort_method
    SleepMode,  \* desc->sleep_mode
    SleepTimes, \* values of desc->sleep_time and of set_sleep_time()
    Controls,   \* the calls the controlling thread makes
    MaxRounds   \* bound: how often a request object is submitted

ASSUME ConstAssumption ==
    /\ NoReq \notin Req
    /\ Priorities \subseteq Int /\ Priorities # {}
    /\ Lockless \in BOOLEAN
    /\ SortMethod \in {"NEVER", "STABLE", "PARTIAL"}
    /\ SleepMode \in {"COND_VAR", "SLEEP"}
    /\ SleepTimes \subseteq {"ZERO", "FINITE", "MAX"} /\ SleepTimes # {}
    /\ Controls \subseteq {"set_sleep_time", "drain", "stop", "run", "destroy"}
    /\ MaxRounds \in Nat

VARIABLES
    \* the service thread
    pc, scan, current, sleepVal,
    \* the request whose terminal callback the service thread is about to run
    notifying,
    \* the members of RAMServiceImpl
    tasks, task_requests, running, thread, sleepTime,
    \* the members of each skr_async_io_request_t, and its buffer
    status, request_cancel, loaded,
    \* the Task made by the last request() for the object, and the place of
    \* that request() among all of them
    prio, ticket, clock,
    \* the owner threads: where they are, the result of their last
    \* try_cancel, how often they submitted
    cpc, cancelled, round,
    \* terminal callbacks (OK or CANCELLED) that have run for the object
    ends,
    \* the controlling thread, and the submitted requests that were not
    \* collected when it called drain
    ctl, drainSet

serviceVars == <<pc, scan, current, sleepVal, notifying>>
queueVars   == <<tasks, task_requests>>
atomicVars  == <<running, thread, sleepTime>>
objectVars  == <<status, request_cancel, loaded, ends>>
taskVars    == <<round, prio, ticket, clock>>
ownerVars   == <<cpc, cancelled, taskVars>>
ctlVars     == <<ctl, drainSet>>
\* everything but pc
restVars == <<scan, current, sleepVal, notifying, queueVars, atomicVars, objectVars,
              ownerVars, ctlVars>>
vars == <<serviceVars, queueVars, atomicVars, objectVars, ownerVars, ctlVars>>

Statuses == {"OK", "ENQUEUED", "CANCELLED", "RAM_LOADING"}
Terminal == {"OK", "CANCELLED"}

ServicePcs == {"top", "spin", "execute", "cancel", "cancelnotify", "unlocked", "presleep",
               "asleep", "loading", "reading", "finishing", "notify", "exited"}
LoadPcs == {"loading", "reading", "finishing"}
OwnerPcs == {"idle", "setstatus", "resetcancel", "wake", "waiting", "trycancel"}
\* The controlling thread spins in drain() at these places.
DrainPcs == {"drain", "stopdrain", "destroydrain"}
\* destroy() has been called.
DestroyPcs == {"destroydrain", "setquit", "join", "destroyed"}
CtlPcs == {"idle", "setsuspend"} \cup DrainPcs \cup DestroyPcs

\* A member of a zero-initialised request reads as SKR_ASYNC_IO_STATUS_OK.
Init ==
    /\ pc = "top" /\ scan = 1 /\ current = NoReq /\ notifying = NoReq
    /\ sleepVal \in SleepTimes
    /\ tasks = <<>> /\ task_requests = <<>>
    /\ running = "RUNNING" /\ thread = "RUNNING" /\ sleepTime = sleepVal
    /\ status = [r \in Req |-> "OK"]
    /\ request_cancel = [r \in Req |-> FALSE]
    /\ loaded = [r \in Req |-> FALSE]
    /\ prio = [r \in Req |-> CHOOSE p \in Priorities : TRUE]
    /\ ticket = [r \in Req |-> 0] /\ clock = 0
    /\ cpc = [r \in Req |-> "idle"]
    /\ cancelled = [r \in Req |-> "none"]
    /\ round = [r \in Req |-> 0]
    /\ ends = [r \in Req |-> 0]
    /\ ctl = "idle" /\ drainSet = {}

-----------------------------------------------------------------------------
(* The service thread: ioThreadTask and ioThreadTask_execute.              *)

\* Task::setTaskStatus: the store, and the callback.
SetTaskStatus(r, value) == status' = [status EXCEPT ![r] = value]
RunCallback(r) == ends' = [ends EXCEPT ![r] = @ + 1]

\* Mutant: a suspended thread leaves its loop.
TopTargetQuits == IF thread = "RUNNING" THEN "execute" ELSE "exited"

TopTarget == CASE thread = "QUIT"    -> "exited"
               [] thread = "SUSPEND" -> "spin"
               [] thread = "RUNNING" -> "execute"

ThreadTop ==
    /\ pc = "top"
    /\ pc' = TopTarget
    /\ UNCHANGED restVars

\* Mutant: the busy wait ends only for RUNNING.
SpinOverRunning == thread = "RUNNING"
SpinOver == thread # "SUSPEND"

\* The busy wait of a suspended service ends; one execution follows even
\* when the new status is QUIT.
SpinEnd ==
    /\ pc = "spin" /\ SpinOver
    /\ pc' = "execute"
    /\ UNCHANGED restVars

Reorderings(s) == Bijection(DOMAIN s, DOMAIN s)
Reordered(s, p) == [i \in DOMAIN s |-> s[p[i]]]

\* Mutant: the scan for deferred cancels starts one element early.
ScanBeginEarly == 0
\* tasks.begin()
ScanBegin == 1

\* Mutant: the tasks are copied and stay in the lockless queue.
NotDequeuedAll == task_requests
\* What the try_dequeue loop leaves in the lockless queue.
NotDequeued == <<>>

\* optionalLock, and in lockless mode the try_dequeue loop: the queue keeps no
\* order between the tasks of different producers.
DequeueRequests ==
    /\ pc = "execute"
    /\ pc' = "cancel" /\ scan' = ScanBegin
    /\ \E p \in Reorderings(task_requests) :
          tasks' = tasks \o Reordered(task_requests, p)
    /\ task_requests' = NotDequeued
    /\ UNCHANGED <<current, sleepVal, notifying, atomicVars, objectVars, ownerVars, ctlVars>>

\* Mutant: remove_if without erase.
ErasedNot(i) == tasks
\* tasks.erase(remove_if(...)) where the predicate holds for the i-th task.
Erased(i) == RemoveAt(tasks, i)

\* One iteration of the remove_if over the deferred cancels.
DeferCancelTask ==
    /\ pc = "cancel" /\ scan <= Len(tasks)
    /\ LET r == tasks[scan] IN
       IF request_cancel[r] /\ status[r] \in {"CANCELLED", "ENQUEUED"}
       THEN /\ SetTaskStatus(r, "CANCELLED")
            /\ tasks' = Erased(scan)
            /\ pc' = "cancelnotify" /\ notifying' = r
            /\ UNCHANGED scan
       ELSE /\ scan' = scan + 1
            /\ UNCHANGED <<pc, notifying, status, tasks>>
    /\ UNCHANGED <<current, sleepVal, task_requests, atomicVars, request_cancel,
                   loaded, ends, ownerVars, ctlVars>>

\* The callback of a finished or cancelled task.
ServiceNotify ==
    /\ pc \in {"cancelnotify", "notify"}
    /\ RunCallback(notifying)
    /\ notifying' = NoReq
    /\ pc' = IF pc = "notify" THEN "top" ELSE "cancel"
    /\ UNCHANGED <<scan, current, sleepVal, queueVars, atomicVars, status, request_cancel,
                   loaded, ownerVars, ctlVars>>

\* Task::operator< : the more urgent task comes first.
Before(r, q) == prio[r] > prio[q]

\* Mutant: one element less.
PartialEndLess(s) == Len(s) \div 2 - 1
\* partial_sort orders the tasks before begin() + size() / 2.
PartialEnd(s) == Len(s) \div 2

\* Mutant: sort instead of stable_sort.
SortedByUnstable(s, p) == \A i, j \in DOMAIN s : i < j => ~Before(s[p[j]], s[p[i]])

\* p reorders 1..Len(s) into an order the sort method may leave behind.
SortedBy(s, p) ==
    CASE SortMethod = "NEVER" -> \A i \in DOMAIN s : p[i] = i
      [] SortMethod = "STABLE" ->
           \A i, j \in DOMAIN s : i < j =>
              /\ ~Before(s[p[j]], s[p[i]])
              /\ prio[s[p[i]]] = prio[s[p[j]]] => p[i] < p[j]
      [] SortMethod = "PARTIAL" ->
           \A i, j \in DOMAIN s : (i < j /\ i <= PartialEnd(s)) =>
              ~Before(s[p[j]], s[p[i]])

FetchNothing ==
    /\ pc = "cancel" /\ scan > Len(tasks) /\ tasks = <<>>
    /\ pc' = "unlocked"
    /\ UNCHANGED restVars

FetchTask ==
    /\ pc = "cancel" /\ scan > Len(tasks) /\ tasks # <<>>
    /\ \E p \in Reorderings(tasks) :
          /\ SortedBy(tasks, p)
          /\ current' = tasks[p[1]]
          /\ tasks' = [i \in 1..(Len(tasks) - 1) |-> tasks[p[i + 1]]]
    /\ running' = "RUNNING"
    /\ pc' = "loading"
    /\ UNCHANGED <<scan, sleepVal, notifying, task_requests, thread, sleepTime, objectVars, ownerVars, ctlVars>>

\* Mutant: the thread goes to sleep without saying so.
EnterSleepSilently ==
    /\ pc = "unlocked"
    /\ sleepVal' = sleepTime
    /\ pc' = "presleep"
    /\ UNCHANGED <<scan, current, notifying, queueVars, atomicVars, objectVars, ownerVars, ctlVars>>

EnterSleep ==
    /\ pc = "unlocked"
    /\ sleepVal' = sleepTime
    /\ running' = "SLEEPING"
    /\ pc' = "presleep"
    /\ UNCHANGED <<scan, current, notifying, queueVars, thread, sleepTime, objectVars, ownerVars, ctlVars>>

BeginSleep ==
    /\ pc = "presleep"
    /\ pc' = IF SleepMode = "SLEEP" /\ sleepVal = "ZERO" THEN "top" ELSE "asleep"
    /\ UNCHANGED restVars

\* The sleep, or the timed wait on sleepCv, is over.
SleepTimeout ==
    /\ pc = "asleep" /\ sleepVal # "MAX"
    /\ pc' = "top"
    /\ UNCHANGED restVars

\* A wait on a condition variable may end without a notification.
SpuriousWakeup ==
    /\ pc = "asleep" /\ SleepMode = "COND_VAR"
    /\ pc' = "top"
    /\ UNCHANGED restVars

\* Mutant: OK is stored before the file is read.
LoadBeginReady ==
    /\ pc = "loading"
    /\ SetTaskStatus(current, "OK")
    /\ pc' = "reading"
    /\ UNCHANGED <<scan, current, sleepVal, notifying, queueVars, atomicVars, request_cancel,
                   loaded, ends, ownerVars, ctlVars>>

LoadBegin ==
    /\ pc = "loading"
    /\ SetTaskStatus(current, "RAM_LOADING")
    /\ pc' = "reading"
    /\ UNCHANGED <<scan, current, sleepVal, notifying, queueVars, atomicVars, request_cancel,
                   loaded, ends, ownerVars, ctlVars>>

\* skr_vfs_fopen, the allocation and skr_vfs_fread fill the buffer.
LoadRead ==
    /\ pc = "reading"
    /\ loaded' = [loaded EXCEPT ![current] = TRUE]
    /\ pc' = "finishing"
    /\ UNCHANGED <<scan, current, sleepVal, notifying, queueVars, atomicVars, status, request_cancel,
                   ends, ownerVars, ctlVars>>

LoadFinish ==
    /\ pc = "finishing"
    /\ SetTaskStatus(current, "OK")
    /\ pc' = "notify" /\ notifying' = current
    /\ UNCHANGED <<scan, current, sleepVal, queueVars, atomicVars, request_cancel,
                   loaded, ends, ownerVars, ctlVars>>

ServiceNext ==
    \/ ThreadTop \/ SpinEnd \/ DequeueRequests \/ DeferCancelTask \/ ServiceNotify \/ FetchNothing
    \/ FetchTask \/ EnterSleep \/ BeginSleep \/ SleepTimeout
    \/ LoadBegin \/ LoadRead \/ LoadFinish

-----------------------------------------------------------------------------
(* The owner threads.                                                      *)

TaskMutexFree == Lockless \/ pc \notin {"cancel", "cancelnotify"}

\* A caller does not submit an object that is in use, nor to a service that
\* is being destroyed.
MaySubmit(r) ==
    /\ cpc[r] = "idle" /\ round[r] < MaxRounds
    /\ ctl \notin DestroyPcs

NewTask(r, p) ==
    /\ prio' = [prio EXCEPT ![r] = p]
    /\ loaded' = [loaded EXCEPT ![r] = FALSE]
    /\ round' = [round EXCEPT ![r] = @ + 1]
    /\ clock' = clock + 1
    /\ ticket' = [ticket EXCEPT ![r] = clock']
    /\ cancelled' = [cancelled EXCEPT ![r] = "none"]

\* Mutant: the status is not set to ENQUEUED.
RequestLockedNoStatus(r, p) ==
    /\ ~Lockless /\ MaySubmit(r) /\ TaskMutexFree
    /\ NewTask(r, p)
    /\ tasks' = Append(tasks, r)
    /\ request_cancel' = [request_cancel EXCEPT ![r] = FALSE]
    /\ cpc' = [cpc EXCEPT ![r] = "wake"]
    /\ UNCHANGED <<serviceVars, task_requests, atomicVars, status, ends, ctlVars>>

\* request(), !isLockless: push, both stores, unlock.
RequestLocked(r, p) ==
    /\ ~Lockless /\ MaySubmit(r) /\ TaskMutexFree
    /\ NewTask(r, p)
    /\ tasks' = Append(tasks, r)
    /\ status' = [status EXCEPT ![r] = "ENQUEUED"]
    /\ request_cancel' = [request_cancel EXCEPT ![r] = FALSE]
    /\ cpc' = [cpc EXCEPT ![r] = "wake"]
    /\ UNCHANGED <<serviceVars, task_requests, atomicVars, ends, ctlVars>>

\* request(), isLockless: the task is visible before the two stores.
RequestLockless(r, p) ==
    /\ Lockless /\ MaySubmit(r)
    /\ NewTask(r, p)
    /\ task_requests' = Append(task_requests, r)
    /\ cpc' = [cpc EXCEPT ![r] = "setstatus"]
    /\ UNCHANGED <<serviceVars, tasks, atomicVars, status, request_cancel, ends, ctlVars>>

RequestSetStatus(r) ==
    /\ cpc[r] = "setstatus"
    /\ status' = [status EXCEPT ![r] = "ENQUEUED"]
    /\ cpc' = [cpc EXCEPT ![r] = "resetcancel"]
    /\ UNCHANGED <<serviceVars, queueVars, atomicVars, request_cancel, loaded, ends,
                   cancelled, taskVars, ctlVars>>

RequestResetCancel(r) ==
    /\ cpc[r] = "resetcancel"
    /\ request_cancel' = [request_cancel EXCEPT ![r] = FALSE]
    /\ cpc' = [cpc EXCEPT ![r] = "wake"]
    /\ UNCHANGED <<serviceVars, queueVars, atomicVars, status, loaded, ends,
                   cancelled, taskVars, ctlVars>>

\* The tail of request(): skr_wake_condition_var wakes a thread that waits
\* on sleepCv and is lost on any other.
RequestWake(r) ==
    /\ cpc[r] = "wake"
    /\ pc' = IF sleepTime = "MAX" /\ SleepMode = "COND_VAR" /\ pc = "asleep"
             THEN "top" ELSE pc
    /\ cpc' = [cpc EXCEPT ![r] = "waiting"]
    /\ UNCHANGED <<scan, current, sleepVal, notifying, queueVars, atomicVars, objectVars,
                   cancelled, taskVars, ctlVars>>

\* try_cancel(): the check made before the lock is taken.
TryCancel(r) ==
    /\ cpc[r] = "waiting" /\ ctl \notin DestroyPcs
    /\ IF status[r] = "ENQUEUED" /\ ~Lockless
       THEN /\ cpc' = [cpc EXCEPT ![r] = "trycancel"]
            /\ UNCHANGED cancelled
       ELSE /\ cancelled' = [cancelled EXCEPT ![r] = "false"]
            /\ UNCHANGED cpc
    /\ UNCHANGED <<serviceVars, queueVars, atomicVars, objectVars, taskVars, ctlVars>>

\* Mutant: the status seen before the lock is trusted, the deque is not searched.
DoCancelUnchecked(r) ==
    /\ cpc[r] = "trycancel" /\ TaskMutexFree
    /\ tasks' = SelectSeq(tasks, LAMBDA q : q # r)
    /\ cancelled' = [cancelled EXCEPT ![r] = "true"]
    /\ SetTaskStatus(r, "CANCELLED")
    /\ RunCallback(r)
    /\ cpc' = [cpc EXCEPT ![r] = "waiting"]
    /\ UNCHANGED <<serviceVars, task_requests, atomicVars, request_cancel, loaded,
                   taskVars, ctlVars>>

\* doCancel() under the lock.  Its result is the value the predicate had for
\* the LAST task of the deque, whichever task was cancelled.
DoCancel(r) ==
    /\ cpc[r] = "trycancel" /\ TaskMutexFree
    /\ \/ /\ status[r] \in {"ENQUEUED", "CANCELLED"}
          /\ \E i \in DOMAIN tasks :
                /\ tasks[i] = r
                /\ tasks' = Erased(i)
                /\ cancelled' = [cancelled EXCEPT ![r] =
                                   IF i = Len(tasks) THEN "true" ELSE "false"]
          /\ SetTaskStatus(r, "CANCELLED")
          /\ RunCallback(r)
       \/ /\ \/ status[r] \notin {"ENQUEUED", "CANCELLED"}
             \/ \A i \in DOMAIN tasks : tasks[i] # r
          /\ cancelled' = [cancelled EXCEPT ![r] = "false"]
          /\ UNCHANGED <<tasks, status, ends>>
    /\ cpc' = [cpc EXCEPT ![r] = "waiting"]
    /\ UNCHANGED <<serviceVars, task_requests, atomicVars, request_cancel, loaded,
                   taskVars, ctlVars>>

DeferCancel(r) ==
    /\ cpc[r] = "waiting" /\ ctl \notin DestroyPcs
    /\ request_cancel' = [request_cancel EXCEPT ![r] = TRUE]
    /\ UNCHANGED <<serviceVars, queueVars, atomicVars, status, loaded, ends, ownerVars, ctlVars>>

\* The owner polls is_ready() or is_cancelled() and then may reuse the object.
Collect(r) ==
    /\ cpc[r] = "waiting" /\ status[r] \in Terminal
    /\ cpc' = [cpc EXCEPT ![r] = "idle"]
    /\ ticket' = [ticket EXCEPT ![r] = 0]
    /\ drainSet' = drainSet \ {r}
    /\ UNCHANGED <<serviceVars, queueVars, atomicVars, objectVars, cancelled, round, prio, clock, ctl>>

-----------------------------------------------------------------------------
(* The controlling thread.                                                 *)

SetSleepTime(t) ==
    /\ ctl = "idle"
    /\ sleepTime' = t
    /\ UNCHANGED <<serviceVars, queueVars, running, thread, objectVars, ownerVars, ctlVars>>

\* drain(): a busy wait for the SLEEPING status.
Drain ==
    /\ ctl = "idle"
    /\ ctl' = "drain"
    /\ drainSet' = {r \in Req : cpc[r] = "waiting"}
    /\ UNCHANGED <<serviceVars, queueVars, atomicVars, objectVars, ownerVars>>

DrainSpin == ctl \in DrainPcs /\ running # "SLEEPING" /\ UNCHANGED vars

DrainReturn ==
    /\ ctl \in DrainPcs /\ running = "SLEEPING"
    /\ ctl' = CASE ctl = "drain"        -> "idle"
                [] ctl = "stopdrain"    -> "setsuspend"
                [] ctl = "destroydrain" -> "setquit"
    /\ UNCHANGED <<serviceVars, queueVars, atomicVars, objectVars, ownerVars, drainSet>>

Stop(wait_drain) ==
    /\ ctl = "idle" /\ thread = "RUNNING"
    /\ ctl' = IF wait_drain THEN "stopdrain" ELSE "setsuspend"
    /\ drainSet' = IF wait_drain THEN {r \in Req : cpc[r] = "waiting"} ELSE drainSet
    /\ UNCHANGED <<serviceVars, queueVars, atomicVars, objectVars, ownerVars>>

StopSuspend ==
    /\ ctl = "setsuspend"
    /\ thread' = "SUSPEND"
    /\ ctl' = "idle"
    /\ UNCHANGED <<serviceVars, queueVars, running, sleepTime, objectVars, ownerVars, drainSet>>

Run ==
    /\ ctl = "idle" /\ thread = "SUSPEND"
    /\ thread' = "RUNNING"
    /\ UNCHANGED <<serviceVars, queueVars, running, sleepTime, objectVars, ownerVars, ctlVars>>

\* destroy(): drain, set QUIT, join.  No caller is inside the service.
Destroy ==
    /\ ctl = "idle"
    /\ \A r \in Req : cpc[r] \in {"idle", "waiting"}
    /\ ctl' = "destroydrain"
    /\ drainSet' = {r \in Req : cpc[r] = "waiting"}
    /\ UNCHANGED <<serviceVars, queueVars, atomicVars, objectVars, ownerVars>>

DestroyQuit ==
    /\ ctl = "setquit"
    /\ thread' = "QUIT"
    /\ ctl' = "join"
    /\ UNCHANGED <<serviceVars, queueVars, running, sleepTime, objectVars, ownerVars, drainSet>>

DestroyJoin ==
    /\ ctl = "join" /\ pc = "exited"
    /\ ctl' = "destroyed"
    /\ UNCHANGED <<serviceVars, queueVars, atomicVars, objectVars, ownerVars, drainSet>>

\* The service object is gone.
Terminated == ctl = "destroyed" /\ UNCHANGED vars

-----------------------------------------------------------------------------
\* The steps a thread takes inside a call it has made.
OwnerStep(r) == RequestSetStatus(r) \/ RequestResetCancel(r) \/ RequestWake(r) \/ DoCancel(r)
CtlStep == DrainReturn \/ StopSuspend \/ DestroyQuit \/ DestroyJoin

OwnerNext(r) ==
    \/ \E p \in Priorities : RequestLocked(r, p) \/ RequestLockless(r, p)
    \/ OwnerStep(r) \/ TryCancel(r) \/ DeferCancel(r) \/ Collect(r)

CtlNext ==
    \/ "set_sleep_time" \in Controls /\ \E t \in SleepTimes : SetSleepTime(t)
    \/ "drain" \in Controls /\ Drain
    \/ "stop" \in Controls /\ \E wait_drain \in BOOLEAN : Stop(wait_drain)
    \/ "run" \in Controls /\ Run
    \/ "destroy" \in Controls /\ Destroy
    \/ DrainSpin \/ CtlStep

Next == ServiceNext \/ SpuriousWakeup \/ (\E r \in Req : OwnerNext(r)) \/ CtlNext \/ Terminated

Spec == Init /\ [][Next]_vars

\* The operating system schedules every thread, and a bounded sleep ends.
\* Nothing is assumed of spurious wakeups or of the calls callers make.
FairSpec ==
    /\ Spec
    /\ WF_vars(ServiceNext)
    /\ \A r \in Req : WF_vars(OwnerStep(r))
    /\ WF_vars(CtlStep)
-----------------------------------------------------------------------------
(* Properties.                                                             *)

Queued(r) == r \in Range(tasks) \cup Range(task_requests)
Loading(r) == current = r /\ pc \in LoadPcs
\* The service still has a Task for the object, and will use its buffer.
Held(r) == Queued(r) \/ Loading(r)

TypeOK ==
    /\ pc \in ServicePcs /\ scan \in Nat \ {0}
    /\ current \in Req \cup {NoReq} /\ notifying \in Req \cup {NoReq}
    /\ sleepVal \in SleepTimes /\ sleepTime \in SleepTimes
    /\ tasks \in Seq(Req) /\ task_requests \in Seq(Req)
    /\ running \in {"RUNNING", "SLEEPING"} /\ thread \in {"RUNNING", "SUSPEND", "QUIT"}
    /\ status \in [Req -> Statuses]
    /\ request_cancel \in [Req -> BOOLEAN] /\ loaded \in [Req -> BOOLEAN]
    /\ prio \in [Req -> Priorities] /\ ticket \in [Req -> Nat] /\ clock \in Nat
    /\ cpc \in [Req -> OwnerPcs] /\ cancelled \in [Req -> {"none", "true", "false"}]
    /\ round \in [Req -> Nat] /\ ends \in [Req -> Nat]
    /\ ctl \in CtlPcs /\ drainSet \in SUBSET Req

\* No request object is queued twice, nor queued while it is being loaded, and
\* none that its owner took back is still in the service: the deque, the
\* lockless queue and `current` hand each Task on exactly once.
SingleOwner ==
    /\ IsInjective(tasks) /\ IsInjective(task_requests)
    /\ Range(tasks) \cap Range(task_requests) = {}
    /\ \A r \in Req : ~(Queued(r) /\ Loading(r))
    /\ \A r \in Req : cpc[r] = "idle" => ~Held(r)

\* Every request() ends in exactly one terminal callback: the submissions of
\* an object are the callbacks that ran, the one in the service and the one
\* whose callback is about to run.
CallbackPerRequest ==
    \A r \in Req :
        round[r] = ends[r] + (IF Held(r) THEN 1 ELSE 0) + (IF notifying = r THEN 1 ELSE 0)

\* What an owner that polls get_status() may rely on: after OK the buffer is
\* filled, after CANCELLED it was never written, and after either the service
\* will not touch the buffer any more, so it may be freed or reused.
ResultSettled ==
    \A r \in Req :
        (cpc[r] = "waiting" /\ status[r] \in Terminal) =>
            /\ ~Held(r)
            /\ loaded[r] <=> status[r] = "OK"

\* try_cancel() returns true only for a request that is cancelled and whose
\* buffer is untouched (the first branch of the test "cancel").
TrueMeansCancelled ==
    \A r \in Req :
        (cpc[r] = "waiting" /\ cancelled[r] = "true") =>
            status[r] = "CANCELLED" /\ ~loaded[r] /\ ~Held(r)

\* What the lockless service promises with its status stores late: a task has
\* one owner, a request one callback, and a terminal status that is seen is
\* final.
OwnedAndSettled == SingleOwner /\ CallbackPerRequest /\ ResultSettled

\* A locked service: the observable status says where the Task is.
StatusAccurate ==
    ~Lockless => \A r \in Req :
        cpc[r] # "idle" =>
            /\ status[r] = "ENQUEUED" <=> Queued(r) \/ (Loading(r) /\ pc = "loading")
            /\ status[r] = "RAM_LOADING" <=> Loading(r) /\ pc # "loading"

\* A locked service loads a task only when no more urgent one is queued
\* (STABLE, PARTIAL), and no equally urgent one that was requested earlier
\* (STABLE; any task requested earlier for NEVER).
NoOvertaking ==
    [][ (pc = "cancel" /\ pc' = "loading") =>
          \A r \in Range(tasks) \ {current'} :
              /\ SortMethod # "NEVER" => prio[r] <= prio[current']
              /\ ~Lockless /\ ticket[r] < ticket[current'] =>
                    CASE SortMethod = "NEVER"   -> FALSE
                      [] SortMethod = "STABLE"  -> prio[r] < prio[current']
                      [] SortMethod = "PARTIAL" -> TRUE ]_vars

\* What the owner of a request can observe.
PhaseOf(s) == CASE s = "ENQUEUED"    -> "pending"
                [] s = "RAM_LOADING" -> "loading"
                [] s = "OK"          -> "ready"
                [] s = "CANCELLED"   -> "cancelled"
Phase == [r \in Req |-> IF cpc[r] = "idle" THEN "idle" ELSE PhaseOf(status[r])]

IO == INSTANCE AsyncIO WITH phase <- Phase

\* The locked service implements the contract of asynchronous I/O.
ImplementsAsyncIO == IO!Spec

\* A request to a service that is not stopped or destroyed is finished or
\* cancelled in the end: its owner's `while (!request.is_ready()) {}` ends.
ServedWhileRunning ==
    <>[](thread = "RUNNING") =>
        \A r \in Req : (cpc[r] = "waiting") ~> (status[r] \in Terminal)

\* drain() returns, unless the service is suspended.
DrainReturns == (ctl \in DrainPcs) ~> (ctl \notin DrainPcs \/ thread = "SUSPEND")

\* destroy() returns once it has told the thread to quit.
DestroyCompletes == (ctl = "join") ~> (ctl = "destroyed")

\* "block & finish up all requests" (include/utils/io.hpp): when drain()
\* returns, every request() that had returned before it was called is over.
DrainFinishesAll ==
    [][ (ctl = "drain" /\ ctl' = "idle") => \A r \in drainSet : status[r] \in Terminal ]_vars
=============================================================================
