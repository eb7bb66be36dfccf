------------------------ MODULE RamIOService_proofs ------------------------
(***************************************************************************)
(* Proofs about RamIOService, for every set of request objects, every      *)
(* running mode and any number of submissions.                             *)
(***************************************************************************)
EXTENDS RamIOService, NoRepeatSeqs, TLAPS

\* The request whose callback is about to run is known exactly in the two
\* notification steps, and `current` is a Task while one is being loaded.
ServiceInv ==
    /\ notifying # NoReq <=> pc \in {"cancelnotify", "notify"}
    /\ pc \in LoadPcs => current \in Req

\* The places of the owner threads and of the Tasks that each mode has.
ModeInv ==
    /\ ~Lockless => /\ task_requests = <<>>
                    /\ \A r \in Req : cpc[r] \notin {"setstatus", "resetcancel"}
    /\ Lockless => \A r \in Req : cpc[r] # "trycancel" /\ cancelled[r] # "true"

\* From the store of ENQUEUED on, a terminal status is the service's last word
\* on the object; a buffer is filled by the last step of loading only.
ObjectInv ==
    \A r \in Req :
        /\ Held(r) => (loaded[r] <=> Loading(r) /\ pc = "finishing")
        /\ (cpc[r] \notin {"idle", "setstatus"} /\ status[r] \in Terminal) =>
              ~Held(r) /\ (loaded[r] <=> status[r] = "OK")
        /\ (cpc[r] # "idle" /\ cancelled[r] = "true") => status[r] = "CANCELLED"

Safe ==
    /\ SingleOwner /\ CallbackPerRequest /\ StatusAccurate
    /\ ServiceInv /\ ModeInv /\ ObjectInv

IInv == TypeOK /\ Safe

-----------------------------------------------------------------------------
\* The service steps of which the owners of requests notice nothing.
Quiet == ServicePcs \ (LoadPcs \cup {"cancelnotify", "notify"})
coreVars == <<current, notifying, tasks, task_requests, status, loaded, cpc, cancelled,
              round, ends>>

\* A step that moves the service thread between quiet places, or not at all,
\* and leaves requests and queues alone preserves Safe.
LEMMA QuietStep ==
    ASSUME Safe, UNCHANGED coreVars, pc' = pc \/ (pc \in Quiet /\ pc' \in Quiet)
    PROVE  Safe'
<1> USE DEF Held, Queued, Loading, LoadPcs, Terminal
<1>1. (pc \in LoadPcs <=> pc' \in LoadPcs) /\ (pc \in LoadPcs => pc' = pc)
  BY DEF Quiet, ServicePcs
<1>2. (pc \in {"cancelnotify", "notify"}) <=> (pc' \in {"cancelnotify", "notify"})
  BY DEF Quiet, ServicePcs
<1>3. SingleOwner'
  BY <1>1 DEF Safe, coreVars, SingleOwner
<1>4. CallbackPerRequest'
  BY <1>1 DEF Safe, coreVars, CallbackPerRequest
<1>5. StatusAccurate'
  BY <1>1 DEF Safe, coreVars, StatusAccurate
<1>6. ServiceInv' /\ ModeInv'
  BY <1>1, <1>2 DEF Safe, coreVars, ServiceInv, ModeInv
<1>7. ObjectInv'
  BY <1>1 DEF Safe, coreVars, ObjectInv
<1> QED BY <1>3, <1>4, <1>5, <1>6, <1>7 DEF Safe

-----------------------------------------------------------------------------
(* What each operation on the queues leaves behind.                        *)

\* dequeue: the lockless queue moves to the deque, whole and in any order.
LEMMA DequeueFacts ==
    ASSUME TypeOK, SingleOwner, DequeueRequests
    PROVE  /\ tasks' \in Seq(Req) /\ task_requests' = <<>> /\ task_requests' \in Seq(Req)
           /\ IsInjective(tasks') /\ IsInjective(task_requests')
           /\ Range(tasks') = Range(tasks) \cup Range(task_requests)
           /\ Range(task_requests') = {}
<1>1. PICK p \in Reorderings(task_requests) :
          tasks' = tasks \o Reordered(task_requests, p)
  BY DEF DequeueRequests
<1>2. /\ tasks \in Seq(Req) /\ task_requests \in Seq(Req)
      /\ DOMAIN task_requests = 1..Len(task_requests)
  BY DEF TypeOK
<1>3. p \in Bijection(1..Len(task_requests), 1..Len(task_requests))
  BY <1>2 DEF Reorderings
<1>4. tasks' = tasks \o Permuted(task_requests, p)
  BY <1>1, <1>2 DEF Reordered, Permuted
<1>5. /\ tasks' \in Seq(Req) /\ IsInjective(tasks')
      /\ Range(tasks') = Range(tasks) \cup Range(task_requests)
  <2>1. /\ IsInjective(tasks) /\ IsInjective(task_requests)
        /\ Range(tasks) \cap Range(task_requests) = {}
    BY DEF SingleOwner
  <2> QED BY <1>2, <1>3, <1>4, <2>1, DequeueNoRepeat
<1>6. task_requests' = <<>>
  BY DEF DequeueRequests, NotDequeued
<1>7. IsInjective(<<>>) /\ Range(<<>>) = {}
  BY DEF IsInjective, Range
<1>8. <<>> \in Seq(Req)
  OBVIOUS
<1> QED BY <1>5, <1>6, <1>7, <1>8

\* erase: one task leaves the deque.
LEMMA ErasedFacts ==
    ASSUME TypeOK, SingleOwner, NEW i \in 1..Len(tasks)
    PROVE  /\ Erased(i) \in Seq(Req) /\ IsInjective(Erased(i))
           /\ Range(Erased(i)) = Range(tasks) \ {tasks[i]}
           /\ tasks[i] \in Req /\ tasks[i] \in Range(tasks)
<1>1. tasks \in Seq(Req)
  BY DEF TypeOK
<1>2. tasks[i] \in Req /\ i \in DOMAIN tasks
  BY <1>1
<1>3. tasks[i] \in Range(tasks)
  BY <1>2 DEF Range
<1> QED BY <1>1, <1>2, <1>3, RemoveAtNoRepeat DEF Erased, SingleOwner

\* sort and pop_front: one task leaves the deque and becomes `current`.
LEMMA FetchFacts ==
    ASSUME TypeOK, SingleOwner, FetchTask
    PROVE  /\ tasks' \in Seq(Req) /\ IsInjective(tasks')
           /\ current' \in Range(tasks) /\ current' \in Req
           /\ Range(tasks') = Range(tasks) \ {current'}
<1>1. PICK p \in Reorderings(tasks) :
          /\ current' = tasks[p[1]]
          /\ tasks' = [i \in 1..(Len(tasks) - 1) |-> tasks[p[i + 1]]]
  BY DEF FetchTask
<1>2. tasks \in Seq(Req) /\ tasks # <<>> /\ DOMAIN tasks = 1..Len(tasks)
  BY DEF TypeOK, FetchTask
<1>3. p \in Bijection(1..Len(tasks), 1..Len(tasks))
  BY <1>2 DEF Reorderings
<1>4. /\ tasks' \in Seq(Req) /\ IsInjective(tasks')
      /\ tasks[p[1]] \in Range(tasks)
      /\ Range(tasks') = Range(tasks) \ {tasks[p[1]]}
  <2>1. IsInjective(tasks)
    BY DEF SingleOwner
  <2>2. tasks' = PermutedTail(tasks, p)
    BY <1>1 DEF PermutedTail
  <2> QED BY <1>2, <1>3, <2>1, <2>2, FetchNoRepeat
<1>5. Range(tasks) \subseteq Req
  BY <1>2 DEF Range
<1> QED BY <1>1, <1>4, <1>5

\* push_back and enqueue of an object that the service does not hold.
LEMMA PushFacts ==
    ASSUME TypeOK, SingleOwner, NEW r \in Req, cpc[r] = "idle"
    PROVE  /\ Append(tasks, r) \in Seq(Req) /\ IsInjective(Append(tasks, r))
           /\ Range(Append(tasks, r)) = Range(tasks) \cup {r}
           /\ Append(task_requests, r) \in Seq(Req) /\ IsInjective(Append(task_requests, r))
           /\ Range(Append(task_requests, r)) = Range(task_requests) \cup {r}
           /\ r \notin Range(tasks) /\ r \notin Range(task_requests) /\ ~Loading(r)
<1>1. r \notin Range(tasks) /\ r \notin Range(task_requests) /\ ~Loading(r)
  BY DEF SingleOwner, Held, Queued
<1>2. tasks \in Seq(Req) /\ task_requests \in Seq(Req)
  BY DEF TypeOK
<1>3. IsInjective(tasks) /\ IsInjective(task_requests)
  BY DEF SingleOwner
<1> QED BY <1>1, <1>2, <1>3, AppendNoRepeat

-----------------------------------------------------------------------------
(* Type correctness.                                                       *)

\* Every step preserves the type invariant.
LEMMA TypeOKStep == TypeOK /\ Safe /\ [Next]_vars => TypeOK'
<1> SUFFICES ASSUME TypeOK, SingleOwner, ServiceInv, [Next]_vars PROVE TypeOK'
  BY DEF Safe
<1> USE ConstAssumption DEF restVars, serviceVars, queueVars, atomicVars, objectVars, ownerVars,
                            taskVars, ctlVars
<1>1. CASE ThreadTop
  BY <1>1 DEF TypeOK, ThreadTop, TopTarget, ServicePcs
<1>2. CASE SpinEnd
  BY <1>2 DEF TypeOK, SpinEnd, TopTarget, ServicePcs
<1>3. CASE FetchNothing
  BY <1>3 DEF TypeOK, FetchNothing, TopTarget, ServicePcs
<1>4. CASE EnterSleep
  BY <1>4 DEF TypeOK, EnterSleep, TopTarget, ServicePcs
<1>5. CASE BeginSleep
  BY <1>5 DEF TypeOK, BeginSleep, TopTarget, ServicePcs
<1>6. CASE SleepTimeout
  BY <1>6 DEF TypeOK, SleepTimeout, TopTarget, ServicePcs
<1>7. CASE SpuriousWakeup
  BY <1>7 DEF TypeOK, SpuriousWakeup, TopTarget, ServicePcs
<1>8. CASE DequeueRequests
  <2>1. tasks' \in Seq(Req) /\ task_requests' \in Seq(Req)
    BY <1>8, DequeueFacts
  <2>2. /\ pc' = "cancel" /\ scan' = 1
        /\ UNCHANGED <<current, sleepVal, notifying, atomicVars, objectVars, ownerVars, ctlVars>>
    BY <1>8 DEF DequeueRequests, ScanBegin
  <2> QED BY <2>1, <2>2 DEF TypeOK, ServicePcs
<1>9. CASE DeferCancelTask
  <2>1. tasks \in Seq(Req) /\ scan \in 1..Len(tasks)
    BY <1>9 DEF DeferCancelTask, TypeOK
  <2>2. Erased(scan) \in Seq(Req) /\ tasks[scan] \in Req
    BY <2>1, ErasedFacts
  <2>a. UNCHANGED <<current, sleepVal, task_requests, atomicVars, request_cancel, loaded,
                    ends, ownerVars, ctlVars>>
    BY <1>9 DEF DeferCancelTask
  <2>3. CASE tasks' = Erased(scan) /\ notifying' = tasks[scan] /\ pc' = "cancelnotify"
             /\ status' = [status EXCEPT ![tasks[scan]] = "CANCELLED"] /\ scan' = scan
    BY <2>2, <2>3, <2>a DEF TypeOK, Statuses, ServicePcs
  <2>4. CASE scan' = scan + 1 /\ UNCHANGED <<pc, notifying, status, tasks>>
    <3>1. scan' \in Nat \ {0}
      BY <2>4 DEF TypeOK
    <3> QED BY <2>4, <2>a, <3>1 DEF TypeOK
  <2> QED BY <1>9, <2>3, <2>4 DEF DeferCancelTask, SetTaskStatus
<1>10. CASE ServiceNotify
  BY <1>10 DEF TypeOK, ServiceInv, ServiceNotify, RunCallback, ServicePcs
<1>11. CASE FetchTask
  BY <1>11, FetchFacts DEF TypeOK, FetchTask, ServicePcs
<1>12. CASE LoadBegin
  BY <1>12 DEF TypeOK, ServiceInv, LoadBegin, SetTaskStatus, Statuses, LoadPcs, ServicePcs
<1>13. CASE LoadRead
  BY <1>13 DEF TypeOK, ServiceInv, LoadRead, SetTaskStatus, Statuses, LoadPcs, ServicePcs
<1>14. CASE LoadFinish
  BY <1>14 DEF TypeOK, ServiceInv, LoadFinish, SetTaskStatus, Statuses, LoadPcs, ServicePcs
<1>15. ASSUME NEW r \in Req, NEW p \in Priorities, RequestLocked(r, p) PROVE TypeOK'
  <2>1. tasks' \in Seq(Req) /\ task_requests' \in Seq(Req)
    BY <1>15, PushFacts DEF RequestLocked, MaySubmit, TypeOK
  <2>a. NewTask(r, p)
    BY <1>15 DEF RequestLocked
  <2>b. prio' \in [Req -> Priorities] /\ loaded' \in [Req -> BOOLEAN]
    BY <2>a DEF NewTask, TypeOK
  <2>c. round' \in [Req -> Nat] /\ clock' \in Nat /\ ticket' \in [Req -> Nat]
    BY <2>a DEF NewTask, TypeOK
  <2>d. cancelled' \in [Req -> {"none", "true", "false"}]
    BY <2>a DEF NewTask, TypeOK
  <2>3. /\ status' \in [Req -> Statuses] /\ request_cancel' \in [Req -> BOOLEAN]
        /\ cpc' \in [Req -> OwnerPcs]
    BY <1>15 DEF RequestLocked, TypeOK, Statuses, OwnerPcs
  <2> QED BY <1>15, <2>1, <2>b, <2>c, <2>d, <2>3 DEF TypeOK, RequestLocked
<1>16. ASSUME NEW r \in Req, NEW p \in Priorities, RequestLockless(r, p) PROVE TypeOK'
  <2>1. tasks' \in Seq(Req) /\ task_requests' \in Seq(Req)
    BY <1>16, PushFacts DEF RequestLockless, MaySubmit, TypeOK
  <2>a. NewTask(r, p)
    BY <1>16 DEF RequestLockless
  <2>b. prio' \in [Req -> Priorities] /\ loaded' \in [Req -> BOOLEAN]
    BY <2>a DEF NewTask, TypeOK
  <2>c. round' \in [Req -> Nat] /\ clock' \in Nat /\ ticket' \in [Req -> Nat]
    BY <2>a DEF NewTask, TypeOK
  <2>d. cancelled' \in [Req -> {"none", "true", "false"}]
    BY <2>a DEF NewTask, TypeOK
  <2>3. /\ status' \in [Req -> Statuses] /\ request_cancel' \in [Req -> BOOLEAN]
        /\ cpc' \in [Req -> OwnerPcs]
    BY <1>16 DEF RequestLockless, TypeOK, Statuses, OwnerPcs
  <2> QED BY <1>16, <2>1, <2>b, <2>c, <2>d, <2>3 DEF TypeOK, RequestLockless
<1>17. ASSUME NEW r \in Req, RequestSetStatus(r) PROVE TypeOK'
  BY <1>17 DEF TypeOK, RequestSetStatus, Statuses, OwnerPcs, ServicePcs
<1>18. ASSUME NEW r \in Req, RequestResetCancel(r) PROVE TypeOK'
  BY <1>18 DEF TypeOK, RequestResetCancel, Statuses, OwnerPcs, ServicePcs
<1>19. ASSUME NEW r \in Req, RequestWake(r) PROVE TypeOK'
  BY <1>19 DEF TypeOK, RequestWake, Statuses, OwnerPcs, ServicePcs
<1>20. ASSUME NEW r \in Req, TryCancel(r) PROVE TypeOK'
  BY <1>20 DEF TypeOK, TryCancel, Statuses, OwnerPcs, ServicePcs
<1>21. ASSUME NEW r \in Req, DeferCancel(r) PROVE TypeOK'
  BY <1>21 DEF TypeOK, DeferCancel, Statuses, OwnerPcs, ServicePcs
<1>22. ASSUME NEW r \in Req, Collect(r) PROVE TypeOK'
  BY <1>22 DEF TypeOK, Collect, Statuses, OwnerPcs, ServicePcs
<1>23. ASSUME NEW r \in Req, DoCancel(r) PROVE TypeOK'
  <2>1. tasks \in Seq(Req) /\ DOMAIN tasks = 1..Len(tasks)
    BY DEF TypeOK
  <2>2. \A i \in DOMAIN tasks : Erased(i) \in Seq(Req)
    BY <2>1, ErasedFacts
  <2>3. tasks' \in Seq(Req)
    BY <1>23, <2>1, <2>2 DEF DoCancel
  <2>4. cancelled' \in [Req -> {"none", "true", "false"}]
    BY <1>23 DEF DoCancel, TypeOK
  <2>5. status' \in [Req -> Statuses] /\ ends' \in [Req -> Nat]
    <3>1. \/ /\ status' = [status EXCEPT ![r] = "CANCELLED"]
             /\ ends' = [ends EXCEPT ![r] = @ + 1]
          \/ UNCHANGED <<status, ends>>
      BY <1>23 DEF DoCancel, SetTaskStatus, RunCallback
    <3>2. status \in [Req -> Statuses] /\ ends \in [Req -> Nat] /\ "CANCELLED" \in Statuses
      BY DEF TypeOK, Statuses
    <3> QED BY <3>1, <3>2
  <2>6. cpc' \in [Req -> OwnerPcs]
    BY <1>23 DEF DoCancel, TypeOK, OwnerPcs
  <2> QED BY <1>23, <2>3, <2>4, <2>5, <2>6 DEF TypeOK, DoCancel
<1>24. ASSUME NEW t \in SleepTimes, SetSleepTime(t) PROVE TypeOK'
  BY <1>24 DEF TypeOK, SetSleepTime, CtlPcs, DrainPcs, DestroyPcs
<1>25. ASSUME NEW w \in BOOLEAN, Stop(w) PROVE TypeOK'
  BY <1>25 DEF TypeOK, Stop, CtlPcs, DrainPcs, DestroyPcs
<1>26. CASE Drain
  BY <1>26 DEF TypeOK, Drain, CtlPcs, DrainPcs, DestroyPcs
<1>27. CASE DrainReturn
  BY <1>27 DEF TypeOK, DrainReturn, CtlPcs, DrainPcs, DestroyPcs
<1>28. CASE StopSuspend
  BY <1>28 DEF TypeOK, StopSuspend, CtlPcs, DrainPcs, DestroyPcs
<1>29. CASE Run
  BY <1>29 DEF TypeOK, Run, CtlPcs, DrainPcs, DestroyPcs
<1>30. CASE Destroy
  BY <1>30 DEF TypeOK, Destroy, CtlPcs, DrainPcs, DestroyPcs
<1>31. CASE DestroyQuit
  BY <1>31 DEF TypeOK, DestroyQuit, CtlPcs, DrainPcs, DestroyPcs
<1>32. CASE DestroyJoin
  BY <1>32 DEF TypeOK, DestroyJoin, CtlPcs, DrainPcs, DestroyPcs
<1>33. CASE DrainSpin \/ Terminated \/ UNCHANGED vars
  BY <1>33 DEF TypeOK, DrainSpin, Terminated, vars
<1> QED BY <1>1, <1>2, <1>3, <1>4, <1>5, <1>6, <1>7, <1>8, <1>9, <1>10, <1>11, <1>12, <1>13, <1>14,
           <1>15, <1>16, <1>17, <1>18, <1>19, <1>20, <1>21, <1>22, <1>23, <1>24, <1>25, <1>26,
           <1>27, <1>28, <1>29, <1>30, <1>31, <1>32, <1>33
  DEF Next, ServiceNext, OwnerNext, OwnerStep, CtlNext, CtlStep

-----------------------------------------------------------------------------
(* One lemma per operation that moves a request.                           *)

\* The lockless queue is moved to the deque.
LEMMA DequeueStep ==
    ASSUME TypeOK, Safe, DequeueRequests
    PROVE  Safe'
<1> USE DEF Held, Queued, Loading, LoadPcs, Terminal
<1>0. SingleOwner /\ CallbackPerRequest /\ StatusAccurate /\ ServiceInv /\ ModeInv /\ ObjectInv
  BY DEF Safe
<1>q. /\ tasks' \in Seq(Req) /\ task_requests' = <<>>
      /\ IsInjective(tasks') /\ IsInjective(task_requests')
      /\ Range(tasks') = Range(tasks) \cup Range(task_requests)
      /\ Range(task_requests') = {}
  BY <1>0, DequeueFacts
<1>a. /\ pc = "execute" /\ pc' = "cancel"
      /\ UNCHANGED <<current, notifying, status, loaded, ends, cpc, cancelled, round>>
  BY DEF DequeueRequests, objectVars, ownerVars, taskVars
<1>1. SingleOwner'
  BY <1>0, <1>q, <1>a DEF TypeOK, SingleOwner, ModeInv, ObjectInv, StatusAccurate, ServiceInv
<1>2. CallbackPerRequest'
  BY <1>0, <1>q, <1>a DEF TypeOK, SingleOwner, CallbackPerRequest, ServiceInv
<1>3. StatusAccurate'
  BY <1>0, <1>q, <1>a DEF TypeOK, SingleOwner, StatusAccurate, ServiceInv, ModeInv
<1>4. ServiceInv'
  BY <1>0, <1>q, <1>a DEF TypeOK, ServiceInv
<1>5. ModeInv'
  BY <1>0, <1>q, <1>a DEF TypeOK, ModeInv
<1>6. ObjectInv'
  BY <1>0, <1>q, <1>a DEF TypeOK, SingleOwner, ServiceInv, ModeInv, ObjectInv, StatusAccurate
<1> QED BY <1>1, <1>2, <1>3, <1>4, <1>5, <1>6 DEF Safe

\* A deferred cancel takes a task out of the deque, or passes it by.
LEMMA DeferCancelTaskStep ==
    ASSUME TypeOK, Safe, DeferCancelTask, notifying' # notifying
    PROVE  Safe'
<1> USE DEF Held, Queued, Loading, LoadPcs, Terminal
<1>0. SingleOwner /\ CallbackPerRequest /\ StatusAccurate /\ ServiceInv /\ ModeInv /\ ObjectInv
  BY DEF Safe
<1>r. scan \in 1..Len(tasks)
  BY DEF DeferCancelTask, TypeOK
<1> DEFINE r == tasks[scan]
<1>q. /\ r \in Req /\ r \in Range(tasks) /\ IsInjective(tasks')
      /\ Range(tasks') = Range(tasks) \ {r}
  BY <1>0, <1>r, ErasedFacts DEF DeferCancelTask
<1>a. /\ pc = "cancel" /\ pc' = "cancelnotify" /\ notifying' = r /\ notifying = NoReq
      /\ status' = [status EXCEPT ![r] = "CANCELLED"]
      /\ UNCHANGED <<current, task_requests, loaded, ends, cpc, cancelled, round>>
  BY <1>0 DEF DeferCancelTask, SetTaskStatus, ServiceInv, objectVars, ownerVars, taskVars
<1> HIDE DEF r
<1> USE ConstAssumption
<1>1. SingleOwner'
  BY <1>0, <1>q, <1>a DEF TypeOK, SingleOwner, ModeInv, ObjectInv, StatusAccurate, ServiceInv
<1>2. CallbackPerRequest'
  <2> SUFFICES ASSUME NEW x \in Req
               PROVE  (round[x] = ends[x] + (IF Held(x) THEN 1 ELSE 0)
                                          + (IF notifying = x THEN 1 ELSE 0))'
    BY DEF CallbackPerRequest
  <2>1. CASE x = r
    <3>1. Held(x) /\ ~Held(x)'
      BY <1>0, <1>q, <1>a, <2>1 DEF SingleOwner
    <3>2. notifying # x /\ notifying' = x /\ round[x] \in Nat /\ ends[x] \in Nat
      BY <1>a, <2>1 DEF TypeOK
    <3>3. round[x] = ends[x] + 1 + 0
      BY <1>0, <3>1, <3>2 DEF CallbackPerRequest
    <3> QED BY <1>a, <3>1, <3>2, <3>3
  <2>2. CASE x # r
    <3>1. Held(x) <=> Held(x)'
      BY <1>0, <1>q, <1>a, <2>2
    <3> QED BY <1>0, <1>a, <2>2, <3>1 DEF CallbackPerRequest
  <2> QED BY <2>1, <2>2
<1>3. StatusAccurate'
  BY <1>0, <1>q, <1>a DEF TypeOK, SingleOwner, StatusAccurate, ServiceInv, ModeInv
<1>4. ServiceInv'
  BY <1>0, <1>q, <1>a DEF TypeOK, ServiceInv
<1>5. ModeInv'
  BY <1>0, <1>q, <1>a DEF TypeOK, ModeInv
<1>6. ObjectInv'
  BY <1>0, <1>q, <1>a DEF TypeOK, SingleOwner, ServiceInv, ModeInv, ObjectInv, StatusAccurate
<1> QED BY <1>1, <1>2, <1>3, <1>4, <1>5, <1>6 DEF Safe

\* A terminal callback runs.
LEMMA ServiceNotifyStep ==
    ASSUME TypeOK, Safe, ServiceNotify
    PROVE  Safe'
<1> USE DEF Held, Queued, Loading, LoadPcs, Terminal, restVars, serviceVars, queueVars,
            objectVars, ownerVars, taskVars
<1>0. SingleOwner /\ CallbackPerRequest /\ StatusAccurate /\ ServiceInv /\ ModeInv /\ ObjectInv
  BY DEF Safe
<1>1. SingleOwner'
  BY <1>0, ConstAssumption DEF TypeOK, SingleOwner, ModeInv, ObjectInv, StatusAccurate, ServiceInv,
     ServiceNotify, RunCallback
<1>2. CallbackPerRequest'
  BY <1>0, ConstAssumption DEF TypeOK, SingleOwner, CallbackPerRequest, ServiceInv, ServiceNotify, RunCallback
<1>3. StatusAccurate'
  BY <1>0, ConstAssumption DEF TypeOK, SingleOwner, StatusAccurate, ServiceInv, ModeInv,
     ServiceNotify, RunCallback
<1>4. ServiceInv'
  BY <1>0, ConstAssumption DEF TypeOK, ServiceInv, ServiceNotify, RunCallback
<1>5. ModeInv'
  BY <1>0, ConstAssumption DEF TypeOK, ModeInv, ServiceNotify, RunCallback
<1>6. ObjectInv'
  BY <1>0, ConstAssumption DEF TypeOK, SingleOwner, ServiceInv, ModeInv, ObjectInv, StatusAccurate,
     ServiceNotify, RunCallback
<1> QED BY <1>1, <1>2, <1>3, <1>4, <1>5, <1>6 DEF Safe

\* A task becomes `current`.
LEMMA FetchStep ==
    ASSUME TypeOK, Safe, FetchTask
    PROVE  Safe'
<1> USE DEF Held, Queued, Loading, LoadPcs, Terminal
<1>0. SingleOwner /\ CallbackPerRequest /\ StatusAccurate /\ ServiceInv /\ ModeInv /\ ObjectInv
  BY DEF Safe
<1>q. /\ tasks' \in Seq(Req) /\ IsInjective(tasks')
      /\ current' \in Range(tasks) /\ current' \in Req
      /\ Range(tasks') = Range(tasks) \ {current'}
  BY <1>0, FetchFacts
<1>a. /\ pc = "cancel" /\ pc' = "loading"
      /\ UNCHANGED <<notifying, task_requests, status, loaded, ends, cpc, cancelled, round>>
  BY DEF FetchTask, objectVars, ownerVars, taskVars
<1>1. SingleOwner'
  BY <1>0, <1>q, <1>a DEF TypeOK, SingleOwner, ModeInv, ObjectInv, StatusAccurate, ServiceInv
<1>2. CallbackPerRequest'
  BY <1>0, <1>q, <1>a DEF TypeOK, SingleOwner, CallbackPerRequest, ServiceInv
<1>3. StatusAccurate'
  BY <1>0, <1>q, <1>a DEF TypeOK, SingleOwner, StatusAccurate, ServiceInv, ModeInv
<1>4. ServiceInv'
  BY <1>0, <1>q, <1>a DEF TypeOK, ServiceInv
<1>5. ModeInv'
  BY <1>0, <1>q, <1>a DEF TypeOK, ModeInv
<1>6. ObjectInv'
  BY <1>0, <1>q, <1>a DEF TypeOK, SingleOwner, ServiceInv, ModeInv, ObjectInv, StatusAccurate
<1> QED BY <1>1, <1>2, <1>3, <1>4, <1>5, <1>6 DEF Safe

\* Loading starts.
LEMMA LoadBeginStep ==
    ASSUME TypeOK, Safe, LoadBegin
    PROVE  Safe'
<1> USE DEF Held, Queued, Loading, LoadPcs, Terminal, restVars, serviceVars, queueVars,
            objectVars, ownerVars, taskVars
<1>0. SingleOwner /\ CallbackPerRequest /\ StatusAccurate /\ ServiceInv /\ ModeInv /\ ObjectInv
  BY DEF Safe
<1>1. SingleOwner'
  BY <1>0, ConstAssumption DEF TypeOK, SingleOwner, ModeInv, ObjectInv, StatusAccurate, ServiceInv,
     LoadBegin, SetTaskStatus
<1>2. CallbackPerRequest'
  BY <1>0, ConstAssumption DEF TypeOK, SingleOwner, CallbackPerRequest, ServiceInv, LoadBegin, SetTaskStatus
<1>3. StatusAccurate'
  BY <1>0, ConstAssumption DEF TypeOK, SingleOwner, StatusAccurate, ServiceInv, ModeInv, LoadBegin,
     SetTaskStatus
<1>4. ServiceInv'
  BY <1>0, ConstAssumption DEF TypeOK, ServiceInv, LoadBegin, SetTaskStatus
<1>5. ModeInv'
  BY <1>0, ConstAssumption DEF TypeOK, ModeInv, LoadBegin, SetTaskStatus
<1>6. ObjectInv'
  BY <1>0, ConstAssumption DEF TypeOK, SingleOwner, ServiceInv, ModeInv, ObjectInv, StatusAccurate,
     LoadBegin, SetTaskStatus
<1> QED BY <1>1, <1>2, <1>3, <1>4, <1>5, <1>6 DEF Safe

\* The buffer is filled.
LEMMA LoadReadStep ==
    ASSUME TypeOK, Safe, LoadRead
    PROVE  Safe'
<1> USE DEF Held, Queued, Loading, LoadPcs, Terminal, restVars, serviceVars, queueVars,
            objectVars, ownerVars, taskVars
<1>0. SingleOwner /\ CallbackPerRequest /\ StatusAccurate /\ ServiceInv /\ ModeInv /\ ObjectInv
  BY DEF Safe
<1>1. SingleOwner'
  BY <1>0, ConstAssumption DEF TypeOK, SingleOwner, ModeInv, ObjectInv, StatusAccurate, ServiceInv,
     LoadRead, SetTaskStatus
<1>2. CallbackPerRequest'
  BY <1>0, ConstAssumption DEF TypeOK, SingleOwner, CallbackPerRequest, ServiceInv, LoadRead, SetTaskStatus
<1>3. StatusAccurate'
  BY <1>0, ConstAssumption DEF TypeOK, SingleOwner, StatusAccurate, ServiceInv, ModeInv, LoadRead, SetTaskStatus
<1>4. ServiceInv'
  BY <1>0, ConstAssumption DEF TypeOK, ServiceInv, LoadRead, SetTaskStatus
<1>5. ModeInv'
  BY <1>0, ConstAssumption DEF TypeOK, ModeInv, LoadRead, SetTaskStatus
<1>6. ObjectInv'
  BY <1>0, ConstAssumption DEF TypeOK, SingleOwner, ServiceInv, ModeInv, ObjectInv, StatusAccurate,
     LoadRead, SetTaskStatus
<1> QED BY <1>1, <1>2, <1>3, <1>4, <1>5, <1>6 DEF Safe

\* Loading ends.
LEMMA LoadFinishStep ==
    ASSUME TypeOK, Safe, LoadFinish
    PROVE  Safe'
<1> USE DEF Held, Queued, Loading, LoadPcs, Terminal, restVars, serviceVars, queueVars,
            objectVars, ownerVars, taskVars
<1>0. SingleOwner /\ CallbackPerRequest /\ StatusAccurate /\ ServiceInv /\ ModeInv /\ ObjectInv
  BY DEF Safe
<1>1. SingleOwner'
  BY <1>0, ConstAssumption DEF TypeOK, SingleOwner, ModeInv, ObjectInv, StatusAccurate, ServiceInv,
     LoadFinish, SetTaskStatus
<1>2. CallbackPerRequest'
  <2> SUFFICES ASSUME NEW x \in Req
               PROVE  (round[x] = ends[x] + (IF Held(x) THEN 1 ELSE 0)
                                          + (IF notifying = x THEN 1 ELSE 0))'
    BY DEF CallbackPerRequest
  <2>1. /\ pc = "finishing" /\ pc' = "notify" /\ notifying' = current /\ notifying = NoReq
        /\ UNCHANGED <<current, tasks, task_requests, ends, round>>
    BY <1>0 DEF LoadFinish, ServiceInv, queueVars, ownerVars, taskVars
  <2>2. CASE x = current
    <3>1. Held(x) /\ ~Held(x)'
      BY <1>0, <2>1, <2>2 DEF SingleOwner
    <3>2. notifying # x /\ notifying' = x /\ round[x] \in Nat /\ ends[x] \in Nat
      BY <2>1, <2>2, ConstAssumption DEF TypeOK
    <3>3. round[x] = ends[x] + 1 + 0
      BY <1>0, <3>1, <3>2 DEF CallbackPerRequest
    <3> QED BY <2>1, <3>1, <3>2, <3>3
  <2>3. CASE x # current
    <3>1. Held(x) <=> Held(x)'
      BY <1>0, <2>1, <2>3
    <3> QED BY <1>0, <2>1, <2>3, <3>1, ConstAssumption DEF CallbackPerRequest
  <2> QED BY <2>2, <2>3
<1>3. StatusAccurate'
  BY <1>0, ConstAssumption DEF TypeOK, SingleOwner, StatusAccurate, ServiceInv, ModeInv,
     LoadFinish, SetTaskStatus
<1>4. ServiceInv'
  BY <1>0, ConstAssumption DEF TypeOK, ServiceInv, LoadFinish, SetTaskStatus
<1>5. ModeInv'
  BY <1>0, ConstAssumption DEF TypeOK, ModeInv, LoadFinish, SetTaskStatus
<1>6. ObjectInv'
  BY <1>0, ConstAssumption DEF TypeOK, SingleOwner, ServiceInv, ModeInv, ObjectInv, StatusAccurate,
     LoadFinish, SetTaskStatus
<1> QED BY <1>1, <1>2, <1>3, <1>4, <1>5, <1>6 DEF Safe

\* request() of a locked service.
LEMMA RequestLockedStep ==
    ASSUME TypeOK, Safe, NEW q \in Req, NEW p \in Priorities, RequestLocked(q, p)
    PROVE  Safe'
<1> USE DEF Held, Queued, Loading, LoadPcs, Terminal
<1>0. SingleOwner /\ CallbackPerRequest /\ StatusAccurate /\ ServiceInv /\ ModeInv /\ ObjectInv
  BY DEF Safe
<1>q. /\ cpc[q] = "idle" /\ IsInjective(tasks') /\ Range(tasks') = Range(tasks) \cup {q}
      /\ q \notin Range(tasks) /\ q \notin Range(task_requests) /\ ~Loading(q)
  BY <1>0, PushFacts DEF RequestLocked, MaySubmit
<1>a. /\ ~Lockless
      /\ status' = [status EXCEPT ![q] = "ENQUEUED"] /\ loaded' = [loaded EXCEPT ![q] = FALSE]
      /\ cpc' = [cpc EXCEPT ![q] = "wake"] /\ round' = [round EXCEPT ![q] = @ + 1]
      /\ cancelled' = [cancelled EXCEPT ![q] = "none"]
      /\ UNCHANGED <<pc, current, notifying, task_requests, ends>>
  BY DEF RequestLocked, NewTask, serviceVars
<1>1. SingleOwner'
  BY <1>0, <1>q, <1>a DEF TypeOK, SingleOwner, ModeInv, ObjectInv, StatusAccurate, ServiceInv
<1>2. CallbackPerRequest'
  BY <1>0, <1>q, <1>a DEF TypeOK, SingleOwner, CallbackPerRequest, ServiceInv
<1>3. StatusAccurate'
  BY <1>0, <1>q, <1>a DEF TypeOK, SingleOwner, StatusAccurate, ServiceInv, ModeInv
<1>4. ServiceInv'
  BY <1>0, <1>q, <1>a DEF TypeOK, ServiceInv
<1>5. ModeInv'
  BY <1>0, <1>q, <1>a DEF TypeOK, ModeInv
<1>6. ObjectInv'
  BY <1>0, <1>q, <1>a DEF TypeOK, SingleOwner, ServiceInv, ModeInv, ObjectInv, StatusAccurate
<1> QED BY <1>1, <1>2, <1>3, <1>4, <1>5, <1>6 DEF Safe

\* request() of a lockless service makes the task visible.
LEMMA RequestLocklessStep ==
    ASSUME TypeOK, Safe, NEW q \in Req, NEW p \in Priorities, RequestLockless(q, p)
    PROVE  Safe'
<1> USE DEF Held, Queued, Loading, LoadPcs, Terminal
<1>0. SingleOwner /\ CallbackPerRequest /\ StatusAccurate /\ ServiceInv /\ ModeInv /\ ObjectInv
  BY DEF Safe
<1>q. /\ cpc[q] = "idle" /\ IsInjective(task_requests')
      /\ Range(task_requests') = Range(task_requests) \cup {q}
      /\ q \notin Range(tasks) /\ q \notin Range(task_requests) /\ ~Loading(q)
  BY <1>0, PushFacts DEF RequestLockless, MaySubmit
<1>a. /\ Lockless /\ loaded' = [loaded EXCEPT ![q] = FALSE]
      /\ cpc' = [cpc EXCEPT ![q] = "setstatus"] /\ round' = [round EXCEPT ![q] = @ + 1]
      /\ cancelled' = [cancelled EXCEPT ![q] = "none"]
      /\ UNCHANGED <<pc, current, notifying, tasks, status, ends>>
  BY DEF RequestLockless, NewTask, serviceVars
<1>1. SingleOwner'
  BY <1>0, <1>q, <1>a DEF TypeOK, SingleOwner, ModeInv, ObjectInv, StatusAccurate, ServiceInv
<1>2. CallbackPerRequest'
  BY <1>0, <1>q, <1>a DEF TypeOK, SingleOwner, CallbackPerRequest, ServiceInv
<1>3. StatusAccurate'
  BY <1>0, <1>q, <1>a DEF TypeOK, SingleOwner, StatusAccurate, ServiceInv, ModeInv
<1>4. ServiceInv'
  BY <1>0, <1>q, <1>a DEF TypeOK, ServiceInv
<1>5. ModeInv'
  BY <1>0, <1>q, <1>a DEF TypeOK, ModeInv
<1>6. ObjectInv'
  BY <1>0, <1>q, <1>a DEF TypeOK, SingleOwner, ServiceInv, ModeInv, ObjectInv, StatusAccurate
<1> QED BY <1>1, <1>2, <1>3, <1>4, <1>5, <1>6 DEF Safe

\* The late store of ENQUEUED.
LEMMA RequestSetStatusStep ==
    ASSUME TypeOK, Safe, NEW q \in Req, RequestSetStatus(q)
    PROVE  Safe'
<1> USE DEF Held, Queued, Loading, LoadPcs, Terminal, restVars, serviceVars, queueVars,
            objectVars, ownerVars, taskVars
<1>0. SingleOwner /\ CallbackPerRequest /\ StatusAccurate /\ ServiceInv /\ ModeInv /\ ObjectInv
  BY DEF Safe
<1>1. SingleOwner'
  BY <1>0 DEF TypeOK, SingleOwner, ModeInv, ObjectInv, StatusAccurate, ServiceInv, RequestSetStatus
<1>2. CallbackPerRequest'
  BY <1>0 DEF TypeOK, SingleOwner, CallbackPerRequest, ServiceInv, RequestSetStatus
<1>3. StatusAccurate'
  BY <1>0 DEF TypeOK, SingleOwner, StatusAccurate, ServiceInv, ModeInv, RequestSetStatus
<1>4. ServiceInv'
  BY <1>0 DEF TypeOK, ServiceInv, RequestSetStatus
<1>5. ModeInv'
  BY <1>0 DEF TypeOK, ModeInv, RequestSetStatus
<1>6. ObjectInv'
  BY <1>0 DEF TypeOK, SingleOwner, ServiceInv, ModeInv, ObjectInv, StatusAccurate, RequestSetStatus
<1> QED BY <1>1, <1>2, <1>3, <1>4, <1>5, <1>6 DEF Safe

\* The late store to request_cancel.
LEMMA RequestResetCancelStep ==
    ASSUME TypeOK, Safe, NEW q \in Req, RequestResetCancel(q)
    PROVE  Safe'
<1> USE DEF Held, Queued, Loading, LoadPcs, Terminal, restVars, serviceVars, queueVars,
            objectVars, ownerVars, taskVars
<1>0. SingleOwner /\ CallbackPerRequest /\ StatusAccurate /\ ServiceInv /\ ModeInv /\ ObjectInv
  BY DEF Safe
<1>1. SingleOwner'
  BY <1>0 DEF TypeOK, SingleOwner, ModeInv, ObjectInv, StatusAccurate, ServiceInv, RequestResetCancel
<1>2. CallbackPerRequest'
  BY <1>0 DEF TypeOK, SingleOwner, CallbackPerRequest, ServiceInv, RequestResetCancel
<1>3. StatusAccurate'
  BY <1>0 DEF TypeOK, SingleOwner, StatusAccurate, ServiceInv, ModeInv, RequestResetCancel
<1>4. ServiceInv'
  BY <1>0 DEF TypeOK, ServiceInv, RequestResetCancel
<1>5. ModeInv'
  BY <1>0 DEF TypeOK, ModeInv, RequestResetCancel
<1>6. ObjectInv'
  BY <1>0 DEF TypeOK, SingleOwner, ServiceInv, ModeInv, ObjectInv, StatusAccurate, RequestResetCancel
<1> QED BY <1>1, <1>2, <1>3, <1>4, <1>5, <1>6 DEF Safe

\* The check before the lock.
LEMMA TryCancelStep ==
    ASSUME TypeOK, Safe, NEW q \in Req, TryCancel(q)
    PROVE  Safe'
<1> USE DEF Held, Queued, Loading, LoadPcs, Terminal, restVars, serviceVars, queueVars,
            objectVars, ownerVars, taskVars
<1>0. SingleOwner /\ CallbackPerRequest /\ StatusAccurate /\ ServiceInv /\ ModeInv /\ ObjectInv
  BY DEF Safe
<1>1. SingleOwner'
  BY <1>0 DEF TypeOK, SingleOwner, ModeInv, ObjectInv, StatusAccurate, ServiceInv, TryCancel
<1>2. CallbackPerRequest'
  BY <1>0 DEF TypeOK, SingleOwner, CallbackPerRequest, ServiceInv, TryCancel
<1>3. StatusAccurate'
  BY <1>0 DEF TypeOK, SingleOwner, StatusAccurate, ServiceInv, ModeInv, TryCancel
<1>4. ServiceInv'
  BY <1>0 DEF TypeOK, ServiceInv, TryCancel
<1>5. ModeInv'
  BY <1>0 DEF TypeOK, ModeInv, TryCancel
<1>6. ObjectInv'
  BY <1>0 DEF TypeOK, SingleOwner, ServiceInv, ModeInv, ObjectInv, StatusAccurate, TryCancel
<1> QED BY <1>1, <1>2, <1>3, <1>4, <1>5, <1>6 DEF Safe

\* The owner takes a finished object back.
LEMMA CollectStep ==
    ASSUME TypeOK, Safe, NEW q \in Req, Collect(q)
    PROVE  Safe'
<1> USE DEF Held, Queued, Loading, LoadPcs, Terminal, restVars, serviceVars, queueVars,
            objectVars, ownerVars, taskVars
<1>0. SingleOwner /\ CallbackPerRequest /\ StatusAccurate /\ ServiceInv /\ ModeInv /\ ObjectInv
  BY DEF Safe
<1>1. SingleOwner'
  BY <1>0 DEF TypeOK, SingleOwner, ModeInv, ObjectInv, StatusAccurate, ServiceInv, Collect
<1>2. CallbackPerRequest'
  BY <1>0 DEF TypeOK, SingleOwner, CallbackPerRequest, ServiceInv, Collect
<1>3. StatusAccurate'
  BY <1>0 DEF TypeOK, SingleOwner, StatusAccurate, ServiceInv, ModeInv, Collect
<1>4. ServiceInv'
  BY <1>0 DEF TypeOK, ServiceInv, Collect
<1>5. ModeInv'
  BY <1>0 DEF TypeOK, ModeInv, Collect
<1>6. ObjectInv'
  BY <1>0 DEF TypeOK, SingleOwner, ServiceInv, ModeInv, ObjectInv, StatusAccurate, Collect
<1> QED BY <1>1, <1>2, <1>3, <1>4, <1>5, <1>6 DEF Safe

\* The tail of request(): the thread may be woken.
LEMMA RequestWakeStep ==
    ASSUME TypeOK, Safe, NEW q \in Req, RequestWake(q)
    PROVE  Safe'
<1> USE DEF Held, Queued, Loading, LoadPcs, Terminal
<1>0. SingleOwner /\ CallbackPerRequest /\ StatusAccurate /\ ServiceInv /\ ModeInv /\ ObjectInv
  BY DEF Safe
<1>a. /\ cpc[q] = "wake" /\ cpc' = [cpc EXCEPT ![q] = "waiting"]
      /\ UNCHANGED <<current, notifying, tasks, task_requests, status, loaded, cancelled, round, ends>>
      /\ pc' = pc \/ (pc = "asleep" /\ pc' = "top")
  BY DEF RequestWake, queueVars, objectVars, taskVars
<1>1. SingleOwner'
  BY <1>0, <1>a DEF TypeOK, SingleOwner, ModeInv, ObjectInv, StatusAccurate, ServiceInv
<1>2. CallbackPerRequest'
  BY <1>0, <1>a DEF TypeOK, SingleOwner, CallbackPerRequest, ServiceInv
<1>3. StatusAccurate'
  BY <1>0, <1>a DEF TypeOK, SingleOwner, StatusAccurate, ServiceInv, ModeInv
<1>4. ServiceInv'
  BY <1>0, <1>a DEF TypeOK, ServiceInv
<1>5. ModeInv'
  BY <1>0, <1>a DEF TypeOK, ModeInv
<1>6. ObjectInv'
  BY <1>0, <1>a DEF TypeOK, SingleOwner, ServiceInv, ModeInv, ObjectInv, StatusAccurate
<1> QED BY <1>1, <1>2, <1>3, <1>4, <1>5, <1>6 DEF Safe

\* doCancel() takes the task out of the deque, or finds nothing to cancel.
LEMMA DoCancelStep ==
    ASSUME TypeOK, Safe, NEW q \in Req, DoCancel(q)
    PROVE  Safe'
<1> USE DEF Held, Queued, Loading, LoadPcs, Terminal
<1>0. SingleOwner /\ CallbackPerRequest /\ StatusAccurate /\ ServiceInv /\ ModeInv /\ ObjectInv
  BY DEF Safe
<1>a. /\ cpc[q] = "trycancel" /\ cpc' = [cpc EXCEPT ![q] = "waiting"] /\ ~Lockless
      /\ UNCHANGED <<pc, current, notifying, task_requests, loaded, round>>
  BY <1>0 DEF DoCancel, ModeInv, serviceVars, taskVars
<1>q. \/ /\ q \in Range(tasks) /\ IsInjective(tasks') /\ Range(tasks') = Range(tasks) \ {q}
         /\ status' = [status EXCEPT ![q] = "CANCELLED"] /\ ends' = [ends EXCEPT ![q] = @ + 1]
         /\ \E c \in {"true", "false"} : cancelled' = [cancelled EXCEPT ![q] = c]
      \/ /\ UNCHANGED <<tasks, status, ends>>
         /\ cancelled' = [cancelled EXCEPT ![q] = "false"]
  <2>1. DOMAIN tasks = 1..Len(tasks)
    BY DEF TypeOK
  <2>2. ASSUME NEW i \in DOMAIN tasks, tasks[i] = q, tasks' = Erased(i)
        PROVE  q \in Range(tasks) /\ IsInjective(tasks') /\ Range(tasks') = Range(tasks) \ {q}
    BY <1>0, <2>1, <2>2, ErasedFacts
  <2> QED BY <2>2 DEF DoCancel, SetTaskStatus, RunCallback
<1>1. SingleOwner'
  BY <1>0, <1>q, <1>a DEF TypeOK, SingleOwner, ModeInv, ObjectInv, StatusAccurate, ServiceInv
<1>2. CallbackPerRequest'
  <2> SUFFICES ASSUME NEW x \in Req
               PROVE  (round[x] = ends[x] + (IF Held(x) THEN 1 ELSE 0)
                                          + (IF notifying = x THEN 1 ELSE 0))'
    BY DEF CallbackPerRequest
  <2>0. ends \in [Req -> Nat] /\ round \in [Req -> Nat]
    BY DEF TypeOK
  <2>1. CASE UNCHANGED <<tasks, ends>>
    BY <1>0, <1>a, <2>1 DEF CallbackPerRequest
  <2>2. CASE /\ q \in Range(tasks) /\ Range(tasks') = Range(tasks) \ {q}
             /\ ends' = [ends EXCEPT ![q] = @ + 1]
    <3>1. CASE x = q
      <4>1. Held(x) /\ ~Held(x)'
        BY <1>0, <1>a, <2>2, <3>1 DEF SingleOwner
      <4>2. ends'[x] = ends[x] + 1
        BY <2>0, <2>2, <3>1
      <4> QED BY <1>0, <1>a, <2>0, <4>1, <4>2 DEF CallbackPerRequest
    <3>2. CASE x # q
      <4>1. (Held(x) <=> Held(x)') /\ ends'[x] = ends[x]
        BY <1>0, <1>a, <2>0, <2>2, <3>2
      <4> QED BY <1>0, <1>a, <4>1 DEF CallbackPerRequest
    <3> QED BY <3>1, <3>2
  <2> QED BY <1>q, <2>1, <2>2
<1>3. StatusAccurate'
  BY <1>0, <1>q, <1>a DEF TypeOK, SingleOwner, StatusAccurate, ServiceInv, ModeInv
<1>4. ServiceInv'
  BY <1>0, <1>q, <1>a DEF TypeOK, ServiceInv
<1>5. ModeInv'
  BY <1>0, <1>q, <1>a DEF TypeOK, ModeInv
<1>6. ObjectInv'
  BY <1>0, <1>q, <1>a DEF TypeOK, SingleOwner, ServiceInv, ModeInv, ObjectInv, StatusAccurate
<1> QED BY <1>1, <1>2, <1>3, <1>4, <1>5, <1>6 DEF Safe

-----------------------------------------------------------------------------
(* The theorems.                                                           *)

\* Every step preserves the safety part of the inductive invariant.
LEMMA SafeStep == TypeOK /\ Safe /\ [Next]_vars => Safe'
<1> SUFFICES ASSUME TypeOK, Safe, [Next]_vars PROVE Safe'
  OBVIOUS
<1>1. CASE ServiceNext \/ SpuriousWakeup
  <2>1. CASE ThreadTop \/ SpinEnd \/ FetchNothing \/ BeginSleep \/ SleepTimeout \/ SpuriousWakeup
    BY <2>1, QuietStep
    DEF ThreadTop, TopTarget, SpinEnd, FetchNothing, BeginSleep, SleepTimeout, SpuriousWakeup,
        Quiet, ServicePcs, LoadPcs, coreVars, TypeOK, restVars, queueVars, objectVars,
        ownerVars, taskVars
  <2>2. CASE EnterSleep
    BY <2>2, QuietStep
    DEF EnterSleep, Quiet, ServicePcs, LoadPcs, coreVars, queueVars, objectVars, ownerVars, taskVars
  <2>3. CASE DeferCancelTask
    <3>1. CASE notifying' # notifying
      BY <2>3, <3>1, DeferCancelTaskStep
    <3>2. CASE notifying' = notifying
      <4>1. UNCHANGED <<pc, status, tasks>>
        <5>1. notifying = NoReq /\ scan \in 1..Len(tasks)
          BY <2>3 DEF DeferCancelTask, Safe, ServiceInv, TypeOK
        <5>2. tasks[scan] \in Req
          BY <5>1 DEF TypeOK
        <5> QED BY <2>3, <3>2, <5>1, <5>2, ConstAssumption DEF DeferCancelTask
      <4> QED BY <2>3, <3>2, <4>1, QuietStep
          DEF DeferCancelTask, coreVars, ownerVars, taskVars
    <3> QED BY <3>1, <3>2
  <2> QED
    BY <1>1, <2>1, <2>2, <2>3, DequeueStep, ServiceNotifyStep, FetchStep, LoadBeginStep,
       LoadReadStep, LoadFinishStep DEF ServiceNext
<1>2. ASSUME NEW r \in Req, OwnerNext(r) PROVE Safe'
  <2>1. CASE DeferCancel(r)
    BY <2>1, QuietStep DEF DeferCancel, coreVars, serviceVars, queueVars, ownerVars, taskVars
  <2> QED
    BY <1>2, <2>1, RequestLockedStep, RequestLocklessStep, RequestSetStatusStep,
       RequestResetCancelStep, RequestWakeStep, TryCancelStep, DoCancelStep, CollectStep
    DEF OwnerNext, OwnerStep
<1>3. CASE CtlNext \/ Terminated \/ UNCHANGED vars
  <2>1. UNCHANGED <<pc, current, notifying, tasks, task_requests, status, loaded, cpc,
                    cancelled, round, ends>>
    BY <1>3
    DEF CtlNext, CtlStep, SetSleepTime, Drain, DrainSpin, DrainReturn, Stop, StopSuspend, Run,
        Destroy, DestroyQuit, DestroyJoin, Terminated, vars, serviceVars, queueVars,
        objectVars, ownerVars, taskVars
  <2> QED BY <2>1, QuietStep DEF coreVars
<1> QED BY <1>1, <1>2, <1>3 DEF Next

\* The initial states satisfy the inductive invariant.
LEMMA InitIInv == Init => IInv
<1> SUFFICES ASSUME Init PROVE IInv
  OBVIOUS
<1> USE ConstAssumption DEF Init
<1>1. Range(<<>>) = {} /\ IsInjective(<<>>)
  BY DEF Range, IsInjective
<1>2. TypeOK
  <2>1. (CHOOSE p \in Priorities : TRUE) \in Priorities
    OBVIOUS
  <2> QED BY <2>1 DEF TypeOK, ServicePcs, Statuses, OwnerPcs, CtlPcs
<1>3. \A r \in Req : ~Held(r)
  BY <1>1 DEF Held, Queued, Loading, LoadPcs
<1>4. SingleOwner /\ CallbackPerRequest /\ StatusAccurate
  BY <1>1, <1>3 DEF SingleOwner, CallbackPerRequest, StatusAccurate, Held
<1>5. ServiceInv /\ ModeInv /\ ObjectInv
  BY <1>3 DEF ServiceInv, ModeInv, ObjectInv, LoadPcs
<1> QED BY <1>2, <1>4, <1>5 DEF IInv, Safe

\* The inductive invariant holds in every reachable state.
THEOREM Invariance == Spec => []IInv
<1>1. IInv /\ [Next]_vars => IInv'
  BY TypeOKStep, SafeStep DEF IInv
<1> QED BY <1>1, InitIInv, PTL DEF Spec

\* Type correctness of the service, its callers and the controlling thread.
THEOREM TypeCorrect == Spec => []TypeOK
<1>1. IInv => TypeOK
  BY DEF IInv
<1> QED BY <1>1, Invariance, PTL

\* A request object is in at most one place of the service, and in none once
\* its owner has taken it back, in either mode.
THEOREM Ownership == Spec => []SingleOwner
<1>1. IInv => SingleOwner
  BY DEF IInv, Safe
<1> QED BY <1>1, Invariance, PTL

\* Every request() leads to exactly one terminal callback, in either mode.
THEOREM OneCallback == Spec => []CallbackPerRequest
<1>1. IInv => CallbackPerRequest
  BY DEF IInv, Safe
<1> QED BY <1>1, Invariance, PTL

\* A terminal status an owner sees is final and describes its buffer, in
\* either mode; this is what makes polling and then freeing the buffer safe.
THEOREM Settled == Spec => []ResultSettled
<1>1. IInv => ResultSettled
  BY DEF IInv, Safe, ObjectInv, ResultSettled
<1> QED BY <1>1, Invariance, PTL

\* try_cancel() == true is reliable.
THEOREM CancelTrue == Spec => []TrueMeansCancelled
<1>1. IInv => TrueMeansCancelled
  BY DEF IInv, Safe, ObjectInv, TrueMeansCancelled, Terminal
<1> QED BY <1>1, Invariance, PTL

\* A locked service never shows a status that contradicts its queues.
THEOREM Accurate == Spec => []StatusAccurate
<1>1. IInv => StatusAccurate
  BY DEF IInv, Safe
<1> QED BY <1>1, Invariance, PTL

\* What the runs of the lockless service check, in either mode.
THEOREM OwnedSettled == Spec => []OwnedAndSettled
<1>1. IInv => OwnedAndSettled
  BY DEF IInv, Safe, ObjectInv, ResultSettled, OwnedAndSettled
<1> QED BY <1>1, Invariance, PTL

-----------------------------------------------------------------------------
(* The order of loading.                                                   *)

\* The deque of a locked service holds tasks that sorting may not reorder in
\* the order of their request() calls.
Ordered(s) ==
    \A i, j \in DOMAIN s : i < j =>
        /\ SortMethod = "NEVER" => ticket[s[i]] < ticket[s[j]]
        /\ (SortMethod = "STABLE" /\ prio[s[i]] = prio[s[j]]) => ticket[s[i]] < ticket[s[j]]

QueueInv ==
    /\ \A r \in Req : ticket[r] <= clock
    /\ ~Lockless => Ordered(tasks)

\* The deque after a step is a selection of the one before, in its order.
LEMMA OrderedSelection ==
    ASSUME TypeOK, Ordered(tasks), UNCHANGED <<prio, ticket>>, tasks' \in Seq(Req),
           NEW at \in [1..Len(tasks') -> 1..Len(tasks)],
           \A i, j \in 1..Len(tasks') : i < j => at[i] < at[j],
           \A i \in 1..Len(tasks') : tasks'[i] = tasks[at[i]]
    PROVE  Ordered(tasks)'
<1>1. DOMAIN tasks = 1..Len(tasks) /\ DOMAIN tasks' = 1..Len(tasks')
  BY DEF TypeOK
<1> QED BY <1>1 DEF Ordered

\* erase(remove_if(...)) keeps the order.
LEMMA OrderedErased ==
    ASSUME TypeOK, Ordered(tasks), UNCHANGED <<prio, ticket>>, NEW k \in 1..Len(tasks), tasks' = Erased(k)
    PROVE  Ordered(tasks)'
<1>1. tasks \in Seq(Req) /\ Len(tasks) \in Nat
  BY DEF TypeOK
<1>2. /\ tasks' \in Seq(Req) /\ Len(tasks') = Len(tasks) - 1
      /\ \A i \in 1..(Len(tasks) - 1) : tasks'[i] = tasks[IF i < k THEN i ELSE i + 1]
  BY <1>1, RemoveAtPlaces DEF Erased
<1>3. PICK at : at = [i \in 1..Len(tasks') |-> IF i < k THEN i ELSE i + 1]
  OBVIOUS
<1>4. at \in [1..Len(tasks') -> 1..Len(tasks)]
  BY <1>1, <1>2, <1>3
<1>5. \A i, j \in 1..Len(tasks') : i < j => at[i] < at[j]
  BY <1>1, <1>2, <1>3
<1>6. \A i \in 1..Len(tasks') : tasks'[i] = tasks[at[i]]
  BY <1>2, <1>3
<1> QED BY <1>2, <1>4, <1>5, <1>6, OrderedSelection

\* The sort leaves tasks behind in an order in which they stay Ordered.
LEMMA OrderedFetch ==
    ASSUME TypeOK, Ordered(tasks), FetchTask
    PROVE  Ordered(tasks)'
<1>1. PICK p \in Reorderings(tasks) :
          SortedBy(tasks, p) /\ tasks' = [i \in 1..(Len(tasks) - 1) |-> tasks[p[i + 1]]]
  BY DEF FetchTask
<1>2. tasks \in Seq(Req) /\ Len(tasks) \in Nat /\ DOMAIN tasks = 1..Len(tasks) /\ tasks # <<>> /\ Len(tasks) > 0
  BY DEF TypeOK, FetchTask
<1>3. p \in [1..Len(tasks) -> 1..Len(tasks)]
  BY <1>1, <1>2, ReorderingFacts DEF Reorderings
<1>4. UNCHANGED <<prio, ticket>>
  BY DEF FetchTask, ownerVars, taskVars
<1>t. DOMAIN tasks' = 1..(Len(tasks) - 1) /\ \A i \in 1..(Len(tasks) - 1) : tasks'[i] = tasks[p[i + 1]]
  BY <1>1
<1> SUFFICES ASSUME NEW i \in 1..(Len(tasks) - 1), NEW j \in 1..(Len(tasks) - 1), i < j
             PROVE  /\ SortMethod = "NEVER" => ticket'[tasks'[i]] < ticket'[tasks'[j]]
                    /\ (SortMethod = "STABLE" /\ prio'[tasks'[i]] = prio'[tasks'[j]])
                          => ticket'[tasks'[i]] < ticket'[tasks'[j]]
  BY <1>t DEF Ordered
<1>5. /\ i + 1 \in DOMAIN tasks /\ j + 1 \in DOMAIN tasks /\ i + 1 < j + 1
      /\ tasks'[i] = tasks[p[i + 1]] /\ tasks'[j] = tasks[p[j + 1]]
  BY <1>2, <1>t
<1>6. p[i + 1] \in DOMAIN tasks /\ p[j + 1] \in DOMAIN tasks
  BY <1>2, <1>3, <1>5
<1>7. ASSUME SortMethod = "NEVER" PROVE p[i + 1] < p[j + 1]
  BY <1>1, <1>5, <1>7 DEF SortedBy
<1>8. ASSUME SortMethod = "STABLE", prio[tasks[p[i + 1]]] = prio[tasks[p[j + 1]]] PROVE p[i + 1] < p[j + 1]
  BY <1>1, <1>5, <1>8 DEF SortedBy
<1> QED BY <1>4, <1>5, <1>6, <1>7, <1>8 DEF Ordered

\* push_back of the latest request.
LEMMA OrderedPush ==
    ASSUME TypeOK, SingleOwner, QueueInv, NEW r \in Req, NEW p, ~Lockless, cpc[r] = "idle", NewTask(r, p),
           tasks' = Append(tasks, r)
    PROVE  Ordered(tasks)'
<1>1. r \notin Range(tasks)
  BY PushFacts
<1>2. tasks \in Seq(Req) /\ Len(tasks) \in Nat /\ DOMAIN tasks = 1..Len(tasks)
  BY DEF TypeOK
<1>3. /\ DOMAIN tasks' = 1..(Len(tasks) + 1) /\ tasks'[Len(tasks) + 1] = r
      /\ \A i \in 1..Len(tasks) : tasks'[i] = tasks[i]
  BY <1>2
<1>4. ASSUME NEW i \in 1..Len(tasks)
      PROVE  /\ tasks[i] \in Req /\ tasks[i] # r /\ prio'[tasks[i]] = prio[tasks[i]]
             /\ ticket'[tasks[i]] = ticket[tasks[i]] /\ ticket'[tasks[i]] < ticket'[r]
  <2>1. tasks[i] \in Req /\ tasks[i] # r
    BY <1>1, <1>2 DEF Range
  <2>2. ticket'[r] = clock + 1 /\ ticket'[tasks[i]] = ticket[tasks[i]] /\ prio'[tasks[i]] = prio[tasks[i]]
    BY <2>1 DEF NewTask, TypeOK
  <2>3. ticket[tasks[i]] <= clock /\ clock \in Nat /\ ticket[tasks[i]] \in Nat
    BY <2>1 DEF QueueInv, TypeOK
  <2> QED BY <2>1, <2>2, <2>3
<1> SUFFICES ASSUME NEW i \in 1..(Len(tasks) + 1), NEW j \in 1..(Len(tasks) + 1), i < j
             PROVE  /\ SortMethod = "NEVER" => ticket'[tasks'[i]] < ticket'[tasks'[j]]
                    /\ (SortMethod = "STABLE" /\ prio'[tasks'[i]] = prio'[tasks'[j]])
                          => ticket'[tasks'[i]] < ticket'[tasks'[j]]
  BY <1>3 DEF Ordered
<1>5. i \in 1..Len(tasks)
  BY <1>2
<1>6. CASE j = Len(tasks) + 1
  BY <1>3, <1>4, <1>5, <1>6
<1>7. CASE j # Len(tasks) + 1
  <2>1. j \in 1..Len(tasks)
    BY <1>2, <1>7
  <2> QED BY <1>2, <1>3, <1>4, <1>5, <2>1 DEF QueueInv, Ordered
<1> QED BY <1>6, <1>7

\* Every step keeps the deque in order.
LEMMA QueueStep == ASSUME IInv, QueueInv, [Next]_vars PROVE QueueInv'
<1>0. TypeOK /\ SingleOwner /\ ServiceInv /\ ModeInv /\ ObjectInv
  BY DEF IInv, Safe
<1>t. clock \in Nat /\ ticket \in [Req -> Nat] /\ tasks \in Seq(Req)
  BY <1>0 DEF TypeOK
<1>1. CASE UNCHANGED <<tasks, prio, ticket, clock>>
  BY <1>1 DEF QueueInv, Ordered
<1>2. CASE DequeueRequests
  <2>1. UNCHANGED <<prio, ticket, clock>>
    BY <1>2 DEF DequeueRequests, ownerVars, taskVars
  <2>2. ~Lockless => tasks' = tasks
    <3>1. PICK p \in Reorderings(task_requests) : tasks' = tasks \o Reordered(task_requests, p)
      BY <1>2 DEF DequeueRequests
    <3>2. task_requests = <<>> => Reordered(task_requests, p) = <<>>
      BY DEF Reordered
    <3> QED BY <1>0, <1>t, <3>1, <3>2 DEF ModeInv
  <2> QED BY <2>1, <2>2 DEF QueueInv, Ordered
<1>3. CASE DeferCancelTask
  <2>1. UNCHANGED <<prio, ticket, clock>> /\ scan \in 1..Len(tasks)
    BY <1>0, <1>3 DEF DeferCancelTask, ownerVars, taskVars, TypeOK
  <2>2. tasks' = tasks \/ tasks' = Erased(scan)
    BY <1>3 DEF DeferCancelTask
  <2>3. CASE tasks' = tasks
    BY <1>1, <2>1, <2>3
  <2>4. CASE tasks' = Erased(scan)
    BY <1>0, <2>1, <2>4, OrderedErased DEF QueueInv
  <2> QED BY <2>2, <2>3, <2>4
<1>4. CASE FetchTask
  <2>1. UNCHANGED <<prio, ticket, clock>>
    BY <1>4 DEF FetchTask, ownerVars, taskVars
  <2> QED BY <1>0, <1>4, <2>1, OrderedFetch DEF QueueInv
<1>5. ASSUME NEW r \in Req, DoCancel(r) PROVE QueueInv'
  <2>1. UNCHANGED <<prio, ticket, clock>>
    BY <1>5 DEF DoCancel, taskVars
  <2>2. tasks' = tasks \/ \E i \in DOMAIN tasks : tasks' = Erased(i)
    BY <1>5 DEF DoCancel
  <2>3. CASE tasks' = tasks
    BY <1>1, <2>1, <2>3
  <2>4. ASSUME NEW i \in DOMAIN tasks, tasks' = Erased(i) PROVE QueueInv'
    <3>1. i \in 1..Len(tasks)
      BY <1>t
    <3> QED BY <1>0, <2>1, <2>4, <3>1, OrderedErased DEF QueueInv
  <2> QED BY <2>2, <2>3, <2>4
<1>6. ASSUME NEW r \in Req, NEW p \in Priorities, RequestLocked(r, p) \/ RequestLockless(r, p) PROVE QueueInv'
  <2>1. NewTask(r, p) /\ cpc[r] = "idle"
    BY <1>6 DEF RequestLocked, RequestLockless, MaySubmit
  <2>2. \A q \in Req : ticket'[q] <= clock'
    <3>1. clock' = clock + 1 /\ \A q \in Req : ticket'[q] = ticket[q] \/ ticket'[q] = clock + 1
      BY <1>t, <2>1 DEF NewTask
    <3> QED BY <1>t, <3>1 DEF QueueInv
  <2>3. ~Lockless => tasks' = Append(tasks, r)
    BY <1>6 DEF RequestLocked, RequestLockless
  <2> QED BY <1>0, <2>1, <2>2, <2>3, OrderedPush DEF QueueInv
<1>7. ASSUME NEW r \in Req, Collect(r) PROVE QueueInv'
  <2>1. /\ cpc[r] = "waiting" /\ status[r] \in Terminal /\ ticket' = [ticket EXCEPT ![r] = 0]
        /\ UNCHANGED <<tasks, prio, clock>>
    BY <1>7 DEF Collect, queueVars
  <2>2. r \notin Range(tasks)
    BY <1>0, <2>1 DEF ObjectInv, Held, Queued
  <2>3. \A i \in DOMAIN tasks : tasks[i] # r /\ tasks[i] \in Req
    BY <1>t, <2>2 DEF Range
  <2>4. \A i \in DOMAIN tasks : ticket'[tasks[i]] = ticket[tasks[i]]
    BY <1>t, <2>1, <2>3
  <2>5. \A q \in Req : ticket'[q] <= clock'
    BY <1>t, <2>1 DEF QueueInv
  <2> QED BY <2>1, <2>4, <2>5 DEF QueueInv, Ordered
<1>8. CASE \/ ThreadTop \/ SpinEnd \/ ServiceNotify \/ FetchNothing \/ EnterSleep \/ BeginSleep
           \/ SleepTimeout \/ SpuriousWakeup \/ LoadBegin \/ LoadRead \/ LoadFinish
           \/ CtlNext \/ Terminated \/ UNCHANGED vars
  <2>1. UNCHANGED <<tasks, prio, ticket, clock>>
    BY <1>8
    DEF ThreadTop, SpinEnd, ServiceNotify, FetchNothing, EnterSleep, BeginSleep, SleepTimeout,
        SpuriousWakeup, LoadBegin, LoadRead, LoadFinish, CtlNext, CtlStep, SetSleepTime, Drain,
        DrainSpin, DrainReturn, Stop, StopSuspend, Run, Destroy, DestroyQuit, DestroyJoin,
        Terminated, vars, restVars, queueVars, ownerVars, taskVars
  <2> QED BY <1>1, <2>1
<1>9. ASSUME NEW r \in Req,
             RequestSetStatus(r) \/ RequestResetCancel(r) \/ RequestWake(r) \/ TryCancel(r) \/ DeferCancel(r)
      PROVE  QueueInv'
  <2>1. UNCHANGED <<tasks, prio, ticket, clock>>
    BY <1>9 DEF RequestSetStatus, RequestResetCancel, RequestWake, TryCancel, DeferCancel,
                queueVars, ownerVars, taskVars
  <2> QED BY <1>1, <2>1
<1> QED BY <1>2, <1>3, <1>4, <1>5, <1>6, <1>7, <1>8, <1>9 DEF Next, ServiceNext, OwnerNext, OwnerStep

\* The task that is loaded next comes before every other one of the deque.
LEMMA FetchOrder ==
    ASSUME IInv, QueueInv, FetchTask, NEW r \in Range(tasks) \ {current'}
    PROVE  /\ SortMethod # "NEVER" => prio[r] <= prio[current']
           /\ (~Lockless /\ ticket[r] < ticket[current']) =>
                 CASE SortMethod = "NEVER"   -> FALSE
                   [] SortMethod = "STABLE"  -> prio[r] < prio[current']
                   [] SortMethod = "PARTIAL" -> TRUE
<1>0. TypeOK
  BY DEF IInv
<1>1. PICK p \in Reorderings(tasks) : SortedBy(tasks, p) /\ current' = tasks[p[1]]
  BY DEF FetchTask
<1>2. tasks \in Seq(Req) /\ Len(tasks) \in Nat /\ DOMAIN tasks = 1..Len(tasks) /\ tasks # <<>> /\ Len(tasks) > 0
  BY <1>0 DEF TypeOK, FetchTask
<1>3. /\ p \in [1..Len(tasks) -> 1..Len(tasks)]
      /\ \A j \in 1..Len(tasks) : \E i \in 1..Len(tasks) : p[i] = j
  BY <1>1, <1>2, ReorderingFacts DEF Reorderings
<1>4. PICK j \in 1..Len(tasks) : r = tasks[j]
  BY <1>2 DEF Range
<1>5. PICK i \in 1..Len(tasks) : p[i] = j
  BY <1>3
<1>6. i # 1 /\ 1 < i /\ 1 \in DOMAIN tasks /\ i \in DOMAIN tasks /\ p[1] \in DOMAIN tasks /\ p[i] \in DOMAIN tasks
  <2>1. i # 1
    BY <1>1, <1>4, <1>5
  <2>2. 1 \in 1..Len(tasks)
    BY <1>2
  <2>3. p[1] \in 1..Len(tasks) /\ p[i] \in 1..Len(tasks)
    BY <1>3, <2>2
  <2> QED BY <1>2, <2>1, <2>2, <2>3
<1>7. current' \in Req /\ r \in Req /\ current' = tasks[p[1]] /\ r = tasks[p[i]]
  BY <1>1, <1>2, <1>4, <1>5, <1>6
<1>8. /\ prio[r] \in Int /\ prio[current'] \in Int
      /\ ticket[r] \in Nat /\ ticket[current'] \in Nat
  BY <1>0, <1>7, ConstAssumption DEF TypeOK
<1>9. CASE SortMethod = "NEVER"
  <2>1. p[1] < p[i]
    BY <1>1, <1>6, <1>9 DEF SortedBy
  <2> QED BY <1>6, <1>7, <1>8, <1>9, <2>1 DEF QueueInv, Ordered
<1>10. CASE SortMethod = "STABLE"
  <2>1. ~(prio[r] > prio[current']) /\ (prio[current'] = prio[r] => p[1] < p[i])
    BY <1>1, <1>6, <1>7, <1>10 DEF SortedBy, Before
  <2>2. prio[r] <= prio[current']
    BY <1>8, <2>1
  <2>3. ASSUME ~Lockless, ticket[r] < ticket[current'] PROVE prio[r] < prio[current']
    <3>1. prio[r] # prio[current']
      BY <1>6, <1>7, <1>8, <1>10, <2>1, <2>3 DEF QueueInv, Ordered
    <3> QED BY <1>8, <2>2, <3>1
  <2> QED BY <1>10, <2>2, <2>3
<1>11. CASE SortMethod = "PARTIAL"
  <2>1. 1 <= PartialEnd(tasks)
    BY <1>2, <1>6 DEF PartialEnd
  <2>2. ~(prio[r] > prio[current'])
    BY <1>1, <1>6, <1>7, <1>11, <2>1 DEF SortedBy, Before
  <2> QED BY <1>8, <1>11, <2>2
<1> QED BY <1>9, <1>10, <1>11, ConstAssumption

\* The deque stays in order, and nothing overtakes: a service loads the most
\* urgent task (STABLE, PARTIAL), and a locked one the earliest of them (STABLE)
\* or of all (NEVER), with requests and cancels of any number of threads between.
THEOREM NothingOvertakes == Spec => NoOvertaking
<1>1. Init => QueueInv
  BY DEF Init, QueueInv, Ordered
<1>2. IInv /\ QueueInv /\ [Next]_vars => QueueInv'
  BY QueueStep
<1>3. IInv /\ QueueInv /\ [Next]_vars =>
        [ (pc = "cancel" /\ pc' = "loading") =>
          \A r \in Range(tasks) \ {current'} :
              /\ SortMethod # "NEVER" => prio[r] <= prio[current']
              /\ ~Lockless /\ ticket[r] < ticket[current'] =>
                    CASE SortMethod = "NEVER"   -> FALSE
                      [] SortMethod = "STABLE"  -> prio[r] < prio[current']
                      [] SortMethod = "PARTIAL" -> TRUE ]_vars
  <2> SUFFICES ASSUME IInv, QueueInv, [Next]_vars, pc = "cancel", pc' = "loading"
               PROVE  \A r \in Range(tasks) \ {current'} :
                        /\ SortMethod # "NEVER" => prio[r] <= prio[current']
                        /\ ~Lockless /\ ticket[r] < ticket[current'] =>
                              CASE SortMethod = "NEVER"   -> FALSE
                                [] SortMethod = "STABLE"  -> prio[r] < prio[current']
                                [] SortMethod = "PARTIAL" -> TRUE
    OBVIOUS
  <2>1. FetchTask
    BY DEF Next, ServiceNext, OwnerNext, OwnerStep, CtlNext, CtlStep, ThreadTop, SpinEnd, DequeueRequests,
        DeferCancelTask, ServiceNotify, FetchNothing, EnterSleep, BeginSleep, SleepTimeout,
        SpuriousWakeup, LoadBegin, LoadRead, LoadFinish, SetSleepTime, Drain,
        DrainSpin, DrainReturn, Stop, StopSuspend, Run, Destroy, DestroyQuit, DestroyJoin,
        RequestLocked, RequestLockless, RequestSetStatus, RequestResetCancel, RequestWake, TryCancel,
        DoCancel, DeferCancel, Collect, Terminated, vars, serviceVars
  <2> QED BY <2>1, FetchOrder
<1> QED BY <1>1, <1>2, <1>3, Invariance, PTL DEF Spec, NoOvertaking

-----------------------------------------------------------------------------
(* Refinement.                                                             *)

\* A step that changes neither a status nor the place of an owner is not seen.
LEMMA UnseenStep == ASSUME UNCHANGED <<status, cpc>> PROVE UNCHANGED Phase
BY DEF Phase

\* One owner's view changes from one phase to another.
LEMMA SeenStep ==
    ASSUME NEW r \in Req, NEW v, Phase'[r] = v,
           \A q \in Req \ {r} : cpc'[q] = cpc[q] /\ status'[q] = status[q]
    PROVE  Phase' = [Phase EXCEPT ![r] = v]
<1>1. \A q \in Req \ {r} : Phase'[q] = Phase[q]
  BY DEF Phase
<1>2. Phase = [q \in Req |-> Phase[q]] /\ Phase' = [q \in Req |-> Phase'[q]]
  BY DEF Phase
<1> HIDE DEF Phase
<1> QED BY <1>1, <1>2

\* Every step of a locked service is a step of AsyncIO, or not seen.
LEMMA RefineStep ==
    ASSUME ~Lockless, IInv, [Next]_vars
    PROVE  [IO!Next]_Phase
<1>0. TypeOK /\ SingleOwner /\ StatusAccurate /\ ServiceInv /\ ModeInv
  BY DEF IInv, Safe
<1>1. CASE LoadBegin
  <2>1. /\ current \in Req /\ Loading(current) /\ cpc[current] # "idle"
        /\ status[current] = "ENQUEUED" /\ status'[current] = "RAM_LOADING"
        /\ cpc' = cpc /\ \A q \in Req \ {current} : status'[q] = status[q]
    BY <1>0, <1>1
    DEF LoadBegin, SetTaskStatus, ServiceInv, SingleOwner, StatusAccurate, Loading, LoadPcs,
        Held, TypeOK, ownerVars
  <2>2. Phase[current] = "pending" /\ Phase'[current] = "loading"
    BY <2>1 DEF Phase, PhaseOf
  <2>3. \A q \in Req : Phase[q] # "loading"
    BY <1>0, <1>1 DEF LoadBegin, StatusAccurate, Phase, PhaseOf, TypeOK, Statuses
  <2>4. Phase' = [Phase EXCEPT ![current] = "loading"]
    BY <2>1, <2>2, SeenStep
  <2>5. IO!Begin(current)
    BY <2>2, <2>3, <2>4 DEF IO!Begin
  <2> QED BY <2>1, <2>5 DEF IO!Next
<1>2. CASE LoadFinish
  <2>1. /\ current \in Req /\ Loading(current) /\ cpc[current] # "idle"
        /\ status[current] = "RAM_LOADING" /\ status'[current] = "OK"
        /\ cpc' = cpc /\ \A q \in Req \ {current} : status'[q] = status[q]
    BY <1>0, <1>2
    DEF LoadFinish, SetTaskStatus, ServiceInv, SingleOwner, StatusAccurate, Loading, LoadPcs,
        Held, TypeOK, ownerVars
  <2>2. Phase[current] = "loading" /\ Phase'[current] = "ready"
    BY <2>1 DEF Phase, PhaseOf
  <2>3. Phase' = [Phase EXCEPT ![current] = "ready"]
    BY <2>1, <2>2, SeenStep
  <2>4. IO!Finish(current)
    BY <2>2, <2>3 DEF IO!Finish
  <2> QED BY <2>1, <2>4 DEF IO!Next
\* A queued request is cancelled by either kind of cancel.
<1>3. ASSUME NEW r \in Req, r \in Range(tasks), cpc'[r] # "idle",
             status'[r] = "CANCELLED",
             \A q \in Req \ {r} : cpc'[q] = cpc[q] /\ status'[q] = status[q]
      PROVE  IO!Next
  <2>1. cpc[r] # "idle" /\ status[r] = "ENQUEUED"
    BY <1>0, <1>3 DEF SingleOwner, StatusAccurate, Held, Queued
  <2>2. Phase[r] = "pending" /\ Phase'[r] = "cancelled"
    BY <1>3, <2>1 DEF Phase, PhaseOf
  <2>3. Phase' = [Phase EXCEPT ![r] = "cancelled"]
    BY <1>3, <2>2, SeenStep
  <2>4. IO!Cancel(r)
    BY <2>2, <2>3 DEF IO!Cancel
  <2> QED BY <2>4 DEF IO!Next
<1>4. CASE DeferCancelTask
  <2>1. CASE status' = status
    BY <1>4, <2>1, UnseenStep DEF DeferCancelTask, ownerVars
  <2>2. CASE status' # status
    <3> DEFINE r == tasks[scan]
    <3>1. scan \in 1..Len(tasks)
      BY <1>0, <1>4 DEF DeferCancelTask, TypeOK
    <3>2. r \in Req /\ r \in Range(tasks)
      BY <1>0, <3>1, ErasedFacts
    <3>3. cpc[r] # "idle"
      BY <1>0, <3>2 DEF SingleOwner, Held, Queued
    <3>4. status' = [status EXCEPT ![r] = "CANCELLED"] /\ cpc' = cpc
      BY <1>4, <2>2 DEF DeferCancelTask, SetTaskStatus, ownerVars
    <3> HIDE DEF r
    <3> QED BY <1>0, <1>3, <3>2, <3>3, <3>4 DEF TypeOK
  <2> QED BY <2>1, <2>2
<1>5. ASSUME NEW r \in Req, DoCancel(r) PROVE [IO!Next]_Phase
  <2>1. cpc' = [cpc EXCEPT ![r] = "waiting"] /\ cpc[r] = "trycancel" /\ cpc \in [Req -> OwnerPcs]
    BY <1>0, <1>5 DEF DoCancel, TypeOK
  <2>2. CASE status' = status
    <3>1. Phase' = Phase
      BY <2>1, <2>2 DEF Phase
    <3> QED BY <3>1
  <2>3. CASE status' # status
    <3>1. PICK i \in DOMAIN tasks : tasks[i] = r
      BY <1>5, <2>3 DEF DoCancel
    <3>2. status' = [status EXCEPT ![r] = "CANCELLED"]
      BY <1>5, <2>3 DEF DoCancel, SetTaskStatus
    <3>3. r \in Range(tasks)
      BY <3>1 DEF Range
    <3> QED BY <1>0, <1>3, <2>1, <3>2, <3>3 DEF TypeOK
  <2> QED BY <2>2, <2>3
<1>6. ASSUME NEW r \in Req, NEW p \in Priorities, RequestLocked(r, p) PROVE [IO!Next]_Phase
  <2>1. /\ cpc[r] = "idle" /\ cpc'[r] = "wake" /\ status'[r] = "ENQUEUED"
        /\ \A q \in Req \ {r} : cpc'[q] = cpc[q] /\ status'[q] = status[q]
    BY <1>0, <1>6 DEF RequestLocked, MaySubmit, TypeOK
  <2>2. Phase[r] = "idle" /\ Phase'[r] = "pending"
    BY <2>1 DEF Phase, PhaseOf
  <2>3. Phase' = [Phase EXCEPT ![r] = "pending"]
    BY <2>1, <2>2, SeenStep
  <2>4. IO!Submit(r)
    BY <2>2, <2>3 DEF IO!Submit
  <2> QED BY <2>4 DEF IO!Next
<1>7. ASSUME NEW r \in Req, Collect(r) PROVE [IO!Next]_Phase
  <2>1. /\ cpc[r] = "waiting" /\ cpc'[r] = "idle" /\ status[r] \in {"OK", "CANCELLED"}
        /\ \A q \in Req \ {r} : cpc'[q] = cpc[q] /\ status'[q] = status[q]
    BY <1>0, <1>7 DEF Collect, Terminal, TypeOK, objectVars
  <2>2. Phase[r] \in {"ready", "cancelled"} /\ Phase'[r] = "idle"
    BY <2>1 DEF Phase, PhaseOf
  <2>3. Phase' = [Phase EXCEPT ![r] = "idle"]
    BY <2>1, <2>2, SeenStep
  <2>4. IO!Collect(r)
    BY <2>2, <2>3 DEF IO!Collect
  <2> QED BY <2>4 DEF IO!Next
<1>8. ASSUME NEW r \in Req, RequestWake(r) \/ TryCancel(r) \/ DeferCancel(r) PROVE UNCHANGED Phase
  <2>1. /\ status' = status
        /\ \A q \in Req : cpc'[q] = "idle" <=> cpc[q] = "idle"
    BY <1>0, <1>8 DEF RequestWake, TryCancel, DeferCancel, TypeOK, objectVars, ownerVars
  <2> QED BY <2>1 DEF Phase
<1>9. CASE \/ ThreadTop \/ SpinEnd \/ DequeueRequests \/ ServiceNotify \/ FetchNothing
           \/ FetchTask \/ EnterSleep \/ BeginSleep \/ SleepTimeout \/ SpuriousWakeup
           \/ LoadRead \/ CtlNext \/ Terminated \/ UNCHANGED vars
  <2>1. UNCHANGED <<status, cpc>>
    BY <1>9
    DEF ThreadTop, SpinEnd, DequeueRequests, ServiceNotify, FetchNothing, FetchTask, EnterSleep,
        BeginSleep, SleepTimeout, SpuriousWakeup, LoadRead, CtlNext, CtlStep, SetSleepTime,
        Drain, DrainSpin, DrainReturn, Stop, StopSuspend, Run, Destroy, DestroyQuit,
        DestroyJoin, Terminated, vars, restVars, objectVars, ownerVars
  <2> QED BY <2>1, UnseenStep
<1>10. ASSUME NEW r \in Req, OwnerNext(r) PROVE [IO!Next]_Phase
  <2>1. ~RequestSetStatus(r) /\ ~RequestResetCancel(r)
    BY <1>0 DEF ModeInv, RequestSetStatus, RequestResetCancel
  <2>2. \A p \in Priorities : ~RequestLockless(r, p)
    BY DEF RequestLockless
  <2> QED BY <1>5, <1>6, <1>7, <1>8, <1>10, <2>1, <2>2 DEF OwnerNext, OwnerStep
<1> QED BY <1>1, <1>2, <1>4, <1>9, <1>10 DEF Next, ServiceNext

\* The locked service implements AsyncIO: no caller can see a request skip or
\* repeat a phase, be cancelled while it is loaded, or two of them loaded at
\* the same time.
THEOREM Refinement == ASSUME ~Lockless PROVE Spec => ImplementsAsyncIO
<1>1. Init => IO!Init
  BY DEF Init, IO!Init, Phase
<1>2. IInv /\ [Next]_vars => [IO!Next]_Phase
  BY RefineStep
<1> QED BY <1>1, <1>2, Invariance, PTL DEF Spec, ImplementsAsyncIO, IO!Spec
=============================================================================
