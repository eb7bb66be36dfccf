---------------------------- MODULE Cooker_proofs ----------------------------
(***************************************************************************)
(* The cooker waits for every task, cooks a resource in one task at a time *)
(* and leaves every resource up to date, for any project, any batches, any *)
(* references (cyclic ones too), and any edits and faults.                 *)
(***************************************************************************)
EXTENDS Cooker, FiniteSetTheorems, TLAPS

Adding == {"publish", "schedule", "addTask"}
Calling == {"lookup", "checkBin", "checkDeps", "emplace"} \cup Adding

Elems(s) == {s[i] : i \in DOMAIN s}

-----------------------------------------------------------------------------
(* The inductive invariant.                                                *)

\* Where threads can be: a batch runs no task, a call is for a resource, and
\* batches are over when the main thread waits.
PlacesInv ==
    /\ \A w \in Worker : pc[w] \in {"idle", "batch"} \cup Calling
    /\ \A r \in Resource : pc[r] # "batch"
    /\ \A t \in Thread : pc[t] \in Calling => guid[t] \in Resource
    /\ phase = "off" => \A t \in Thread : pc[t] = "idle"
    /\ phase \in {"waiting", "shutdown"} => \A w \in Worker : pc[w] = "idle"

\* A context belongs to the thread that adds the task, or to the task.
ContextInv ==
    /\ \A t \in Thread : pc[t] = "publish" => cooking[guid[t]] = "null"
    /\ \A t \in Thread : pc[t] \in {"schedule", "addTask"} => cooking[guid[t]] = "counter"
    /\ \A r \in Resource : pc[r] # "idle" => cooking[r] = "counter"
    /\ \A r \in Resource : cooking[r] # "none" =>
           pc[r] # "idle" \/ \E t \in Thread : pc[t] \in Adding /\ guid[t] = r

\* The resources whose tasks are counted and not over.
Counted == {r \in Resource : pc[r] # "idle" \/ \E t \in Thread : pc[t] = "addTask" /\ guid[t] = r}

CountInv ==
    /\ IsFiniteSet(Counted) /\ mainCounter = tearing + Cardinality(Counted)
    /\ phase = "off" => tearing = 0

\* Cooked from the sources of today.
Current(r) ==
    LET a == meta[r].asset IN
    bin[r] # None /\ bin[r] = [time |-> bin[r].time, version |-> version,
                               meta |-> meta[r].time, asset |-> a, raw |-> raw[a]]

\* What the two files of one cooking tell of it: a source that is not newer
\* than the cooked file is what was cooked.
Telling(r) ==
    /\ dep[r] = {bin[r].asset} /\ bin[r].version # Garbage
    /\ meta[r].time <= bin[r].time =>
           bin[r].meta = meta[r].time /\ bin[r].asset = meta[r].asset
    /\ raw[bin[r].asset] <= bin[r].time => bin[r].raw = raw[bin[r].asset]

FilesOf(r) ==
    /\ meta[r].time <= clock /\ (bin[r] # None => bin[r].time <= clock)
    /\ r \notin torn /\ bin[r] # None => Telling(r)
    /\ pc[r] \in {"write", "openDep", "writeDep"} => r \in torn
    /\ pc[r] \in {"openDep", "writeDep"} => Current(r) /\ bin[r].time = clock
    /\ pc[r] = "over" => r \in failed \cup torn \/ Current(r)

\* What checkUpToDate has found out when it comes to the dependencies.
Asking(t) ==
    pc[t] = "checkDeps" =>
        /\ bin[guid[t]] # None /\ stamp[t] <= bin[guid[t]].time
        /\ meta[guid[t]].time <= stamp[t]

FilesInv ==
    /\ version <= clock /\ \A a \in Raw : raw[a] <= clock
    /\ \A r \in Resource : FilesOf(r)
    /\ \A t \in Thread : Asking(t)

\* The calls that batch w has still to make, or is in.
Ahead(w, r) ==
    \/ pc[w] = "batch" /\ r \in Elems(Batch[w])
    \/ pc[w] \in Calling /\ (guid[w] = r \/ r \in Elems(rest[w]))

Ensured(r) ==
    \/ r \in failed \cup torn \/ cooking[r] # "none" \/ Current(r)
    \/ \E w \in Worker : Ahead(w, r)

EnsuredInv ==
    phase \in {"ensuring", "waiting", "shutdown"} => \A r \in Resource : Ensured(r)

IInv ==
    /\ TypeOK /\ PlacesInv /\ CookedAlone /\ ContextInv /\ CountInv
    /\ FilesInv /\ EnsuredInv /\ WaitComplete

-----------------------------------------------------------------------------
(* Operators.                                                              *)

\* Where After sends a thread: to the next call, out of the batch, or on to the cooker.
LEMMA AfterFacts ==
    ASSUME NEW t \in Thread, NEW queue \in Seq(Resource)
    PROVE  /\ queue # <<>> => After(t, queue) = "lookup"
           /\ queue = <<>> /\ t \in Worker => After(t, queue) = "idle"
           /\ queue = <<>> /\ t \in Resource => After(t, queue) = "open"
BY CookerAssumption DEF After, Thread

\* The first call of a queue and the rest of it.
LEMMA ElemsFacts ==
    ASSUME NEW queue \in Seq(Resource), queue # <<>>
    PROVE  /\ Head(queue) \in Resource /\ Tail(queue) \in Seq(Resource)
           /\ \A r \in Elems(queue) : r = Head(queue) \/ r \in Elems(Tail(queue))
<1>1. Len(queue) \in Nat /\ DOMAIN queue = 1..Len(queue) /\ Len(queue) > 0
  OBVIOUS
<1>2. Head(queue) \in Resource /\ Tail(queue) \in Seq(Resource) /\ Head(queue) = queue[1]
  BY <1>1
<1>3. DOMAIN Tail(queue) = 1..(Len(queue) - 1)
      /\ \A i \in 1..(Len(queue) - 1) : Tail(queue)[i] = queue[i + 1]
  BY <1>1
<1>4. ASSUME NEW i \in DOMAIN queue, i # 1
      PROVE  queue[i] \in Elems(Tail(queue))
  <2>1. i - 1 \in DOMAIN Tail(queue) /\ Tail(queue)[i - 1] = queue[i]
    BY <1>1, <1>3, <1>4
  <2> QED BY <2>1 DEF Elems
<1> QED BY <1>2, <1>4 DEF Elems

\* The next call of a thread.
LEMMA NextCallFacts ==
    ASSUME TypeOK, NEW t \in Thread, NEW queue \in Seq(Resource), NextCall(t, queue)
    PROVE  /\ rest' \in [Thread -> Seq(Resource)] /\ guid' \in [Thread -> Resource \cup {Nobody}]
           /\ \A u \in Thread \ {t} : rest'[u] = rest[u] /\ guid'[u] = guid[u]
           /\ queue # <<>> => /\ guid'[t] \in Resource
                              /\ \A r \in Elems(queue) : r = guid'[t] \/ r \in Elems(rest'[t])
<1>1. CASE queue = <<>>
  BY <1>1 DEF NextCall, TypeOK
<1>2. CASE queue # <<>>
  BY <1>2, ElemsFacts DEF NextCall, TypeOK
<1> QED BY <1>1, <1>2

-----------------------------------------------------------------------------
(* Types.                                                                  *)

Places == {"idle", "batch", "lookup", "checkBin", "checkDeps", "emplace", "publish", "schedule",
           "addTask", "queued", "open", "write", "openDep", "writeDep", "over"}

DiskType ==
    /\ clock \in Times /\ version \in Times /\ raw \in [Raw -> Times]
    /\ meta \in [Resource -> [time : Times, asset : Raw]]
    /\ bin \in [Resource -> Cooked \cup {None}]
    /\ dep \in [Resource -> (SUBSET Raw) \cup {Empty, None}]
    /\ torn \subseteq Resource

ThreadType ==
    /\ pc \in [Thread -> Places]
    /\ guid \in [Thread -> Resource \cup {Nobody}] /\ rest \in [Thread -> Seq(Resource)]
    /\ stamp \in [Thread -> Times]

MainType ==
    /\ phase \in {"off", "ensuring", "waiting", "shutdown", "wild"}
    /\ cooking \in [Resource -> {"none", "null", "counter"}]
    /\ tearing \in Nat /\ mainCounter \in Nat
    /\ faults \in 0..MaxFaults /\ failed \subseteq Resource

\* The type invariant in three parts: the disk, the threads, the main thread.
LEMMA TypeParts == TypeOK <=> DiskType /\ ThreadType /\ MainType
BY DEF TypeOK, DiskType, ThreadType, MainType, Places

\* The same for the next state.
LEMMA TypePartsNext == TypeOK' <=> DiskType' /\ ThreadType' /\ MainType'
BY DEF TypeOK, DiskType, ThreadType, MainType, Places

\* The initial state has the types.
LEMMA TypeInit == Init => TypeOK
BY CookerAssumption DEF Init, TypeOK, Times, Idle, Cooked

\* What ends a call keeps the types of threads, and moves on.
LEMMA ProceedFacts ==
    ASSUME TypeOK, NEW t \in Thread, NEW queue \in Seq(Resource), Proceed(t, queue)
    PROVE  /\ pc' \in [Thread -> Places]
           /\ rest' \in [Thread -> Seq(Resource)] /\ guid' \in [Thread -> Resource \cup {Nobody}]
           /\ \A u \in Thread \ {t} :
                  pc'[u] = pc[u] /\ rest'[u] = rest[u] /\ guid'[u] = guid[u]
           /\ queue # <<>> => /\ pc'[t] = "lookup" /\ guid'[t] \in Resource
                              /\ \A r \in Elems(queue) : r = guid'[t] \/ r \in Elems(rest'[t])
           /\ queue = <<>> /\ t \in Worker => pc'[t] = "idle"
           /\ queue = <<>> /\ t \in Resource => pc'[t] = "open"
<1>1. NextCall(t, queue) /\ pc' = [pc EXCEPT ![t] = After(t, queue)]
  BY DEF Proceed
<1>2. pc \in [Thread -> Places]
  BY TypeParts DEF ThreadType
<1>3. After(t, queue) \in Places
  BY AfterFacts DEF Places, Thread
<1> QED BY <1>1, <1>2, <1>3, AfterFacts, NextCallFacts

\* GoTo moves one thread and leaves the others where they are.
LEMMA GoToFacts ==
    ASSUME TypeOK, NEW t \in Thread, NEW place \in Places, GoTo(t, place)
    PROVE  /\ pc' \in [Thread -> Places] /\ pc'[t] = place
           /\ rest' = rest /\ guid' = guid
           /\ \A u \in Thread \ {t} : pc'[u] = pc[u]
BY TypeParts DEF ThreadType, GoTo

\* The queue of a thread, and the resource of its call.
LEMMA CallFacts ==
    ASSUME TypeOK, PlacesInv, NEW t \in Thread
    PROVE  /\ rest[t] \in Seq(Resource) /\ pc[t] \in Places
           /\ pc[t] \in Calling => guid[t] \in Resource
           /\ guid[t] \in Resource => guid[t] \in Thread
BY TypeParts DEF ThreadType, PlacesInv, Thread

\* Every step keeps the types.
LEMMA TypeStep == IInv /\ [Next]_vars => TypeOK'
<1> SUFFICES ASSUME IInv, [Next]_vars PROVE TypeOK'
  OBVIOUS
<1>0. TypeOK /\ PlacesInv /\ CountInv /\ FilesInv /\ DiskType /\ ThreadType /\ MainType
  BY TypeParts DEF IInv
<1> USE <1>0
<1> SUFFICES DiskType' /\ ThreadType' /\ MainType'
  BY TypePartsNext
<1>1. ASSUME NEW a \in Raw, EditRaw(a) PROVE DiskType' /\ ThreadType' /\ MainType'
  BY <1>1, CookerAssumption DEF DiskType, ThreadType, MainType, EditRaw, Edited, threads, Times
<1>2. ASSUME NEW a \in Raw, NEW r \in Resource, EditMeta(r, a)
      PROVE  DiskType' /\ ThreadType' /\ MainType'
  <2>0. Edited
    BY <1>2 DEF EditMeta
  <2>1. clock' \in Times
    BY <2>0, CookerAssumption DEF Edited, DiskType, Times
  <2>2. meta' \in [Resource -> [time : Times, asset : Raw]]
    BY <1>2, <2>1 DEF EditMeta, DiskType
  <2> QED BY <1>2, <2>1, <2>2 DEF DiskType, ThreadType, MainType, EditMeta, Edited, threads
<1>3. CASE NewCooker
  BY <1>3, CookerAssumption DEF DiskType, ThreadType, MainType, NewCooker, Edited, threads, Times
<1>4. CASE StartUp
  BY <1>4 DEF DiskType, ThreadType, MainType, StartUp, disk, sources, threads, Places
<1>5. CASE AllEnsured \/ WaitForAll
  BY <1>5 DEF DiskType, ThreadType, MainType, AllEnsured, WaitForAll, disk, sources, threads
<1>6. CASE Shutdown \/ Die \/ Crash
  <2>1. Gone /\ (UNCHANGED faults \/ Fault)
    BY <1>6 DEF Shutdown, Die, Crash
  <2>2. DiskType'
    BY <2>1 DEF DiskType, Gone, disk, sources
  <2>3. ThreadType'
    BY <2>1, CookerAssumption DEF ThreadType, Gone, Idle, Places, Times
  <2>4. MainType'
    BY <2>1, CookerAssumption DEF MainType, Gone, Fault
  <2> QED BY <2>2, <2>3, <2>4
<1>7. ASSUME NEW w \in Worker, StartBatch(w) PROVE DiskType' /\ ThreadType' /\ MainType'
  <2>1. w \in Thread /\ Batch[w] \in Seq(Resource) /\ Proceed(w, Batch[w])
    BY <1>7, CookerAssumption DEF Thread, StartBatch
  <2>2. ThreadType'
    BY <1>7, <2>1, ProceedFacts DEF StartBatch, ThreadType
  <2> QED BY <1>7, <2>2 DEF StartBatch, disk, sources, MainThread, DiskType, MainType
<1>8. ASSUME NEW t \in Thread, Ensure(t) PROVE DiskType' /\ ThreadType' /\ MainType'
  <2>0. rest[t] \in Seq(Resource) /\ (pc[t] \in Calling => guid[t] \in Resource)
    BY CallFacts
  <2>1. CASE Lookup(t)
    <3>1. Proceed(t, rest[t]) \/ GoTo(t, "checkBin")
      BY <2>1 DEF Lookup
    <3>2. ThreadType'
      BY <2>0, <2>1, <3>1, ProceedFacts, GoToFacts DEF Lookup, ThreadType, Places
    <3> QED BY <2>1, <3>2 DEF Lookup, disk, sources, MainThread, DiskType, MainType
  <2>2. CASE CheckBin(t)
    <3>1. pc[t] = "checkBin" /\ guid[t] \in Resource
      BY <2>0, <2>2 DEF CheckBin, At, Calling
    <3>2. \/ GoTo(t, "checkDeps") /\ bin[guid[t]] # None /\ stamp' = [stamp EXCEPT ![t] = bin[guid[t]].time]
          \/ GoTo(t, "emplace") /\ stamp' = stamp
      BY <2>2 DEF CheckBin, BinCurrent
    <3>3. bin[guid[t]] # None => bin[guid[t]].time \in Times
      BY <3>1 DEF DiskType, Cooked
    <3>4. ThreadType'
      BY <3>2, <3>3, GoToFacts DEF ThreadType, Places
    <3> QED BY <2>2, <3>4 DEF CheckBin, disk, sources, MainThread, DiskType, MainType
  <2>3. CASE CheckDeps(t)
    <3>1. Proceed(t, rest[t]) \/ GoTo(t, "emplace")
      BY <2>3 DEF CheckDeps
    <3>2. stamp' = [stamp EXCEPT ![t] = 0] /\ 0 \in Times
      BY <2>3, CookerAssumption DEF CheckDeps, Times
    <3>3. ThreadType'
      BY <2>0, <3>1, <3>2, ProceedFacts, GoToFacts DEF ThreadType, Places
    <3> QED BY <2>3, <3>3 DEF CheckDeps, disk, sources, MainThread, DiskType, MainType
  <2>4. CASE Emplace(t)
    <3>1. \/ GoTo(t, "publish") \/ Proceed(t, rest[t]) \/ UNCHANGED <<pc, guid, rest>>
      BY <2>4 DEF Emplace
    <3>2. ThreadType'
      BY <2>0, <2>4, <3>1, ProceedFacts, GoToFacts DEF Emplace, ThreadType, Places
    <3> QED BY <2>4, <3>2 DEF Emplace, disk, sources, DiskType, MainType
  <2>5. CASE Publish(t)
    <3>1. ThreadType'
      BY <2>5, GoToFacts DEF Publish, ThreadType, Places
    <3> QED BY <2>5, <3>1 DEF Publish, disk, sources, MainThread, DiskType, MainType
  <2>6. CASE CountTask(t)
    <3>1. ThreadType'
      BY <2>6, GoToFacts DEF CountTask, ThreadType, Places
    <3> QED BY <2>6, <3>1 DEF CountTask, disk, sources, DiskType, MainType
  <2>7. CASE AddTask(t)
    <3>1. NextCall(t, rest[t]) /\ guid[t] \in Thread /\ After(t, rest[t]) \in Places
      BY <2>0, <2>7, CallFacts, AfterFacts DEF AddTask, At, Calling, Adding, Places, Thread
    <3>2. pc' \in [Thread -> Places]
      BY <2>7, <3>1 DEF AddTask, ThreadType, Places
    <3>3. ThreadType'
      BY <2>0, <2>7, <3>1, <3>2, NextCallFacts DEF AddTask, ThreadType
    <3> QED BY <2>7, <3>3 DEF AddTask, disk, sources, MainThread, DiskType, MainType
  <2> QED BY <1>8, <2>1, <2>2, <2>3, <2>4, <2>5, <2>6, <2>7 DEF Ensure
<1>9. ASSUME NEW r \in Resource, Task(r) PROVE DiskType' /\ ThreadType' /\ MainType'
  <2>0. r \in Thread /\ Imported(r) \in Raw /\ meta[r].time \in Times /\ raw[Imported(r)] \in Times
        /\ clock \in Times /\ version \in Times /\ 0 \in Times
    BY CookerAssumption DEF Thread, Imported, DiskType, Times
  <2>1. CASE StartTask(r)
    <3>1. ThreadType'
      BY <2>0, <2>1, ProceedFacts, CookerAssumption DEF StartTask, ThreadType
    <3> QED BY <2>1, <3>1 DEF StartTask, disk, sources, MainThread, DiskType, MainType
  <2>2. CASE OpenBin(r)
    <3>1. ThreadType'
      BY <2>0, <2>2, GoToFacts DEF OpenBin, ThreadType, Places
    <3>2. [time |-> clock, version |-> Garbage, meta |-> 0, asset |-> Imported(r), raw |-> 0] \in Cooked
      BY <2>0 DEF Cooked
    <3>3. DiskType'
      BY <2>2, <3>2 DEF OpenBin, DiskType, sources
    <3> QED BY <2>2, <3>1, <3>3, CookerAssumption DEF OpenBin, MainType, Fault
  <2>3. CASE WriteBin(r)
    <3>1. ThreadType'
      BY <2>0, <2>3, GoToFacts DEF WriteBin, ThreadType, Places
    <3>2. [time |-> clock, version |-> version, meta |-> meta[r].time, asset |-> Imported(r),
           raw |-> raw[Imported(r)]] \in Cooked
      BY <2>0 DEF Cooked
    <3>3. DiskType'
      BY <2>3, <3>2 DEF WriteBin, DiskType, sources
    <3> QED BY <2>3, <3>1, <3>3 DEF WriteBin, MainThread, MainType
  <2>4. CASE OpenDep(r)
    <3>1. ThreadType'
      BY <2>0, <2>4, GoToFacts DEF OpenDep, ThreadType, Places
    <3>2. DiskType'
      BY <2>4 DEF OpenDep, DiskType, sources
    <3> QED BY <2>4, <3>1, <3>2, CookerAssumption DEF OpenDep, MainType, Fault
  <2>5. CASE WriteDep(r)
    <3>1. ThreadType'
      BY <2>0, <2>5, GoToFacts DEF WriteDep, ThreadType, Places
    <3>2. DiskType'
      BY <2>0, <2>5 DEF WriteDep, DiskType, sources
    <3> QED BY <2>5, <3>1, <3>2 DEF WriteDep, MainThread, MainType
  <2>6. CASE TearDown(r)
    <3>1. ThreadType'
      BY <2>0, <2>6, GoToFacts DEF TearDown, ThreadType, Places
    <3> QED BY <2>6, <3>1 DEF TearDown, disk, sources, DiskType, MainType
  <2> QED BY <1>9, <2>1, <2>2, <2>3, <2>4, <2>5, <2>6 DEF Task
<1>10. CASE Decrement
  <2>1. Cardinality(Counted) \in Nat
    BY FS_CardinalityType DEF CountInv
  <2> QED BY <1>10, <2>1 DEF Decrement, disk, sources, threads, DiskType, ThreadType, MainType, CountInv
<1>11. CASE UNCHANGED vars
  BY <1>11 DEF vars, disk, sources, threads, DiskType, ThreadType, MainType
<1> QED BY <1>1, <1>2, <1>3, <1>4, <1>5, <1>6, <1>7, <1>8, <1>9, <1>10, <1>11 DEF Next, Main

-----------------------------------------------------------------------------
(* Who owns a context.                                                     *)

OwnInv == PlacesInv /\ CookedAlone /\ ContextInv

\* A thread that goes from one place to another and adds no task in either.
LEMMA MoveOutside ==
    ASSUME TypeOK, OwnInv, NEW t \in Thread, pc[t] \notin Adding \cup {"idle"},
           pc' \in [Thread -> Places], pc'[t] \notin Adding,
           pc'[t] \in Calling => guid'[t] \in Resource,
           t \in Worker => pc'[t] \in {"idle"} \cup Calling,
           t \in Resource => pc'[t] \notin {"idle", "batch"},
           \A u \in Thread \ {t} : pc'[u] = pc[u] /\ guid'[u] = guid[u],
           cooking' = cooking, phase' = phase
    PROVE  OwnInv'
<1>0. TypeOK /\ ThreadType /\ MainType /\ PlacesInv /\ CookedAlone /\ ContextInv
  BY TypeParts DEF OwnInv
<1>1. Worker \subseteq Thread /\ Resource \subseteq Thread /\ Resource \cap Worker = {}
  BY CookerAssumption DEF Thread
<1>2. \A u \in Thread : pc'[u] \in Adding <=> pc[u] \in Adding
  OBVIOUS
<1>3. \A u \in Thread : pc[u] \in Adding => u # t /\ pc'[u] = pc[u] /\ guid'[u] = guid[u]
                                            /\ guid[u] \in Resource
  BY <1>0 DEF PlacesInv, Calling
<1>4. \A r \in Resource : pc'[r] = "idle" <=> pc[r] = "idle"
  BY <1>1
<1>5. PlacesInv'
  <2>1. \A w \in Worker : pc'[w] \in {"idle", "batch"} \cup Calling
    BY <1>0, <1>1 DEF PlacesInv
  <2>2. \A r \in Resource : pc'[r] # "batch"
    BY <1>0, <1>1 DEF PlacesInv
  <2>3. \A u \in Thread : pc'[u] \in Calling => guid'[u] \in Resource
    BY <1>0 DEF PlacesInv
  <2>4. phase # "off" /\ (phase \in {"waiting", "shutdown"} => \A w \in Worker : pc'[w] = "idle")
    BY <1>0, <1>1 DEF PlacesInv
  <2> QED BY <2>1, <2>2, <2>3, <2>4 DEF PlacesInv
<1>6. CookedAlone'
  BY <1>0, <1>2, <1>3, <1>4 DEF CookedAlone, Adding
<1>7. ContextInv'
  <2>1. \A u \in Thread : pc'[u] = "publish" => cooking[guid'[u]] = "null"
    BY <1>0, <1>2, <1>3 DEF ContextInv, Adding
  <2>2. \A u \in Thread : pc'[u] \in {"schedule", "addTask"} => cooking[guid'[u]] = "counter"
    BY <1>0, <1>2, <1>3 DEF ContextInv, Adding
  <2>3. \A r \in Resource : cooking[r] # "none" =>
            pc'[r] # "idle" \/ \E u \in Thread : pc'[u] \in Adding /\ guid'[u] = r
    BY <1>0, <1>2, <1>3, <1>4 DEF ContextInv
  <2>4. \A r \in Resource : pc'[r] # "idle" => cooking[r] = "counter"
    BY <1>0, <1>4 DEF ContextInv
  <2> QED BY <2>1, <2>2, <2>3, <2>4 DEF ContextInv
<1> QED BY <1>5, <1>6, <1>7 DEF OwnInv

\* A step that leaves threads and contexts alone.
LEMMA OwnUnchanged ==
    ASSUME OwnInv, pc' = pc, guid' = guid, cooking' = cooking,
           phase' = phase \/ phase' = "wild" \/ (phase = "waiting" /\ phase' = "shutdown")
           \/ (phase' = "waiting" /\ \A w \in Worker : pc[w] = "idle")
    PROVE  OwnInv'
BY DEF OwnInv, PlacesInv, CookedAlone, ContextInv

\* Nobody is under way and there is no context.
LEMMA OwnIdle ==
    ASSUME phase' \in {"off", "ensuring"}, cooking' = [r \in Resource |-> "none"],
           pc' \in [Thread -> {"idle", "batch"}], \A r \in Resource : pc'[r] = "idle",
           phase' = "off" => \A t \in Thread : pc'[t] = "idle"
    PROVE  OwnInv'
<1>1. Worker \subseteq Thread /\ Resource \subseteq Thread
  BY DEF Thread
<1>2. \A t \in Thread : pc'[t] \notin Calling /\ pc'[t] \notin Adding
  BY DEF Calling, Adding
<1>3. PlacesInv'
  BY <1>1, <1>2 DEF PlacesInv
<1> QED BY <1>1, <1>2, <1>3 DEF OwnInv, CookedAlone, ContextInv, Adding

\* The steps of EnsureCooked and AddCookTask keep contexts with their owners.
LEMMA OwnEnsure ==
    ASSUME TypeOK, OwnInv, NEW t \in Thread, Ensure(t)
    PROVE  OwnInv'
<1>0. TypeOK /\ ThreadType /\ MainType /\ PlacesInv /\ CookedAlone /\ ContextInv
  BY TypeParts DEF OwnInv
<1>1. rest[t] \in Seq(Resource) /\ (pc[t] \in Calling => guid[t] \in Resource)
      /\ Resource \subseteq Thread /\ Worker \subseteq Thread /\ Resource \cap Worker = {}
  BY <1>0, CallFacts, CookerAssumption DEF Thread
<1>2. ASSUME Proceed(t, rest[t]), pc[t] \in Calling \ Adding, cooking' = cooking, phase' = phase
      PROVE  OwnInv'
  <2>1. pc'[t] \in {"lookup", "idle", "open"} /\ (pc'[t] = "idle" => t \in Worker)
        /\ (pc'[t] = "open" => t \in Resource) /\ (pc'[t] = "lookup" => guid'[t] \in Resource)
    BY <1>1, <1>2, ProceedFacts DEF Thread
  <2> QED BY <1>1, <1>2, <2>1, ProceedFacts, MoveOutside DEF Calling, Adding
<1>3. ASSUME NEW place \in Calling \ Adding, GoTo(t, place), pc[t] \in Calling \ Adding,
             cooking' = cooking, phase' = phase
      PROVE  OwnInv'
  <2>1. place \in Places
    BY DEF Calling, Adding, Places
  <2> QED BY <1>1, <1>3, <2>1, GoToFacts, MoveOutside DEF Calling, Adding
<1>4. CASE Lookup(t)
  BY <1>2, <1>3, <1>4 DEF Lookup, At, Calling, Adding, MainThread
<1>5. CASE CheckBin(t)
  BY <1>2, <1>3, <1>5 DEF CheckBin, At, Calling, Adding, MainThread
<1>6. CASE CheckDeps(t)
  BY <1>2, <1>3, <1>6 DEF CheckDeps, At, Calling, Adding, MainThread
<1>7. CASE Emplace(t)
  <2> DEFINE r == guid[t]
  <2>0. pc[t] = "emplace" /\ r \in Resource /\ pc[t] \in Calling \ Adding
    BY <1>1, <1>7 DEF Emplace, At, Calling, Adding
  <2>1. CASE cooking[r] = "counter"
    BY <1>2, <1>7, <2>0, <2>1 DEF Emplace
  <2>2. CASE cooking[r] = "null"
    BY <1>7, <2>2, OwnUnchanged DEF Emplace
  <2>3. CASE cooking[r] = "none"
    <3>1. GoTo(t, "publish") /\ cooking' = [cooking EXCEPT ![r] = "null"] /\ phase' = phase
          /\ "publish" \in Places
      BY <1>7, <2>3 DEF Emplace, Places
    <3>2. pc[r] = "idle" /\ r # t /\ \A u \in Thread : pc[u] \in Adding => guid[u] # r
      BY <1>0, <1>1, <2>0, <2>3 DEF ContextInv, Adding
    <3>3. pc'[t] = "publish" /\ guid' = guid /\ \A u \in Thread \ {t} : pc'[u] = pc[u]
      BY <3>1, GoToFacts
    <3>4. PlacesInv'
      <4>1. Running
        BY <1>7 DEF Emplace, At
      <4>2. t \in Worker => phase = "ensuring"
        BY <1>0, <2>0, <4>1 DEF PlacesInv, Running
      <4> QED BY <1>0, <1>1, <2>0, <3>1, <3>3, <4>1, <4>2 DEF PlacesInv, Calling, Adding, Running
    <3>5. CookedAlone'
      <4>1. \A u \in Thread \ {t} : pc[u] \in Adding => pc[guid[u]] = "idle" /\ guid[u] \in Thread \ {t, r}
        BY <1>0, <1>1, <2>0, <3>2 DEF CookedAlone, Adding, PlacesInv, Calling
      <4>2. \A u \in Thread : pc'[u] \in Adding => pc'[guid'[u]] = "idle"
        BY <1>1, <2>0, <3>2, <3>3, <4>1
      <4> QED BY <1>0, <3>2, <3>3, <4>1, <4>2 DEF CookedAlone, Adding
    <3>6. ContextInv'
      <4>1. \A u \in Thread \ {t} : pc[u] \in Adding => guid[u] \in Resource \ {r}
        BY <1>0, <3>2 DEF PlacesInv, Calling
      <4>2. cooking \in [Resource -> {"none", "null", "counter"}]
        BY <1>0 DEF MainType
      <4>3. cooking'[r] = "null" /\ \A q \in Resource \ {r} : cooking'[q] = cooking[q]
        BY <2>0, <3>1, <4>2
      <4>4. \A q \in Resource : pc'[q] # "idle" => q # r /\ pc[q] # "idle"
        BY <1>1, <2>0, <3>2, <3>3
      <4>5. \A q \in Resource : pc'[q] # "idle" => cooking'[q] = "counter"
        BY <1>0, <4>3, <4>4 DEF ContextInv
      <4>6. \A q \in Resource \ {r} : cooking'[q] # "none" =>
                pc'[q] # "idle" \/ \E u \in Thread : pc'[u] \in Adding /\ guid'[u] = q
        BY <1>0, <1>1, <2>0, <3>3, <4>3 DEF ContextInv, Adding
      <4>7. \E u \in Thread : pc'[u] \in Adding /\ guid'[u] = r
        BY <3>3 DEF Adding
      <4>8. \A u \in Thread : pc'[u] = "publish" => cooking'[guid'[u]] = "null"
        BY <1>0, <3>3, <4>1, <4>3 DEF ContextInv, Adding
      <4>9. \A u \in Thread : pc'[u] \in {"schedule", "addTask"} => cooking'[guid'[u]] = "counter"
        BY <1>0, <3>3, <4>1, <4>3 DEF ContextInv, Adding
      <4> QED BY <4>5, <4>6, <4>7, <4>8, <4>9 DEF ContextInv
    <3> QED BY <3>4, <3>5, <3>6 DEF OwnInv
  <2> QED BY <1>0, <2>0, <2>1, <2>2, <2>3 DEF MainType
<1>8. CASE Publish(t) \/ CountTask(t)
  <2> DEFINE r == guid[t]
  <2>0. pc[t] \in {"publish", "schedule"} /\ r \in Resource /\ Running
    BY <1>1, <1>8 DEF Publish, CountTask, At, Calling, Adding
  <2>1. pc'[t] \in {"schedule", "addTask"} /\ guid' = guid /\ \A u \in Thread \ {t} : pc'[u] = pc[u]
    BY <1>8, GoToFacts DEF Publish, CountTask, Places
  <2>2. phase' = phase /\ cooking'[r] = "counter" /\ \A q \in Resource \ {r} : cooking'[q] = cooking[q]
    BY <1>0, <1>8, <2>0 DEF Publish, CountTask, At, MainThread, MainType, ContextInv
  <2>3. pc[r] = "idle" /\ r # t /\ \A u \in Thread \ {t} : pc[u] \in Adding => guid[u] \in Resource \ {r}
    BY <1>0, <2>0 DEF CookedAlone, Adding, PlacesInv, Calling
  <2>4. PlacesInv'
    <3>1. t \in Worker => phase = "ensuring"
      BY <1>0, <2>0 DEF PlacesInv, Running
    <3> QED BY <1>0, <1>1, <2>0, <2>1, <2>2, <3>1 DEF PlacesInv, Calling, Adding, Running
  <2>5. CookedAlone'
    BY <1>0, <1>1, <2>0, <2>1, <2>3 DEF CookedAlone, Adding
  <2>6. ContextInv'
    <3>1. \A u \in Thread : pc'[u] = "publish" => cooking'[guid'[u]] = "null"
      BY <1>0, <2>1, <2>2, <2>3 DEF ContextInv, Adding
    <3>2. \A u \in Thread : pc'[u] \in {"schedule", "addTask"} => cooking'[guid'[u]] = "counter"
      BY <1>0, <2>1, <2>2, <2>3 DEF ContextInv, Adding
    <3>3. \A q \in Resource : pc'[q] # "idle" => cooking'[q] = "counter"
      BY <1>0, <1>1, <2>0, <2>1, <2>2 DEF ContextInv
    <3>4. \A q \in Resource : cooking'[q] # "none" =>
              pc'[q] # "idle" \/ \E u \in Thread : pc'[u] \in Adding /\ guid'[u] = q
      BY <1>0, <1>1, <2>0, <2>1, <2>2 DEF ContextInv, Adding
    <3> QED BY <3>1, <3>2, <3>3, <3>4 DEF ContextInv
  <2> QED BY <2>4, <2>5, <2>6 DEF OwnInv
<1>9. CASE AddTask(t)
  <2> DEFINE r == guid[t]
  <2>0. pc[t] = "addTask" /\ r \in Resource /\ Running /\ cooking' = cooking /\ phase' = phase
    BY <1>1, <1>9 DEF AddTask, At, Calling, Adding, MainThread
  <2>1. pc[r] = "idle" /\ r # t /\ cooking[r] = "counter"
        /\ \A u \in Thread \ {t} : pc[u] \in Adding => guid[u] \in Resource \ {r}
    BY <1>0, <2>0 DEF CookedAlone, ContextInv, Adding, PlacesInv, Calling
  <2>2. pc' = [pc EXCEPT ![t] = After(t, rest[t]), ![r] = "queued"] /\ NextCall(t, rest[t])
    BY <1>9 DEF AddTask
  <2>3. pc'[r] = "queued" /\ pc'[t] = After(t, rest[t]) /\ \A u \in Thread \ {t, r} : pc'[u] = pc[u]
    BY <1>0, <1>1, <2>0, <2>1, <2>2 DEF ThreadType
  <2>4. \A u \in Thread \ {t} : guid'[u] = guid[u]
    BY <1>1, <2>2, NextCallFacts
  <2>5. /\ pc'[t] \in {"lookup", "idle", "open"} /\ (pc'[t] = "idle" => t \in Worker)
        /\ (pc'[t] = "open" => t \in Resource) /\ (pc'[t] = "lookup" => guid'[t] \in Resource)
    BY <1>1, <2>2, <2>3, AfterFacts, NextCallFacts DEF Thread
  <2>6. PlacesInv'
    <3>1. t \in Worker => phase = "ensuring"
      BY <1>0, <2>0 DEF PlacesInv, Running
    <3> QED BY <1>0, <1>1, <2>0, <2>3, <2>4, <2>5, <3>1 DEF PlacesInv, Calling, Adding, Running
  <2>7. \A u \in Thread : pc'[u] \in Adding => u \notin {t, r} /\ pc'[u] = pc[u] /\ guid'[u] = guid[u]
    BY <2>3, <2>4, <2>5 DEF Adding
  <2>8. CookedAlone'
    <3>1. ASSUME NEW u \in Thread, pc'[u] \in Adding
          PROVE  pc'[guid'[u]] = "idle"
      <4>1. guid[u] \in Resource \ {r} /\ pc[guid[u]] = "idle"
        BY <1>0, <2>1, <2>7, <3>1 DEF CookedAlone, Adding
      <4>2. guid[u] # t
        BY <2>0, <4>1
      <4> QED BY <1>1, <2>3, <2>7, <3>1, <4>1, <4>2
    <3> QED BY <1>0, <2>7, <3>1 DEF CookedAlone, Adding
  <2>9. ContextInv'
    <3>1. \A q \in Resource : pc'[q] # "idle" => pc[q] # "idle" \/ q = r
      BY <1>1, <2>0, <2>3
    <3>2. \A q \in Resource : cooking[q] # "none" =>
              pc'[q] # "idle" \/ \E u \in Thread : pc'[u] \in Adding /\ guid'[u] = q
      <4> SUFFICES ASSUME NEW q \in Resource, cooking[q] # "none", pc'[q] = "idle"
                   PROVE  \E u \in Thread : pc'[u] \in Adding /\ guid'[u] = q
        OBVIOUS
      <4>1. q # r /\ q # t
        BY <1>1, <2>3, <2>5
      <4>2. pc[q] = "idle"
        BY <1>1, <2>3, <4>1
      <4>3. PICK u \in Thread : pc[u] \in Adding /\ guid[u] = q
        BY <1>0, <4>2 DEF ContextInv
      <4>4. u # t /\ u # r
        BY <2>1, <4>1, <4>3 DEF Adding
      <4> QED BY <2>3, <2>4, <4>3, <4>4
    <3> QED BY <1>0, <2>0, <2>1, <2>7, <3>1, <3>2 DEF ContextInv, Adding
  <2> QED BY <2>6, <2>8, <2>9 DEF OwnInv
<1> QED BY <1>4, <1>5, <1>6, <1>7, <1>8, <1>9 DEF Ensure

\* The steps of a task keep contexts with their owners.
LEMMA OwnTask ==
    ASSUME TypeOK, OwnInv, NEW r \in Resource, Task(r)
    PROVE  OwnInv'
<1>0. TypeOK /\ ThreadType /\ MainType /\ PlacesInv /\ CookedAlone /\ ContextInv
  BY TypeParts DEF OwnInv
<1>1. r \in Thread /\ r \notin Worker /\ Runtime[r] \in Seq(Resource)
      /\ Resource \subseteq Thread /\ Worker \subseteq Thread
  BY CookerAssumption DEF Thread
<1>2. ASSUME NEW place \in {"write", "openDep", "writeDep", "over"}, GoTo(r, place),
             pc[r] \in {"open", "write", "openDep", "writeDep"}, cooking' = cooking, phase' = phase
      PROVE  OwnInv'
  <2>1. place \in Places /\ place \notin Calling /\ place \notin Adding
    BY DEF Calling, Adding, Places
  <2> QED BY <1>1, <1>2, <2>1, GoToFacts, MoveOutside DEF Adding
<1>3. CASE StartTask(r)
  <2>1. Proceed(r, Runtime[r]) /\ pc[r] = "queued" /\ cooking' = cooking /\ phase' = phase
    BY <1>3 DEF StartTask, At, MainThread
  <2>2. pc'[r] \in {"lookup", "open"} /\ (pc'[r] = "lookup" => guid'[r] \in Resource)
    BY <1>1, <2>1, ProceedFacts
  <2> QED BY <1>1, <2>1, <2>2, ProceedFacts, MoveOutside DEF Calling, Adding
<1>4. CASE OpenBin(r)
  BY <1>2, <1>4 DEF OpenBin, At
<1>5. CASE WriteBin(r)
  BY <1>2, <1>5 DEF WriteBin, At, MainThread
<1>6. CASE OpenDep(r)
  BY <1>2, <1>6 DEF OpenDep, At
<1>7. CASE WriteDep(r)
  BY <1>2, <1>7 DEF WriteDep, At, MainThread
<1>8. CASE TearDown(r)
  <2>1. pc[r] = "over" /\ phase' = phase /\ cooking' = [cooking EXCEPT ![r] = "none"] /\ GoTo(r, "idle")
        /\ "idle" \in Places /\ Running
    BY <1>8 DEF TearDown, At, Places
  <2>2. pc'[r] = "idle" /\ guid' = guid /\ \A u \in Thread \ {r} : pc'[u] = pc[u]
    BY <1>1, <2>1, GoToFacts
  <2>3. \A u \in Thread : pc'[u] \in Adding => u # r /\ pc[u] \in Adding /\ guid[u] \in Resource \ {r}
    BY <1>0, <2>1, <2>2 DEF CookedAlone, PlacesInv, Calling, Adding
  <2>4. PlacesInv'
    BY <1>0, <1>1, <2>1, <2>2 DEF PlacesInv, Calling, Adding, Running
  <2>5. CookedAlone'
    BY <1>0, <1>1, <2>2, <2>3 DEF CookedAlone, Adding
  <2>6. cooking'[r] = "none" /\ \A q \in Resource \ {r} : cooking'[q] = cooking[q]
    BY <1>0, <2>1 DEF MainType
  <2>7. ContextInv'
    <3>1. \A u \in Thread : pc'[u] = "publish" => cooking'[guid'[u]] = "null"
      BY <1>0, <2>2, <2>3, <2>6 DEF ContextInv, Adding
    <3>2. \A u \in Thread : pc'[u] \in {"schedule", "addTask"} => cooking'[guid'[u]] = "counter"
      BY <1>0, <2>2, <2>3, <2>6 DEF ContextInv, Adding
    <3>3. \A q \in Resource : pc'[q] # "idle" => cooking'[q] = "counter"
      BY <1>0, <1>1, <2>2, <2>6 DEF ContextInv
    <3>4. \A q \in Resource : cooking'[q] # "none" =>
              pc'[q] # "idle" \/ \E u \in Thread : pc'[u] \in Adding /\ guid'[u] = q
      BY <1>0, <1>1, <2>1, <2>2, <2>6 DEF ContextInv, Adding
    <3> QED BY <3>1, <3>2, <3>3, <3>4 DEF ContextInv
  <2> QED BY <2>4, <2>5, <2>7 DEF OwnInv
<1> QED BY <1>3, <1>4, <1>5, <1>6, <1>7, <1>8 DEF Task

\* Every step keeps contexts with their owners.
LEMMA OwnStep == IInv /\ [Next]_vars => OwnInv'
<1> SUFFICES ASSUME IInv, [Next]_vars PROVE OwnInv'
  OBVIOUS
<1>0. TypeOK /\ OwnInv /\ ThreadType /\ MainType /\ PlacesInv
  BY TypeParts DEF IInv, OwnInv
<1>1. CASE \/ \E a \in Raw : EditRaw(a) \/ \E r \in Resource : EditMeta(r, a)
           \/ NewCooker \/ Decrement \/ UNCHANGED vars
  <2>1. pc' = pc /\ guid' = guid /\ cooking' = cooking /\ phase' = phase
    BY <1>1 DEF EditRaw, EditMeta, NewCooker, Edited, Decrement, vars, threads
  <2> QED BY <1>0, <2>1, OwnUnchanged
<1>2. CASE AllEnsured \/ WaitForAll
  BY <1>0, <1>2, OwnUnchanged DEF AllEnsured, WaitForAll, threads
<1>3. CASE StartUp
  <2>1. phase' = "ensuring" /\ cooking' = cooking
        /\ pc' = [t \in Thread |-> IF t \in Worker THEN "batch" ELSE "idle"]
    BY <1>3 DEF StartUp
  <2>2. \A r \in Resource : cooking[r] = "none"
    BY <1>0, <1>3 DEF StartUp, PlacesInv, OwnInv, ContextInv, Adding, Thread
  <2>3. cooking' = [r \in Resource |-> "none"]
    BY <1>0, <2>1, <2>2 DEF MainType
  <2> QED BY <2>1, <2>3, OwnIdle, CookerAssumption DEF Thread
<1>4. CASE Shutdown \/ Die \/ Crash
  BY <1>4, OwnIdle DEF Shutdown, Die, Crash, Gone, Idle, Thread
<1>5. ASSUME NEW w \in Worker, StartBatch(w) PROVE OwnInv'
  <2>1. w \in Thread /\ w \notin Resource /\ Batch[w] \in Seq(Resource) /\ Proceed(w, Batch[w])
        /\ pc[w] = "batch" /\ cooking' = cooking /\ phase' = phase
    BY <1>5, CookerAssumption DEF StartBatch, At, MainThread, Thread
  <2>2. pc'[w] \in {"lookup", "idle"} /\ (pc'[w] = "lookup" => guid'[w] \in Resource)
    BY <1>0, <1>5, <2>1, ProceedFacts
  <2> QED BY <1>0, <1>5, <2>1, <2>2, ProceedFacts, MoveOutside DEF Calling, Adding
<1> QED BY <1>0, <1>1, <1>2, <1>3, <1>4, <1>5, OwnEnsure, OwnTask DEF Next, Main

-----------------------------------------------------------------------------
(* mainCounter.                                                            *)

\* Tasks are the same and nobody counts one.
LEMMA CountSame ==
    ASSUME CountInv, mainCounter' = mainCounter, tearing' = tearing, phase' = phase \/ phase' # "off",
           \A r \in Resource : pc'[r] = "idle" <=> pc[r] = "idle",
           \A t \in Thread : pc'[t] = "addTask" <=> pc[t] = "addTask",
           \A t \in Thread : pc[t] = "addTask" => guid'[t] = guid[t]
    PROVE  CountInv'
<1>1. Counted' = Counted
  BY DEF Counted
<1> QED BY <1>1 DEF CountInv

\* There is no task.
LEMMA CountNone ==
    ASSUME mainCounter' = 0, tearing' = 0, \A r \in Resource : pc'[r] = "idle",
           \A t \in Thread : pc'[t] # "addTask"
    PROVE  CountInv'
<1>1. Counted' = {}
  BY DEF Counted
<1> QED BY <1>1, FS_EmptySet DEF CountInv

\* The steps of EnsureCooked and AddCookTask keep mainCounter exact.
LEMMA CountEnsure ==
    ASSUME TypeOK, OwnInv, CountInv, NEW t \in Thread, Ensure(t)
    PROVE  CountInv'
<1>0. TypeOK /\ ThreadType /\ MainType /\ PlacesInv /\ CookedAlone /\ ContextInv
  BY TypeParts DEF OwnInv
<1>1. rest[t] \in Seq(Resource) /\ (pc[t] \in Calling => guid[t] \in Resource)
      /\ Resource \subseteq Thread /\ Worker \subseteq Thread /\ Resource \cap Worker = {}
  BY <1>0, CallFacts, CookerAssumption DEF Thread
<1>2. ASSUME Proceed(t, rest[t]), pc[t] \in Calling \ Adding,
             mainCounter' = mainCounter, tearing' = tearing, phase' = phase
      PROVE  CountInv'
  <2>1. pc'[t] \in {"lookup", "idle", "open"} /\ (pc'[t] = "idle" => t \in Worker)
        /\ \A u \in Thread \ {t} : pc'[u] = pc[u] /\ guid'[u] = guid[u]
    BY <1>1, <1>2, ProceedFacts DEF Thread
  <2> QED BY <1>1, <1>2, <2>1, CountSame DEF Calling, Adding
<1>3. ASSUME NEW place \in Calling \ {"addTask"}, GoTo(t, place), pc[t] \in Calling \ {"addTask"},
             mainCounter' = mainCounter, tearing' = tearing, phase' = phase
      PROVE  CountInv'
  <2>1. place \in Places
    BY DEF Calling, Adding, Places
  <2> QED BY <1>1, <1>3, <2>1, GoToFacts, CountSame DEF Calling, Adding
<1>4. CASE Lookup(t) \/ CheckBin(t) \/ CheckDeps(t)
  <2>1. pc[t] \in Calling \ Adding /\ mainCounter' = mainCounter /\ tearing' = tearing /\ phase' = phase
    BY <1>4 DEF Lookup, CheckBin, CheckDeps, At, Calling, Adding, MainThread
  <2>2. Proceed(t, rest[t]) \/ GoTo(t, "checkBin") \/ GoTo(t, "checkDeps") \/ GoTo(t, "emplace")
    BY <1>4 DEF Lookup, CheckBin, CheckDeps
  <2> QED BY <1>2, <1>3, <2>1, <2>2 DEF Calling, Adding
<1>5. CASE Emplace(t)
  <2>1. pc[t] \in Calling \ Adding /\ mainCounter' = mainCounter /\ tearing' = tearing
    BY <1>5 DEF Emplace, At, Calling, Adding
  <2>2. \/ phase' = phase /\ GoTo(t, "publish")
        \/ phase' = phase /\ Proceed(t, rest[t])
        \/ phase' = "wild" /\ UNCHANGED <<pc, guid, rest>>
    BY <1>5 DEF Emplace
  <2> QED BY <1>2, <1>3, <2>1, <2>2, CountSame DEF Calling, Adding
<1>6. CASE Publish(t)
  BY <1>3, <1>6 DEF Publish, At, Calling, Adding, MainThread
<1>7. CASE CountTask(t)
  <2> DEFINE r == guid[t]
  <2>0. pc[t] = "schedule" /\ r \in Resource /\ Running /\ mainCounter' = mainCounter + 1
        /\ tearing' = tearing /\ phase' = phase
    BY <1>1, <1>7 DEF CountTask, At, Calling, Adding
  <2>1. pc'[t] = "addTask" /\ guid' = guid /\ \A u \in Thread \ {t} : pc'[u] = pc[u]
    BY <1>7, GoToFacts DEF CountTask, Places
  <2>2. pc[r] = "idle" /\ \A u \in Thread \ {t} : pc[u] \in Adding => guid[u] # r
    BY <1>0, <2>0 DEF CookedAlone, Adding
  <2>3. r \notin Counted
    BY <2>0, <2>2 DEF Counted, Adding
  <2>4. Counted' = Counted \cup {r}
    <3>1. \A q \in Resource : pc'[q] = "idle" <=> pc[q] = "idle"
      BY <1>1, <2>0, <2>1
    <3> QED BY <1>1, <2>0, <2>1, <3>1 DEF Counted
  <2>5. IsFiniteSet(Counted') /\ Cardinality(Counted') = Cardinality(Counted) + 1
    BY <2>3, <2>4, FS_AddElement DEF CountInv
  <2>6. Cardinality(Counted) \in Nat
    BY FS_CardinalityType DEF CountInv
  <2> QED BY <1>0, <2>0, <2>5, <2>6 DEF CountInv, Running, MainType
<1>8. CASE AddTask(t)
  <2> DEFINE r == guid[t]
  <2>0. pc[t] = "addTask" /\ r \in Resource /\ Running /\ mainCounter' = mainCounter
        /\ tearing' = tearing /\ phase' = phase
    BY <1>1, <1>8 DEF AddTask, At, Calling, Adding, MainThread
  <2>1. pc[r] = "idle" /\ r # t
    BY <1>0, <2>0 DEF CookedAlone
  <2>2. pc' = [pc EXCEPT ![t] = After(t, rest[t]), ![r] = "queued"] /\ NextCall(t, rest[t])
    BY <1>8 DEF AddTask
  <2>3. pc'[r] = "queued" /\ pc'[t] = After(t, rest[t]) /\ \A u \in Thread \ {t, r} : pc'[u] = pc[u]
    BY <1>0, <1>1, <2>0, <2>1, <2>2 DEF ThreadType
  <2>4. \A u \in Thread \ {t} : guid'[u] = guid[u]
    BY <1>1, <2>2, NextCallFacts
  <2>5. pc'[t] \in {"lookup", "idle", "open"} /\ (pc'[t] = "idle" => t \in Worker)
    BY <1>1, <2>3, AfterFacts DEF Thread
  <2>6. Counted' = Counted
    <3>1. \A q \in Resource \ {r} : pc'[q] = "idle" <=> pc[q] = "idle"
      BY <1>1, <2>0, <2>3, <2>5
    <3>2. \A u \in Thread : pc'[u] = "addTask" <=> pc[u] = "addTask" /\ u # t
      BY <2>1, <2>3, <2>5
    <3>3. r \in Counted /\ r \in Counted'
      BY <2>0, <2>3 DEF Counted
    <3>4. \A q \in Resource \ {r} : q \in Counted' <=> q \in Counted
      BY <2>4, <3>1, <3>2 DEF Counted
    <3>5. Counted \subseteq Resource /\ Counted' \subseteq Resource
      BY DEF Counted
    <3> QED BY <3>3, <3>4, <3>5
  <2> QED BY <2>0, <2>6 DEF CountInv
<1> QED BY <1>4, <1>5, <1>6, <1>7, <1>8 DEF Ensure

\* The steps of a task keep mainCounter exact.
LEMMA CountTaskStep ==
    ASSUME TypeOK, OwnInv, CountInv, NEW r \in Resource, Task(r)
    PROVE  CountInv'
<1>0. TypeOK /\ ThreadType /\ MainType /\ PlacesInv /\ CookedAlone /\ ContextInv
  BY TypeParts DEF OwnInv
<1>1. r \in Thread /\ r \notin Worker /\ Runtime[r] \in Seq(Resource) /\ Resource \subseteq Thread
  BY CookerAssumption DEF Thread
<1>2. CASE StartTask(r)
  <2>1. Proceed(r, Runtime[r]) /\ pc[r] = "queued" /\ mainCounter' = mainCounter /\ tearing' = tearing
        /\ phase' = phase
    BY <1>2 DEF StartTask, At, MainThread
  <2>2. pc'[r] \in {"lookup", "open"} /\ \A u \in Thread \ {r} : pc'[u] = pc[u] /\ guid'[u] = guid[u]
    BY <1>1, <2>1, ProceedFacts
  <2> QED BY <1>1, <2>1, <2>2, CountSame
<1>3. CASE OpenBin(r) \/ WriteBin(r) \/ OpenDep(r) \/ WriteDep(r)
  <2>1. pc[r] \in {"open", "write", "openDep", "writeDep"} /\ mainCounter' = mainCounter
        /\ tearing' = tearing /\ phase' = phase
    BY <1>3 DEF OpenBin, WriteBin, OpenDep, WriteDep, At, MainThread
  <2>2. GoTo(r, "write") \/ GoTo(r, "openDep") \/ GoTo(r, "writeDep") \/ GoTo(r, "over")
    BY <1>3 DEF OpenBin, WriteBin, OpenDep, WriteDep
  <2>3. pc'[r] \in {"write", "openDep", "writeDep", "over"} /\ guid' = guid
        /\ \A u \in Thread \ {r} : pc'[u] = pc[u]
    BY <1>1, <2>2, GoToFacts DEF Places
  <2> QED BY <1>1, <2>1, <2>3, CountSame
<1>4. CASE TearDown(r)
  <2>1. pc[r] = "over" /\ phase' = phase /\ Running /\ mainCounter' = mainCounter /\ tearing' = tearing + 1
        /\ GoTo(r, "idle") /\ "idle" \in Places
    BY <1>4 DEF TearDown, At, Places
  <2>2. pc'[r] = "idle" /\ guid' = guid /\ \A u \in Thread \ {r} : pc'[u] = pc[u]
    BY <1>1, <2>1, GoToFacts
  <2>3. \A u \in Thread : pc[u] = "addTask" => guid[u] # r
    BY <1>0, <2>1 DEF CookedAlone
  <2>4. Counted' = Counted \ {r} /\ r \in Counted
    BY <1>1, <2>1, <2>2, <2>3 DEF Counted
  <2>5. IsFiniteSet(Counted') /\ Cardinality(Counted') = Cardinality(Counted) - 1
    BY <2>4, FS_RemoveElement DEF CountInv
  <2>6. Cardinality(Counted) \in Nat
    BY FS_CardinalityType DEF CountInv
  <2> QED BY <1>0, <2>1, <2>5, <2>6 DEF CountInv, Running, MainType
<1> QED BY <1>2, <1>3, <1>4 DEF Task

\* Every step keeps mainCounter exact.
LEMMA CountStep == IInv /\ [Next]_vars => CountInv'
<1> SUFFICES ASSUME IInv, [Next]_vars PROVE CountInv'
  OBVIOUS
<1>0. TypeOK /\ OwnInv /\ CountInv /\ PlacesInv
  BY DEF IInv, OwnInv
<1>1. CASE \/ \E a \in Raw : EditRaw(a) \/ \E r \in Resource : EditMeta(r, a)
           \/ NewCooker \/ AllEnsured \/ WaitForAll \/ UNCHANGED vars
  <2>1. pc' = pc /\ guid' = guid /\ mainCounter' = mainCounter /\ tearing' = tearing
        /\ (phase' = phase \/ phase' # "off")
    BY <1>1 DEF EditRaw, EditMeta, NewCooker, Edited, AllEnsured, WaitForAll, vars, threads
  <2> QED BY <1>0, <2>1, CountSame
<1>2. CASE Decrement
  <2>1. Counted' = Counted
    BY <1>2 DEF Decrement, threads, Counted
  <2>2. Cardinality(Counted) \in Nat
    BY <1>0, FS_CardinalityType DEF CountInv
  <2> QED BY <1>0, <1>2, <2>1, <2>2 DEF CountInv, Decrement, Running, TypeOK
<1>3. CASE StartUp
  <2>1. \A t \in Thread : pc[t] = "idle"
    BY <1>0, <1>3 DEF StartUp, PlacesInv
  <2>2. Counted = {}
    BY <2>1 DEF Counted, Thread
  <2>3. mainCounter' = 0 /\ tearing' = 0
    BY <1>0, <1>3, <2>2, FS_EmptySet DEF StartUp, CountInv
  <2> QED BY <1>3, <2>3, CountNone, CookerAssumption DEF StartUp, Thread
<1>4. CASE Shutdown \/ Die \/ Crash
  BY <1>4, CountNone DEF Shutdown, Die, Crash, Gone, Idle, Thread
<1>5. ASSUME NEW w \in Worker, StartBatch(w) PROVE CountInv'
  <2>1. w \in Thread /\ w \notin Resource /\ Batch[w] \in Seq(Resource) /\ Proceed(w, Batch[w])
        /\ pc[w] = "batch" /\ mainCounter' = mainCounter /\ tearing' = tearing /\ phase' = phase
    BY <1>5, CookerAssumption DEF StartBatch, At, MainThread, Thread
  <2>2. pc'[w] \in {"lookup", "idle"} /\ \A u \in Thread \ {w} : pc'[u] = pc[u] /\ guid'[u] = guid[u]
    BY <1>0, <1>5, <2>1, ProceedFacts
  <2> QED BY <1>0, <2>1, <2>2, CountSame DEF Thread
<1> QED BY <1>0, <1>1, <1>2, <1>3, <1>4, <1>5, CountEnsure, CountTaskStep DEF Next, Main

\* mainCounter is zero only when every task is over.
LEMMA WaitStep == IInv /\ [Next]_vars => WaitComplete'
<1> SUFFICES ASSUME IInv, [Next]_vars, phase' = "shutdown" PROVE WaitComplete'
  BY DEF WaitComplete
<1>0. TypeOK /\ PlacesInv /\ CountInv /\ ContextInv /\ WaitComplete
  BY DEF IInv
<1>1. CASE WaitForAll
  <2>1. phase = "waiting" /\ mainCounter = 0 /\ UNCHANGED <<cooking, tearing, pc, guid>>
    BY <1>1 DEF WaitForAll, threads
  <2>2. IsFiniteSet(Counted) /\ Cardinality(Counted) = 0 /\ tearing = 0
    <3>1. Cardinality(Counted) \in Nat /\ tearing \in Nat
      BY <1>0, FS_CardinalityType DEF CountInv, TypeOK
    <3> QED BY <1>0, <2>1, <3>1 DEF CountInv
  <2>3. Counted = {}
    BY <2>2, FS_EmptySet
  <2>4. \A t \in Thread : pc[t] = "idle"
    BY <1>0, <2>1, <2>3 DEF Counted, PlacesInv, Thread
  <2>5. \A r \in Resource : cooking[r] = "none"
    BY <1>0, <2>4 DEF ContextInv, Adding, Thread
  <2> QED BY <2>1, <2>2, <2>4, <2>5 DEF WaitComplete
<1>2. CASE phase = "shutdown" /\ UNCHANGED vars
  BY <1>0, <1>2 DEF WaitComplete, vars, threads
<1>3. CASE ~WaitForAll /\ ~UNCHANGED vars
  <2>1. phase # "shutdown" => phase' # "shutdown"
    BY <1>3 DEF Next, Main, EditRaw, EditMeta, NewCooker, Edited, StartUp, AllEnsured, Shutdown, Die, Crash,
         Gone, StartBatch, Ensure, Lookup, CheckBin, CheckDeps, Emplace, Publish, CountTask, AddTask,
         Task, StartTask, OpenBin, WriteBin, OpenDep, WriteDep, TearDown, Decrement, MainThread, vars
  <2>2. phase = "shutdown" => Shutdown
    BY <1>3 DEF Next, Main, EditRaw, EditMeta, NewCooker, Edited, StartUp, AllEnsured, Die, Crash,
         StartBatch, Ensure, Lookup, CheckBin, CheckDeps, Emplace, Publish, CountTask, AddTask,
         Task, StartTask, OpenBin, WriteBin, OpenDep, WriteDep, TearDown, Decrement, At, Running, vars
  <2> QED BY <2>1, <2>2 DEF Shutdown, Gone
<1> QED BY <1>1, <1>2, <1>3 DEF vars

-----------------------------------------------------------------------------
(* The files.                                                              *)

\* The disk is the same, and nobody comes to write or to ask.
LEMMA FilesSame ==
    ASSUME FilesInv, UNCHANGED disk,
           \A r \in Resource : pc'[r] \in {"write", "openDep", "writeDep", "over"} =>
               pc[r] = pc'[r] /\ failed \subseteq failed',
           \A t \in Thread : pc'[t] = "checkDeps" =>
               pc[t] = "checkDeps" /\ guid'[t] = guid[t] /\ stamp'[t] = stamp[t]
    PROVE  FilesInv'
<1>0. UNCHANGED <<clock, raw, meta, version, bin, dep, torn>>
  BY DEF disk, sources
<1>1. ASSUME NEW r \in Resource PROVE FilesOf(r)'
  <2>1. FilesOf(r) /\ (Telling(r)' <=> Telling(r)) /\ (Current(r)' <=> Current(r))
    BY <1>0 DEF FilesInv, Telling, Current
  <2> QED BY <1>0, <2>1 DEF FilesOf
<1>2. ASSUME NEW t \in Thread PROVE Asking(t)'
  BY <1>0 DEF FilesInv, Asking
<1> QED BY <1>0, <1>1, <1>2 DEF FilesInv

\* A source is edited: every cooked file is older.
LEMMA FilesEdit ==
    ASSUME IInv,
           \/ \E a \in Raw : EditRaw(a) \/ \E r \in Resource : EditMeta(r, a)
           \/ NewCooker
    PROVE  FilesInv'
<1>a. DiskType /\ PlacesInv /\ FilesInv
  BY TypeParts DEF IInv
<1>b. Times \subseteq Nat
  BY CookerAssumption DEF Times
<1>0. DiskType /\ PlacesInv /\ FilesInv /\ clock \in Nat /\ version \in Nat
  BY <1>a, <1>b DEF DiskType
<1>1. clock' = clock + 1 /\ bin' = bin /\ dep' = dep /\ torn' = torn /\ pc' = pc
      /\ \A t \in Thread : pc[t] = "idle"
  BY <1>0 DEF EditRaw, EditMeta, NewCooker, Edited, threads, PlacesInv
<1>2. \A b \in Raw : raw[b] \in Nat /\ raw'[b] \in Nat /\ (raw'[b] = raw[b] \/ raw'[b] = clock + 1)
  <2>1. raw \in [Raw -> Nat]
    BY <1>0, <1>b DEF DiskType
  <2>2. raw' = raw \/ \E a \in Raw : raw' = [raw EXCEPT ![a] = clock + 1]
    BY <1>1 DEF EditRaw, EditMeta, NewCooker
  <2> QED BY <1>0, <2>1, <2>2
<1>3. \A q \in Resource : meta[q].time \in Nat /\ (meta'[q] = meta[q] \/ meta'[q].time = clock + 1)
  <2>1. meta \in [Resource -> [time : Nat, asset : Raw]]
    BY <1>0, <1>b DEF DiskType
  <2>2. meta' = meta \/ \E a \in Raw, r \in Resource :
                            meta' = [meta EXCEPT ![r] = [time |-> clock + 1, asset |-> a]]
    BY <1>1 DEF EditRaw, EditMeta, NewCooker
  <2> QED BY <2>1, <2>2
<1>4. version' = version \/ version' = clock + 1
  BY <1>1 DEF EditRaw, EditMeta, NewCooker
<1>5. ASSUME NEW q \in Resource PROVE FilesOf(q)'
  <2>0. FilesOf(q) /\ q \in Thread
    BY <1>0 DEF FilesInv, Thread
  <2>1. bin[q] # None => bin[q].time \in Nat /\ bin[q].asset \in Raw
    BY <1>0 DEF DiskType, Cooked, Times
  <2>2. meta'[q].time <= clock + 1
    BY <1>0, <1>3, <2>0 DEF FilesOf
  <2>3. bin[q] # None /\ q \notin torn => Telling(q)'
    <3> SUFFICES ASSUME bin[q] # None, q \notin torn PROVE Telling(q)'
      OBVIOUS
    <3>1. Telling(q) /\ bin[q].time <= clock
      BY <2>0 DEF FilesOf
    <3>2. meta'[q].time <= bin[q].time => meta'[q] = meta[q]
      BY <1>0, <1>3, <2>1, <3>1
    <3>3. raw'[bin[q].asset] <= bin[q].time => raw'[bin[q].asset] = raw[bin[q].asset]
      BY <1>0, <1>2, <2>1, <3>1
    <3> QED BY <1>1, <3>1, <3>2, <3>3 DEF Telling
  <2> QED BY <1>0, <1>1, <2>0, <2>1, <2>2, <2>3 DEF FilesOf
<1>6. \A t \in Thread : Asking(t)'
  BY <1>1 DEF Asking
<1> QED BY <1>0, <1>1, <1>2, <1>4, <1>5, <1>6 DEF FilesInv

\* The task of r writes a file of r.
LEMMA FilesWrite ==
    ASSUME TypeOK, FilesInv, NEW r \in Resource,
           UNCHANGED sources, UNCHANGED <<guid, stamp>>, failed \subseteq failed',
           \A q \in Resource \ {r} : /\ bin'[q] = bin[q] /\ dep'[q] = dep[q]
                                     /\ q \in torn' <=> q \in torn,
           \A u \in Thread \ {r} : pc'[u] = pc[u],
           pc'[r] # "checkDeps", bin'[r] = bin[r] \/ (bin'[r] # None /\ bin'[r].time = clock),
           \A t \in Thread : pc[t] = "checkDeps" => guid[t] \in Resource,
           FilesOf(r)'
    PROVE  FilesInv'
<1>0. DiskType /\ ThreadType /\ UNCHANGED <<clock, raw, meta, version>>
  BY TypeParts DEF sources
<1>1. ASSUME NEW q \in Resource \ {r} PROVE FilesOf(q)'
  <2>1. FilesOf(q) /\ pc'[q] = pc[q] /\ bin'[q] = bin[q] /\ dep'[q] = dep[q] /\ (q \in torn' <=> q \in torn)
    BY DEF FilesInv, Thread
  <2>2. (Telling(q)' <=> Telling(q)) /\ (Current(q)' <=> Current(q))
    BY <1>0, <2>1 DEF Telling, Current
  <2> QED BY <1>0, <2>1, <2>2 DEF FilesOf
<1>2. ASSUME NEW t \in Thread PROVE Asking(t)'
  <2> SUFFICES ASSUME pc'[t] = "checkDeps" PROVE Asking(t)'
    BY DEF Asking
  <2>1. pc[t] = "checkDeps" /\ guid[t] \in Resource /\ Asking(t)
    BY DEF FilesInv
  <2>2. bin'[guid[t]] = bin[guid[t]] \/ (bin'[guid[t]] # None /\ bin'[guid[t]].time = clock)
    BY <2>1
  <2>3. bin[guid[t]] # None /\ bin[guid[t]].time <= clock
    BY <2>1 DEF Asking, FilesInv, FilesOf
  <2>4. clock \in Int /\ stamp[t] \in Int /\ bin[guid[t]].time \in Int
    BY <1>0, <2>1, <2>3 DEF DiskType, ThreadType, Times, Cooked
  <2> QED BY <1>0, <2>1, <2>2, <2>3, <2>4 DEF Asking
<1> QED BY <1>0, <1>1, <1>2 DEF FilesInv

\* The steps of a task keep what the files tell of their sources.
LEMMA FilesTask ==
    ASSUME TypeOK, PlacesInv, FilesInv, NEW r \in Resource, Task(r)
    PROVE  FilesInv'
<1>0. DiskType /\ ThreadType /\ r \in Thread /\ FilesOf(r) /\ r \notin Worker
  BY TypeParts, CookerAssumption DEF Thread, FilesInv
<1>1. \A t \in Thread : pc[t] = "checkDeps" => guid[t] \in Resource
  BY DEF PlacesInv, Calling
<1>2. meta[r].time <= clock /\ clock \in Int /\ version \in Times /\ Imported(r) \in Raw
  BY <1>0 DEF FilesOf, DiskType, Times, Imported
<1>3. CASE StartTask(r)
  <2>1. Proceed(r, Runtime[r]) /\ UNCHANGED disk /\ failed' = failed /\ stamp' = stamp
        /\ Runtime[r] \in Seq(Resource)
    BY <1>3, CookerAssumption DEF StartTask, MainThread
  <2>2. pc'[r] \in {"lookup", "open"} /\ \A u \in Thread \ {r} : pc'[u] = pc[u] /\ guid'[u] = guid[u]
    BY <1>0, <2>1, ProceedFacts
  <2> QED BY <2>1, <2>2, FilesSame DEF Thread
<1>4. CASE OpenBin(r)
  <2>1. pc[r] = "open" /\ UNCHANGED sources /\ UNCHANGED dep /\ UNCHANGED stamp
    BY <1>4 DEF OpenBin, At
  <2>2. CASE GoTo(r, "over") /\ failed' = failed \cup {r} /\ UNCHANGED <<bin, torn>>
    <3>1. pc'[r] = "over" /\ guid' = guid /\ \A u \in Thread \ {r} : pc'[u] = pc[u]
      BY <1>0, <2>2, GoToFacts DEF Places
    <3>2. Telling(r)' <=> Telling(r)
      BY <2>1, <2>2 DEF Telling, sources
    <3>3. FilesOf(r)'
      BY <1>0, <2>1, <2>2, <3>1, <3>2 DEF FilesOf, sources
    <3> QED BY <1>1, <2>1, <2>2, <3>1, <3>3, FilesWrite
  <2>3. CASE /\ GoTo(r, "write") /\ torn' = torn \cup {r} /\ UNCHANGED <<faults, failed>>
             /\ bin' = [bin EXCEPT ![r] = [time |-> clock, version |-> Garbage,
                                           meta |-> 0, asset |-> Imported(r), raw |-> 0]]
    <3>1. pc'[r] = "write" /\ guid' = guid /\ \A u \in Thread \ {r} : pc'[u] = pc[u]
      BY <1>0, <2>3, GoToFacts DEF Places
    <3>2. bin'[r] = [time |-> clock, version |-> Garbage, meta |-> 0, asset |-> Imported(r), raw |-> 0]
          /\ \A q \in Resource \ {r} : bin'[q] = bin[q]
      BY <1>0, <2>3 DEF DiskType
    <3>3. bin'[r] \in Cooked /\ bin'[r].time = clock
      BY <1>0, <1>2, <3>2, CookerAssumption DEF DiskType, Cooked, Times
    <3>4. bin'[r] # None
      BY <3>3, CookerAssumption
    <3>5. FilesOf(r)'
      BY <1>2, <2>1, <2>3, <3>1, <3>3 DEF FilesOf, sources
    <3> QED BY <1>1, <2>1, <2>3, <3>1, <3>2, <3>3, <3>4, <3>5, FilesWrite
  <2> QED BY <1>4, <2>2, <2>3 DEF OpenBin
<1>5. CASE WriteBin(r)
  <2> DEFINE cooked == [time |-> clock, version |-> version, meta |-> meta[r].time,
                        asset |-> meta[r].asset, raw |-> raw[meta[r].asset]]
  <2>1. pc[r] = "write" /\ UNCHANGED sources /\ UNCHANGED <<dep, torn, stamp, failed>> /\ GoTo(r, "openDep")
        /\ bin' = [bin EXCEPT ![r] = cooked]
    BY <1>5 DEF WriteBin, At, MainThread, Imported
  <2>2. pc'[r] = "openDep" /\ guid' = guid /\ \A u \in Thread \ {r} : pc'[u] = pc[u]
    BY <1>0, <2>1, GoToFacts DEF Places
  <2>3. bin'[r] = cooked /\ \A q \in Resource \ {r} : bin'[q] = bin[q]
    BY <1>0, <2>1 DEF DiskType
  <2>4. cooked \in Cooked /\ cooked.time = clock
    BY <1>0, <1>2 DEF DiskType, Cooked, Imported
  <2>5. bin'[r] # None
    BY <2>3, <2>4, CookerAssumption
  <2>6. Current(r)' /\ r \in torn'
    BY <1>0, <2>1, <2>3, <2>5 DEF Current, sources, FilesOf
  <2>7. FilesOf(r)'
    BY <1>2, <2>1, <2>2, <2>3, <2>4, <2>6 DEF FilesOf, sources
  <2> QED BY <1>1, <2>1, <2>2, <2>3, <2>4, <2>5, <2>7, FilesWrite
<1>6. CASE OpenDep(r)
  <2>1. pc[r] = "openDep" /\ UNCHANGED sources /\ UNCHANGED <<bin, torn, stamp>> /\ failed \subseteq failed'
        /\ (GoTo(r, "over") \/ GoTo(r, "writeDep")) /\ (dep' = dep \/ dep' = [dep EXCEPT ![r] = Empty])
    BY <1>6 DEF OpenDep, At
  <2>2. pc'[r] \in {"over", "writeDep"} /\ guid' = guid /\ \A u \in Thread \ {r} : pc'[u] = pc[u]
    BY <1>0, <2>1, GoToFacts DEF Places
  <2>3. \A q \in Resource \ {r} : dep'[q] = dep[q]
    BY <1>0, <2>1 DEF DiskType
  <2>4. Current(r)' <=> Current(r)
    BY <2>1 DEF Current, sources
  <2>5. FilesOf(r)'
    BY <1>0, <2>1, <2>2, <2>4 DEF FilesOf, sources
  <2> QED BY <1>1, <2>1, <2>2, <2>3, <2>5, FilesWrite
<1>7. CASE WriteDep(r)
  <2>1. pc[r] = "writeDep" /\ UNCHANGED sources /\ UNCHANGED <<bin, stamp, failed>> /\ GoTo(r, "over")
        /\ dep' = [dep EXCEPT ![r] = {meta[r].asset}] /\ torn' = torn \ {r}
    BY <1>7 DEF WriteDep, At, MainThread, Imported
  <2>2. pc'[r] = "over" /\ guid' = guid /\ \A u \in Thread \ {r} : pc'[u] = pc[u]
    BY <1>0, <2>1, GoToFacts DEF Places
  <2>3. dep'[r] = {meta[r].asset} /\ \A q \in Resource \ {r} : dep'[q] = dep[q]
    BY <1>0, <2>1 DEF DiskType
  <2>4. Current(r) /\ (Current(r)' <=> Current(r))
    BY <1>0, <2>1 DEF Current, sources, FilesOf
  <2>5. bin[r].asset = meta[r].asset /\ bin[r].version = version /\ bin[r].meta = meta[r].time
        /\ bin[r].raw = raw[meta[r].asset]
    BY <2>4 DEF Current
  <2>6. Telling(r)'
    BY <1>2, <2>1, <2>3, <2>5 DEF Telling, sources, Garbage, Times
  <2>7. FilesOf(r)'
    BY <1>0, <2>1, <2>2, <2>4, <2>6 DEF FilesOf, sources
  <2> QED BY <1>1, <2>1, <2>2, <2>3, <2>7, FilesWrite
<1>8. CASE TearDown(r)
  <2>1. GoTo(r, "idle") /\ UNCHANGED disk /\ failed' = failed /\ stamp' = stamp
    BY <1>8 DEF TearDown
  <2>2. pc'[r] = "idle" /\ guid' = guid /\ \A u \in Thread \ {r} : pc'[u] = pc[u]
    BY <1>0, <2>1, GoToFacts DEF Places
  <2> QED BY <2>1, <2>2, FilesSame DEF Thread
<1> QED BY <1>3, <1>4, <1>5, <1>6, <1>7, <1>8 DEF Task

\* The steps of EnsureCooked keep what the files tell of their sources.
LEMMA FilesEnsure ==
    ASSUME TypeOK, OwnInv, FilesInv, NEW t \in Thread, Ensure(t)
    PROVE  FilesInv'
<1>0. DiskType /\ ThreadType /\ PlacesInv /\ CookedAlone
  BY TypeParts DEF OwnInv
<1>1. rest[t] \in Seq(Resource) /\ (pc[t] \in Calling => guid[t] \in Resource)
      /\ Resource \subseteq Thread /\ UNCHANGED disk /\ failed' = failed
  BY <1>0, CallFacts DEF Thread, Ensure, Lookup, CheckBin, CheckDeps, Emplace, Publish, CountTask,
     AddTask, MainThread
<1>2. CASE CheckBin(t) /\ GoTo(t, "checkDeps")
  <2> DEFINE r == guid[t]
  <2>1. pc[t] = "checkBin" /\ r \in Resource
    BY <1>1, <1>2 DEF CheckBin, At, Calling
  <2>2. pc'[t] = "checkDeps" /\ guid' = guid /\ \A u \in Thread \ {t} : pc'[u] = pc[u]
    BY <1>2, GoToFacts DEF Places
  <2>3. BinCurrent(r) /\ stamp' = [stamp EXCEPT ![t] = bin[r].time]
    <3>1. ~GoTo(t, "emplace")
      BY <1>0, <2>2 DEF GoTo, ThreadType
    <3> QED BY <1>2, <3>1 DEF CheckBin
  <2>4. stamp'[t] = bin[r].time /\ \A u \in Thread \ {t} : stamp'[u] = stamp[u]
    BY <1>0, <2>3 DEF ThreadType
  <2>5. UNCHANGED <<clock, raw, meta, version, bin, dep, torn>>
    BY <1>1 DEF disk, sources
  <2>6. ASSUME NEW q \in Resource PROVE FilesOf(q)'
    <3>1. FilesOf(q) /\ (Telling(q)' <=> Telling(q)) /\ (Current(q)' <=> Current(q))
      BY <2>5 DEF FilesInv, Telling, Current
    <3> QED BY <1>1, <2>1, <2>2, <2>5, <3>1 DEF FilesOf
  <2>7. bin[r].time \in Int /\ meta[r].time \in Int
    BY <1>0, <2>1, <2>3 DEF DiskType, BinCurrent, Cooked, Times
  <2>8. ASSUME NEW u \in Thread PROVE Asking(u)'
    BY <2>2, <2>3, <2>4, <2>5, <2>7 DEF FilesInv, Asking, BinCurrent
  <2> QED BY <2>5, <2>6, <2>8 DEF FilesInv
<1>3. CASE AddTask(t)
  <2>1. pc[t] = "addTask" /\ guid[t] \in Resource /\ guid[t] # t /\ stamp' = stamp
    BY <1>0, <1>1, <1>3 DEF AddTask, At, Calling, Adding, CookedAlone
  <2>2. pc' = [pc EXCEPT ![t] = After(t, rest[t]), ![guid[t]] = "queued"] /\ NextCall(t, rest[t])
    BY <1>3 DEF AddTask
  <2>3. pc'[guid[t]] = "queued" /\ pc'[t] \in {"lookup", "idle", "open"}
        /\ \A u \in Thread \ {t, guid[t]} : pc'[u] = pc[u]
    BY <1>0, <1>1, <2>1, <2>2, AfterFacts DEF ThreadType, Thread
  <2>4. \A u \in Thread \ {t} : guid'[u] = guid[u]
    BY <1>1, <2>2, NextCallFacts
  <2> QED BY <1>1, <2>1, <2>3, <2>4, FilesSame
<1>4. CASE ~(CheckBin(t) /\ GoTo(t, "checkDeps")) /\ ~AddTask(t)
  <2>1. \/ Proceed(t, rest[t])
        \/ UNCHANGED <<pc, guid, rest>>
        \/ \E place \in {"checkBin", "emplace", "publish", "schedule", "addTask"} : GoTo(t, place)
    BY <1>4 DEF Ensure, Lookup, CheckBin, CheckDeps, Emplace, Publish, CountTask
  <2>2. /\ UNCHANGED <<pc, guid, rest>> \/ pc'[t] \in {"lookup", "idle", "open", "checkBin", "emplace",
                                                        "publish", "schedule", "addTask"}
        /\ \A u \in Thread \ {t} : pc'[u] = pc[u] /\ guid'[u] = guid[u]
    <3>1. CASE Proceed(t, rest[t])
      BY <1>1, <3>1, ProceedFacts DEF Thread
    <3>2. CASE UNCHANGED <<pc, guid, rest>>
      BY <3>2
    <3>3. ASSUME NEW place \in {"checkBin", "emplace", "publish", "schedule", "addTask"}, GoTo(t, place)
          PROVE  pc'[t] = place /\ \A u \in Thread \ {t} : pc'[u] = pc[u] /\ guid'[u] = guid[u]
      <4>1. place \in Places
        BY DEF Places
      <4> QED BY <3>3, <4>1, GoToFacts
    <3> QED BY <2>1, <3>1, <3>2, <3>3
  <2>3. \A u \in Thread \ {t} : stamp'[u] = stamp[u]
    BY <1>0, <1>4 DEF Ensure, Lookup, CheckBin, CheckDeps, Emplace, Publish, CountTask, ThreadType
  <2>4. pc'[t] = "checkDeps" => pc[t] = "checkDeps" /\ guid'[t] = guid[t] /\ stamp'[t] = stamp[t]
    <3>1. pc'[t] = "checkDeps" => UNCHANGED <<pc, guid, rest>> /\ pc[t] = "checkDeps"
      BY <2>2
    <3>2. UNCHANGED <<pc, guid, rest>> => UNCHANGED stamp \/ CheckDeps(t)
      <4>1. ASSUME CheckBin(t), UNCHANGED <<pc, guid, rest>> PROVE UNCHANGED stamp
        BY <1>4, <4>1 DEF CheckBin
      <4> QED BY <1>4, <4>1 DEF Ensure, Lookup, Emplace, Publish, CountTask
    <3>3. UNCHANGED <<pc, guid, rest>> /\ pc[t] = "checkDeps" => ~CheckDeps(t)
      <4> SUFFICES ASSUME pc' = pc, pc[t] = "checkDeps", CheckDeps(t) PROVE FALSE
        OBVIOUS
      <4>1. Proceed(t, rest[t]) \/ GoTo(t, "emplace")
        BY DEF CheckDeps
      <4>2. pc'[t] \in {"lookup", "idle", "open", "emplace"}
        BY <1>1, <4>1, ProceedFacts, GoToFacts DEF Places, Thread
      <4> QED BY <4>2
    <3> QED BY <3>1, <3>2, <3>3
  <2> QED BY <1>1, <2>2, <2>3, <2>4, FilesSame
<1> QED BY <1>2, <1>3, <1>4

\* Every step keeps what the files tell of their sources.
LEMMA FilesStep == IInv /\ [Next]_vars => FilesInv'
<1> SUFFICES ASSUME IInv, [Next]_vars PROVE FilesInv'
  OBVIOUS
<1>0. TypeOK /\ OwnInv /\ PlacesInv /\ FilesInv
  BY DEF IInv, OwnInv
<1>1. CASE AllEnsured \/ WaitForAll \/ Decrement \/ UNCHANGED vars
  BY <1>0, <1>1, FilesSame DEF AllEnsured, WaitForAll, Decrement, vars, threads
<1>2. CASE StartUp
  BY <1>0, <1>2, FilesSame DEF StartUp, Thread
<1>3. CASE Shutdown \/ Die \/ Crash
  BY <1>0, <1>3, FilesSame DEF Shutdown, Die, Crash, Gone, Idle, Thread
<1>4. ASSUME NEW w \in Worker, StartBatch(w) PROVE FilesInv'
  <2>1. w \in Thread /\ w \notin Resource /\ Batch[w] \in Seq(Resource) /\ Proceed(w, Batch[w])
        /\ UNCHANGED disk /\ failed' = failed /\ stamp' = stamp
    BY <1>4, CookerAssumption DEF StartBatch, MainThread, Thread
  <2>2. pc'[w] \in {"lookup", "idle"} /\ \A u \in Thread \ {w} : pc'[u] = pc[u] /\ guid'[u] = guid[u]
    BY <1>0, <1>4, <2>1, ProceedFacts
  <2> QED BY <1>0, <2>1, <2>2, FilesSame DEF Thread
<1> QED BY <1>0, <1>1, <1>2, <1>3, <1>4, FilesEdit, FilesEnsure, FilesTask DEF Next, Main

-----------------------------------------------------------------------------
(* Every resource is ensured.                                              *)

\* A call whose checks have passed is for a resource that is up to date.
LEMMA ChecksRight ==
    ASSUME TypeOK, PlacesInv, FilesInv, NEW t \in Thread, pc[t] = "checkDeps", guid[t] \notin torn,
           DepsCurrent(guid[t], stamp[t]), bin[guid[t]].version \in {version, Garbage}
    PROVE  Current(guid[t])
<1> DEFINE r == guid[t]
<1>0. DiskType /\ ThreadType /\ r \in Resource
  BY TypeParts DEF PlacesInv, Calling
<1>1. bin[r] # None /\ stamp[t] <= bin[r].time /\ meta[r].time <= stamp[t] /\ Telling(r)
  BY <1>0 DEF FilesInv, Asking, FilesOf
<1>2. bin[r] \in Cooked /\ stamp[t] \in Int /\ meta[r].time \in Int /\ raw \in [Raw -> Times]
  BY <1>0, <1>1 DEF DiskType, ThreadType, Times
<1>3. bin[r].time \in Int /\ bin[r].asset \in Raw /\ raw[bin[r].asset] \in Int
  BY <1>2 DEF Cooked, Times
<1>4. raw[bin[r].asset] <= stamp[t]
  BY <1>1, <1>3 DEF DepsCurrent, Telling
<1>5. bin[r].meta = meta[r].time /\ bin[r].asset = meta[r].asset /\ bin[r].raw = raw[bin[r].asset]
      /\ bin[r].version = version
  BY <1>1, <1>2, <1>3, <1>4 DEF Telling
<1>6. bin[r] = [time |-> bin[r].time, version |-> bin[r].version, meta |-> bin[r].meta,
                asset |-> bin[r].asset, raw |-> bin[r].raw]
  BY <1>2 DEF Cooked
<1> QED BY <1>1, <1>5, <1>6 DEF Current

\* The calls ahead of the batches, when thread t ends its call.
LEMMA AheadNext ==
    ASSUME TypeOK, NEW t \in Thread, NextCall(t, rest[t]), pc'[t] = After(t, rest[t]),
           pc[t] # "batch", \A w \in Worker \ {t} : pc'[w] = pc[w],
           NEW w \in Worker, NEW r \in Resource, Ahead(w, r), w # t \/ guid[t] # r
    PROVE  Ahead(w, r)'
<1>0. rest[t] \in Seq(Resource) /\ w \in Thread
  BY DEF TypeOK, Thread
<1>1. CASE w # t
  BY <1>0, <1>1, NextCallFacts DEF Ahead
<1>2. CASE w = t
  <2>1. r \in Elems(rest[t])
    BY <1>2 DEF Ahead
  <2>2. rest[t] # <<>>
    BY <2>1 DEF Elems
  <2>3. pc'[t] = "lookup" /\ (r = guid'[t] \/ r \in Elems(rest'[t]))
    BY <1>0, <2>1, <2>2, AfterFacts, NextCallFacts
  <2> QED BY <1>2, <2>3 DEF Ahead, Calling
<1> QED BY <1>1, <1>2

\* The disk is the same, and no context is erased.
LEMMA EnsuredSame ==
    ASSUME NEW r \in Resource, Ensured(r), UNCHANGED disk, failed' = failed,
           cooking'[r] # "none" \/ cooking[r] = "none",
           \A w \in Worker : Ahead(w, r) => Ahead(w, r)' \/ cooking'[r] # "none" \/ r \in torn \/ Current(r)
    PROVE  Ensured(r)'
<1>1. UNCHANGED <<clock, raw, meta, version, bin, dep, torn>>
  BY DEF disk, sources
<1>2. Current(r)' <=> Current(r)
  BY <1>1 DEF Current
<1> QED BY <1>1, <1>2 DEF Ensured

\* The steps of EnsureCooked drop no resource.
LEMMA EnsuredEnsure ==
    ASSUME TypeOK, OwnInv, FilesInv, EnsuredInv, NEW t \in Thread, Ensure(t)
    PROVE  EnsuredInv'
<1>0. TypeOK /\ DiskType /\ ThreadType /\ MainType /\ PlacesInv /\ CookedAlone /\ ContextInv
  BY TypeParts DEF OwnInv
<1>1. rest[t] \in Seq(Resource) /\ (pc[t] \in Calling => guid[t] \in Resource)
      /\ Resource \subseteq Thread /\ Worker \subseteq Thread /\ Resource \cap Worker = {}
      /\ UNCHANGED disk /\ failed' = failed
  BY <1>0, CallFacts, CookerAssumption DEF Thread, Ensure, Lookup, CheckBin, CheckDeps, Emplace, Publish,
     CountTask, AddTask, MainThread
<1> SUFFICES ASSUME phase' # "wild", NEW r \in Resource PROVE Ensured(r)'
  BY DEF EnsuredInv
<1>2. Ensured(r)
  BY DEF EnsuredInv, Ensure, Lookup, CheckBin, CheckDeps, Emplace, Publish, CountTask, AddTask, At, Running
<1>3. ASSUME NextCall(t, rest[t]), pc'[t] = After(t, rest[t]), pc[t] \in Calling,
             \A w \in Worker \ {t} : pc'[w] = pc[w], cooking' = cooking,
             guid[t] = r => cooking[r] # "none" \/ r \in torn \/ Current(r)
      PROVE  Ensured(r)'
  <2>1. pc[t] # "batch"
    BY <1>3 DEF Calling, Adding
  <2>2. \A w \in Worker : Ahead(w, r) /\ (w # t \/ guid[t] # r) => Ahead(w, r)'
    BY <1>0, <1>3, <2>1, AheadNext
  <2> QED BY <1>1, <1>2, <1>3, <2>2, EnsuredSame
<1>4. ASSUME NEW place \in Calling, GoTo(t, place), pc[t] \in Calling,
             cooking'[r] # "none" \/ cooking[r] = "none"
      PROVE  Ensured(r)'
  <2>1. place \in Places
    BY DEF Calling, Adding, Places
  <2>2. pc'[t] = place /\ rest' = rest /\ guid' = guid /\ \A u \in Thread \ {t} : pc'[u] = pc[u]
    BY <1>4, <2>1, GoToFacts
  <2>3. pc[t] # "batch"
    BY <1>4 DEF Calling, Adding
  <2>4. \A w \in Worker : Ahead(w, r) => Ahead(w, r)'
    BY <1>1, <1>4, <2>2, <2>3 DEF Ahead
  <2> QED BY <1>1, <1>2, <1>4, <2>4, EnsuredSame
<1>5. ASSUME Proceed(t, rest[t]), pc[t] \in Calling, cooking' = cooking,
             guid[t] = r => cooking[r] # "none" \/ r \in torn \/ Current(r)
      PROVE  Ensured(r)'
  <2>1. NextCall(t, rest[t]) /\ pc'[t] = After(t, rest[t]) /\ \A w \in Worker \ {t} : pc'[w] = pc[w]
    BY <1>0, <1>1, <1>5 DEF Proceed, ThreadType
  <2> QED BY <1>3, <1>5, <2>1
<1>6. CASE Lookup(t)
  BY <1>4, <1>5, <1>6 DEF Lookup, At, Calling
<1>7. CASE CheckBin(t)
  BY <1>4, <1>7 DEF CheckBin, At, Calling
<1>8. CASE CheckDeps(t)
  <2>0. pc[t] = "checkDeps" /\ pc[t] \in Calling /\ cooking' = cooking
    BY <1>8 DEF CheckDeps, At, Calling
  <2>1. PICK read \in IF bin[guid[t]].version = Garbage THEN {version, Garbage} ELSE {bin[guid[t]].version} :
            IF DepsCurrent(guid[t], stamp[t]) /\ read = version
            THEN Proceed(t, rest[t]) ELSE GoTo(t, "emplace")
    BY <1>8 DEF CheckDeps
  <2>2. CASE GoTo(t, "emplace")
    BY <1>4, <2>0, <2>2 DEF Calling
  <2>3. CASE ~GoTo(t, "emplace")
    <3>1. DepsCurrent(guid[t], stamp[t]) /\ read = version /\ Proceed(t, rest[t])
      BY <2>1, <2>3
    <3>2. bin[guid[t]].version \in {version, Garbage}
      BY <3>1
    <3>3. guid[t] \notin torn => Current(guid[t])
      BY <1>0, <2>0, <3>1, <3>2, ChecksRight
    <3> QED BY <1>5, <2>0, <3>1, <3>3
  <2> QED BY <2>2, <2>3
<1>9. CASE Emplace(t)
  <2>0. pc[t] \in Calling /\ guid[t] \in Resource
    BY <1>1, <1>9 DEF Emplace, At, Calling
  <2>1. CASE cooking[guid[t]] = "none"
    <3>1. GoTo(t, "publish") /\ cooking' = [cooking EXCEPT ![guid[t]] = "null"]
      BY <1>9, <2>1 DEF Emplace
    <3>2. cooking'[r] # "none" \/ cooking[r] = "none"
      BY <1>0, <2>0, <3>1 DEF MainType
    <3> QED BY <1>4, <2>0, <3>1, <3>2 DEF Calling, Adding
  <2>2. CASE cooking[guid[t]] # "none"
    <3>1. Proceed(t, rest[t]) /\ cooking' = cooking
      BY <1>9, <2>2 DEF Emplace
    <3> QED BY <1>5, <2>0, <2>2, <3>1
  <2> QED BY <2>1, <2>2
<1>10. CASE Publish(t)
  <2>1. GoTo(t, "schedule") /\ cooking' = [cooking EXCEPT ![guid[t]] = "counter"] /\ pc[t] \in Calling
    BY <1>10 DEF Publish, At, Calling, Adding
  <2>2. cooking'[r] # "none" \/ cooking[r] = "none"
    BY <1>0, <1>1, <2>1 DEF MainType
  <2> QED BY <1>4, <2>1, <2>2 DEF Calling, Adding
<1>11. CASE CountTask(t)
  BY <1>4, <1>11 DEF CountTask, At, Calling, Adding
<1>12. CASE AddTask(t)
  <2>1. pc[t] = "addTask" /\ pc[t] \in Calling /\ cooking' = cooking /\ NextCall(t, rest[t])
        /\ pc' = [pc EXCEPT ![t] = After(t, rest[t]), ![guid[t]] = "queued"]
    BY <1>12 DEF AddTask, At, Calling, Adding
  <2>2. guid[t] \in Resource /\ guid[t] # t /\ cooking[guid[t]] = "counter"
    BY <1>0, <1>1, <2>1 DEF CookedAlone, ContextInv
  <2>3. pc'[t] = After(t, rest[t]) /\ \A w \in Worker \ {t} : pc'[w] = pc[w]
    BY <1>0, <1>1, <2>1, <2>2 DEF ThreadType
  <2> QED BY <1>3, <2>1, <2>2, <2>3
<1> QED BY <1>6, <1>7, <1>8, <1>9, <1>10, <1>11, <1>12 DEF Ensure

\* The steps of a task drop no resource.
LEMMA EnsuredTask ==
    ASSUME TypeOK, OwnInv, FilesInv, EnsuredInv, NEW r \in Resource, Task(r)
    PROVE  EnsuredInv'
<1>0. TypeOK /\ DiskType /\ ThreadType /\ MainType /\ PlacesInv /\ ContextInv
  BY TypeParts DEF OwnInv
<1>1. r \in Thread /\ r \notin Worker /\ Runtime[r] \in Seq(Resource) /\ Worker \subseteq Thread
  BY CookerAssumption DEF Thread
<1>2. Running /\ phase' = phase /\ pc[r] # "idle"
  BY DEF Task, StartTask, OpenBin, WriteBin, OpenDep, WriteDep, TearDown, At, MainThread
<1>3. cooking[r] = "counter"
  BY <1>0, <1>2 DEF ContextInv
<1>4. \A w \in Worker : pc'[w] = pc[w] /\ guid'[w] = guid[w] /\ rest'[w] = rest[w]
  <2>1. Proceed(r, Runtime[r]) \/ \E place \in {"write", "openDep", "writeDep", "over", "idle"} : GoTo(r, place)
    BY DEF Task, StartTask, OpenBin, WriteBin, OpenDep, WriteDep, TearDown
  <2>2. CASE Proceed(r, Runtime[r])
    BY <1>1, <2>2, ProceedFacts
  <2>3. CASE \E place \in {"write", "openDep", "writeDep", "over", "idle"} : GoTo(r, place)
    BY <1>0, <1>1, <2>3 DEF GoTo, ThreadType
  <2> QED BY <2>1, <2>2, <2>3
<1>5. UNCHANGED sources /\ failed \subseteq failed'
      /\ \A q \in Resource \ {r} : bin'[q] = bin[q] /\ cooking'[q] = cooking[q] /\ (q \in torn => q \in torn')
  BY <1>0 DEF Task, StartTask, OpenBin, WriteBin, OpenDep, WriteDep, TearDown, MainThread, disk,
     DiskType, MainType
<1>6. ASSUME NEW q \in Resource \ {r} PROVE Ensured(q)'
  <2>1. Ensured(q)
    BY <1>2 DEF EnsuredInv, Running
  <2>2. Current(q)' <=> Current(q)
    BY <1>5 DEF Current, sources
  <2>3. \A w \in Worker : Ahead(w, q)' <=> Ahead(w, q)
    BY <1>4 DEF Ahead
  <2> QED BY <1>5, <2>1, <2>2, <2>3 DEF Ensured
<1>7. Ensured(r)'
  <2>1. CASE TearDown(r)
    <3>1. pc[r] = "over" /\ UNCHANGED disk /\ failed' = failed
      BY <2>1 DEF TearDown, At
    <3>2. r \in failed \cup torn \/ Current(r)
      BY <3>1 DEF FilesInv, FilesOf
    <3>3. (Current(r)' <=> Current(r)) /\ torn' = torn
      BY <3>1 DEF Current, disk, sources
    <3> QED BY <3>1, <3>2, <3>3 DEF Ensured
  <2>2. CASE ~TearDown(r)
    <3>1. cooking' = cooking
      BY <2>2 DEF Task, StartTask, OpenBin, WriteBin, OpenDep, WriteDep
    <3> QED BY <1>3, <3>1 DEF Ensured
  <2> QED BY <2>1, <2>2
<1> QED BY <1>6, <1>7 DEF EnsuredInv

\* No step drops a resource that the run has still to ensure.
LEMMA EnsuredStep == IInv /\ [Next]_vars => EnsuredInv'
<1> SUFFICES ASSUME IInv, [Next]_vars PROVE EnsuredInv'
  OBVIOUS
<1>0. TypeOK /\ OwnInv /\ PlacesInv /\ FilesInv /\ EnsuredInv
  BY DEF IInv, OwnInv
<1>1. CASE \/ \E a \in Raw : EditRaw(a) \/ \E r \in Resource : EditMeta(r, a)
           \/ NewCooker
  BY <1>1 DEF EditRaw, EditMeta, NewCooker, Edited, EnsuredInv
<1>2. CASE AllEnsured \/ WaitForAll \/ Decrement \/ UNCHANGED vars
  <2>1. UNCHANGED disk /\ failed' = failed /\ cooking' = cooking /\ UNCHANGED <<pc, guid, rest>>
        /\ (phase' = phase \/ phase \in {"ensuring", "waiting"})
    BY <1>2 DEF AllEnsured, WaitForAll, Decrement, vars, threads
  <2>2. ASSUME NEW r \in Resource, Ensured(r) PROVE Ensured(r)'
    <3>1. \A w \in Worker : Ahead(w, r)' <=> Ahead(w, r)
      BY <2>1 DEF Ahead
    <3> QED BY <2>1, <2>2, <3>1, EnsuredSame
  <2> QED BY <1>0, <2>1, <2>2 DEF EnsuredInv
<1>3. CASE StartUp
  <2>1. \A w \in Worker : pc'[w] = "batch"
    BY <1>3 DEF StartUp, Thread
  <2>2. \A r \in Resource : \E w \in Worker : Ahead(w, r)'
    BY <2>1, CookerAssumption DEF Ahead, Elems
  <2> QED BY <2>2 DEF EnsuredInv, Ensured
<1>4. CASE Shutdown \/ Die \/ Crash
  BY <1>4 DEF Shutdown, Die, Crash, Gone, EnsuredInv
<1>5. ASSUME NEW w \in Worker, StartBatch(w) PROVE EnsuredInv'
  <2>1. w \in Thread /\ Batch[w] \in Seq(Resource) /\ Proceed(w, Batch[w]) /\ pc[w] = "batch"
        /\ UNCHANGED disk /\ failed' = failed /\ cooking' = cooking /\ phase' = phase
        /\ Worker \subseteq Thread
    BY <1>5, CookerAssumption DEF StartBatch, At, MainThread, Thread
  <2>2. ASSUME NEW r \in Resource, Ensured(r) PROVE Ensured(r)'
    <3>1. \A v \in Worker \ {w} : Ahead(v, r) => Ahead(v, r)'
      <4>1. \A v \in Worker \ {w} : pc'[v] = pc[v] /\ guid'[v] = guid[v] /\ rest'[v] = rest[v]
        BY <1>0, <2>1, ProceedFacts
      <4> QED BY <4>1 DEF Ahead
    <3>2. Ahead(w, r) => Ahead(w, r)'
      <4> SUFFICES ASSUME Ahead(w, r) PROVE Ahead(w, r)'
        OBVIOUS
      <4>0. "batch" \notin Calling
        BY DEF Calling, Adding
      <4>1. r \in Elems(Batch[w])
        BY <2>1, <4>0 DEF Ahead
      <4>2. Batch[w] # <<>>
        BY <4>1 DEF Elems
      <4>3. pc'[w] = "lookup" /\ (r = guid'[w] \/ r \in Elems(rest'[w]))
        BY <1>0, <2>1, <4>1, <4>2, ProceedFacts
      <4> QED BY <4>3 DEF Ahead, Calling
    <3> QED BY <2>1, <2>2, <3>1, <3>2, EnsuredSame
  <2> QED BY <1>0, <2>1, <2>2 DEF EnsuredInv
<1> QED BY <1>0, <1>1, <1>2, <1>3, <1>4, <1>5, EnsuredEnsure, EnsuredTask DEF Next, Main

-----------------------------------------------------------------------------
(* The theorems.                                                           *)

\* The invariant holds when nothing has run.
LEMMA InitInv == Init => IInv
<1> SUFFICES ASSUME Init PROVE IInv
  OBVIOUS
<1>1. TypeOK
  BY TypeInit
<1>2. phase = "off" /\ (\A t \in Thread : pc[t] = "idle") /\ \A r \in Resource : cooking[r] = "none" /\ bin[r] = None
  BY DEF Init, Idle
<1>3. PlacesInv /\ CookedAlone /\ ContextInv
  BY <1>2 DEF PlacesInv, CookedAlone, ContextInv, Calling, Adding, Thread
<1>4. CountInv
  <2>1. Counted = {}
    BY <1>2 DEF Counted, Thread
  <2> QED BY <2>1, FS_EmptySet DEF CountInv, Init
<1>5. FilesInv
  BY <1>2 DEF FilesInv, FilesOf, Asking, Init, Thread
<1>6. EnsuredInv /\ WaitComplete
  BY <1>2 DEF EnsuredInv, WaitComplete
<1> QED BY <1>1, <1>3, <1>4, <1>5, <1>6 DEF IInv

\* The parts of the invariant together are kept by every step of the program,
\* by its death and by what is edited between two runs of it.
THEOREM Invariance == Spec => []IInv
<1>1. IInv /\ [Next]_vars => IInv'
  BY TypeStep, OwnStep, CountStep, FilesStep, EnsuredStep, WaitStep DEF IInv, OwnInv
<1> QED BY <1>1, InitInv, PTL DEF Spec

\* Types; mainCounter is never decremented below zero.
THEOREM TypeCorrect == Spec => []TypeOK
<1>1. IInv => TypeOK
  BY DEF IInv
<1> QED BY <1>1, Invariance, PTL

\* AddCookTask adds a task for a resource only while no other task of it
\* exists, whoever calls EnsureCooked for it and when.
THEOREM OneTask == Spec => []CookedAlone
<1>1. IInv => CookedAlone
  BY DEF IInv
<1> QED BY <1>1, Invariance, PTL

\* WaitForAll returns only when every task, the ones that tasks added too, is
\* over and has decremented mainCounter.
THEOREM WaitsForAll == Spec => []WaitComplete
<1>1. IInv => WaitComplete
  BY DEF IInv
<1> QED BY <1>1, Invariance, PTL

\* Whatever was edited, and wherever earlier runs died, the cooked files of a
\* run that comes to its end are those of today's sources.
THEOREM FreshFiles == Spec => []UpToDate
<1>1. IInv => UpToDate
  <2> SUFFICES ASSUME IInv, phase = "shutdown", NEW r \in Resource \ (failed \cup torn)
               PROVE  Current(r)
    BY DEF UpToDate, Current
  <2>1. cooking[r] = "none" /\ \A w \in Worker : pc[w] = "idle"
    BY DEF IInv, WaitComplete, Thread
  <2>2. \A w \in Worker : ~Ahead(w, r)
    BY <2>1 DEF Ahead, Calling, Adding
  <2> QED BY <2>1, <2>2 DEF IInv, EnsuredInv, Ensured
<1> QED BY <1>1, Invariance, PTL
=============================================================================
