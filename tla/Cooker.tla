------------------------------- MODULE Cooker -------------------------------
(***************************************************************************)
(* The asset cooker (tools/core/src/asset/cooker.cpp, run by               *)
(* tools/compiler/main.cpp): batches of a parallel loop call EnsureCooked  *)
(* for every resource, which adds a task for one that is not up to date.   *)
(* A task imports the asset that the resource's meta file names, calls     *)
(* EnsureCooked for the resources that it refers to, and writes the cooked *)
(* file and a file with its dependencies.  The next run of the program     *)
(* decides from the two files and their times what to cook again.          *)
(*                                                                         *)
(* The disk survives the end of the program, and its death at any point.   *)
(* Sources are edited while the program does not run; every edit has a     *)
(* later time than what was written before.  The project's asset records   *)
(* stay: no resource or raw asset is added or removed.  For a guid without *)
(* a record EnsureCooked returns null before it changes anything, so such  *)
(* references are left out of Runtime.                                     *)
(***************************************************************************)
EXTENDS Integers, Sequences, FiniteSets

CONSTANTS
    Resource, \* assets with a type: they are cooked
    Raw,      \* assets without a type, that importers read
    Worker,   \* the batches of the parallel loop
    Batch,    \* the resources of each batch
    Imports,  \* the raw asset that each resource's meta file names at first
    Runtime,  \* the resources with an asset record that each one refers to
    None,     \* no file
    Empty,    \* a dependency file that is opened and not yet written
    MaxEdits, \* bound: edits of sources and new cookers
    MaxFaults \* bound: deaths of the program and files that cannot be opened

Thread == Worker \cup Resource
Times == 0..MaxEdits

\* A cooked file: when it was written, by which cooker, from what.  Garbage
\* stands for the version in a file that is still empty.
Garbage == -1
Cooked == [time : Times, version : Times \cup {Garbage}, meta : Times, asset : Raw, raw : Times]

\* The parallel loop is over all assets with a type.
ASSUME CookerAssumption ==
    /\ Resource \cap Worker = {} /\ None \notin Cooked
    /\ Batch \in [Worker -> Seq(Resource)] /\ Runtime \in [Resource -> Seq(Resource)]
    /\ \A r \in Resource : \E w \in Worker : \E i \in DOMAIN Batch[w] : Batch[w][i] = r
    /\ Imports \in [Resource -> Raw] /\ MaxEdits \in Nat /\ MaxFaults \in Nat

VARIABLES
    clock,       \* file times
    raw,         \* the time of each raw asset
    meta,        \* the meta file of each resource: time and imported asset
    version,     \* SCooker::Version of the cookers of the program
    bin,         \* the cooked file of each resource
    dep,         \* the dependency file of each resource
    phase,       \* the main thread
    cooking,     \* the map of contexts: none, one without or with a counter
    mainCounter,
    tearing,     \* tasks that are over and have not decremented mainCounter
    pc, guid,    \* where each thread (batch or task) is, and for which resource
    rest,        \* resources it will call EnsureCooked for
    stamp,       \* the time of the cooked file that it has read
    faults,      \* how many there were
    failed,      \* history: resources whose cooking failed in this run
    torn         \* history: resources whose two files are not of one cooking

sources == <<clock, raw, meta, version>>
disk == <<sources, bin, dep, torn>>
threads == <<pc, guid, rest, stamp>>
vars == <<disk, phase, cooking, mainCounter, tearing, threads, faults, failed>>

Nobody == CHOOSE r \in Resource : TRUE
Idle == [t \in Thread |-> "idle"]

Init ==
    /\ clock = 0 /\ version = 0
    /\ raw = [a \in Raw |-> 0] /\ meta = [r \in Resource |-> [time |-> 0, asset |-> Imports[r]]]
    /\ bin = [r \in Resource |-> None] /\ dep = [r \in Resource |-> None]
    /\ phase = "off" /\ cooking = [r \in Resource |-> "none"]
    /\ mainCounter = 0 /\ tearing = 0
    /\ pc = Idle /\ guid = [t \in Thread |-> Nobody]
    /\ rest = [t \in Thread |-> <<>>] /\ stamp = [t \in Thread |-> 0]
    /\ faults = 0 /\ failed = {} /\ torn = {}

-----------------------------------------------------------------------------
(* Between two runs of the program.                                        *)

Edited ==
    /\ phase = "off" /\ clock < MaxEdits /\ clock' = clock + 1
    /\ UNCHANGED <<bin, dep, torn, phase, cooking, mainCounter, tearing, threads, faults, failed>>

EditRaw(a) == Edited /\ raw' = [raw EXCEPT ![a] = clock'] /\ UNCHANGED <<meta, version>>

EditMeta(r, a) ==
    /\ Edited /\ meta' = [meta EXCEPT ![r] = [time |-> clock', asset |-> a]]
    /\ UNCHANGED <<raw, version>>

NewCooker == Edited /\ version' = clock' /\ UNCHANGED <<raw, meta>>

-----------------------------------------------------------------------------
(* The main thread.                                                        *)

\* The call of EnsureCooked that thread t makes next, and where it goes on
\* after the last one.
After(t, queue) == CASE queue # <<>> -> "lookup"
                     [] queue = <<>> /\ t \in Worker -> "idle"
                     [] queue = <<>> /\ t \in Resource -> "open"

NextCall(t, queue) ==
    /\ rest' = [rest EXCEPT ![t] = IF queue = <<>> THEN <<>> ELSE Tail(queue)]
    /\ guid' = [guid EXCEPT ![t] = IF queue = <<>> THEN Nobody ELSE Head(queue)]

Proceed(t, queue) == NextCall(t, queue) /\ pc' = [pc EXCEPT ![t] = After(t, queue)]

StartUp ==
    /\ phase = "off" /\ phase' = "ensuring" /\ failed' = {}
    /\ pc' = [t \in Thread |-> IF t \in Worker THEN "batch" ELSE "idle"]
    /\ UNCHANGED <<disk, cooking, mainCounter, tearing, guid, rest, stamp, faults>>

\* parallel_for returns.
AllEnsured ==
    /\ phase = "ensuring" /\ \A w \in Worker : pc[w] = "idle"
    /\ phase' = "waiting"
    /\ UNCHANGED <<disk, cooking, mainCounter, tearing, threads, faults, failed>>

WaitForAll ==
    /\ phase = "waiting" /\ mainCounter = 0
    /\ phase' = "shutdown"
    /\ UNCHANGED <<disk, cooking, mainCounter, tearing, threads, faults, failed>>

\* What the program knows is gone: it has ended, or died.
Gone ==
    /\ phase' = "off" /\ cooking' = [r \in Resource |-> "none"]
    /\ mainCounter' = 0 /\ tearing' = 0 /\ pc' = Idle
    /\ guid' = [t \in Thread |-> Nobody]
    /\ rest' = [t \in Thread |-> <<>>] /\ stamp' = [t \in Thread |-> 0] /\ failed' = {}
    /\ UNCHANGED disk

Shutdown == phase = "shutdown" /\ Gone /\ UNCHANGED faults

\* The end of a run whose behaviour is undefined.
Crash == phase = "wild" /\ Gone /\ UNCHANGED faults

Fault == faults < MaxFaults /\ faults' = faults + 1

Die == phase \in {"ensuring", "waiting"} /\ Gone /\ Fault

-----------------------------------------------------------------------------
(* EnsureCooked(guid[t]).                                                  *)

Running == phase \in {"ensuring", "waiting"}
At(t, place) == Running /\ pc[t] = place
GoTo(t, place) == pc' = [pc EXCEPT ![t] = place] /\ UNCHANGED <<guid, rest>>
MainThread == <<phase, mainCounter, tearing, faults, failed>>

StartBatch(w) ==
    /\ At(w, "batch") /\ Proceed(w, Batch[w])
    /\ UNCHANGED <<disk, cooking, MainThread, stamp>>

\* if_contains: a context without a counter is as good as none.
Lookup(t) ==
    /\ At(t, "lookup")
    /\ IF cooking[guid[t]] = "counter" THEN Proceed(t, rest[t]) ELSE GoTo(t, "checkBin")
    /\ UNCHANGED <<disk, cooking, MainThread, stamp>>

\* Mutant: a meta file that was edited is not noticed.
BinCurrentIgnoringMeta(r) == bin[r] # None /\ dep[r] # None

\* checkUpToDate, to the test of the meta file's time.
BinCurrent(r) == bin[r] # None /\ dep[r] # None /\ meta[r].time <= bin[r].time

CheckBin(t) ==
    LET r == guid[t] IN
    /\ At(t, "checkBin")
    /\ IF BinCurrent(r) THEN GoTo(t, "checkDeps") /\ stamp' = [stamp EXCEPT ![t] = bin[r].time]
       ELSE GoTo(t, "emplace") /\ UNCHANGED stamp
    /\ UNCHANGED <<disk, cooking, MainThread>>

\* The rest of it: an empty dependency file cannot be parsed, and the version
\* of an empty cooked file is not initialised.
DepsCurrent(r, time) ==
    /\ dep[r] # Empty /\ dep[r] # None
    /\ \A a \in dep[r] : raw[a] <= time

CheckDeps(t) ==
    LET r == guid[t] IN
    /\ At(t, "checkDeps")
    /\ \E read \in IF bin[r].version = Garbage THEN {version, Garbage} ELSE {bin[r].version} :
           IF DepsCurrent(r, stamp[t]) /\ read = version
           THEN Proceed(t, rest[t]) ELSE GoTo(t, "emplace")
    /\ stamp' = [stamp EXCEPT ![t] = 0]
    /\ UNCHANGED <<disk, cooking, MainThread>>

-----------------------------------------------------------------------------
(* AddCookTask(guid[t]).                                                   *)

\* Mutant: a context that is in the map is replaced.
EmplaceAnew(t) ==
    /\ At(t, "emplace") /\ GoTo(t, "publish")
    /\ cooking' = [cooking EXCEPT ![guid[t]] = "null"]
    /\ UNCHANGED <<disk, MainThread, stamp>>

\* lazy_emplace_l.  A context whose counter is not yet set makes the caller go
\* on with an uninitialised jobContext: nothing is said of what follows.
Emplace(t) ==
    LET r == guid[t] IN
    /\ At(t, "emplace") /\ UNCHANGED <<disk, mainCounter, tearing, faults, failed, stamp>>
    /\ \/ /\ cooking[r] = "none" /\ cooking' = [cooking EXCEPT ![r] = "null"]
          /\ GoTo(t, "publish") /\ UNCHANGED phase
       \/ /\ cooking[r] = "counter" /\ Proceed(t, rest[t])
          /\ UNCHANGED <<cooking, phase>>
       \/ /\ cooking[r] = "null" /\ phase' = "wild"
          /\ UNCHANGED <<cooking, pc, guid, rest>>

Publish(t) ==
    /\ At(t, "publish") /\ GoTo(t, "schedule")
    /\ cooking' = [cooking EXCEPT ![guid[t]] = "counter"]
    /\ UNCHANGED <<disk, MainThread, stamp>>

\* Mutant: the task is added and mainCounter is never incremented.
CountNoTask(t) ==
    /\ At(t, "schedule") /\ GoTo(t, "addTask")
    /\ UNCHANGED <<disk, cooking, MainThread, stamp>>

\* mainCounter is incremented before the task can run.
CountTask(t) ==
    /\ At(t, "schedule") /\ GoTo(t, "addTask") /\ mainCounter' = mainCounter + 1
    /\ UNCHANGED <<disk, cooking, phase, tearing, faults, failed, stamp>>

\* The caller goes on with its next call while the task waits for a fiber.
AddTask(t) ==
    /\ At(t, "addTask") /\ NextCall(t, rest[t])
    /\ pc' = [pc EXCEPT ![t] = After(t, rest[t]), ![guid[t]] = "queued"]
    /\ UNCHANGED <<disk, cooking, MainThread, stamp>>

-----------------------------------------------------------------------------
(* The task of resource r.                                                 *)

\* _Import: the asset that the importer of the meta file names.
Imported(r) == meta[r].asset

\* The asset is imported and EnsureCooked is called for what it refers to.
StartTask(r) ==
    /\ At(r, "queued") /\ Proceed(r, Runtime[r])
    /\ UNCHANGED <<disk, cooking, MainThread, stamp>>

\* fopen(output, "wb") fails, and the task is over; or it empties the file.
OpenBin(r) ==
    /\ At(r, "open") /\ UNCHANGED <<sources, dep, cooking, phase, mainCounter, tearing, stamp>>
    /\ \/ Fault /\ GoTo(r, "over") /\ failed' = failed \cup {r} /\ UNCHANGED <<bin, torn>>
       \/ /\ GoTo(r, "write") /\ torn' = torn \cup {r} /\ UNCHANGED <<faults, failed>>
          /\ bin' = [bin EXCEPT ![r] = [time |-> clock, version |-> Garbage,
                                        meta |-> 0, asset |-> Imported(r), raw |-> 0]]

WriteBin(r) ==
    /\ At(r, "write") /\ GoTo(r, "openDep")
    /\ LET a == Imported(r) IN
       bin' = [bin EXCEPT ![r] = [time |-> clock, version |-> version,
                                  meta |-> meta[r].time, asset |-> a, raw |-> raw[a]]]
    /\ UNCHANGED <<sources, dep, torn, cooking, MainThread, stamp>>

OpenDep(r) ==
    /\ At(r, "openDep")
    /\ UNCHANGED <<sources, bin, torn, cooking, phase, mainCounter, tearing, stamp>>
    /\ \/ Fault /\ GoTo(r, "over") /\ failed' = failed \cup {r} /\ UNCHANGED dep
       \/ GoTo(r, "writeDep") /\ dep' = [dep EXCEPT ![r] = Empty] /\ UNCHANGED <<faults, failed>>

WriteDep(r) ==
    /\ At(r, "writeDep") /\ GoTo(r, "over")
    /\ dep' = [dep EXCEPT ![r] = {Imported(r)}] /\ torn' = torn \ {r}
    /\ UNCHANGED <<sources, bin, cooking, MainThread, stamp>>

\* TearDown erases and deletes the context ...
TearDown(r) ==
    /\ At(r, "over") /\ GoTo(r, "idle")
    /\ cooking' = [cooking EXCEPT ![r] = "none"] /\ tearing' = tearing + 1
    /\ UNCHANGED <<disk, phase, mainCounter, faults, failed, stamp>>

\* Mutant: the task decrements mainCounter too.
DecrementTwice ==
    /\ Running /\ tearing > 0
    /\ tearing' = tearing - 1 /\ mainCounter' = mainCounter - 2
    /\ UNCHANGED <<disk, phase, cooking, threads, faults, failed>>

\* Mutant: a task whose cooking failed is not counted down.
DecrementOnSuccess ==
    /\ Running /\ tearing > 0
    /\ tearing' = tearing - 1 /\ mainCounter' = IF failed = {} THEN mainCounter - 1 ELSE mainCounter
    /\ UNCHANGED <<disk, phase, cooking, threads, faults, failed>>

\* ... and decrements mainCounter.
Decrement ==
    /\ Running /\ tearing > 0
    /\ tearing' = tearing - 1 /\ mainCounter' = mainCounter - 1
    /\ UNCHANGED <<disk, phase, cooking, threads, faults, failed>>

-----------------------------------------------------------------------------
Ensure(t) ==
    \/ Lookup(t) \/ CheckBin(t) \/ CheckDeps(t)
    \/ Emplace(t) \/ Publish(t) \/ CountTask(t) \/ AddTask(t)

Task(r) ==
    \/ StartTask(r) \/ OpenBin(r) \/ WriteBin(r) \/ OpenDep(r) \/ WriteDep(r)
    \/ TearDown(r)

Main == AllEnsured \/ WaitForAll \/ Shutdown

Next ==
    \/ \E a \in Raw : EditRaw(a) \/ \E r \in Resource : EditMeta(r, a)
    \/ NewCooker \/ StartUp \/ Main \/ Die \/ Crash
    \/ \E w \in Worker : StartBatch(w)
    \/ \E t \in Thread : Ensure(t)
    \/ \E r \in Resource : Task(r)
    \/ Decrement

\* The scheduler runs every fiber that can go on, and the main thread goes on
\* when what it waits for has happened.  Nobody need edit a source, start the
\* program or kill it.
Fairness ==
    /\ WF_vars(Main) /\ WF_vars(Decrement)
    /\ \A w \in Worker : WF_vars(StartBatch(w))
    /\ \A t \in Thread : WF_vars(Ensure(t))
    /\ \A r \in Resource : WF_vars(Task(r))

Spec == Init /\ [][Next]_vars /\ Fairness

-----------------------------------------------------------------------------
(* Properties.                                                             *)

\* Types; mainCounter, an unsigned number, is never decremented at zero.
TypeOK ==
    /\ clock \in Times /\ version \in Times /\ raw \in [Raw -> Times]
    /\ meta \in [Resource -> [time : Times, asset : Raw]]
    /\ bin \in [Resource -> Cooked \cup {None}]
    /\ dep \in [Resource -> (SUBSET Raw) \cup {Empty, None}]
    /\ phase \in {"off", "ensuring", "waiting", "shutdown", "wild"}
    /\ cooking \in [Resource -> {"none", "null", "counter"}]
    /\ tearing \in Nat /\ mainCounter \in Nat
    /\ pc \in [Thread -> {"idle", "batch", "lookup", "checkBin", "checkDeps", "emplace",
                          "publish", "schedule", "addTask", "queued", "open", "write",
                          "openDep", "writeDep", "over"}]
    /\ guid \in [Thread -> Resource \cup {Nobody}] /\ rest \in [Thread -> Seq(Resource)]
    /\ stamp \in [Thread -> Times] /\ faults \in 0..MaxFaults
    /\ failed \subseteq Resource /\ torn \subseteq Resource

\* When WaitForAll has returned, and Shutdown deletes the scheduler and the
\* counter, no thread is inside EnsureCooked or a task, no context is left in
\* the map and no TearDown still has mainCounter to decrement: tasks are added
\* by tasks, and mainCounter never reaches zero in between.
WaitComplete ==
    phase = "shutdown" =>
        /\ \A t \in Thread : pc[t] = "idle"
        /\ \A r \in Resource : cooking[r] = "none"
        /\ tearing = 0

\* A task is never added for a resource while another task of it writes the
\* same two files: a context is erased only when its task is over, and the
\* thread that inserted it is the only one to add a task.
CookedAlone ==
    \A t \in Thread : pc[t] \in {"publish", "schedule", "addTask"} =>
        /\ pc[guid[t]] = "idle"
        /\ \A u \in Thread \ {t} :
               pc[u] \in {"publish", "schedule", "addTask"} => guid[u] # guid[t]

\* When WaitForAll has returned, every resource has a cooked file made from
\* the meta file, the asset and by the cooker of today, whatever was edited
\* since it was last cooked and wherever earlier runs of the program died:
\* except where writing failed in this run, and where an earlier run ended
\* between writing the two files of the resource.
UpToDate ==
    phase = "shutdown" =>
        \A r \in Resource \ (failed \cup torn) :
            LET a == meta[r].asset IN
            bin[r] # None /\ bin[r] = [time |-> bin[r].time, version |-> version,
                                       meta |-> meta[r].time, asset |-> a, raw |-> raw[a]]

\* A run of the program that does not meet an undefined context comes to its
\* Shutdown (or dies): no fiber waits for another one for ever, and every task
\* that was counted is counted down, on the paths where writing fails too.
RunEnds == phase = "ensuring" ~> phase \in {"shutdown", "off", "wild"}
=============================================================================
