# A TLA+ verification of Sakura.Runtime

Sakura.Runtime is the runtime of a game engine: a job-based entity component
system ("dual"), a graphics layer (cgpu) with a render graph, resource loading,
an asynchronous I/O service, a module system and the tools that cook assets.
This directory models its stateful core in TLA+, checks the models with TLC and
proves the most important results with TLAPS.

Run a check with `tlc -config <run>.cfg <MC module>` and a proof with
`tlapm <module>_proofs.tla`. `PROJECT.json` lists the runs, the lines of code
each definition models, the hazards of the code and the theorems.

## 1. Inventory of the system

For each component: its state, its operations, who it interacts with, what is
hard about it, and what makes it correct.

### RAM I/O service (`src/utils/io.cpp`, `include/utils/io.h`, `io.hpp`)
*State*: a deque of tasks, a lockless queue of new tasks, two atomics
(`_running_status`, `_thread_status`), the sleep time; in every request object an
atomic status, an atomic `request_cancel`, and a buffer.
*Operations*: `request`, `try_cancel`, `defer_cancel`, `drain`, `set_sleep_time`,
`stop`, `run`, `destroy`; a service thread that dequeues, cancels, sorts, loads
and sleeps.
*Interactions*: any thread submits; the cooker and the resource system poll the
status; the VFS reads files.
*Hard*: everything is shared between threads; sleeping and waking; cancelling
what is about to be loaded; shutting down.
*Correct when*: a task is handed on exactly once, every request ends in exactly
one callback, a terminal status is final, urgent tasks come first, requests are
served, `drain` and `destroy` return.

### Module manager (`src/module/module_manager.cpp`)
*State*: registered constructors, spawned modules, the dependency graph with an
"active" flag per vertex, its roots, the main module.
*Operations*: `registerStaticallyLinkedModule`, `make_module_graph`,
`patch_module_graph`, `init_module_graph`, `destroy_module_graph`.
*Interactions*: calls `on_load`, `on_unload`, `main_module_exec` of modules;
loads shared libraries.
*Hard*: long sequences of calls (patching a loaded graph, loading again after a
destroy), recursion over arbitrary metadata.
*Correct when*: a module is active only while its dependencies are, destroy
unloads everything, every call returns.

### ECS: entity registry, storage, groups, chunks (`src/ecs`)
*State*: the entity table with versions and a free list; groups of entities with
the same components, each a list of chunks with the full ones in front.
*Operations*: allocate, instantiate, destroy, cast, merge, defragment,
pack_entities, serialize, queries over all groups.
*Interactions*: the scheduler must have finished the jobs that use a chunk before
it changes; callbacks of the user run between the steps of an allocation.
*Hard*: intrusive lists, handles that outlive their entity, free-list reuse,
counters that must agree with each other after long sequences of calls.
*Correct when*: a handle that exists leads to the slot that holds it, no id is
live twice, chunk lists are intact, no free slot is lost.

### ECS job scheduler (`src/ecs/scheduler.cpp`)
*State*: for every archetype and component the running readers and the last
writers; per-job counters; a mutex.
*Operations*: schedule a job for a query, sync an archetype, an entry or a storage.
*Hard*: conflicting accesses must be ordered while non-conflicting ones overlap;
a lock is left locked on an early return.
*Correct when*: two jobs that conflict never run at once, a sync waits for all of
them, everything scheduled runs.

### Resource system (`src/resource`)
*State*: a record per resource with status and reference counts, requests with a
phase, the I/O requests in flight, dependencies between resources.
*Operations*: load, unload, flush, the update loop, completion of registry and
file requests.
*Hard*: a resource is unloaded while it is being loaded; dependencies; requests
that wait for others; stale callbacks.

### Render graph (`src/gpu/render_graph`) and cgpu (`src/gpu/cgpu`)
*State*: passes and resources as a graph; pools of textures, buffers and
descriptor sets with the frame that last used them; queues, fences, swapchains;
a pool of shared root signatures with reference counts.
*Hard*: reuse of a pooled object while the GPU may still use it, culling of passes,
resource states at barriers, release while shared.

### Platform, wasm host, type registry, JSON, log, imgui, dependency graph
Thin and mostly sequential. The dependency graph (`src/utils/dependency_graph.cpp`)
holds vertex numbers that shift when a vertex is removed.

### Asset tools (`tools/core`)
The cooker decides from the times of files which resources to cook, cooks them in
tasks on fibers, starts the cooking of what a resource refers to without waiting
for it, and writes a cooked file and a dependency file for each. State: the map of
contexts `cooking`, `mainCounter`, the registry of assets, and the files, which
survive the process. Hard: callers of `EnsureCooked` race for one resource, tasks
add tasks while the main thread waits, the program may die between two files.

## 2. Plan

The order is that of importance and of use by other parts.

| # | module | content | abstract specification | proofs |
|---|---|---|---|---|
| 1 | `RamIOService` | the I/O service, all operations | `AsyncIO`, the owner's view | safety, loading order, refinement (done) |
| 2 | `ModuleManager` | the module graph | - | dependency order, the graph, one load, nothing left loaded (done) |
| 3a | `EntityRegistry`, `EntityHandles` | ids, versions, free list | - | ids in use once, old handles recognised (done) |
| 3b | `ChunkStorage` over `EntityRegistry` | groups, chunk lists, the steps of allocate, instantiate, reload, destroy, cast | - | lists, counts, handle resolution, visits, for `Spec` (done) |
| 4 | `RenderGraph`, `RenderGraphBackend` | setup, culling, aliasing; pooled objects and frames in flight | - | ownership of objects, their states, frames in flight (done) |
| 5 | `RootSigPool`, `EcsPools` | reference counting, block pools | a multiset of owners | counts equal owners |
| 6 | `Cooker` | the asset compiler, its tasks and its files across runs and deaths | - | one task per resource, waiting, files up to date (done) |
| 7 | `DependencyGraph`, `TypeSets` | pure algorithms against reference definitions | - | lemmas on operators |

The job scheduler and the resource system were read for a model and left out:
section 9 says why.

## 3. The RAM I/O service

### `RamIOService`
Three kinds of threads: the service thread (`pc`, one value per place in
`ioThreadTask` and `ioThreadTask_execute`), one owner thread per request object
(`cpc`), and one controlling thread (`ctl`). The threads share exactly the
variables the code shares.

| state | code |
|---|---|
| `tasks`, `task_requests` | the deque and the lockless queue |
| `running`, `thread` | `_running_status`, `_thread_status` |
| `sleepTime`, `sleepVal` | `_sleepTime` and the value read from it |
| `status`, `request_cancel`, `loaded` | the request object and its buffer |
| `current`, `notifying` | the popped task, the task whose callback is next |
| `prio`, `ticket` | the task's priority and the order of submission (history) |
| `round`, `ends`, `cancelled`, `drainSet` | history: submissions, callbacks, results |

Each step is one atomic access or one critical section: `taskMutex` is held from
`DequeueRequests` to `FetchNothing` or `FetchTask`, and an owner's critical
section is one action that needs the mutex free. In lockless mode there is no
mutex, `request()` is four steps, and the task is visible after the first.
`setTaskStatus` stores the status and then runs the callback, so these are two
steps of the service thread; `doCancel` runs both under the mutex, in one step.
Reading `_thread_status` twice at the top of the loop is one step: a change
between the reads leads to a state the single read reaches as well.

The lockless queue is external: `try_dequeue` may deliver tasks of different
producers in any order. A wait on a condition variable may end spuriously.

Abstractions: priorities are ranks (the pair priority, sub_priority is compared
lexicographically); a load always succeeds; the callbacks of the non-terminal
states are left out; atomics are accessed in program order, as on x86-64; with
sleep mode `SLEEP` a `MAX` sleep never ends (it is 49 days); owners do not submit
an object that is in flight, and nobody is inside a call when `destroy` is called.

### `AsyncIO`
The owner's view: a request is idle, pending, loading, ready or cancelled; one
request is loading at a time; what is loading is no longer cancelled.
`RamIOService` maps its state to it with `Phase`.

### Properties
* `SingleOwner`, `CallbackPerRequest`, `ResultSettled`, `TrueMeansCancelled`,
  `StatusAccurate`: safety, see the comments in the module.
* `NoOvertaking`: the order of loading. Partial sorting orders half of the deque,
  and the popped task is still the most urgent.
* `OwnedAndSettled`: the first three together, for the lockless service.
* `ImplementsAsyncIO`: refinement.
* `ServedWhileRunning`, `DrainReturns`, `DestroyCompletes`: liveness.

### Runs
| run | result | shows |
|---|---|---|
| `io_locked` | holds | the locked service, two objects submitted twice, all control calls: safety, first come first served, the contract `AsyncIO` |
| `io_lockless` | holds | the lockless service: safety, and the loading order of two priorities under partial sorting |
| `io_liveness` | holds | service, drain and destroy with finite sleeps |
| `io_drain` | violated | `drain()` returns before requests submitted earlier are finished |

The last one is a disagreement of the code with its comments; the `findings` of
`PROJECT.json` quote the lines. The model shows four more, which have no run of
their own. With an infinite sleep, which the test sets, a request pushed between
the check for tasks and the wait is not served (`io_liveness` with
`SleepTimes = {"MAX"}` and `ServedWhileRunning`), and `destroy()` joins a thread that
sleeps forever (the same with `DestroyCompletes`). A late `ENQUEUED` of the lockless
`request()` overwrites `OK`, and the owner polls forever (`ServedWhileRunning`
in lockless mode). `try_cancel` returns false for a request it has cancelled when
another task is behind it in the deque.

*Bounds.* Two objects are needed for races between tasks (cancelling one while
the other is loaded, `doCancel` with a task behind) and for the order of loading,
two rounds for stale effects of the first submission on the second. `MaxRounds`
bounds submissions. The proofs have none of these bounds.

*Fairness.* Weak fairness of the service thread, of every thread inside a call it
has made, and of the end of a finite sleep: the operating system schedules all
threads. Nothing is assumed of callers: they may never submit, cancel or collect.

### Proofs (`RamIOService_proofs`, `NoRepeatSeqs`)
Assumption: `ConstAssumption`, which only gives the constants their types.
The safety properties are not inductive. `IInv` adds three parts. `ServiceInv`:
a callback is due exactly in the two notification steps. `ModeInv`: what states
the other mode has are unreachable. `ObjectInv`: a buffer is filled only by the
last step of a load, and once ENQUEUED is stored a terminal status means the
service is done with the object. The last one is needed because `ResultSettled`
speaks of owners that wait, while the service stores the status when the owner
may be anywhere in `request()`. There is one lemma per action that moves a
request; all other actions are instances of `QuietStep`. `NoRepeatSeqs` holds the
facts on sequences without repetition under append, removal and permutation.
Theorems: `TypeCorrect`, `Ownership`, `OneCallback`, `Settled`, `CancelTrue`,
`Accurate`, and `Refinement` (`~Lockless => (Spec => ImplementsAsyncIO)`), for
any set of requests, any sort method and any number of rounds.
In lockless mode the refinement does not hold: `ENQUEUED` may follow `OK`.
`OwnedSettled` is the conjunction that `io_lockless` checks.

`NothingOvertakes` (`Spec => NoOvertaking`) needs a second invariant, `QueueInv`:
the deque of a locked service holds the tasks that sorting may not reorder (all
of them without sorting, those of one priority with a stable sort) in the order
of their `request()` calls. Removal of a cancelled or fetched task, a stable sort
and a push each give a selection, a permutation or an extension of the deque that
keeps this order, which are the lemmas `OrderedErased`, `OrderedFetch`,
`OrderedPush`. With partial sorting the theorem needs only that the popped
task is a most urgent one.

## 4. The module manager

### `ModuleManager`
The three recursive functions are a stack machine: `stack` holds a frame for
each active call with its position in the loop, `call` says which function runs.
Every step is one loop round or one return, so the properties hold also at each
moment `on_load` and `on_unload` run. `deps` is the metadata, chosen at the
start and constant: every assignment of lists from `DepLists`, cyclic ones too.

| state | code |
|---|---|
| `initializeMap`, `modulesMap`, `nodeMap`, `roots`, `mainModuleName` | members of that name |
| `vertices`, `in_edges` | the ModuleProperty and the incoming edges of each vertex of `moduleDependecyGraph` |
| `call`, `entry`, `stack`, `rootAt` | the running call |

`nullptr`, `abort` and `overflow` are the states in which the process has died: a
module that cannot be spawned is used at once, `parseMetaData` aborts on metadata
without a list of dependencies (which may happen to any module, once, when it is
spawned), and cyclic metadata recurses without end. The other fields of the
metadata are taken as present: the code reads them without a test.
`StackDepth` is the number of frames that fit. Loading shared libraries is the
constant `Loadable`. `init_module_graph` is called only after a
`make_module_graph`, as all callers do.

### Properties and runs
`modules` checks `GraphComplete`, `DependenciesActive`,
`LoadedOnce`, `AllUnloaded` and `CallsReturn` for all 1000 metadata assignments over three
modules with lists of up to two dependencies, one static and two dynamic modules.
Three modules give chains, diamonds' shared vertices, several roots and cycles of
every length; a stack of three frames suffices for every acyclic graph, so
`overflow` is reached by cycles only. `CallsReturn` is checked under weak fairness
of the thread that runs the call (a sequential program goes on).

### Proofs (`ModuleManager_proofs`)
Assumption: `ManagerAssumption`, types of the constants. `IInv` adds to the
checked invariants: `CountInv` (`nodeMap.size()` is the number of vertices,
needed for `NewVertex`), `EdgesInv` (an edge is in the graph or is due to a frame
of the stack), `LoadInv` and `UnloadInv` (what a frame has gone through is active,
or inactive, but for the one module its callee works on). `DependenciesActive` is
preserved by `on_load` because of `LoadInv`, by `on_unload` because of
`UnloadInv` and `EdgesInv`. Theorems: `TypeCorrect`, `Names`, `DependencyOrder`,
for any modules and any metadata, cyclic included.

A second invariant, `OrderInv`, is proved on top of the first (theorem `Order`):
`SoundInv` (edges are for dependencies only, the roots are the vertices without
dependencies), `RankInv` (the active modules can be numbered so that dependencies
have lower numbers), `ChainInv` (the modules of a loading stack are inactive and
each depends on the next, those of an unloading stack are active and each is a
dependent of the one below), `RootsInv` (the roots that `destroy_module_graph` has
gone through are inactive). `RankInv` is what cyclic metadata needs: a module of a
cycle is never active, as its loading recurses first. No module is twice
in a stack that loads or unloads its top: further down it would have an inactive
dependency, and ranks rise strictly along an unloading stack. When all roots are
inactive, an active module of least rank would have an active dependency of lower
rank, or be a root. Theorems:
`GraphIsMetadata` (`GraphComplete`), `NoSecondLoad` (`LoadedOnce`),
`NothingLeftLoaded` (`AllUnloaded`).

## 5. The entity registry

### `EntityRegistry`, `EntityHandles`
`EntityRegistry` has the operators on the registry's two vectors, which the model
of the storage (section 6) shares; `EntityHandles` is their use by an owner that
takes handles and gives them back, as the job scheduler does for its resources.

| state | code |
|---|---|
| `entries`, `freeEntries` | members of that name |
| `live` | the handles their owners use |
| `age` | history: how often the id of a handle was freed since it was made |

An action is a whole batch, `new_entities(dst, count)` or
`free_entities(dst, count)`; the loops are functions of the batch. A handle is a
record of id and version in place of the packed 32 bits; ids start at 1. Owners
free what they use, once, and calls are not concurrent (the scheduler takes no
lock here; that is listed as a hazard). The 24-bit limit on ids is `MaxEntries`.

`entity_handles` checks `IdsPartitioned` and `StaleDetected` with batches of up
to three, four ids and three versions. Batches larger than the free list mix
recycled and new ids in one call; three versions wrap within the run, as 255 do
in the code. `age` is capped at `TransientVersion`, after which nothing is claimed:
the bits of the version repeat, and the code cannot tell the handles apart.

### Proofs (`EntityHandles_proofs`)
Assumptions: `RegistryAssumption` and `HandlesAssumption`, types of the
constants. `StaleDetected` speaks of freed handles only and is not inductive;
`AgeInv` relates the version of each entry to the version of every handle ever
made for it and the frees since, modulo `TransientVersion`, and says that the
handles of age 0 are those in use. `IdsPartitioned` makes the ids of a batch
distinct, so that a free ages a handle by one. Theorems: `TypeCorrect`,
`Partition`, `Stale`, for any number of versions, ids and any batches.

## 6. The ECS storage

### `ChunkStorage`
The intrusive chunk lists of the groups, the registry and the calls of the
storage. The memory is one record, `mem`, of chunks and groups, and each function
of `dual_group_t` is an operator from memory to memory (`AddChunk`, `RemoveChunk`,
`MarkFree`, `MarkFull`, `ResizeChunk`), with the assignments in the order of the
code: pointers are read where the code reads them.

| state | code |
|---|---|
| `entries`, `freeEntries` | `entity_registry_t` |
| `mem.groups` | `firstChunk`, `lastChunk`, `firstFree`, `chunkCount`, `size` of each group |
| `mem.chunks` | `next`, `prev`, `group`, `pt` and the entities of each chunk |
| `job` | the rest of the call that is running |
| `live` | history: the entities that are alive |

A call that fills several chunks runs the program's callback after each, so each
chunk is a step and the properties hold where callbacks run. Component data moves
with the handle in the slot and is left out. Groups have no tracked components
(`dead` is null, `cloned` is the group). A reload is `serialize` followed by
`deserialize` into an empty storage; until it ends the entities that are not read
yet are not claimed to be anywhere.

There are two specifications. `Spec` has the calls that take out whole groups
(`destroy` by filter, `reset`) and casts whole chunks that have room. `SpecAll`
adds `destroy` and `cast` of views, and casts full chunks. Those three operations
are modelled as they are, and break the structure: see `ecs_removal`, and the
hazards of `add_chunk` and `free`.

`ecs_storage` (`Spec`) checks `ListIntact`, `GroupCounts`, `EntityViewRight` and
`VisitedOnce` with two groups of one archetype, five chunks, batches of three and
five entries. Small and default chunks hold two entities, large ones four, and
only the first chunk of a group may be small, so that one call fills several
chunks, lists have full and free chunks, and all three pool types occur. Chunks
are symmetric: no operator orders them.
`ecs_removal` (`SpecAll`) violates `EntityViewRight`: `free()` leaves the count of
the chunk, the dead slot is destroyed a second time, and that frees the id of an
entity that is alive in another group.

### Proofs (`ChunkLists_proofs`, `ChunkStorage_proofs`)
Assumptions: `RegistryAssumption` and `StorageAssumption`: finitely many chunks and
groups, and what the sizes of the bins (1 KB, 64 KB, 1 MB) give for entities that
fit in a default one: a small chunk holds no more than a default one and perhaps
nothing, a large one more than `LargeFactor` default ones. Without the last a
view that must not be split could get a chunk that is too small. The numbers of
groups, chunks, entities and batches are arbitrary.

`ChunkLists_proofs` shows each operator of `dual_group_t` on a list that is given
as a sequence: `IsList(m, g, s)` says that `s` is linked both ways, runs from
`firstChunk` to `lastChunk`, has room from `firstFree` on, and is made of the chunks
that name `g`. Between the write of the count and `mark_free` or `mark_full` one
chunk breaks the claim about room; `IsListBut` excepts it. The walks of the code
(`ChunksOf`, `StrictFit`) are recursive functions; the proofs give the function in
closed form, or take the least place where it differs, so that no induction
principle is instantiated. The same is done for the batches of a reload
(`FlattenFacts`).

The inductive invariant `IInv` of `ChunkStorage_proofs` is a predicate of the state:
* `MemInv`: every group has a list; a chunk is blank or in use, then its count is
  between one and its capacity, and a large chunk has more entities than
  `LargeFactor` default ones hold; the two counters are cardinalities; the entry of
  the entity in a slot leads back to the slot, with its version;
* `LiveInv`: the living are those in slots and, during a load, those still to be
  placed;
* `JobInv`: what each kind of call may have left. The batches of a load fit in some
  chunk; this and the claim on large chunks make the chunk that `new_chunk` picks for
  a strict view large enough;
* `Distinct`, `Unplaced`: the handles still to be placed are different, have entries
  and no slot, and those of a prefab have the version of their entry;
* `RegistryInv`: the calls of `Spec` free no id, as `clear()` drops them.

None of the checked properties is inductive alone: `EntityViewRight` needs
`Distinct` and `Unplaced` across the callbacks between two chunks, and a reload needs
that a walk meets every chunk once. Each call is a lemma (`StartFresh`,
`StartPrefab`, `StartLoad`, `DestroyStep`, `CastStep`), as is filling a view with new
or given handles (`FillFresh`, `FillGiven`). Theorems: `TypeCorrect`, `ListsIntact`
(`ListIntact`), `CountsRight` (`GroupCounts`), `ViewsRight` (`EntityViewRight`),
`AllVisitedOnce` (`VisitedOnce`). They are about `Spec`; for `SpecAll` they are false.

## 7. The render graph

### `RenderGraph`, `RenderGraphBackend`
`RenderGraph` is the front end: the program declares resources and passes, and
`compile()` culls and decides which textures share memory, one texture a step.
`RenderGraphBackend` extends it with `execute()`: one step for each edge that is
resolved and for each edge that is deallocated, in any order within a pass, a
step for the recording of a pass, the submission, the garbage collector, and the
GPU, which executes submitted frames in order and any number of frames late.

| state | code |
|---|---|
| `resources`, `passes`, `aliasing_enabled`, `frame_index` | members of that name |
| `source`, `aliasing`, `frame_res`, `init_state` | `frame_aliasing_source`, `frame_aliasing`, `frame_texture` or `frame_buffer`, `init_state` of each node |
| `spans` | `alliasing_lifespans` of `compile()`; only `to` is read. It is walked in the order of addresses, which the model leaves open for each texture (`HeldInSomeOrder`); `resources` is walked in order |
| `pool`, `views` | texture and buffer pool, by descriptor; the textures in the view pool |
| `aliasing_textures`, `fence` | of each executor |
| `phase`, `at`, `todo` | the place in `compile()` or `execute()` |
| `layout`, `memory`, `uses`, `live`, `done` | the GPU: state and memory of objects, what frames use, what exists, how far it is |

Abstractions: a pass is linked to a resource once; render targets and depth
buffers have one state (`DEPTH_WRITE` is `RENDER_TARGET`); a descriptor is a
pool key. The binding of shared memory may fail for any texture, as the device
decides; then the pool is asked. Programs collect garbage as
`samples/rg-deferred` does, or not at all, and destroy the graph when the queue is
idle. `Destroy` is one step: `finalize` frees the views after their textures, but
it is one call of the thread that records, and nothing looks up a view before it
returns. `Disciplined` is a condition on frames: a resource is not written after its
last reader, and one that nobody reads has one writer. `deallocate_resources`
counts readers only and needs it; every sample satisfies it. It is a guard of
`Compile`, and its failure is listed as a hazard.

| run | result | shows |
|---|---|---|
| `rg_frames` | holds | three frames, two in flight: ownership of pooled objects, states across frames, nothing freed in flight, no leak |
| `rg_compile` | holds | one frame of three resources, two sizes, buffers and a back buffer: states within a frame, sources of shared memory |
| `rg_aliasing` | violated | textures that are in use together share memory |

*Bounds.* With two executors, three frames reuse the first executor and let
`collect_garbage` free an object of frame 0 while frame 1 may be in flight; two
resources and two passes give reuse within a frame and sharing. Four GPU objects
are enough for all frames: a resource takes one object, and aliasing textures go
when their executor returns. `rg_compile` has one frame and three resources, as
sharing through the chain needs a source and two others. `AliasSourceReady` and
`BarrierSources` also hold with three passes, one size and the same imports
(`MaxPasses = 3`, `Descs <- TextureDescs`; 2.4 million states). `PhysSymmetry` is
sound: GPU objects are only compared. Deadlock is not checked: a program may stop
after `destroy`, and stops at `MaxFrames`.

`BarrierSources` and `PoolExclusive` talk of passes that are still to come, so
they say that `get_lastest_state`, computed from the edges, is the state that the
commands recorded so far, by this frame and earlier ones, leave behind.

### Proofs (`RenderGraphBackend_proofs`)
Assumptions: `RenderGraphAssumption` (types; pooled and imported objects differ)
and `BackendAssumption` (at least one executor). The bounds of the model are
arbitrary numbers in the proofs. The invariant:
* `GraphInv`: what the builders and `compile()` leave, above all that every user
  of a texture comes after some user of its `frame_aliasing_source`;
* `PlaceInv`, `FrameInv`: a node has an object from the first barrier of the frame on;
* `OwnerInv`: every live object has exactly one owner, a pool, an executor's
  `aliasing_textures` or a node with passes to come, and no two nodes own one object;
* `FenceInv`: an executor's fence belongs to its latest frame, so the GPU is at most
  one frame per executor behind;
* `UseInv`: what a frame in flight uses, and the memory behind it, is alive; in a
  pool it carries that frame's index or a later one; as an aliasing texture it
  belongs to the executor of that frame;
* `StateInv`: an object in a pool is in the state its element records, and a node's
  object in the state requested by its latest pass, or its `init_state`.

`InFlightIntact` needs the last but one: an expired element has an index that is
smaller than that of any frame in flight, and an executor frees its textures
after its own fence. `BarrierSources` needs `OwnerInv` as well, as a barrier on one
node must not change the state another one counts on. The step of each action is a
lemma; all actions that resolve an edge share `BarrierInv`. Theorems: `TypeCorrect`,
`ExclusiveObjects` (`PoolExclusive`), `BarriersRight` (`BarrierSources`), `InFlightKept`
(`InFlightIntact`), `IdleExecutor` (`ExecutorIdle`), `NothingLeaks` (`NoLeak`),
`LiveViews` (`ViewsLive`), `SourcesReady` (`AliasSourceReady`).

## 8. The cooker

### `Cooker`
Runs of the asset compiler one after the other over one disk. A thread is a batch
of the parallel loop of `main`, or the task of a resource; both call
`EnsureCooked`, a step for each access to shared state: the lookup in the map, the
test of the cooked file, the test of the dependencies, the insertion of a context,
the store of its counter, the increment of `mainCounter`, `AddTask`. Each of the
two files is emptied by one step and written by the next.

| state | code |
|---|---|
| `cooking` | the map of that name: no context, one whose `counter` is null, one with a counter |
| `mainCounter`, `tearing` | the counter, and the tasks that have still to decrement it |
| `pc`, `guid`, `rest`, `stamp` | each thread's place, the resource of its call, the calls that follow, `timestamp` |
| `raw`, `meta`, `version` | times of raw assets, times and contents of meta files, `Version()` |
| `bin`, `dep` | the two files; `bin` records what it was made from |
| `failed`, `torn`, `faults` | history |

`Die` ends the program at any step and leaves the disk as it is. Sources change
while the program is off, each edit at a later time than all files: a source that
is edited during cooking is outside the model. No asset record comes or goes: a
reference to a guid without a record is left out of `Runtime`, as `EnsureCooked`
returns null for it and changes nothing (`cooker.cpp` 187-192). When a caller finds a context
without a counter, `AddCookTask` uses an uninitialised pointer: the phase `wild`,
from which the model only allows the end of the process. TLC reaches it with a
batch and a task that call for one resource at the same time.

| run | result | shows |
|---|---|---|
| `cooker` | holds | `WaitComplete`: nothing is under way when the scheduler is deleted; `CookedAlone`: one task per resource; `UpToDate`: edits, deaths and failures never leave an old resource unnoticed, apart from `torn`; `RunEnds`: every run ends |

`torn` is the exception that matters: a run that ends between the cooked file and
the dependency file leaves the dependencies of the previous cooking beside a new
cooked file. The next run takes both for current and from then on watches the
wrong asset, until the meta file is edited. A cooked file that is still empty may
pass too, as its version is read from uninitialised memory. Without the exception
TLC refutes `UpToDate`.

*Bounds.* One batch of two resources, the first of which refers to the second, is
the smallest instance in which a batch and a task race. Two edits allow a new import
to be edited, one fault is one death or one file that cannot be opened; two batches
(one resource each) were explored with one edit. *Fairness.* Weak fairness of every
fiber and of the main thread; none of edits, starts and deaths. The references have
no cycle: in a cycle whose files cannot be written two tasks add each other for
ever. Deadlock is not checked, as the program may stay off; `RunEnds` says that it
does not stop before it is done.

### Proofs (`Cooker_proofs`)
Assumption: `CookerAssumption`: types, and every resource is in some batch, as
`main` cooks what it finds in the project. References may be cyclic, and there may
be any number of batches, edits and faults. The invariant:
* `PlacesInv`, `ContextInv`: a context belongs to the one thread that adds its task,
  or to the task. `CookedAlone` is kept because a thread that finds a context does
  not add a task;
* `CountInv`: `mainCounter` is the number of tasks that are counted and not over plus
  the decrements under way. `WaitComplete` follows: at zero no task is left. It
  needs the increment to come before `AddTask`;
* `FilesInv`: outside `torn`, the two files are of one cooking, and a source that is
  not newer than the cooked file is the one it was made from; a `checkUpToDate`
  under way has seen a time that is not later than the file's;
* `EnsuredInv`: in a run, each resource has failed, is torn, has a context, is current,
  or a batch will still come to it.

Theorems: `TypeCorrect`, `OneTask` (`CookedAlone`), `WaitsForAll` (`WaitComplete`),
`FreshFiles` (`UpToDate`).

## 9. What is only model-checked, and what is not modelled

Only by TLC, on the bounds above:
* liveness (`ServedWhileRunning`, `DrainReturns`, `DestroyCompletes`, `CallsReturn`,
  `RunEnds`): TLAPS does not reason about fairness.

All safety properties of the passing runs are theorems. `DrainFinishesAll`,
`MemoryExclusive` and, under `SpecAll`, `EntityViewRight` are violated by the code.

Not modelled:
* *ECS*: `merge` (its loop over chunks does not end), `defragment`,
  `pack_entities`, `validate_meta`, tracked components, queries and type sets,
  allocators; the encoding of component data.
* *Job scheduler*: `schedule_ecs_job` dereferences `end()` for an archetype it meets
  first (`scheduler.cpp` 225-232), `sync_archetype` and `sync_entry` return with
  the mutex held (62-63, 90). What follows is undefined in the first schedule.
* *Resource system*: the masks that tell a pointer from a guid are swapped
  (`resource_handle.cpp` 8-9), phases of the update loop are unreachable and cases
  fall through. The state machine is unfinished; a model of its intent would not
  be a model of the code.
* *Render graph*: contents of descriptor sets, names of the blackboard, profiler,
  graphviz output. A copy pass that names a destination twice.
* *Asset tools*: resources derived from a parent (`CookOrLoad` ends in an
  unimplemented function), and so dependency files that list a resource; assets
  that are removed from the project; the import of the registry, usd and shader tools.
* Root signature pool, dependency graph, wasm host: not modelled yet.
* Calls into graphics drivers and the operating system, window handling, JSON and
  log formatting, image and shader compilers, generated code: I/O or conversions
  without state of their own.
