------------------------- MODULE RenderGraphBackend -------------------------
(***************************************************************************)
(* The render graph's backend (src/gpu/render_graph/graph_backend.cpp and  *)
(* include/render_graph/backend/): execute() records the passes of a frame *)
(* into the command buffer of one of RG_MAX_FRAME_IN_FLIGHT executors and  *)
(* submits it.  A resource gets a GPU object from a pool, or one that      *)
(* shares another's memory, when the first pass uses it, and returns it to *)
(* the pool while the frame is still being recorded.  The GPU executes the *)
(* submitted frames in order, later; collect_garbage frees pooled objects. *)
(***************************************************************************)
EXTENDS RenderGraph

CONSTANTS
    RG_MAX_FRAME_IN_FLIGHT,
    MaxFrames \* bound: frames executed

ASSUME BackendAssumption == RG_MAX_FRAME_IN_FLIGHT \in Nat \ {0} /\ MaxFrames \in Nat

VARIABLES
    frame_index,
    todo,      \* the edges of the current pass that a loop has not reached
    aliasing,  \* the nodes with frame_aliasing
    pool,      \* texture_pool and buffer_pool: a deque for each key
    live,      \* the GPU objects that are created and not freed
    views,     \* textures that the texture view pool has views of
    layout,    \* the state each object is in once all recorded commands ran
    memory,    \* the object in whose memory each object is
    aliasing_textures, \* of each executor
    fence,     \* the frame exec_fence of each executor was submitted with
    done,      \* the GPU: the number of frames it has executed
    uses       \* the GPU objects that each submitted or recorded frame uses

backend == <<frame_index, todo, aliasing, pool, live, views, layout, memory,
             aliasing_textures, fence, done, uses>>
vars == <<phase, at, frame_res, init_state, graph, backend>>

Executors == 0..(RG_MAX_FRAME_IN_FLIGHT - 1)
Executor == frame_index % RG_MAX_FRAME_IN_FLIGHT
InFlight == {f \in 0..(frame_index - 1) : f >= done}
Element == [res : Phys, state : States, frame : 0..MaxFrames]
Elements == UNION {{pool[d][i] : i \in DOMAIN pool[d]} : d \in Descs}
Pooled == {x.res : x \in Elements}

Init ==
    /\ GraphInit
    /\ frame_index = 0 /\ todo = {} /\ aliasing = {}
    /\ pool = [d \in Descs |-> <<>>] /\ live = {} /\ views = {}
    /\ layout = [p \in Phys \cup Imports |-> "UNDEFINED"]
    /\ memory = [p \in Phys \cup Imports |-> p]
    /\ aliasing_textures = [e \in Executors |-> {}]
    /\ fence = [e \in Executors |-> -1]
    /\ done = 0 /\ uses = [f \in 0..MaxFrames |-> {}]

-----------------------------------------------------------------------------
(* The program sets a frame up; it knows the state of what it imports, or  *)
(* discards the contents.                                                  *)

Import(d, p, s) ==
    /\ frame_index < MaxFrames /\ ImportResource(d, p, s) /\ s \in {layout[p], "UNDEFINED"}
    /\ layout' = [layout EXCEPT ![p] = s]
    /\ UNCHANGED <<frame_index, todo, aliasing, pool, live, views, memory,
                   aliasing_textures, fence, done, uses>>

Setup ==
    \/ /\ frame_index < MaxFrames
       /\ \/ \E b \in BOOLEAN : EnableMemoryAliasing(b)
          \/ \E d \in Descs : CreateResource(d)
          \/ \E p \in Pass : AddPass(p)
          \/ Compile \/ CalculateAliasing \/ Compiled
       /\ UNCHANGED backend
    \/ \E d \in Descs, p \in Imports, s \in States : Import(d, p, s)

-----------------------------------------------------------------------------
(* execute()                                                               *)

StartPass(i) ==
    /\ at' = i /\ phase' = "barriers"
    /\ todo' = IF i \in DOMAIN passes THEN Edges(i) ELSE {}

\* Mutant: the fence is not waited for.
AcquireWithoutWait ==
    /\ phase = "ready"
    /\ live' = live \ aliasing_textures[Executor]
    /\ views' = views \ aliasing_textures[Executor]
    /\ aliasing_textures' = [aliasing_textures EXCEPT ![Executor] = {}]
    /\ StartPass(1)
    /\ UNCHANGED <<graph, frame_res, init_state, frame_index, aliasing, pool, layout,
                   memory, fence, done, uses>>

\* Mutant: reset_begin forgets the aliasing textures without freeing them.
AcquireForgetting ==
    /\ phase = "ready" /\ fence[Executor] < done
    /\ aliasing_textures' = [aliasing_textures EXCEPT ![Executor] = {}]
    /\ StartPass(1)
    /\ UNCHANGED <<graph, frame_res, init_state, frame_index, aliasing, pool, live, views,
                   layout, memory, fence, done, uses>>

\* cgpu_wait_fences, then reset_begin.
AcquireExecutor ==
    /\ phase = "ready"
    /\ fence[Executor] < done
    /\ live' = live \ aliasing_textures[Executor]
    /\ views' = views \ aliasing_textures[Executor]
    /\ aliasing_textures' = [aliasing_textures EXCEPT ![Executor] = {}]
    /\ StartPass(1)
    /\ UNCHANGED <<graph, frame_res, init_state, frame_index, aliasing, pool, layout,
                   memory, fence, done, uses>>

\* A culled pass is not in the vector that execute() iterates over.
SkipCulled ==
    /\ phase = "barriers" /\ at \in DOMAIN passes \ KeptPasses
    /\ StartPass(at + 1)
    /\ UNCHANGED <<graph, frame_res, init_state, frame_index, aliasing, pool, live, views,
                   layout, memory, aliasing_textures, fence, done, uses>>

\* One edge of calculate_barriers, its resource resolved to p: the barrier
\* is recorded, and the object is in the requested state after it.
Barrier(n, p) ==
    /\ todo' = todo \ {n}
    /\ layout' = [layout EXCEPT ![p] = Requested(at, n)]
    /\ uses' = [uses EXCEPT ![frame_index] = @ \cup {p}]
    /\ UNCHANGED <<graph, phase, at, frame_index, views, fence, done>>

Resolving(n) == phase = "barriers" /\ n \in todo /\ frame_res[n] = None

BarrierResolved(n) ==
    /\ phase = "barriers" /\ n \in todo /\ frame_res[n] # None
    /\ Barrier(n, frame_res[n])
    /\ UNCHANGED <<frame_res, init_state, aliasing, pool, live, memory, aliasing_textures>>

\* try_aliasing_allocate, when the device accepts the binding.
ResolveAliasing(n, p) ==
    /\ Resolving(n) /\ source[n] # 0 /\ p \in Phys \ live
    /\ live' = live \cup {p}
    /\ memory' = [memory EXCEPT ![p] = memory[frame_res[source[n]]]]
    /\ aliasing' = aliasing \cup {n}
    /\ aliasing_textures' = [aliasing_textures EXCEPT ![Executor] = @ \cup {p}]
    /\ frame_res' = [frame_res EXCEPT ![n] = p]
    /\ init_state' = [init_state EXCEPT ![n] = "UNDEFINED"]
    /\ Barrier(n, p)
    /\ UNCHANGED pool

\* TexturePool::allocate, BufferPool::allocate: the front of the deque, or a
\* new object when the deque is empty.
ResolvePooled(n) ==
    LET d == resources[n].desc IN
    /\ Resolving(n) /\ pool[d] # <<>>
    /\ frame_res' = [frame_res EXCEPT ![n] = Head(pool[d]).res]
    /\ init_state' = [init_state EXCEPT ![n] = Head(pool[d]).state]
    /\ pool' = [pool EXCEPT ![d] = Tail(@)]
    /\ Barrier(n, Head(pool[d]).res)
    /\ UNCHANGED <<live, memory, aliasing, aliasing_textures>>

ResolveCreated(n, p) ==
    LET d == resources[n].desc IN
    /\ Resolving(n) /\ pool[d] = <<>> /\ p \in Phys \ live
    /\ live' = live \cup {p}
    /\ memory' = [memory EXCEPT ![p] = p]
    /\ frame_res' = [frame_res EXCEPT ![n] = p]
    /\ init_state' = [init_state EXCEPT ![n] = d.start]
    /\ Barrier(n, p)
    /\ UNCHANGED <<pool, aliasing, aliasing_textures>>

\* The textures that pass i needs views of: those that it binds, and the
\* attachments of a render pass.
ViewsOf(i) ==
    IF passes[i].type \in {"Render", "Compute"}
    THEN {frame_res[n] : n \in Edges(i) \cap Textures} ELSE {}

\* execute_compute_pass, execute_render_pass and execute_copy_pass after their
\* barriers: the pass is recorded, and deallocate_resources is called.
\* execute_present_pass deallocates nothing.
RecordPass ==
    /\ phase = "barriers" /\ at \in KeptPasses /\ todo = {}
    /\ views' = views \cup ViewsOf(at)
    /\ phase' = "dealloc"
    /\ todo' = IF passes[at].type = "Present" THEN {} ELSE Edges(at)
    /\ UNCHANGED <<graph, at, frame_res, init_state, frame_index, aliasing, pool, live,
                   layout, memory, aliasing_textures, fence, done, uses>>

\* Mutant: the first user that has no later writer is taken for the last.
LastWriter(n) == \A i \in Users(n) : n \in passes[i].writes => at >= i

\* is_last_user: only the passes that read the resource count.
LastUser(n) == \A i \in Readers(n) : at >= i

\* One edge of deallocate_resources.
Deallocate(n) ==
    LET d == resources[n].desc IN
    /\ phase = "dealloc" /\ n \in todo
    /\ todo' = todo \ {n}
    /\ pool' = IF ~resources[n].imported /\ LastUser(n) /\ n \notin aliasing
               THEN [pool EXCEPT ![d] = Append(@, [res |-> frame_res[n],
                         state |-> Requested(at, n), frame |-> frame_index])]
               ELSE pool
    /\ UNCHANGED <<graph, phase, at, frame_res, init_state, frame_index, aliasing, live, views,
                   layout, memory, aliasing_textures, fence, done, uses>>

\* deallocate_resources returns, and execute() goes on to the next pass.
EndPass ==
    /\ phase = "dealloc" /\ todo = {}
    /\ StartPass(at + 1)
    /\ UNCHANGED <<graph, frame_res, init_state, frame_index, aliasing, pool, live, views,
                   layout, memory, aliasing_textures, fence, done, uses>>

\* commit, and the clean-up of the frame's nodes and edges.  The program may
\* collect garbage next.
Commit ==
    /\ phase = "barriers" /\ at \notin DOMAIN passes
    /\ fence' = [fence EXCEPT ![Executor] = frame_index]
    /\ frame_index' = frame_index + 1
    /\ phase' \in {"collect", "setup"}
    /\ resources' = <<>> /\ passes' = <<>>
    /\ source' = [n \in Handles |-> 0] /\ spans' = <<>> /\ at' = 0 /\ aliasing' = {}
    /\ frame_res' = [n \in Handles |-> None]
    /\ init_state' = [n \in Handles |-> "UNDEFINED"]
    /\ UNCHANGED <<aliasing_enabled, todo, pool, live, views, layout, memory,
                   aliasing_textures, done, uses>>

-----------------------------------------------------------------------------
(* Garbage, the end, and the GPU.                                          *)

\* Mutant: one frame too many.
ExpiredEarly(x) == x.frame <= frame_index - RG_MAX_FRAME_IN_FLIGHT

\* The program's collect_garbage(frame - RG_MAX_FRAME_IN_FLIGHT), where frame
\* is what execute() returned, frees one pooled object after the other.
Expired(x) == x.frame <= (frame_index - 1) - RG_MAX_FRAME_IN_FLIGHT

\* Mutant: the views of the freed texture stay in the view pool.
CollectKeepingViews(d, i) ==
    /\ phase = "collect" /\ Expired(pool[d][i])
    /\ live' = live \ {pool[d][i].res}
    /\ pool' = [pool EXCEPT ![d] = SubSeq(@, 1, i - 1) \o SubSeq(@, i + 1, Len(@))]
    /\ UNCHANGED <<graph, phase, at, frame_res, init_state, frame_index, todo, aliasing, views,
                   layout, memory, aliasing_textures, fence, done, uses>>

CollectGarbage(d, i) ==
    /\ phase = "collect" /\ Expired(pool[d][i])
    /\ live' = live \ {pool[d][i].res} /\ views' = views \ {pool[d][i].res}
    /\ pool' = [pool EXCEPT ![d] = SubSeq(@, 1, i - 1) \o SubSeq(@, i + 1, Len(@))]
    /\ UNCHANGED <<graph, phase, at, frame_res, init_state, frame_index, todo, aliasing, layout,
                   memory, aliasing_textures, fence, done, uses>>

Collected ==
    /\ phase = "collect" /\ \A x \in Elements : ~Expired(x)
    /\ phase' = "setup"
    /\ UNCHANGED <<graph, at, frame_res, init_state, backend>>

\* RenderGraph::destroy, after the program waited for the queue.  It is one
\* step: the views are freed last, but finalize() is one call of the thread
\* that records, and nothing looks up a view or allocates before it returns.
Destroy ==
    /\ phase = "setup" /\ resources = <<>> /\ done = frame_index
    /\ phase' = "destroyed"
    /\ live' = live \ (Pooled \cup UNION {aliasing_textures[e] : e \in Executors})
    /\ pool' = [d \in Descs |-> <<>>] /\ views' = {}
    /\ aliasing_textures' = [e \in Executors |-> {}]
    /\ UNCHANGED <<graph, at, frame_res, init_state, frame_index, todo, aliasing, layout,
                   memory, fence, done, uses>>

\* The GPU has executed the next frame and signals its fence.
FrameDone ==
    /\ done < frame_index
    /\ done' = done + 1 /\ uses' = [uses EXCEPT ![done] = {}]
    /\ UNCHANGED <<graph, phase, at, frame_res, init_state, frame_index, todo, aliasing, pool,
                   live, views, layout, memory, aliasing_textures, fence>>

Execute ==
    \/ AcquireExecutor \/ SkipCulled \/ RecordPass \/ EndPass \/ Commit
    \/ \E n \in todo : \/ BarrierResolved(n) \/ ResolvePooled(n) \/ Deallocate(n)
                       \/ \E p \in Phys : ResolveAliasing(n, p) \/ ResolveCreated(n, p)

Next ==
    \/ Setup \/ Execute \/ Collected \/ Destroy \/ FrameDone
    \/ \E d \in Descs : \E i \in DOMAIN pool[d] : CollectGarbage(d, i)

Spec == Init /\ [][Next]_vars

-----------------------------------------------------------------------------
(* Properties.                                                             *)

TypeOK ==
    /\ phase \in {"setup", "aliasing", "ready", "barriers", "dealloc", "collect", "destroyed"}
    /\ aliasing_enabled \in BOOLEAN
    /\ resources \in Seq(Node) /\ Len(resources) <= MaxResources
    /\ passes \in Seq(Pass) /\ \A i \in DOMAIN passes : Edges(i) \subseteq Nodes
    /\ source \in [Handles -> 0..MaxResources] /\ at \in Nat
    /\ frame_res \in [Handles -> Phys \cup Imports \cup {None}]
    /\ init_state \in [Handles -> States]
    /\ frame_index \in 0..MaxFrames /\ todo \subseteq Nodes /\ aliasing \subseteq Nodes
    /\ pool \in [Descs -> Seq(Element)]
    /\ live \subseteq Phys /\ views \subseteq Phys \cup Imports
    /\ layout \in [Phys \cup Imports -> States]
    /\ aliasing_textures \in [Executors -> SUBSET Phys]
    /\ fence \in [Executors -> -1..MaxFrames] /\ done \in 0..frame_index
    /\ uses \in [0..MaxFrames -> SUBSET (Phys \cup Imports)]

Recording == phase \in {"barriers", "dealloc"}

\* The passes that have still to record a barrier for resource n.
Pending(n) == {i \in Users(n) : i > at \/ (i = at /\ phase = "barriers" /\ n \in todo)}

\* No object is in the pools twice, none is in a pool while passes that use
\* it are still to be recorded, and no two resources that passes still use
\* have the same object: deallocate_resources returns an object once, and
\* not before its last user.
PoolExclusive ==
    /\ \A c, d \in Descs : \A i \in DOMAIN pool[c], j \in DOMAIN pool[d] :
           pool[c][i].res = pool[d][j].res => c = d /\ i = j
    /\ Recording => \A n \in Nodes : frame_res[n] # None /\ Pending(n) # {} =>
           /\ frame_res[n] \notin Pooled
           /\ \A m \in Nodes \ {n} : frame_res[m] = frame_res[n] => Pending(m) = {}

\* The state a pool remembers of an object is the state it is in, and the
\* source state of each barrier that is still to be recorded is the state
\* that its object will be in: get_lastest_state agrees with what the earlier
\* passes, or the frame that used the object before, left behind.
BarrierSources ==
    /\ \A x \in Elements : layout[x.res] = x.state
    /\ Recording => \A n \in Nodes : frame_res[n] # None /\ Pending(n) # {} =>
           layout[frame_res[n]] = LatestState(n, Min(Pending(n)))

\* Nothing is freed that a frame being recorded, or one that the GPU has not
\* finished, uses, nor the object in whose memory it is: collect_garbage and
\* reset_begin keep behind the fences, for objects that share memory too.
InFlightIntact ==
    \A f \in InFlight \cup {frame_index} : \A p \in uses[f] \ Imports :
        {p, memory[p]} \subseteq live

\* While execute() records into an executor (its command buffer, descriptor
\* sets and aliasing textures) the GPU is not executing a frame of it.
ExecutorIdle ==
    Recording => \A f \in InFlight : f % RG_MAX_FRAME_IN_FLIGHT # Executor

\* Between frames every object is in a pool or an aliasing texture of an
\* executor, and destroy() leaves none behind.
NoLeak ==
    /\ phase \in {"setup", "collect"} =>
           live = Pooled \cup UNION {aliasing_textures[e] : e \in Executors}
    /\ phase = "destroyed" => live = {}

\* The view pool, which finds a view by the address of its texture, has no
\* views of a texture that was freed.
ViewsLive == views \subseteq live \cup Imports

\* When a texture is about to take the memory of another, that one has a live
\* object: the resolve() of the source inside try_aliasing_allocate never
\* allocates, which would take an object for a pass that comes later.
AliasSourceReady ==
    phase = "barriers" => \A n \in todo : source[n] # 0 /\ frame_res[n] = None =>
        frame_res[source[n]] \in live

\* Two resources that are both in use while a pass is recorded have different
\* memory: what graph_backend.cpp says of memory aliasing.
MemoryExclusive ==
    Recording => \A m, n \in {k \in Nodes : frame_res[k] # None /\ Users(k) # {}
                                            /\ From(k) <= at /\ at <= To(k)} :
        m # n => memory[frame_res[m]] # memory[frame_res[n]]

=============================================================================
