---------------------------- MODULE RenderGraph ----------------------------
(***************************************************************************)
(* The render graph's front end (src/gpu/render_graph/graph_frontend.cpp,  *)
(* graph_builders.cpp): every frame the program declares resources and     *)
(* passes, and compile() culls what is unused and decides which textures   *)
(* may share memory.  A pass is linked to a resource by at most one edge:  *)
(* texture -> pass when it reads it, pass -> texture when it writes it.    *)
(* The place of a pass in `passes' is its `order'; compile() moves passes  *)
(* without edges to culled_passes, and the order of the others stays.      *)
(***************************************************************************)
EXTENDS Integers, Sequences, FiniteSetsExt

CONSTANTS
    Phys,         \* the GPU objects the backend may create
    Imports,      \* GPU objects of the program: back buffers, uploads
    None,         \* the null pointer
    Descs,        \* the descriptors of the textures and buffers in use
    PassTypes,    \* the kinds of passes the program adds
    MaxResources, \* bound: resources of a frame
    MaxPasses     \* bound: passes of a frame

States == {"UNDEFINED", "SHADER_RESOURCE", "RENDER_TARGET", "UNORDERED_ACCESS",
           "COPY_SOURCE", "COPY_DEST", "VERTEX_BUFFER", "PRESENT"}

ASSUME RenderGraphAssumption ==
    /\ Phys \cap Imports = {} /\ None \notin Phys \cup Imports
    /\ Descs \subseteq [tex : BOOLEAN, size : Nat, samples : Nat, dedicated : BOOLEAN,
                    start : States]
    /\ PassTypes \subseteq {"Render", "Compute", "Copy", "Present"}
    /\ MaxResources \in Nat /\ MaxPasses \in Nat

VARIABLES
    phase,            \* where the program is between two frames or in one
    aliasing_enabled, \* may textures share memory?
    resources,        \* the resource nodes of the frame, by handle
    passes,           \* the pass nodes of the frame
    source,           \* frame_aliasing_source of each node, 0 if it has none
    spans,            \* alliasing_lifespans: the `to' of each aliased texture
    at,               \* the resource or the pass a loop has reached
    frame_res,        \* frame_texture or frame_buffer of each node
    init_state        \* the state a node's GPU object has when the frame meets it

graph == <<aliasing_enabled, resources, passes, source, spans>>

Handles == 1..MaxResources
Nodes == DOMAIN resources
Textures == {n \in Nodes : resources[n].desc.tex}
Pass == [type : PassTypes, reads : SUBSET Handles, writes : SUBSET Handles]
Node == [desc : Descs, imported : BOOLEAN]

GraphInit ==
    /\ phase = "setup" /\ aliasing_enabled \in BOOLEAN
    /\ resources = <<>> /\ passes = <<>>
    /\ source = [n \in Handles |-> 0] /\ spans = <<>> /\ at = 0
    /\ frame_res = [n \in Handles |-> None]
    /\ init_state = [n \in Handles |-> "UNDEFINED"]

-----------------------------------------------------------------------------
(* What a pass asks of a resource, and when resources are used.            *)

ReadState == [Render |-> "SHADER_RESOURCE", Compute |-> "SHADER_RESOURCE",
              Copy |-> "COPY_SOURCE", Present |-> "PRESENT"]
WriteState == [Render |-> "RENDER_TARGET", Compute |-> "UNORDERED_ACCESS",
               Copy |-> "COPY_DEST", Present |-> "PRESENT"]

\* requested_state of the edge between pass i and resource n.
Requested(i, n) ==
    IF n \in passes[i].writes THEN WriteState[passes[i].type]
    ELSE IF passes[i].type = "Render" /\ ~resources[n].desc.tex
         THEN "VERTEX_BUFFER" ELSE ReadState[passes[i].type]

Edges(i) == passes[i].reads \cup passes[i].writes
Users(n) == {i \in DOMAIN passes : n \in Edges(i)}
Readers(n) == {i \in DOMAIN passes : n \in passes[i].reads}

\* The passes that compile() keeps: those with an edge.
KeptPasses == {i \in DOMAIN passes : Edges(i) # {}}

\* Mutant: only the writers of the resource are looked at.
LatestWrittenState(n, i) ==
    LET earlier == {k \in Users(n) : k < i /\ n \in passes[k].writes} IN
    IF earlier = {} THEN init_state[n] ELSE Requested(Max(earlier), n)

\* get_lastest_state: what the latest pass before i left resource n in.
LatestState(n, i) ==
    LET earlier == {k \in Users(n) : k < i} IN
    IF (\A k \in KeptPasses : i <= k) \/ earlier = {}
    THEN init_state[n] ELSE Requested(Max(earlier), n)

From(n) == Min(Users(n))
To(n) == Max(Users(n))

-----------------------------------------------------------------------------
(* Setting up a frame.                                                     *)

EnableMemoryAliasing(b) ==
    /\ phase = "setup" /\ resources = <<>> /\ aliasing_enabled' = b
    /\ UNCHANGED <<phase, resources, passes, source, spans, at, frame_res, init_state>>

\* create_texture and create_buffer.
CreateResource(d) ==
    /\ phase = "setup" /\ passes = <<>> /\ Len(resources) < MaxResources
    /\ resources' = Append(resources, [desc |-> d, imported |-> FALSE])
    /\ UNCHANGED <<phase, aliasing_enabled, passes, source, spans, at, frame_res, init_state>>

\* import, of an object that is in state s.
ImportResource(d, p, s) ==
    /\ phase = "setup" /\ passes = <<>> /\ Len(resources) < MaxResources
    /\ \A n \in Nodes : frame_res[n] # p
    /\ resources' = Append(resources, [desc |-> d, imported |-> TRUE])
    /\ frame_res' = [frame_res EXCEPT ![Len(resources) + 1] = p]
    /\ init_state' = [init_state EXCEPT ![Len(resources) + 1] = s]
    /\ UNCHANGED <<phase, aliasing_enabled, passes, source, spans, at>>

\* Mutant: a handle that the frame has not created, left from an earlier one.
BuildableStale(p) == p.type = "Render" /\ p.writes = {}

\* What the four pass builders can express: buffers are only read by render
\* passes (use_buffer) and copied; a present pass reads an imported texture.
Buildable(p) ==
    /\ p.reads \cup p.writes \subseteq Nodes
    /\ p.type \in {"Render", "Compute"} => p.writes \subseteq Textures
    /\ p.type = "Compute" => p.reads \subseteq Textures
    /\ p.type = "Copy" => (p.reads = {} <=> p.writes = {})
    /\ p.type = "Present" => /\ p.writes = {}
                             /\ \E n \in Textures : p.reads = {n} /\ resources[n].imported

\* add_render_pass, add_compute_pass, add_copy_pass, add_present_pass.  The
\* program links a pass to a resource once.
AddPass(p) ==
    /\ phase = "setup" /\ Len(passes) < MaxPasses
    /\ Buildable(p) /\ p.reads \cap p.writes = {}
    /\ passes' = Append(passes, p)
    /\ UNCHANGED <<phase, aliasing_enabled, resources, source, spans, at, frame_res, init_state>>

\* The order of accesses that the samples keep to and deallocate_resources
\* relies on: a resource of the graph that is read is not written after its
\* last reader, one that is only written has one writer.
Disciplined ==
    \A n \in Nodes : ~resources[n].imported /\ Users(n) # {} =>
        \E last \in Users(n) :
            /\ \A k \in Users(n) : k <= last
            /\ last \in Readers(n) \/ Users(n) = {last}

-----------------------------------------------------------------------------
(* compile().                                                              *)

Compile ==
    /\ phase = "setup" /\ Disciplined
    /\ phase' = "aliasing" /\ at' = 1
    /\ UNCHANGED <<aliasing_enabled, resources, passes, source, spans, frame_res, init_state>>

\* The textures that stay in `resources': those with an edge.
KeptTextures == {n \in Textures : Users(n) # {}}

\* aliasing_capacity
Capacity(a, n) ==
    /\ ~resources[a].imported /\ ~resources[a].desc.dedicated
    /\ resources[a].desc.size >= resources[n].desc.size
    /\ resources[a].desc.samples = resources[n].desc.samples

Smaller(a, b) == resources[a].desc.size < resources[b].desc.size

\* Of the candidates C a loop in the order of handles keeps the first of the
\* smallest; these are the ones that it has held on to on the way.
HeldOnTo(C) == {a \in C : \A b \in C : b < a => Smaller(a, b)}
Chosen(C) == {a \in C : \A b \in C : ~Smaller(b, a) /\ (b < a => Smaller(a, b))}

\* What a loop in an unknown order may have held on to: the chain is a map
\* keyed by pointers, in the order of the nodes' addresses.
HeldInSomeOrder(C) ==
    {H \in SUBSET C : /\ \A a, b \in H : a = b \/ Smaller(a, b) \/ Smaller(b, a)
                      /\ \A b \in C : \E a \in H : ~Smaller(b, a)}

\* Mutant: a texture may also share with one that ends in its first pass.
FinishedOrFinishing(n) == {a \in KeptTextures \ {n} : Capacity(a, n) /\ To(a) <= From(n)}

InChain(n) == {a \in DOMAIN spans : Capacity(a, n) /\ spans[a] < From(n)}
Finished(n) == {a \in KeptTextures : Capacity(a, n) /\ To(a) < From(n)}

\* One texture of the loop that calculates aliasing.
AliasFromChain(n) ==
    /\ InChain(n) # {}
    /\ \E H \in HeldInSomeOrder(InChain(n)) :
           /\ \E a \in Chosen(H) : source' = [source EXCEPT ![n] = a]
           /\ spans' = [a \in DOMAIN spans |-> IF a \in H THEN To(n) ELSE spans[a]]

AliasNew(n) ==
    /\ InChain(n) = {}
    /\ IF Finished(n) = {} THEN UNCHANGED source
       ELSE \E a \in Chosen(Finished(n)) : source' = [source EXCEPT ![n] = a]
    /\ spans' = [a \in DOMAIN spans \cup HeldOnTo(Finished(n)) |->
                    IF a \in HeldOnTo(Finished(n)) THEN From(a) ELSE spans[a]]

CalculateAliasing ==
    /\ phase = "aliasing" /\ aliasing_enabled /\ at \in Nodes
    /\ at' = at + 1
    /\ IF at \in KeptTextures /\ ~resources[at].imported
       THEN AliasFromChain(at) \/ AliasNew(at)
       ELSE UNCHANGED <<source, spans>>
    /\ UNCHANGED <<phase, aliasing_enabled, resources, passes, frame_res, init_state>>

Compiled ==
    /\ phase = "aliasing" /\ (aliasing_enabled => at \notin Nodes)
    /\ phase' = "ready"
    /\ UNCHANGED <<aliasing_enabled, resources, passes, source, spans, at, frame_res, init_state>>

=============================================================================
