--------------------------- MODULE ModuleManager ---------------------------
(***************************************************************************)
(* The module manager (src/module/module_manager.cpp): modules with the    *)
(* dependencies their metadata lists are spawned into a graph, loaded with *)
(* dependencies first, and unloaded with dependents first.                 *)
(*                                                                         *)
(* The recursive functions __internal_MakeModuleGraph,                     *)
(* __internal_InitModuleGraph and __internal_DestroyModuleGraph share one  *)
(* call stack; `call` says which of them its frames belong to.  A frame    *)
(* holds the module the function was called for and the position i of its  *)
(* loop over dependencies (or dependents).  The tests a function makes on  *)
(* entry, before its loop, belong to the step that calls it.               *)
(***************************************************************************)
EXTENDS Naturals, Sequences, FiniteSets

CONSTANTS
    Module,     \* names of modules
    NoModule,   \* no name: mainModuleName before make_module_graph
    DepLists,   \* the dependency lists metadata may contain
    Static,     \* modules a SStaticallyLinkedModuleRegistrant exists for
    Loadable,   \* modules whose shared library and symbol can be found
    StackDepth  \* bound: the frames that fit on the C++ stack

ASSUME ManagerAssumption ==
    /\ NoModule \notin Module
    /\ DepLists \subseteq Seq(Module)
    /\ Static \subseteq Module /\ Loadable \subseteq Module
    /\ StackDepth \in Nat \ {0}

VARIABLES
    deps,           \* ModuleInfo::dependencies of each module; never changes
    initializeMap,  \* the registered static modules
    modulesMap,     \* the spawned modules
    nodeMap,        \* the vertex of each module in the graph
    vertices,       \* the ModuleProperty of each vertex
    in_edges,       \* the sources of the edges into each vertex, in order
    roots, mainModuleName,
    call,           \* the call that is running
    entry,          \* its argument
    stack, rootAt

graphVars == <<modulesMap, nodeMap, vertices, in_edges, roots>>
callVars  == <<call, entry, stack, rootAt>>
vars == <<deps, initializeMap, graphVars, mainModuleName, callVars>>

\* patch_module_graph makes the graph in "patch" and loads it in "patchinit";
\* the process dies in "nullptr", "abort" and "overflow".
MakeCalls == {"make", "patch"}
InitCalls == {"init", "patchinit"}
Crashes == {"nullptr", "abort", "overflow"}
Calls == {"none", "exec", "destroy"} \cup MakeCalls \cup InitCalls \cup Crashes

Frame(m) == [node |-> m, i |-> 1]
Top == stack[Len(stack)]
Pop == SubSeq(stack, 1, Len(stack) - 1)
Advance == [stack EXCEPT ![Len(stack)].i = @ + 1]

\* A function is called and the stack becomes `frames`, if it can.
Enter(frames, running) ==
    IF Len(frames) <= StackDepth
    THEN stack' = frames /\ call' = running
    ELSE stack' = <<>> /\ call' = "overflow"

\* get_module_property and set_module_property
Active(m) == vertices[nodeMap[m]].bActive
SetActive(m, active) ==
    vertices' = [vertices EXCEPT ![nodeMap[m]] = [bActive |-> active, name |-> m]]

Init ==
    /\ deps \in [Module -> DepLists]
    /\ initializeMap = {} /\ modulesMap = {}
    /\ nodeMap = <<>> /\ vertices = <<>> /\ in_edges = <<>>
    /\ roots = <<>> /\ mainModuleName = NoModule
    /\ call = "none" /\ entry = NoModule /\ stack = <<>> /\ rootAt = 1

\* registerStaticallyLinkedModule
RegisterStaticallyLinkedModule(m) ==
    /\ call = "none" /\ m \in Static \ initializeMap
    /\ initializeMap' = initializeMap \cup {m}
    /\ UNCHANGED <<deps, graphVars, mainModuleName, callVars>>

-----------------------------------------------------------------------------
(* Making the graph: __internal_MakeModuleGraph                            *)

\* spawnStaticModule or spawnDynamicModule returns an IModule.
Spawns(m, shared) == m \in modulesMap \cup (IF shared THEN Loadable ELSE initializeMap)

\* Mutant: the new vertex gets the size the map has after the insertion.
NewVertexLate == Len(vertices) + 2
\* nodeMap[entry] = nodeMap.size(): the right side is evaluated first.
NewVertex == Cardinality(DOMAIN nodeMap) + 1

\* Mutant: only the first module without dependencies becomes a root.
RootsWithFirst(m) == IF deps[m] = <<>> /\ roots = <<>> THEN <<m>> ELSE roots
RootsWith(m) == IF deps[m] = <<>> THEN Append(roots, m) ELSE roots

\* The code before the loop, for a module without a vertex.
AddNode(m) ==
    /\ modulesMap' = modulesMap \cup {m}
    /\ nodeMap' = [n \in DOMAIN nodeMap \cup {m} |-> IF n = m THEN NewVertex ELSE nodeMap[n]]
    /\ vertices' = Append(vertices, [bActive |-> FALSE, name |-> m])
    /\ in_edges' = Append(in_edges, <<>>)
    /\ roots' = RootsWith(m)

\* __internal_MakeModuleGraph is called for m: a module that cannot be
\* spawned is a null pointer the function goes on to use, and parseMetaData,
\* called once for each module, aborts when it finds no list of dependencies.
CallMake(m, shared, running) ==
    \/ Spawns(m, shared) /\ AddNode(m) /\ Enter(Append(stack, Frame(m)), running)
    \/ /\ \/ call' = "nullptr" /\ ~Spawns(m, shared)
          \/ call' = "abort" /\ Spawns(m, shared) /\ m \notin modulesMap
       /\ stack' = <<>> /\ UNCHANGED graphVars

BeginMake(m, shared, kind) ==
    /\ call = "none"
    /\ entry' = m
    /\ IF m \in DOMAIN nodeMap
       THEN call' = kind /\ UNCHANGED <<graphVars, stack>>
       ELSE CallMake(m, shared, kind)
    /\ UNCHANGED <<deps, initializeMap, rootAt>>

MakeModuleGraph(m, shared) ==
    /\ BeginMake(m, shared, "make")
    /\ mainModuleName' = m

PatchModuleGraph(m, shared) ==
    /\ BeginMake(m, shared, "patch")
    /\ UNCHANGED mainModuleName

\* One round of the loop over the dependencies: the recursive call, which does
\* nothing for a module in the graph, and then the edge.
MakeDependency ==
    /\ call \in MakeCalls /\ stack # <<>> /\ Top.i <= Len(deps[Top.node])
    /\ LET d == deps[Top.node][Top.i] IN
       IF d \in DOMAIN nodeMap
       THEN /\ in_edges' = [in_edges EXCEPT ![nodeMap[d]] = Append(@, nodeMap[Top.node])]
            /\ stack' = Advance
            /\ UNCHANGED <<modulesMap, nodeMap, vertices, roots, call>>
       ELSE CallMake(d, d \notin initializeMap, call)
    /\ UNCHANGED <<deps, initializeMap, mainModuleName, entry, rootAt>>

MakeReturn ==
    /\ call \in MakeCalls /\ stack # <<>> /\ Top.i > Len(deps[Top.node])
    /\ stack' = Pop
    /\ UNCHANGED <<deps, initializeMap, graphVars, mainModuleName, call, entry, rootAt>>

-----------------------------------------------------------------------------
(* Loading: __internal_InitModuleGraph                                     *)

\* The first call for m returns at once when m is active.
InitFrames(m) == IF Active(m) THEN <<>> ELSE <<Frame(m)>>

\* make_module_graph returns; patch_module_graph goes on to load.
MakeEnd ==
    /\ call \in MakeCalls /\ stack = <<>>
    /\ IF call = "patch"
       THEN call' = "patchinit" /\ stack' = InitFrames(entry)
       ELSE call' = "none" /\ UNCHANGED stack
    /\ UNCHANGED <<deps, initializeMap, graphVars, mainModuleName, entry, rootAt>>

\* init_module_graph, called after make_module_graph.
InitModuleGraph ==
    /\ call = "none" /\ mainModuleName # NoModule
    /\ call' = "init" /\ entry' = mainModuleName
    /\ stack' = InitFrames(mainModuleName)
    /\ UNCHANGED <<deps, initializeMap, graphVars, mainModuleName, rootAt>>

\* Mutant: the bActive test is missing.
NeedsInitAlways(m) == TRUE
NeedsInit(m) == ~Active(m)

\* Mutant: `continue` in a loop that counts at its end.
InitDependencyStuck ==
    /\ call \in InitCalls /\ stack # <<>> /\ Top.i <= Len(deps[Top.node])
    /\ LET d == deps[Top.node][Top.i] IN
       IF NeedsInit(d)
       THEN Enter(Append(Advance, Frame(d)), call)
       ELSE UNCHANGED <<stack, call>>
    /\ UNCHANGED <<deps, initializeMap, graphVars, mainModuleName, entry, rootAt>>

InitDependency ==
    /\ call \in InitCalls /\ stack # <<>> /\ Top.i <= Len(deps[Top.node])
    /\ LET d == deps[Top.node][Top.i] IN
       IF NeedsInit(d)
       THEN Enter(Append(Advance, Frame(d)), call)
       ELSE stack' = Advance /\ UNCHANGED call
    /\ UNCHANGED <<deps, initializeMap, graphVars, mainModuleName, entry, rootAt>>

OnLoad ==
    /\ call \in InitCalls /\ stack # <<>> /\ Top.i > Len(deps[Top.node])
    /\ SetActive(Top.node, TRUE)
    /\ stack' = Pop
    /\ UNCHANGED <<deps, initializeMap, modulesMap, nodeMap, in_edges, roots,
                   mainModuleName, call, entry, rootAt>>

InitEnd ==
    /\ call \in InitCalls /\ stack = <<>>
    /\ call' = IF call = "init" THEN "exec" ELSE "none"
    /\ UNCHANGED <<deps, initializeMap, graphVars, mainModuleName, entry, stack, rootAt>>

MainModuleExec ==
    /\ call = "exec"
    /\ call' = "none"
    /\ UNCHANGED <<deps, initializeMap, graphVars, mainModuleName, entry, stack, rootAt>>

-----------------------------------------------------------------------------
(* Unloading: __internal_DestroyModuleGraph                                *)

DestroyModuleGraph ==
    /\ call = "none"
    /\ call' = "destroy" /\ rootAt' = 1 /\ entry' = NoModule
    /\ UNCHANGED <<deps, initializeMap, graphVars, mainModuleName, stack>>

\* The call for a root returns at once when the root is not active.
DestroyRoot ==
    /\ call = "destroy" /\ stack = <<>> /\ rootAt <= Len(roots)
    /\ stack' = IF Active(roots[rootAt]) THEN <<Frame(roots[rootAt])>> ELSE <<>>
    /\ rootAt' = rootAt + 1
    /\ UNCHANGED <<deps, initializeMap, graphVars, mainModuleName, call, entry>>

\* Mutant: the first dependent is skipped.
DependentsButFirst(m) == IF in_edges[nodeMap[m]] = <<>> THEN <<>> ELSE Tail(in_edges[nodeMap[m]])
\* inv_adjacent_vertices of the module's vertex
Dependents(m) == in_edges[nodeMap[m]]

NeedsDestroy(m) == Active(m)

DestroyDependent ==
    /\ call = "destroy" /\ stack # <<>> /\ Top.i <= Len(Dependents(Top.node))
    /\ LET n == vertices[Dependents(Top.node)[Top.i]].name IN
       IF NeedsDestroy(n)
       THEN Enter(Append(Advance, Frame(n)), call)
       ELSE stack' = Advance /\ UNCHANGED call
    /\ UNCHANGED <<deps, initializeMap, graphVars, mainModuleName, entry, rootAt>>

OnUnload ==
    /\ call = "destroy" /\ stack # <<>> /\ Top.i > Len(Dependents(Top.node))
    /\ SetActive(Top.node, FALSE)
    /\ stack' = Pop
    /\ UNCHANGED <<deps, initializeMap, modulesMap, nodeMap, in_edges, roots,
                   mainModuleName, call, entry, rootAt>>

DestroyEnd ==
    /\ call = "destroy" /\ stack = <<>> /\ rootAt > Len(roots)
    /\ call' = "none"
    /\ UNCHANGED <<deps, initializeMap, graphVars, mainModuleName, entry, stack, rootAt>>

-----------------------------------------------------------------------------
\* The steps of the thread inside a call.
Step ==
    \/ MakeDependency \/ MakeReturn \/ MakeEnd
    \/ InitDependency \/ OnLoad \/ InitEnd \/ MainModuleExec
    \/ DestroyRoot \/ DestroyDependent \/ OnUnload \/ DestroyEnd

\* The process is gone.
Crashed == call \in Crashes /\ UNCHANGED vars

Next ==
    \/ \E m \in Module : RegisterStaticallyLinkedModule(m)
    \/ \E m \in Module, shared \in BOOLEAN :
          MakeModuleGraph(m, shared) \/ PatchModuleGraph(m, shared)
    \/ InitModuleGraph \/ DestroyModuleGraph
    \/ Step \/ Crashed

Spec == Init /\ [][Next]_vars

\* The thread that made a call executes it.
FairSpec == Spec /\ WF_vars(Step)

-----------------------------------------------------------------------------
(* Properties.                                                             *)

Nodes == DOMAIN nodeMap
DepsOf(m) == {deps[m][i] : i \in DOMAIN deps[m]}

TypeOK ==
    /\ deps \in [Module -> DepLists]
    /\ initializeMap \subseteq Static /\ modulesMap \subseteq Module
    /\ Nodes \subseteq Module
    /\ nodeMap \in [Nodes -> 1..Len(vertices)]
    /\ vertices \in Seq([bActive : BOOLEAN, name : Module])
    /\ in_edges \in Seq(Seq(1..Len(vertices))) /\ Len(in_edges) = Len(vertices)
    /\ roots \in Seq(Nodes) /\ mainModuleName \in Module \cup {NoModule}
    /\ call \in Calls /\ entry \in Module \cup {NoModule}
    /\ stack \in Seq([node : Nodes, i : Nat \ {0}]) /\ rootAt \in Nat \ {0}

\* nodeMap and the graph number the modules alike: every vertex carries the
\* name that leads to it, and nodes are spawned modules.
VertexNames ==
    /\ Nodes \subseteq modulesMap
    /\ \A m \in Nodes : nodeMap[m] \in DOMAIN vertices /\ vertices[nodeMap[m]].name = m
    /\ \A v \in DOMAIN vertices : vertices[v].name \in Nodes /\ nodeMap[vertices[v].name] = v

\* Between calls the graph is the dependency relation of its modules: each has
\* its dependencies in the graph with an edge for each, and the roots are the
\* modules without dependencies.
GraphComplete ==
    call \notin MakeCalls \cup Crashes =>
        /\ \A m \in Nodes : DepsOf(m) \subseteq Nodes
        /\ \A m, n \in Nodes :
              (\E j \in DOMAIN in_edges[nodeMap[n]] : in_edges[nodeMap[n]][j] = nodeMap[m])
              <=> n \in DepsOf(m)
        /\ {roots[j] : j \in DOMAIN roots} = {m \in Nodes : deps[m] = <<>>}

\* A module is active only while everything it depends on is: on_load runs
\* after the on_load of its dependencies, on_unload before their on_unload,
\* at every moment of making, patching, loading and unloading.
DependenciesActive ==
    \A m \in Nodes : Active(m) => \A d \in DepsOf(m) : d \in Nodes /\ Active(d)

\* on_load is called for inactive modules only, on_unload for active ones only.
LoadedOnce ==
    [][ /\ OnLoad => ~Active(Top.node)
        /\ OnUnload => Active(Top.node) ]_vars

\* When destroy_module_graph returns, every module has been unloaded, the ones
\* patched in later and those of other main modules included.
AllUnloaded ==
    [][ (call = "destroy" /\ call' = "none") => \A m \in Nodes : ~Active(m) ]_vars

\* The dependencies of all modules can be numbered upwards.
Acyclic ==
    \E rank \in [Module -> 1..Cardinality(Module)] :
        \A m \in Module : \A d \in DepsOf(m) : rank[d] < rank[m]

\* With acyclic metadata every call returns, without running out of stack; the
\* only other end is a module that cannot be spawned or has no metadata.
CallsReturn == Acyclic => (call # "none" ~> call \in {"none", "nullptr", "abort"})
=============================================================================
