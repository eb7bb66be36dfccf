------------------------ MODULE ModuleManager_proofs ------------------------
(***************************************************************************)
(* The module manager loads and unloads in dependency order, for every set *)
(* of modules and every dependency lists, cyclic ones included.            *)
(***************************************************************************)
EXTENDS ModuleManager, FiniteSetTheorems, WellFoundedInduction, TLAPS

\* nodeMap.size() is the number of vertices.
CountInv == IsFiniteSet(Nodes) /\ Cardinality(Nodes) = Len(vertices)

\* The edge from m to its j-th dependency is in the graph.
EdgeDone(m, j) ==
    /\ deps[m][j] \in Nodes
    /\ \E e \in DOMAIN in_edges[nodeMap[deps[m][j]]] :
          in_edges[nodeMap[deps[m][j]]][e] = nodeMap[m]

\* The edge will be added by a frame of the stack.
EdgeDue(m, j) == call \in MakeCalls /\ \E k \in DOMAIN stack : stack[k].node = m /\ stack[k].i <= j

EdgesInv ==
    call \notin Crashes =>
        \A m \in Nodes : \A j \in DOMAIN deps[m] : EdgeDone(m, j) \/ EdgeDue(m, j)

\* The frame above the k-th one was pushed for m.
CalledFor(k, m) == k < Len(stack) /\ stack[k + 1].node = m

\* The dependencies a loading frame has gone through are active, but for the
\* last one while it is being loaded.
LoadInv ==
    call \in InitCalls =>
        \A k \in DOMAIN stack : \A j \in DOMAIN deps[stack[k].node] :
            j < stack[k].i =>
                \/ Active(deps[stack[k].node][j])
                \/ j = stack[k].i - 1 /\ CalledFor(k, deps[stack[k].node][j])

\* The dependents an unloading frame has gone through are inactive, but for the
\* last one while it is being unloaded.
UnloadInv ==
    call = "destroy" =>
        \A k \in DOMAIN stack : \A j \in DOMAIN Dependents(stack[k].node) :
            j < stack[k].i =>
                LET n == vertices[Dependents(stack[k].node)[j]].name IN
                \/ ~Active(n)
                \/ j = stack[k].i - 1 /\ CalledFor(k, n)

\* Between calls no function is running; the modules calls are about have vertices.
IdleInv ==
    /\ call \notin MakeCalls \cup InitCalls \cup {"destroy"} => stack = <<>>
    /\ call \notin Crashes => mainModuleName \in Nodes \cup {NoModule}
    /\ call \in MakeCalls => entry \in Nodes

IInv ==
    /\ TypeOK /\ CountInv /\ VertexNames /\ DependenciesActive
    /\ EdgesInv /\ LoadInv /\ UnloadInv /\ IdleInv

-----------------------------------------------------------------------------
(* The call stack.                                                         *)

Frames(S) == [node : S, i : Nat \ {0}]

\* Advance counts the loop of the top frame and changes nothing else.
LEMMA AdvanceFacts ==
    ASSUME NEW S, stack \in Seq(Frames(S)), stack # <<>>
    PROVE  /\ Advance \in Seq(Frames(S)) /\ Len(Advance) = Len(stack)
           /\ \A k \in DOMAIN stack : Advance[k].node = stack[k].node
           /\ \A k \in DOMAIN stack : k # Len(stack) => Advance[k] = stack[k]
           /\ Advance[Len(stack)].i = Top.i + 1
           /\ Advance # <<>>
<1>1. Len(stack) \in DOMAIN stack /\ stack[Len(stack)] \in Frames(S)
  OBVIOUS
<1>2. [stack[Len(stack)] EXCEPT !.i = @ + 1] \in Frames(S)
  BY <1>1 DEF Frames
<1>3. Advance = [stack EXCEPT ![Len(stack)] = [stack[Len(stack)] EXCEPT !.i = @ + 1]]
  BY <1>1 DEF Advance
<1>4. Advance \in Seq(Frames(S)) /\ Len(Advance) = Len(stack)
  BY <1>1, <1>2, <1>3
<1> QED BY <1>1, <1>2, <1>3, <1>4 DEF Frames, Top

\* Pop removes the top frame.
LEMMA PopFacts ==
    ASSUME NEW S, stack \in Seq(Frames(S)), stack # <<>>
    PROVE  /\ Pop \in Seq(Frames(S)) /\ Len(Pop) = Len(stack) - 1
           /\ \A k \in DOMAIN Pop : k \in DOMAIN stack /\ k < Len(stack) /\ Pop[k] = stack[k]
<1>1. Len(stack) \in Nat /\ Len(stack) > 0
  OBVIOUS
<1>2. Pop = [k \in 1..(Len(stack) - 1) |-> stack[k]]
  BY <1>1 DEF Pop
<1>3. \A k \in 1..(Len(stack) - 1) : k \in DOMAIN stack /\ stack[k] \in Frames(S)
  BY <1>1
<1>4. Pop \in Seq(Frames(S)) /\ Len(Pop) = Len(stack) - 1
  BY <1>1, <1>2, <1>3
<1> QED BY <1>1, <1>2, <1>3, <1>4

\* A frame is pushed.
LEMMA PushFacts ==
    ASSUME NEW S, NEW s \in Seq(Frames(S)), NEW m \in S
    PROVE  /\ Append(s, Frame(m)) \in Seq(Frames(S)) /\ Len(Append(s, Frame(m))) = Len(s) + 1
           /\ \A k \in DOMAIN s : Append(s, Frame(m))[k] = s[k]
           /\ Append(s, Frame(m))[Len(s) + 1] = Frame(m)
           /\ Frame(m).node = m /\ Frame(m).i = 1
<1>1. Frame(m) \in Frames(S) BY DEF Frame, Frames
<1> QED BY <1>1 DEF Frame
-----------------------------------------------------------------------------
(* The graph.                                                              *)

Props == [bActive : BOOLEAN, name : Module]

\* The parts of TypeOK.
GraphType ==
    /\ deps \in [Module -> DepLists]
    /\ modulesMap \subseteq Module /\ Nodes \subseteq Module
    /\ nodeMap \in [Nodes -> 1..Len(vertices)]
    /\ vertices \in Seq(Props)
    /\ in_edges \in Seq(Seq(1..Len(vertices))) /\ Len(in_edges) = Len(vertices)
    /\ roots \in Seq(Nodes)
CallType ==
    /\ initializeMap \subseteq Static /\ mainModuleName \in Module \cup {NoModule}
    /\ call \in Calls /\ entry \in Module \cup {NoModule}
    /\ stack \in Seq(Frames(Nodes)) /\ rootAt \in Nat \ {0}

\* The type invariant in two parts: the graph, and the running call.
LEMMA TypeParts == TypeOK <=> GraphType /\ CallType
BY DEF TypeOK, GraphType, CallType, Props, Frames

GraphInv == GraphType /\ CountInv /\ VertexNames /\ DependenciesActive

\* Dependencies are modules.
LEMMA DepFacts ==
    ASSUME deps \in [Module -> DepLists], NEW m \in Module
    PROVE  /\ deps[m] \in Seq(Module)
           /\ \A j \in DOMAIN deps[m] : deps[m][j] \in Module
<1>1. deps[m] \in Seq(Module)
  BY ManagerAssumption
<1> QED BY <1>1

\* A new vertex for m leaves the others as they are.
LEMMA AddNodeFacts ==
    ASSUME GraphInv, NEW m \in Module, m \notin Nodes, AddNode(m), UNCHANGED deps
    PROVE  /\ Nodes' = Nodes \cup {m}
           /\ \A n \in Nodes : nodeMap'[n] = nodeMap[n]
           /\ \A v \in DOMAIN vertices : vertices'[v] = vertices[v] /\ in_edges'[v] = in_edges[v]
           /\ GraphInv'
<1>1. NewVertex = Len(vertices) + 1
  BY DEF GraphInv, CountInv, NewVertex, Nodes
<1>2. /\ Nodes' = Nodes \cup {m}
      /\ nodeMap'[m] = Len(vertices) + 1
      /\ \A n \in Nodes : nodeMap'[n] = nodeMap[n]
  BY <1>1 DEF AddNode, Nodes
<1> DEFINE p == [bActive |-> FALSE, name |-> m]
<1>3. p \in Props /\ p.name = m /\ p.bActive = FALSE
  BY DEF Props
<1> HIDE DEF p
<1>4. vertices' = Append(vertices, p) /\ in_edges' = Append(in_edges, <<>>)
  BY DEF AddNode, p
<1>5. /\ vertices' \in Seq(Props) /\ Len(vertices') = Len(vertices) + 1
      /\ vertices'[Len(vertices) + 1] = p
      /\ \A v \in DOMAIN vertices : vertices'[v] = vertices[v]
  BY <1>3, <1>4 DEF GraphInv, GraphType
<1>6. /\ in_edges' \in Seq(Seq(1..Len(vertices'))) /\ Len(in_edges') = Len(vertices')
      /\ \A v \in DOMAIN vertices : in_edges'[v] = in_edges[v]
  <2>1. in_edges \in Seq(Seq(1..Len(vertices))) /\ Len(in_edges) = Len(vertices)
    BY DEF GraphInv, GraphType
  <2>2. Len(vertices) \in Nat /\ DOMAIN vertices = DOMAIN in_edges
    BY <2>1 DEF GraphInv, GraphType
  <2>3. \A s \in Seq(1..Len(vertices)) : s \in Seq(1..(Len(vertices) + 1))
    BY <2>2
  <2>4. in_edges \in Seq(Seq(1..(Len(vertices) + 1)))
    BY <2>1, <2>3
  <2>5. <<>> \in Seq(1..(Len(vertices) + 1))
    OBVIOUS
  <2> QED BY <2>1, <2>2, <2>4, <2>5, <1>4, <1>5
<1>7. GraphType'
  <2>1. nodeMap' \in [Nodes' -> 1..Len(vertices')]
    BY <1>1, <1>2, <1>5 DEF AddNode, GraphInv, GraphType, Nodes
  <2>2. roots' \in Seq(Nodes')
    <3>1. roots \in Seq(Nodes')
      BY <1>2 DEF GraphInv, GraphType
    <3> QED BY <3>1, <1>2 DEF AddNode, RootsWith
  <2>3. modulesMap' \subseteq Module /\ Nodes' \subseteq Module
    BY <1>2 DEF AddNode, GraphInv, GraphType
  <2> QED BY <2>1, <2>2, <2>3, <1>5, <1>6 DEF GraphType, GraphInv
<1>8. CountInv'
  <2>1. IsFiniteSet(Nodes \cup {m}) /\ Cardinality(Nodes \cup {m}) = Cardinality(Nodes) + 1
    BY FS_AddElement DEF GraphInv, CountInv
  <2> QED BY <2>1, <1>2, <1>5 DEF GraphInv, CountInv
<1>9. VertexNames'
  <2>1. Nodes' \subseteq modulesMap'
    BY <1>2 DEF AddNode, GraphInv, VertexNames
  <2>2. DOMAIN vertices' = DOMAIN vertices \cup {Len(vertices) + 1}
    BY <1>5 DEF GraphInv, GraphType
  <2>3. ASSUME NEW n \in Nodes'
        PROVE  nodeMap'[n] \in DOMAIN vertices' /\ vertices'[nodeMap'[n]].name = n
    BY <2>2, <2>3, <1>2, <1>3, <1>5 DEF GraphInv, VertexNames
  <2>4. ASSUME NEW v \in DOMAIN vertices'
        PROVE  vertices'[v].name \in Nodes' /\ nodeMap'[vertices'[v].name] = v
    BY <2>2, <2>4, <1>2, <1>3, <1>5 DEF GraphInv, VertexNames
  <2> QED BY <2>1, <2>3, <2>4 DEF VertexNames
<1>10. DependenciesActive'
  <2>1. ASSUME NEW n \in Nodes PROVE Active(n)' = Active(n)
    <3>1. nodeMap[n] \in DOMAIN vertices
      BY DEF GraphInv, VertexNames
    <3> QED BY <3>1, <1>2, <1>5 DEF Active
  <2>2. ~Active(m)'
    BY <1>2, <1>3, <1>5 DEF Active
  <2>3. \A n \in Nodes : DepsOf(n)' = DepsOf(n)
    BY DEF DepsOf
  <2> QED BY <2>1, <2>2, <2>3, <1>2 DEF DependenciesActive, GraphInv
<1> QED BY <1>2, <1>5, <1>6, <1>7, <1>8, <1>9, <1>10 DEF GraphInv
\* A new edge from n to d keeps the others.
LEMMA AddEdgeFacts ==
    ASSUME GraphInv, NEW n \in Nodes, NEW d \in Nodes,
           in_edges' = [in_edges EXCEPT ![nodeMap[d]] = Append(@, nodeMap[n])],
           UNCHANGED <<deps, modulesMap, nodeMap, vertices, roots>>
    PROVE  /\ GraphInv'
           /\ \A v \in DOMAIN in_edges : \A e \in DOMAIN in_edges[v] :
                 e \in DOMAIN in_edges'[v] /\ in_edges'[v][e] = in_edges[v][e]
           /\ \E e \in DOMAIN in_edges'[nodeMap[d]] : in_edges'[nodeMap[d]][e] = nodeMap[n]
<1>1. nodeMap[d] \in 1..Len(vertices) /\ nodeMap[n] \in 1..Len(vertices)
  BY DEF GraphInv, GraphType
<1>2. in_edges \in Seq(Seq(1..Len(vertices))) /\ DOMAIN in_edges = 1..Len(vertices)
  BY DEF GraphInv, GraphType
<1>3. Append(in_edges[nodeMap[d]], nodeMap[n]) \in Seq(1..Len(vertices))
  BY <1>1, <1>2
<1>4. in_edges' \in Seq(Seq(1..Len(vertices))) /\ Len(in_edges') = Len(in_edges)
  BY <1>1, <1>2, <1>3
<1>5. GraphType' /\ Nodes' = Nodes
  BY <1>4 DEF GraphType, GraphInv, Nodes
<1>6. CountInv' /\ VertexNames' /\ DependenciesActive'
  <2>1. CountInv'
    BY <1>5 DEF GraphInv, CountInv, Nodes
  <2>2. VertexNames'
    BY <1>5 DEF GraphInv, VertexNames, Nodes
  <2>3. \A m : (Active(m)' <=> Active(m)) /\ DepsOf(m)' = DepsOf(m)
    BY DEF Active, DepsOf
  <2>4. DependenciesActive'
    BY <1>5, <2>3 DEF GraphInv, DependenciesActive
  <2> QED BY <2>1, <2>2, <2>4
<1>7. ASSUME NEW v \in DOMAIN in_edges, NEW e \in DOMAIN in_edges[v]
      PROVE  e \in DOMAIN in_edges'[v] /\ in_edges'[v][e] = in_edges[v][e]
  <2>1. in_edges[v] \in Seq(1..Len(vertices))
    BY <1>2
  <2>2. CASE v = nodeMap[d]
    <3>1. in_edges'[v] = Append(in_edges[v], nodeMap[n])
      BY <2>2
    <3> QED BY <1>1, <1>7, <2>1, <3>1
  <2>3. CASE v # nodeMap[d]
    <3>1. in_edges'[v] = in_edges[v]
      BY <2>3
    <3> QED BY <1>7, <3>1
  <2> QED BY <2>2, <2>3
<1>8. LET s == in_edges'[nodeMap[d]] IN Len(s) \in DOMAIN s /\ s[Len(s)] = nodeMap[n]
  BY <1>1, <1>2
<1> QED BY <1>5, <1>6, <1>7, <1>8 DEF GraphInv

\* Loading or unloading m changes the bActive of m alone.
LEMMA SetActiveFacts ==
    ASSUME GraphInv, NEW m \in Nodes, NEW b \in BOOLEAN, SetActive(m, b),
           UNCHANGED <<deps, modulesMap, nodeMap, in_edges, roots>>
    PROVE  /\ GraphType' /\ CountInv' /\ VertexNames'
           /\ Active(m)' = b
           /\ \A n \in Nodes : n # m => Active(n)' = Active(n)
           /\ \A v \in DOMAIN vertices : vertices'[v].name = vertices[v].name
<1> DEFINE p == [bActive |-> b, name |-> m]
<1>1. p \in Props /\ p.name = m /\ p.bActive = b
  BY DEF Props, GraphInv, GraphType
<1> HIDE DEF p
<1>2. vertices' = [vertices EXCEPT ![nodeMap[m]] = p]
  BY DEF SetActive, p
<1>3. nodeMap[m] \in DOMAIN vertices /\ vertices \in Seq(Props) /\ vertices[nodeMap[m]].name = m
  BY DEF GraphInv, GraphType, VertexNames
<1>4. vertices' \in Seq(Props) /\ Len(vertices') = Len(vertices) /\ DOMAIN vertices' = DOMAIN vertices
  BY <1>1, <1>2, <1>3
<1>5. \A v \in DOMAIN vertices : vertices'[v].name = vertices[v].name
  BY <1>1, <1>2, <1>3
<1>6. GraphType' /\ Nodes' = Nodes
  BY <1>4 DEF GraphType, GraphInv, Nodes
<1>7. CountInv' /\ VertexNames'
  BY <1>4, <1>5, <1>6 DEF GraphInv, CountInv, VertexNames, Nodes
<1>8. Active(m)' = b
  BY <1>1, <1>2, <1>3 DEF Active
<1>9. ASSUME NEW n \in Nodes, n # m PROVE Active(n)' = Active(n)
  <2>1. nodeMap[n] \in DOMAIN vertices /\ nodeMap[n] # nodeMap[m]
    BY <1>3, <1>9 DEF GraphInv, VertexNames
  <2> QED BY <2>1, <1>2, <1>3 DEF Active
<1> QED BY <1>5, <1>6, <1>7, <1>8, <1>9

\* A step that leaves the graph alone keeps what is known of it.
LEMMA KeptFacts ==
    ASSUME GraphInv, UNCHANGED <<deps, graphVars>>
    PROVE  /\ GraphInv' /\ Nodes' = Nodes
           /\ \A m : Active(m)' = Active(m) /\ Dependents(m)' = Dependents(m)
           /\ \A m, j : EdgeDone(m, j)' = EdgeDone(m, j)
BY DEF GraphInv, GraphType, CountInv, VertexNames, DependenciesActive, Nodes, Active, DepsOf,
       Dependents, EdgeDone, graphVars
-----------------------------------------------------------------------------
(* One lemma per kind of step.                                             *)

\* IInv, with TypeOK in its two parts.
Full == GraphInv /\ CallType /\ EdgesInv /\ LoadInv /\ UnloadInv /\ IdleInv

\* Full is the inductive invariant, laid out for the proofs of the steps.
LEMMA FullIsIInv == IInv <=> Full
BY TypeParts DEF IInv, Full, GraphInv

\* Outside the making of the graph all its edges are there.
LEMMA EdgesDone ==
    ASSUME Full, call \notin MakeCalls \cup Crashes, NEW m \in Nodes, NEW j \in DOMAIN deps[m]
    PROVE  EdgeDone(m, j)
BY DEF Full, EdgesInv, EdgeDue

\* Calls that are neither about the graph nor on the stack.
LEMMA PlainStep ==
    ASSUME Full,
           \/ \E m \in Module : RegisterStaticallyLinkedModule(m)
           \/ DestroyModuleGraph \/ DestroyEnd \/ InitEnd \/ MainModuleExec
           \/ Crashed \/ UNCHANGED vars
    PROVE  Full'
<1>1. UNCHANGED <<deps, graphVars, stack, mainModuleName>>
  BY DEF RegisterStaticallyLinkedModule, DestroyModuleGraph, DestroyEnd, InitEnd, MainModuleExec,
         Crashed, vars, callVars
<1>2. \/ UNCHANGED <<call, entry>>
      \/ stack = <<>> /\ call \notin MakeCalls \cup Crashes /\ call' \in {"none", "exec", "destroy"}
  BY DEF RegisterStaticallyLinkedModule, DestroyModuleGraph, DestroyEnd, InitEnd, MainModuleExec,
         Crashed, vars, callVars, Full, IdleInv, MakeCalls, InitCalls, Crashes
<1>3. GraphInv' /\ Nodes' = Nodes
  BY <1>1, KeptFacts DEF Full
<1>4. CallType'
  BY <1>1, <1>3 DEF Full, CallType, RegisterStaticallyLinkedModule, DestroyModuleGraph, DestroyEnd,
         InitEnd, MainModuleExec, Crashed, vars, callVars, Calls
<1>5. CASE UNCHANGED <<call, entry>>
  <2>1. EdgesInv'
    BY <1>1, <1>3, <1>5 DEF Full, EdgesInv, EdgeDone, EdgeDue, graphVars
  <2>2. LoadInv' /\ UnloadInv'
    BY <1>1, <1>5 DEF Full, LoadInv, UnloadInv, Active, CalledFor, Dependents, graphVars
  <2>3. IdleInv'
    BY <1>1, <1>3, <1>5 DEF Full, IdleInv
  <2> QED BY <2>1, <2>2, <2>3, <1>3, <1>4 DEF Full
<1>6. CASE /\ stack = <<>> /\ call \notin MakeCalls \cup Crashes
           /\ call' \in {"none", "exec", "destroy"}
  <2>1. EdgesInv'
    <3>1. \A m \in Nodes : \A j \in DOMAIN deps[m] : EdgeDone(m, j)
      BY <1>6, EdgesDone
    <3>2. \A m, j : EdgeDone(m, j)' = EdgeDone(m, j)
      BY <1>1, KeptFacts DEF Full
    <3> QED BY <3>1, <3>2, <1>1, <1>3 DEF EdgesInv
  <2>2. LoadInv' /\ UnloadInv'
    BY <1>1, <1>6 DEF LoadInv, UnloadInv
  <2>3. IdleInv'
    BY <1>1, <1>3, <1>6 DEF Full, IdleInv, MakeCalls, Crashes
  <2> QED BY <2>1, <2>2, <2>3, <1>3, <1>4 DEF Full
<1> QED BY <1>2, <1>5, <1>6

\* A new stack of one frame for m, or none, before its loop.
LEMMA FreshStack ==
    ASSUME Full, call \notin Crashes, call \in MakeCalls => stack = <<>>,
           UNCHANGED <<deps, graphVars, mainModuleName>>,
           NEW m \in Nodes, stack' \in {<<>>, <<Frame(m)>>},
           call' \in InitCalls \cup {"destroy", "none"}, call' = "none" => stack' = <<>>, CallType'
    PROVE  Full'
<1>1. GraphInv' /\ Nodes' = Nodes
  BY KeptFacts DEF Full
<1>2. EdgesInv'
  <2>1. \A n \in Nodes : \A j \in DOMAIN deps[n] : EdgeDone(n, j)
    BY DEF Full, EdgesInv, EdgeDue
  <2>2. \A n, j : EdgeDone(n, j)' = EdgeDone(n, j)
    BY KeptFacts DEF Full
  <2> QED BY <2>1, <2>2, <1>1 DEF EdgesInv
<1>3. \A k \in DOMAIN stack' : stack'[k].node = m /\ stack'[k].i = 1
  BY DEF Frame
<1>4. LoadInv'
  <2>1. deps[m] \in Seq(Module)
    BY DepFacts DEF Full, GraphInv, GraphType
  <2> QED BY <1>3, <2>1 DEF LoadInv
<1>5. UnloadInv'
  <2>1. Dependents(m)' \in Seq(1..Len(vertices))
    BY DEF Dependents, Full, GraphInv, GraphType, graphVars
  <2> QED BY <1>3, <2>1 DEF UnloadInv
<1>6. IdleInv'
  BY <1>1 DEF Full, IdleInv, MakeCalls, InitCalls, Crashes
<1> QED BY <1>1, <1>2, <1>4, <1>5, <1>6 DEF Full
\* The end of the process.
LEMMA CrashStep ==
    ASSUME GraphInv', CallType', call' \in Crashes, stack' = <<>>
    PROVE  Full'
BY DEF Full, EdgesInv, LoadInv, UnloadInv, IdleInv, MakeCalls, InitCalls, Crashes

\* A stack of at most one frame.
LEMMA OneFrame ==
    ASSUME NEW S, NEW f \in S, NEW s \in {<<>>, <<f>>}
    PROVE  s \in Seq(S)
<1>1. <<>> \in Seq(S) OBVIOUS
<1>2. <<f>> \in Seq(S) OBVIOUS
<1> QED BY <1>1, <1>2

\* Making ends: make_module_graph returns, patch_module_graph starts to load.
LEMMA MakeEndStep == ASSUME Full, MakeEnd PROVE Full'
<1>1. call \in MakeCalls /\ stack = <<>> /\ entry \in Nodes /\ call \notin Crashes
  BY DEF MakeEnd, Full, IdleInv, MakeCalls, Crashes
<1>2. stack' \in {<<>>, <<Frame(entry)>>} /\ call' \in InitCalls \cup {"destroy", "none"}
      /\ (call' = "none" => stack' = <<>>)
  BY <1>1 DEF MakeEnd, InitFrames, InitCalls
<1>3. UNCHANGED <<deps, graphVars, mainModuleName>> /\ UNCHANGED <<initializeMap, entry, rootAt>>
  BY DEF MakeEnd
<1>4. CallType'
  <2>1. Frame(entry) \in Frames(Nodes)
    BY <1>1 DEF Frame, Frames
  <2>2. Nodes' = Nodes
    BY <1>3, KeptFacts DEF Full
  <2>3. stack' \in Seq(Frames(Nodes))
    BY <2>1, <1>2, OneFrame
  <2> QED BY <2>1, <2>2, <2>3, <1>2, <1>3 DEF Full, CallType, Calls, InitCalls
<1> QED BY <1>1, <1>2, <1>3, <1>4, FreshStack

\* init_module_graph is called for the main module.
LEMMA InitModuleGraphStep == ASSUME Full, InitModuleGraph PROVE Full'
<1>1. call = "none" /\ mainModuleName \in Nodes
  BY DEF InitModuleGraph, Full, IdleInv, Crashes
<1>2. stack' \in {<<>>, <<Frame(mainModuleName)>>} /\ call' = "init"
  BY <1>1 DEF InitModuleGraph, InitFrames
<1>3. UNCHANGED <<deps, graphVars, mainModuleName>> /\ UNCHANGED <<initializeMap, rootAt>>
      /\ entry' = mainModuleName
  BY DEF InitModuleGraph
<1>4. CallType'
  <2>1. Frame(mainModuleName) \in Frames(Nodes)
    BY <1>1 DEF Frame, Frames
  <2>2. Nodes' = Nodes
    BY <1>3, KeptFacts DEF Full
  <2>3. stack' \in Seq(Frames(Nodes))
    BY <2>1, <1>2, OneFrame
  <2> QED BY <2>1, <2>2, <2>3, <1>2, <1>3 DEF Full, CallType, Calls, InitCalls, InitCalls
<1> QED BY <1>1, <1>2, <1>3, <1>4, FreshStack DEF InitCalls, MakeCalls, Crashes

\* destroy_module_graph goes on to its next root.
LEMMA DestroyRootStep == ASSUME Full, DestroyRoot PROVE Full'
<1>1. call = "destroy" /\ rootAt \in Nat \ {0} /\ roots \in Seq(Nodes) /\ rootAt <= Len(roots)
  BY DEF DestroyRoot, Full, CallType, GraphInv, GraphType
<1>2. roots[rootAt] \in Nodes
  BY <1>1
<1>3. stack' \in {<<>>, <<Frame(roots[rootAt])>>} /\ call' = "destroy" /\ rootAt' = rootAt + 1
  BY <1>1 DEF DestroyRoot
<1>4. UNCHANGED <<deps, graphVars, mainModuleName>> /\ UNCHANGED <<initializeMap, entry>>
  BY DEF DestroyRoot
<1>5. CallType'
  <2>1. Frame(roots[rootAt]) \in Frames(Nodes)
    BY <1>2 DEF Frame, Frames
  <2>2. Nodes' = Nodes
    BY <1>4, KeptFacts DEF Full
  <2>3. stack' \in Seq(Frames(Nodes))
    BY <2>1, <1>3, OneFrame
  <2> QED BY <2>1, <2>2, <2>3, <1>1, <1>3, <1>4 DEF Full, CallType, Calls, InitCalls
<1> QED BY <1>1, <1>2, <1>3, <1>4, <1>5, FreshStack DEF MakeCalls, Crashes

\* The frame that returns has added all its edges.
LEMMA MakeReturnStep == ASSUME Full, MakeReturn PROVE Full'
<1>1. /\ call \in MakeCalls /\ call' = call /\ stack # <<>> /\ stack' = Pop
      /\ Top.i > Len(deps[Top.node])
      /\ UNCHANGED <<deps, graphVars, mainModuleName, initializeMap, entry, rootAt>>
  BY DEF MakeReturn
<1>2. GraphInv' /\ Nodes' = Nodes
  BY <1>1, KeptFacts DEF Full
<1>3. stack \in Seq(Frames(Nodes))
  BY DEF Full, CallType
<1>4. CallType'
  BY <1>1, <1>2, <1>3, PopFacts DEF Full, CallType
<1>5. EdgesInv'
  <2> SUFFICES ASSUME NEW m \in Nodes, NEW j \in DOMAIN deps[m]
               PROVE  EdgeDone(m, j) \/ EdgeDue(m, j)'
    <3>1. \A m, j : EdgeDone(m, j)' = EdgeDone(m, j)
      BY <1>1, KeptFacts DEF Full
    <3> QED BY <3>1, <1>1, <1>2 DEF EdgesInv
  <2>1. deps[m] \in Seq(Module)
    BY DepFacts DEF Full, GraphInv, GraphType
  <2>2. EdgeDone(m, j) \/ EdgeDue(m, j)
    BY <1>1 DEF Full, EdgesInv, MakeCalls, Crashes
  <2>3. ASSUME NEW k \in DOMAIN stack, stack[k].node = m, stack[k].i <= j
        PROVE  k \in DOMAIN Pop /\ Pop[k] = stack[k]
    <3>1. k # Len(stack)
      <4>1. j <= Len(deps[m]) /\ j \in Nat /\ Len(deps[m]) \in Nat
        BY <2>1
      <4>2. stack[k].i \in Nat
        <5>1. stack[k] \in Frames(Nodes)
          BY <1>3
        <5> QED BY <5>1 DEF Frames
      <4>3. Top.node = m => Top.i > Len(deps[m])
        BY <1>1
      <4> QED BY <4>1, <4>2, <4>3, <2>3 DEF Top
    <3> QED BY <3>1, <1>1, <1>3, <2>3, PopFacts
  <2> QED BY <2>2, <2>3, <1>1 DEF EdgeDue
<1>6. LoadInv' /\ UnloadInv'
  BY <1>1 DEF LoadInv, UnloadInv, MakeCalls, InitCalls
<1>7. IdleInv'
  BY <1>1, <1>2 DEF Full, IdleInv
<1> QED BY <1>2, <1>4, <1>5, <1>6, <1>7 DEF Full
\* A module gets a vertex, and the function that will add its edges is called.
LEMMA PushMake ==
    ASSUME Full, NEW m \in Module, m \notin Nodes, AddNode(m),
           UNCHANGED <<deps, initializeMap, rootAt>>,
           call \in MakeCalls \cup {"none"}, call' \in MakeCalls,
           stack' = Append(stack, Frame(m)),
           entry' \in Nodes', mainModuleName' \in Nodes' \cup {NoModule}
    PROVE  Full'
<1>1. /\ Nodes' = Nodes \cup {m}
      /\ \A n \in Nodes : nodeMap'[n] = nodeMap[n]
      /\ \A v \in DOMAIN vertices : in_edges'[v] = in_edges[v]
      /\ GraphInv'
  BY AddNodeFacts DEF Full
<1>2. stack \in Seq(Frames(Nodes')) /\ stack \in Seq(Frames(Nodes))
  <2>1. Frames(Nodes) \subseteq Frames(Nodes')
    BY <1>1 DEF Frames
  <2> QED BY <2>1 DEF Full, CallType
<1>3. /\ stack' \in Seq(Frames(Nodes')) /\ Len(stack') = Len(stack) + 1
      /\ \A k \in DOMAIN stack : k \in DOMAIN stack' /\ stack'[k] = stack[k]
      /\ stack'[Len(stack) + 1].node = m /\ stack'[Len(stack) + 1].i = 1
  BY <1>1, <1>2, PushFacts
<1>4. CallType'
  <2>1. Nodes' \subseteq Module
    BY <1>1 DEF GraphInv, GraphType
  <2> QED BY <2>1, <1>3 DEF Full, CallType, Calls
<1>5. EdgesInv'
  <2>1. ASSUME NEW n \in Nodes, NEW j \in DOMAIN deps[n]
        PROVE  EdgeDone(n, j)' \/ EdgeDue(n, j)'
    <3>1. CASE EdgeDone(n, j)
      <4>1. nodeMap[deps[n][j]] \in DOMAIN vertices
        BY <3>1 DEF EdgeDone, Full, GraphInv, VertexNames
      <4> QED BY <4>1, <3>1, <1>1 DEF EdgeDone
    <3>2. CASE EdgeDue(n, j)
      BY <3>2, <1>3 DEF EdgeDue
    <3> QED BY <3>1, <3>2, <2>1 DEF Full, EdgesInv, MakeCalls, Crashes
  <2>2. ASSUME NEW j \in DOMAIN deps[m]
        PROVE  EdgeDue(m, j)'
    <3>1. j \in Nat /\ 1 <= j
      <4>1. deps[m] \in Seq(Module)
        BY DepFacts DEF Full, GraphInv, GraphType
      <4> QED BY <4>1
    <3>2. Len(stack) + 1 \in DOMAIN stack'
      BY <1>2, <1>3
    <3> QED BY <3>1, <3>2, <1>3 DEF EdgeDue
  <2> QED BY <2>1, <2>2, <1>1 DEF EdgesInv
<1>6. LoadInv' /\ UnloadInv'
  BY DEF LoadInv, UnloadInv, MakeCalls, InitCalls
<1>7. IdleInv'
  BY DEF IdleInv
<1> QED BY <1>1, <1>4, <1>5, <1>6, <1>7 DEF Full

\* The call of __internal_MakeModuleGraph for a module without a vertex.
LEMMA CallMakeStep ==
    ASSUME Full, NEW m \in Module, m \notin Nodes, NEW shared, NEW running \in MakeCalls,
           CallMake(m, shared, running), UNCHANGED <<deps, initializeMap, rootAt>>,
           call \in MakeCalls \cup {"none"},
           entry' \in Nodes \cup {m}, mainModuleName' \in Nodes \cup {m, NoModule}
    PROVE  Full'
<1>1. Nodes \subseteq Module
  BY DEF Full, GraphInv, GraphType
<1>2. CASE call' \in {"nullptr", "abort"} /\ stack' = <<>> /\ UNCHANGED graphVars
  <2>1. call' \in {"nullptr", "abort"} /\ stack' = <<>> /\ UNCHANGED graphVars
    BY <1>2
  <2>2. GraphInv' /\ Nodes' = Nodes
    BY <2>1, KeptFacts DEF Full
  <2>3. CallType'
    BY <1>1, <2>1 DEF Full, CallType, Calls, Crashes
  <2> QED BY <2>1, <2>2, <2>3, CrashStep DEF Crashes
<1>3. CASE AddNode(m) /\ Enter(Append(stack, Frame(m)), running)
  <2>1. AddNode(m) /\ Enter(Append(stack, Frame(m)), running)
    BY <1>3
  <2>2. GraphInv' /\ Nodes' = Nodes \cup {m}
    BY <2>1, AddNodeFacts DEF Full
  <2>3. CASE stack' = Append(stack, Frame(m)) /\ call' = running
    BY <2>1, <2>2, <2>3, PushMake
  <2>4. CASE stack' = <<>> /\ call' = "overflow"
    <3>1. CallType'
      BY <1>1, <2>4 DEF Full, CallType, Calls, Crashes
    <3> QED BY <3>1, <2>2, <2>4, CrashStep DEF Crashes
  <2> QED BY <2>1, <2>3, <2>4 DEF Enter
<1> QED BY <1>2, <1>3 DEF CallMake

\* make_module_graph or patch_module_graph is called.
LEMMA BeginMakeStep ==
    ASSUME Full, NEW m \in Module, NEW shared, NEW kind \in MakeCalls, BeginMake(m, shared, kind),
           mainModuleName' \in {m, mainModuleName}
    PROVE  Full'
<1>1. call = "none" /\ entry' = m /\ UNCHANGED <<deps, initializeMap, rootAt>>
  BY DEF BeginMake
<1>2. mainModuleName \in Nodes \cup {NoModule} /\ stack = <<>>
  BY <1>1 DEF Full, IdleInv, Crashes, MakeCalls, InitCalls
<1>3. CASE m \notin Nodes
  <2>1. CallMake(m, shared, kind)
    BY <1>3 DEF BeginMake, Nodes
  <2> QED BY <1>1, <1>2, <1>3, <2>1, CallMakeStep
<1>4. CASE m \in Nodes
  <2>1. call' = kind /\ UNCHANGED <<graphVars, stack>>
    BY <1>4 DEF BeginMake, Nodes
  <2>2. GraphInv' /\ Nodes' = Nodes /\ \A n, j : EdgeDone(n, j)' = EdgeDone(n, j)
    BY <1>1, <2>1, KeptFacts DEF Full
  <2>3. CallType'
    BY <1>1, <1>2, <2>1, <2>2 DEF Full, CallType, Calls
  <2>4. EdgesInv'
    <3>1. \A n \in Nodes : \A j \in DOMAIN deps[n] : EdgeDone(n, j)
      BY <1>1, EdgesDone DEF MakeCalls, Crashes
    <3> QED BY <3>1, <2>2, <1>1 DEF EdgesInv
  <2>5. LoadInv' /\ UnloadInv' /\ IdleInv'
    BY <1>1, <1>2, <1>4, <2>1, <2>2 DEF LoadInv, UnloadInv, IdleInv, MakeCalls, InitCalls
  <2> QED BY <2>2, <2>3, <2>4, <2>5 DEF Full
<1> QED BY <1>3, <1>4

\* The running frame is a frame of a module of the graph.
LEMMA TopFacts ==
    ASSUME Full, stack # <<>>
    PROVE  /\ Len(stack) \in DOMAIN stack /\ Len(stack) \in Nat
           /\ Top.node \in Nodes /\ Top.node \in Module /\ Top.i \in Nat \ {0}
           /\ deps[Top.node] \in Seq(Module)
           /\ \A k \in DOMAIN stack : k \in 1..Len(stack) /\ stack[k].node \in Nodes
                                       /\ stack[k].node \in Module /\ stack[k].i \in Nat \ {0}
           /\ stack \in Seq(Frames(Nodes))
<1>1. stack \in Seq(Frames(Nodes)) /\ Nodes \subseteq Module
  BY DEF Full, CallType, GraphInv, GraphType
<1>2. Len(stack) \in DOMAIN stack /\ Len(stack) \in Nat
  BY <1>1
<1>3. \A k \in DOMAIN stack : k \in 1..Len(stack) /\ stack[k] \in Frames(Nodes)
  BY <1>1
<1>4. \A k \in DOMAIN stack : /\ stack[k].node \in Nodes /\ stack[k].node \in Module
                               /\ stack[k].i \in Nat \ {0}
  BY <1>1, <1>3 DEF Frames
<1>5. deps[Top.node] \in Seq(Module)
  BY <1>2, <1>4, DepFacts DEF Full, GraphInv, GraphType, Top
<1> QED BY <1>1, <1>2, <1>3, <1>4, <1>5 DEF Top

\* The dependency the running frame looks at is a module its module depends on.
LEMMA NextDependency ==
    ASSUME Full, stack # <<>>, Top.i <= Len(deps[Top.node])
    PROVE  Top.i \in DOMAIN deps[Top.node] /\ deps[Top.node][Top.i] \in Module
<1>1. deps[Top.node] \in Seq(Module) /\ Top.i \in Nat \ {0}
  BY TopFacts
<1> QED BY <1>1

\* One dependency of the module being made.
LEMMA MakeDependencyStep == ASSUME Full, MakeDependency PROVE Full'
<1> DEFINE d == deps[Top.node][Top.i]
<1>1. /\ call \in MakeCalls /\ stack # <<>> /\ Top.i <= Len(deps[Top.node])
      /\ UNCHANGED <<deps, initializeMap, mainModuleName, entry, rootAt>>
      /\ mainModuleName \in Nodes \cup {NoModule} /\ entry \in Nodes
  BY DEF MakeDependency, Full, IdleInv, MakeCalls, Crashes
<1>2. Top.i \in DOMAIN deps[Top.node] /\ d \in Module
  BY <1>1, NextDependency
<1>3. CASE d \notin Nodes
  <2>1. CallMake(d, d \notin initializeMap, call)
    BY <1>3 DEF MakeDependency, Nodes
  <2> QED BY <1>1, <1>2, <1>3, <2>1, CallMakeStep
<1>4. CASE d \in Nodes
  <2>1. /\ in_edges' = [in_edges EXCEPT ![nodeMap[d]] = Append(@, nodeMap[Top.node])]
        /\ stack' = Advance /\ call' = call
        /\ UNCHANGED <<deps, modulesMap, nodeMap, vertices, roots>>
    BY <1>4 DEF MakeDependency, Nodes
  <2>2. /\ GraphInv'
        /\ \A v \in DOMAIN in_edges : \A e \in DOMAIN in_edges[v] :
              e \in DOMAIN in_edges'[v] /\ in_edges'[v][e] = in_edges[v][e]
        /\ \E e \in DOMAIN in_edges'[nodeMap[d]] : in_edges'[nodeMap[d]][e] = nodeMap[Top.node]
    BY <1>1, <1>4, <2>1, TopFacts, AddEdgeFacts DEF Full
  <2>3. Nodes' = Nodes
    BY <2>1 DEF Nodes
  <2>4. /\ Advance \in Seq(Frames(Nodes)) /\ Len(Advance) = Len(stack)
        /\ \A k \in DOMAIN stack : Advance[k].node = stack[k].node
        /\ \A k \in DOMAIN stack : k # Len(stack) => Advance[k] = stack[k]
        /\ Advance[Len(stack)].i = Top.i + 1
        /\ DOMAIN Advance = DOMAIN stack
    BY <1>1, TopFacts, AdvanceFacts
  <2>5. CallType'
    BY <1>1, <2>1, <2>3, <2>4 DEF Full, CallType
  <2>6. EdgesInv'
    <3>1. ASSUME NEW m \in Nodes, NEW j \in DOMAIN deps[m]
          PROVE  EdgeDone(m, j)' \/ EdgeDue(m, j)'
      <4>1. CASE EdgeDone(m, j)
        <5>1. nodeMap[deps[m][j]] \in DOMAIN in_edges
          BY <4>1 DEF EdgeDone, Full, GraphInv, GraphType
        <5> QED BY <5>1, <4>1, <2>1, <2>2, <2>3 DEF EdgeDone
      <4>2. CASE m = Top.node /\ j = Top.i
        BY <4>2, <1>4, <2>1, <2>2, <2>3 DEF EdgeDone
      <4>3. ASSUME NEW k \in DOMAIN stack, stack[k].node = m, stack[k].i <= j,
                   ~(m = Top.node /\ j = Top.i)
            PROVE  Advance[k].node = m /\ Advance[k].i <= j
        <5>1. j \in Nat
          BY DepFacts DEF Full, GraphInv, GraphType
        <5>2. CASE k = Len(stack)
          BY <5>1, <5>2, <4>3, <2>4, <1>1, TopFacts DEF Top
        <5>3. CASE k # Len(stack)
          BY <5>3, <4>3, <2>4
        <5> QED BY <5>2, <5>3
      <4>4. EdgeDone(m, j) \/ EdgeDue(m, j)
        BY <1>1 DEF Full, EdgesInv, MakeCalls, Crashes
      <4> QED BY <4>1, <4>2, <4>3, <4>4, <1>1, <2>1, <2>4 DEF EdgeDue
    <3> QED BY <3>1, <1>1, <2>3 DEF EdgesInv
  <2>7. LoadInv' /\ UnloadInv'
    BY <1>1, <2>1 DEF LoadInv, UnloadInv, MakeCalls, InitCalls
  <2>8. IdleInv'
    BY <1>1, <2>1, <2>3 DEF IdleInv
  <2> QED BY <2>2, <2>5, <2>6, <2>7, <2>8 DEF Full
<1> QED BY <1>3, <1>4

\* One dependency of the module being loaded.
LEMMA InitDependencyStep == ASSUME Full, InitDependency PROVE Full'
<1> DEFINE d == deps[Top.node][Top.i]
<1>1. /\ call \in InitCalls /\ stack # <<>> /\ Top.i <= Len(deps[Top.node])
      /\ UNCHANGED <<deps, graphVars, mainModuleName>> /\ UNCHANGED <<initializeMap, entry, rootAt>>
      /\ call \notin MakeCalls \cup Crashes
  BY DEF InitDependency, MakeCalls, InitCalls, Crashes
<1>2. Top.i \in DOMAIN deps[Top.node] /\ d \in Module
  BY <1>1, NextDependency
<1>3. \A m \in Nodes : \A j \in DOMAIN deps[m] : EdgeDone(m, j)
  BY <1>1, EdgesDone
<1>4. d \in Nodes
  BY <1>1, <1>2, <1>3, TopFacts DEF EdgeDone
<1>5. /\ GraphInv' /\ Nodes' = Nodes /\ \A m : Active(m)' = Active(m)
      /\ \A m, j : EdgeDone(m, j)' = EdgeDone(m, j)
  BY <1>1, KeptFacts DEF Full
<1>6. /\ Advance \in Seq(Frames(Nodes)) /\ Len(Advance) = Len(stack)
      /\ \A k \in DOMAIN stack : Advance[k].node = stack[k].node
      /\ \A k \in DOMAIN stack : k # Len(stack) => Advance[k] = stack[k]
      /\ Advance[Len(stack)].i = Top.i + 1
      /\ DOMAIN Advance = DOMAIN stack
  BY <1>1, TopFacts, AdvanceFacts
<1>7. EdgesInv'
  BY <1>1, <1>3, <1>5 DEF EdgesInv
<1>8. ASSUME NEW k \in DOMAIN stack, NEW j \in DOMAIN deps[stack[k].node], j < Advance[k].i
      PROVE  \/ Active(deps[stack[k].node][j])
             \/ j = Advance[k].i - 1 /\ CalledFor(k, deps[stack[k].node][j])
             \/ k = Len(stack) /\ j = Top.i
  <2>1. j \in Nat
    BY <1>1, TopFacts, DepFacts DEF Full, GraphInv, GraphType
  <2>2. CASE k = Len(stack)
    <3>1. j < Top.i \/ j = Top.i
      BY <2>1, <2>2, <1>1, <1>6, <1>8, TopFacts
    <3>2. ~CalledFor(k, deps[stack[k].node][j])
      BY <2>2, <1>1, TopFacts DEF CalledFor
    <3> QED BY <3>1, <3>2, <2>2, <1>1 DEF Full, LoadInv, Top
  <2>3. CASE k # Len(stack)
    BY <2>3, <1>1, <1>6, <1>8 DEF Full, LoadInv
  <2> QED BY <2>2, <2>3
<1>9. CASE Active(d)
  <2>1. stack' = Advance /\ call' = call
    BY <1>9 DEF InitDependency, NeedsInit
  <2>2. CallType'
    BY <1>1, <1>5, <1>6, <2>1 DEF Full, CallType
  <2>3. LoadInv'
    <3>1. \A k \in DOMAIN stack : \A m : CalledFor(k, m)' = CalledFor(k, m)
      BY <1>1, <1>6, <2>1, TopFacts DEF CalledFor
    <3> QED BY <3>1, <1>1, <1>5, <1>6, <1>8, <1>9, <2>1 DEF LoadInv, Top
  <2>4. UnloadInv' /\ IdleInv'
    BY <1>1, <1>5, <2>1 DEF Full, UnloadInv, IdleInv, InitCalls
  <2> QED BY <1>5, <1>7, <2>2, <2>3, <2>4 DEF Full
<1>10. CASE ~Active(d)
  <2>1. Enter(Append(Advance, Frame(d)), call)
    BY <1>10 DEF InitDependency, NeedsInit
  <2>2. CASE stack' = <<>> /\ call' = "overflow"
    <3>1. CallType'
      BY <1>1, <1>5, <2>2 DEF Full, CallType, Calls, Crashes
    <3> QED BY <3>1, <1>5, <2>2, CrashStep DEF Crashes
  <2>3. CASE stack' = Append(Advance, Frame(d)) /\ call' = call
    <3>1. /\ stack' \in Seq(Frames(Nodes)) /\ Len(stack') = Len(stack) + 1
          /\ \A k \in DOMAIN stack : stack'[k] = Advance[k]
          /\ stack'[Len(stack) + 1].node = d /\ stack'[Len(stack) + 1].i = 1
          /\ DOMAIN stack' = DOMAIN stack \cup {Len(stack) + 1}
      BY <1>4, <1>6, <2>3, PushFacts
    <3>2. CallType'
      BY <1>1, <1>5, <2>3, <3>1 DEF Full, CallType
    <3>3. LoadInv'
      <4>1. \A k \in DOMAIN stack : \A m : CalledFor(k, m) => CalledFor(k, m)'
        BY <1>1, <1>6, <3>1, TopFacts DEF CalledFor
      <4>2. Len(stack) < Len(stack') /\ stack'[Len(stack) + 1].node = d
        BY <1>1, <3>1, TopFacts
      <4>3. ASSUME NEW k \in DOMAIN stack, NEW j \in DOMAIN deps[stack[k].node], j < Advance[k].i
            PROVE  \/ Active(deps[stack[k].node][j])'
                   \/ j = Advance[k].i - 1 /\ CalledFor(k, deps[stack[k].node][j])'
        <5>1. CASE k = Len(stack) /\ j = Top.i
          <6>1. stack'[k].node = Top.node /\ Advance[k].i = Top.i + 1
            BY <5>1, <3>1, <1>6 DEF Top
          <6>2. deps'[stack'[k].node][j] = d
            BY <5>1, <6>1, <1>1
          <6> QED BY <6>1, <6>2, <5>1, <4>2, <1>1, TopFacts DEF CalledFor
        <5>2. CASE ~(k = Len(stack) /\ j = Top.i)
          <6>1. UNCHANGED stack[k].node => deps'[stack[k].node] = deps[stack[k].node]
            BY <1>1
          <6>2. stack'[k].node = stack[k].node
            BY <3>1, <1>6
          <6> QED BY <6>1, <6>2, <5>2, <4>1, <4>3, <1>1, <1>5, <1>8
        <5> QED BY <5>1, <5>2
      <4>4. \A j \in DOMAIN deps[d] : ~(j < 1)
        BY <1>2, DepFacts DEF Full, GraphInv, GraphType
      <4> QED BY <4>3, <4>4, <1>1, <1>6, <3>1 DEF LoadInv
    <3>4. UnloadInv' /\ IdleInv'
      BY <1>1, <1>5, <2>3 DEF Full, UnloadInv, IdleInv, InitCalls
    <3> QED BY <1>5, <1>7, <3>2, <3>3, <3>4 DEF Full
  <2> QED BY <2>1, <2>2, <2>3 DEF Enter
<1> QED BY <1>9, <1>10
\* on_load: every dependency of the module is active.
LEMMA OnLoadStep == ASSUME Full, OnLoad PROVE Full'
<1> DEFINE n == Top.node
<1>1. /\ call \in InitCalls /\ stack # <<>> /\ Top.i > Len(deps[n])
      /\ SetActive(n, TRUE) /\ stack' = Pop /\ call' = call
      /\ UNCHANGED <<deps, modulesMap, nodeMap, in_edges, roots>>
      /\ UNCHANGED <<initializeMap, mainModuleName, entry, rootAt>>
      /\ call \notin MakeCalls \cup Crashes
  BY DEF OnLoad, MakeCalls, InitCalls, Crashes
<1>2. n \in Nodes
  BY <1>1, TopFacts
<1>3. /\ GraphType' /\ CountInv' /\ VertexNames' /\ Nodes' = Nodes
      /\ \A m \in Nodes : Active(m)' <=> Active(m) \/ m = n
  BY <1>1, <1>2, SetActiveFacts DEF Full, Nodes
<1>4. \A m \in Nodes : \A j \in DOMAIN deps[m] : EdgeDone(m, j)
  BY <1>1, EdgesDone
<1>5. \A m \in Nodes : \A j \in DOMAIN deps[m] : deps[m][j] \in Nodes
  BY <1>4 DEF EdgeDone
<1>6. \A j \in DOMAIN deps[n] : Active(deps[n][j])
  <2>1. ASSUME NEW j \in DOMAIN deps[n] PROVE j < Top.i
    BY <1>1, TopFacts
  <2>2. \A m : ~CalledFor(Len(stack), m)
    BY <1>1, TopFacts DEF CalledFor
  <2> QED BY <1>1, <2>1, <2>2, TopFacts DEF Full, LoadInv, Top
<1>7. DependenciesActive'
  <2>1. \A m \in Nodes : DepsOf(m)' = DepsOf(m)
    BY <1>1 DEF DepsOf
  <2>2. ASSUME NEW m \in Nodes, Active(m)', NEW x \in DepsOf(m)
        PROVE  x \in Nodes /\ Active(x)'
    <3>1. CASE m = n
      BY <3>1, <2>2, <1>2, <1>3, <1>5, <1>6 DEF DepsOf
    <3>2. CASE m # n
      BY <3>2, <2>2, <1>3 DEF Full, GraphInv, DependenciesActive
    <3> QED BY <3>1, <3>2
  <2> QED BY <2>1, <2>2, <1>3 DEF DependenciesActive
<1>8. EdgesInv'
  BY <1>1, <1>3, <1>4 DEF EdgesInv, EdgeDone
<1>9. /\ Pop \in Seq(Frames(Nodes)) /\ Len(Pop) = Len(stack) - 1
      /\ \A k \in DOMAIN Pop : k \in DOMAIN stack /\ k < Len(stack) /\ Pop[k] = stack[k]
      /\ \A k \in DOMAIN stack : k < Len(stack) => k \in DOMAIN Pop
  BY <1>1, TopFacts, PopFacts
<1>10. CallType'
  BY <1>1, <1>3, <1>9 DEF Full, CallType
<1>11. LoadInv'
  <2> SUFFICES ASSUME NEW k \in DOMAIN Pop, NEW j \in DOMAIN deps[stack[k].node], j < stack[k].i
               PROVE  LET x == deps[stack[k].node][j] IN
                      \/ x \in Nodes /\ (Active(x) \/ x = n)
                      \/ j = stack[k].i - 1 /\ k < Len(Pop) /\ Pop[k + 1].node = x
    <3>1. \A k \in DOMAIN Pop : Pop[k] = stack[k]
      BY <1>9
    <3> QED BY <3>1, <1>1, <1>3 DEF LoadInv, CalledFor
  <2> DEFINE x == deps[stack[k].node][j]
  <2>1. k \in DOMAIN stack /\ k < Len(stack) /\ k \in 1..Len(stack) /\ Len(stack) \in Nat
    BY <1>1, <1>9, TopFacts
  <2>2. x \in Nodes
    BY <1>1, <1>5, <2>1, TopFacts
  <2>3. Active(x) \/ (j = stack[k].i - 1 /\ stack[k + 1].node = x)
    BY <1>1, <2>1 DEF Full, LoadInv, CalledFor
  <2>4. CASE k + 1 = Len(stack)
    BY <2>2, <2>3, <2>4 DEF Top
  <2>5. CASE k + 1 # Len(stack)
    <3>1. k + 1 \in DOMAIN stack /\ k + 1 < Len(stack)
      BY <2>1, <2>5, <1>1, TopFacts
    <3>2. Pop[k + 1] = stack[k + 1] /\ k < Len(Pop)
      BY <3>1, <2>1, <1>9
    <3> QED BY <3>2, <2>2, <2>3
  <2> QED BY <2>4, <2>5
<1>12. UnloadInv' /\ IdleInv'
  BY <1>1, <1>3 DEF Full, UnloadInv, IdleInv, InitCalls
<1> QED BY <1>3, <1>7, <1>8, <1>10, <1>11, <1>12 DEF Full, GraphInv

\* The dependents of a module are modules.
LEMMA DependentFacts ==
    ASSUME Full, NEW m \in Nodes
    PROVE  /\ Dependents(m) \in Seq(1..Len(vertices))
           /\ \A j \in DOMAIN Dependents(m) : /\ j \in Nat \ {0}
                                              /\ Dependents(m)[j] \in DOMAIN vertices
                                              /\ vertices[Dependents(m)[j]].name \in Nodes
<1>1. /\ nodeMap[m] \in DOMAIN in_edges /\ in_edges \in Seq(Seq(1..Len(vertices)))
      /\ DOMAIN vertices = 1..Len(vertices)
  BY DEF Full, GraphInv, GraphType
<1>2. Dependents(m) \in Seq(1..Len(vertices))
  BY <1>1 DEF Dependents
<1>3. \A j \in DOMAIN Dependents(m) : j \in Nat \ {0} /\ Dependents(m)[j] \in DOMAIN vertices
  BY <1>1, <1>2
<1>4. \A v \in DOMAIN vertices : vertices[v].name \in Nodes
  BY DEF Full, GraphInv, VertexNames
<1> QED BY <1>2, <1>3, <1>4
\* One dependent of the module being unloaded.
LEMMA DestroyDependentStep == ASSUME Full, DestroyDependent PROVE Full'
<1> DEFINE D(m) == Dependents(m)
           d == vertices[Dependents(Top.node)[Top.i]].name
<1>1. /\ call = "destroy" /\ stack # <<>> /\ Top.i <= Len(Dependents(Top.node))
      /\ UNCHANGED <<deps, graphVars, mainModuleName>> /\ UNCHANGED <<initializeMap, entry, rootAt>>
      /\ call \notin MakeCalls \cup Crashes
  BY DEF DestroyDependent, MakeCalls, Crashes
<1>2. Top.i \in DOMAIN Dependents(Top.node) /\ d \in Nodes
  <2>1. Top.node \in Nodes /\ Top.i \in Nat \ {0}
    BY <1>1, TopFacts
  <2>2. Dependents(Top.node) \in Seq(1..Len(vertices))
    BY <2>1, DependentFacts
  <2>3. Top.i \in DOMAIN Dependents(Top.node)
    BY <1>1, <2>1, <2>2
  <2> QED BY <2>1, <2>3, DependentFacts
<1>3. \A m \in Nodes : \A j \in DOMAIN deps[m] : EdgeDone(m, j)
  BY <1>1, EdgesDone
<1>5. /\ GraphInv' /\ Nodes' = Nodes
      /\ \A m : Active(m)' = Active(m) /\ Dependents(m)' = Dependents(m)
      /\ \A m, j : EdgeDone(m, j)' = EdgeDone(m, j)
      /\ vertices' = vertices
  BY <1>1, KeptFacts DEF Full, graphVars
<1>6. /\ Advance \in Seq(Frames(Nodes)) /\ Len(Advance) = Len(stack)
      /\ \A k \in DOMAIN stack : Advance[k].node = stack[k].node
      /\ \A k \in DOMAIN stack : k # Len(stack) => Advance[k] = stack[k]
      /\ Advance[Len(stack)].i = Top.i + 1
      /\ DOMAIN Advance = DOMAIN stack
  BY <1>1, TopFacts, AdvanceFacts
<1>7. EdgesInv'
  BY <1>1, <1>3, <1>5 DEF EdgesInv
<1>8. ASSUME NEW k \in DOMAIN stack, NEW j \in DOMAIN Dependents(stack[k].node), j < Advance[k].i
      PROVE  LET x == vertices[Dependents(stack[k].node)[j]].name IN
             \/ ~Active(x)
             \/ j = Advance[k].i - 1 /\ CalledFor(k, x)
             \/ k = Len(stack) /\ j = Top.i
  <2> DEFINE x == vertices[Dependents(stack[k].node)[j]].name
  <2>1. j \in Nat
    BY <1>1, TopFacts, DependentFacts
  <2>2. CASE k = Len(stack)
    <3>1. j < Top.i \/ j = Top.i
      BY <2>1, <2>2, <1>1, <1>6, <1>8, TopFacts
    <3>2. ~CalledFor(k, x)
      BY <2>2, <1>1, TopFacts DEF CalledFor
    <3> QED BY <3>1, <3>2, <2>2, <1>1 DEF Full, UnloadInv, Top
  <2>3. CASE k # Len(stack)
    BY <2>3, <1>1, <1>6, <1>8 DEF Full, UnloadInv
  <2> QED BY <2>2, <2>3
<1>9. CASE ~Active(d)
  <2>1. stack' = Advance /\ call' = call
    BY <1>9 DEF DestroyDependent, NeedsDestroy
  <2>2. CallType'
    BY <1>1, <1>5, <1>6, <2>1 DEF Full, CallType
  <2>3. UnloadInv'
    <3>1. \A k \in DOMAIN stack : \A m : CalledFor(k, m)' = CalledFor(k, m)
      BY <1>1, <1>6, <2>1, TopFacts DEF CalledFor
    <3> QED BY <3>1, <1>1, <1>5, <1>6, <1>8, <1>9, <2>1 DEF UnloadInv, Top
  <2>4. LoadInv' /\ IdleInv'
    BY <1>1, <1>5, <2>1 DEF Full, LoadInv, IdleInv, InitCalls
  <2> QED BY <1>5, <1>7, <2>2, <2>3, <2>4 DEF Full
<1>10. CASE Active(d)
  <2>1. Enter(Append(Advance, Frame(d)), call)
    BY <1>10 DEF DestroyDependent, NeedsDestroy
  <2>2. CASE stack' = <<>> /\ call' = "overflow"
    <3>1. CallType'
      BY <1>1, <1>5, <2>2 DEF Full, CallType, Calls, Crashes
    <3> QED BY <3>1, <1>5, <2>2, CrashStep DEF Crashes
  <2>3. CASE stack' = Append(Advance, Frame(d)) /\ call' = call
    <3>1. /\ stack' \in Seq(Frames(Nodes)) /\ Len(stack') = Len(stack) + 1
          /\ \A k \in DOMAIN stack : stack'[k] = Advance[k]
          /\ stack'[Len(stack) + 1].node = d /\ stack'[Len(stack) + 1].i = 1
          /\ DOMAIN stack' = DOMAIN stack \cup {Len(stack) + 1}
      BY <1>2, <1>6, <2>3, PushFacts
    <3>2. CallType'
      BY <1>1, <1>5, <2>3, <3>1 DEF Full, CallType
    <3>3. UnloadInv'
      <4>1. \A k \in DOMAIN stack : \A m : CalledFor(k, m) => CalledFor(k, m)'
        BY <1>1, <1>6, <3>1, TopFacts DEF CalledFor
      <4>2. Len(stack) < Len(stack') /\ stack'[Len(stack) + 1].node = d
        BY <1>1, <3>1, TopFacts
      <4>3. ASSUME NEW k \in DOMAIN stack, NEW j \in DOMAIN Dependents(stack[k].node),
                   j < Advance[k].i, NEW x, x = vertices[Dependents(stack[k].node)[j]].name
            PROVE  ~Active(x) \/ (j = Advance[k].i - 1 /\ CalledFor(k, x)')
        <5>1. CASE k = Len(stack) /\ j = Top.i
          <6>1. Advance[k].i = Top.i + 1 /\ x = d
            BY <5>1, <4>3, <1>6 DEF Top
          <6> QED BY <6>1, <5>1, <4>2, <1>1, TopFacts DEF CalledFor
        <5>2. CASE ~(k = Len(stack) /\ j = Top.i)
          BY <5>2, <4>1, <4>3, <1>8
        <5> QED BY <5>1, <5>2
      <4>4. \A j \in DOMAIN Dependents(d) : ~(j < 1)
        BY <1>2, DependentFacts
      <4>5. SUFFICES ASSUME NEW k \in DOMAIN stack', NEW j \in DOMAIN Dependents(stack'[k].node),
                            j < stack'[k].i, NEW x, x = vertices[Dependents(stack'[k].node)[j]].name
                     PROVE  ~Active(x) \/ (j = stack'[k].i - 1 /\ CalledFor(k, x)')
        BY <1>5, <2>3 DEF UnloadInv
      <4> QED BY <4>3, <4>4, <4>5, <1>6, <3>1
    <3>4. LoadInv' /\ IdleInv'
      BY <1>1, <1>5, <2>3 DEF Full, LoadInv, IdleInv, InitCalls
    <3> QED BY <1>5, <1>7, <3>2, <3>3, <3>4 DEF Full
  <2> QED BY <2>1, <2>2, <2>3 DEF Enter
<1> QED BY <1>9, <1>10

\* on_unload: every dependent of the module is inactive.
LEMMA OnUnloadStep == ASSUME Full, OnUnload PROVE Full'
<1> DEFINE n == Top.node
<1>1. /\ call = "destroy" /\ stack # <<>> /\ Top.i > Len(Dependents(n))
      /\ SetActive(n, FALSE) /\ stack' = Pop /\ call' = call
      /\ UNCHANGED <<deps, modulesMap, nodeMap, in_edges, roots>>
      /\ UNCHANGED <<initializeMap, mainModuleName, entry, rootAt>>
      /\ call \notin MakeCalls \cup Crashes
  BY DEF OnUnload, MakeCalls, Crashes
<1>2. n \in Nodes
  BY <1>1, TopFacts
<1>3. /\ GraphType' /\ CountInv' /\ VertexNames' /\ Nodes' = Nodes
      /\ \A m \in Nodes : Active(m)' <=> Active(m) /\ m # n
      /\ \A v \in DOMAIN vertices : vertices'[v].name = vertices[v].name
  BY <1>1, <1>2, SetActiveFacts DEF Full, Nodes
<1>4. \A m \in Nodes : \A j \in DOMAIN deps[m] : EdgeDone(m, j)
  BY <1>1, EdgesDone
<1>5. \A e \in DOMAIN Dependents(n) : ~Active(vertices[Dependents(n)[e]].name)
  <2>1. ASSUME NEW e \in DOMAIN Dependents(n) PROVE e < Top.i
    <3>1. Dependents(n) \in Seq(1..Len(vertices))
      BY <1>2, DependentFacts
    <3> QED BY <3>1, <1>1, TopFacts
  <2>2. \A m : ~CalledFor(Len(stack), m)
    BY <1>1, TopFacts DEF CalledFor
  <2> QED BY <1>1, <2>1, <2>2, TopFacts DEF Full, UnloadInv, Top
<1>6. ASSUME NEW m \in Nodes, Active(m) PROVE n \notin DepsOf(m)
  <2>1. SUFFICES ASSUME NEW j \in DOMAIN deps[m], deps[m][j] = n PROVE FALSE
    BY DEF DepsOf
  <2>2. PICK e \in DOMAIN Dependents(n) : Dependents(n)[e] = nodeMap[m]
    BY <1>4, <2>1 DEF EdgeDone, Dependents
  <2>3. vertices[nodeMap[m]].name = m
    BY DEF Full, GraphInv, VertexNames
  <2> QED BY <1>5, <1>6, <2>2, <2>3
<1>7. DependenciesActive'
  <2>1. \A m \in Nodes : DepsOf(m)' = DepsOf(m)
    BY <1>1 DEF DepsOf
  <2> QED BY <2>1, <1>3, <1>6 DEF DependenciesActive, Full, GraphInv
<1>8. EdgesInv'
  BY <1>1, <1>3, <1>4 DEF EdgesInv, EdgeDone
<1>9. /\ Pop \in Seq(Frames(Nodes)) /\ Len(Pop) = Len(stack) - 1
      /\ \A k \in DOMAIN Pop : k \in DOMAIN stack /\ k < Len(stack) /\ Pop[k] = stack[k]
      /\ \A k \in DOMAIN stack : k < Len(stack) => k \in DOMAIN Pop
  BY <1>1, TopFacts, PopFacts
<1>10. CallType'
  BY <1>1, <1>3, <1>9 DEF Full, CallType
<1>11. UnloadInv'
  <2> SUFFICES ASSUME NEW k \in DOMAIN Pop, NEW j \in DOMAIN Dependents(stack[k].node),
                      j < stack[k].i, NEW x, x = vertices[Dependents(stack[k].node)[j]].name
               PROVE  \/ x \in Nodes /\ (~Active(x) \/ x = n)
                      \/ j = stack[k].i - 1 /\ k < Len(Pop) /\ Pop[k + 1].node = x
    <3>1. \A k \in DOMAIN Pop : Pop[k] = stack[k] /\ stack[k].node \in Nodes
      BY <1>1, <1>9, TopFacts
    <3>2. \A m : Dependents(m)' = Dependents(m)
      BY <1>1 DEF Dependents
    <3>3. ASSUME NEW m \in Nodes, NEW j \in DOMAIN Dependents(m)
          PROVE  vertices'[Dependents(m)[j]].name = vertices[Dependents(m)[j]].name
      BY <1>3, <3>3, DependentFacts
    <3> QED BY <3>1, <3>2, <3>3, <1>1, <1>3 DEF UnloadInv, CalledFor
  <2>1. k \in DOMAIN stack /\ k < Len(stack) /\ k \in 1..Len(stack) /\ Len(stack) \in Nat
    BY <1>1, <1>9, TopFacts
  <2>2. x \in Nodes
    BY <1>1, <2>1, TopFacts, DependentFacts
  <2>3. ~Active(x) \/ (j = stack[k].i - 1 /\ stack[k + 1].node = x)
    BY <1>1, <2>1 DEF Full, UnloadInv, CalledFor
  <2>4. CASE k + 1 = Len(stack)
    BY <2>2, <2>3, <2>4 DEF Top
  <2>5. CASE k + 1 # Len(stack)
    <3>1. k + 1 \in DOMAIN stack /\ k + 1 < Len(stack)
      BY <2>1, <2>5, <1>1, TopFacts
    <3>2. Pop[k + 1] = stack[k + 1] /\ k < Len(Pop)
      BY <3>1, <2>1, <1>9
    <3> QED BY <3>2, <2>2, <2>3
  <2> QED BY <2>4, <2>5
<1>12. LoadInv' /\ IdleInv'
  BY <1>1, <1>3 DEF Full, LoadInv, IdleInv, InitCalls
<1> QED BY <1>3, <1>7, <1>8, <1>10, <1>11, <1>12 DEF Full, GraphInv

-----------------------------------------------------------------------------
\* The initial states satisfy IInv.
LEMMA InitFull == Init => Full
<1> SUFFICES ASSUME Init PROVE Full
  OBVIOUS
<1>1. Nodes = {}
  BY DEF Init, Nodes
<1>2. GraphType
  BY <1>1 DEF Init, GraphType, Nodes
<1>3. CountInv
  BY <1>1, FS_EmptySet DEF Init, CountInv
<1>4. CallType
  BY DEF Init, CallType, Calls
<1> QED BY <1>1, <1>2, <1>3, <1>4 DEF Init, Full, GraphInv, VertexNames, DependenciesActive,
           EdgesInv, LoadInv, UnloadInv, IdleInv, MakeCalls, InitCalls, Crashes

\* The inductive invariant holds in every state of every call, whatever the
\* dependency lists are.
THEOREM Invariance == Spec => []IInv
<1>1. Init => Full
  BY InitFull
<1>2. Full /\ [Next]_vars => Full'
  <2> SUFFICES ASSUME Full, [Next]_vars PROVE Full'
    OBVIOUS
  <2>1. ASSUME NEW m \in Module, NEW shared \in BOOLEAN,
               MakeModuleGraph(m, shared) \/ PatchModuleGraph(m, shared)
        PROVE  Full'
    BY <2>1, BeginMakeStep DEF MakeModuleGraph, PatchModuleGraph, MakeCalls
  <2> QED BY <2>1, PlainStep, MakeEndStep, InitModuleGraphStep, DestroyRootStep, MakeReturnStep,
             MakeDependencyStep, InitDependencyStep, OnLoadStep, DestroyDependentStep, OnUnloadStep
      DEF Next, Step
<1> QED BY <1>1, <1>2, FullIsIInv, PTL DEF Spec

\* Every variable keeps its type, and the stack only holds modules of the graph.
THEOREM TypeCorrect == Spec => []TypeOK
<1>1. IInv => TypeOK
  BY DEF IInv
<1> QED BY <1>1, Invariance, PTL

\* nodeMap and the vertices of the graph always agree.
THEOREM Names == Spec => []VertexNames
<1>1. IInv => VertexNames
  BY DEF IInv
<1> QED BY <1>1, Invariance, PTL

\* No module is ever active without its dependencies: the order of on_load and
\* on_unload is right for every graph, main module and sequence of patches.
THEOREM DependencyOrder == Spec => []DependenciesActive
<1>1. IInv => DependenciesActive
  BY DEF IInv
<1> QED BY <1>1, Invariance, PTL

-----------------------------------------------------------------------------
(* What is made, and that each module is loaded and unloaded once.  This   *)
(* second invariant is proved on top of the first.                         *)

\* The graph has edges for dependencies only, and its roots have none.
SoundInv ==
    /\ \A n \in Nodes : \A e \in DOMAIN Dependents(n) : n \in DepsOf(vertices[Dependents(n)[e]].name)
    /\ {roots[j] : j \in DOMAIN roots} = {m \in Nodes : deps[m] = <<>>}

\* Modules with cyclic dependencies are never active: the active ones can be
\* numbered upwards.
RankInv ==
    \E R \in Nat : \E rank \in [Module -> 0..R] :
        \A m \in Nodes : Active(m) => \A d \in DepsOf(m) : rank[d] < rank[m]

\* The modules of a loading stack are inactive and depend on each other, those
\* of an unloading stack are active and each is a dependent of the one below.
LoadChain(k) ==
    /\ ~Active(stack[k].node)
    /\ k < Len(stack) => \E j \in DOMAIN deps[stack[k].node] : stack[k + 1].node = deps[stack[k].node][j]
UnloadChain(k) ==
    /\ Active(stack[k].node)
    /\ k < Len(stack) => \E j \in DOMAIN Dependents(stack[k].node) :
           stack[k + 1].node = vertices[Dependents(stack[k].node)[j]].name
ChainInv ==
    /\ call \in InitCalls => \A k \in DOMAIN stack : LoadChain(k)
    /\ call = "destroy" => \A k \in DOMAIN stack : UnloadChain(k)

\* The roots that destroy_module_graph has gone through are inactive, but for
\* the one it is in.
RootsInv ==
    call = "destroy" => \A j \in DOMAIN roots : j < rootAt =>
        ~Active(roots[j]) \/ (stack # <<>> /\ stack[1].node = roots[j])

OrderInv == SoundInv /\ RankInv /\ ChainInv /\ RootsInv

\* The graph stays.
LEMMA OrderKept ==
    ASSUME Full, SoundInv, RankInv, UNCHANGED <<deps, graphVars>>
    PROVE  SoundInv' /\ RankInv'
<1>1. /\ Nodes' = Nodes /\ \A m : Active(m)' = Active(m) /\ Dependents(m)' = Dependents(m)
  BY KeptFacts DEF Full
<1>2. (\A m : DepsOf(m)' = DepsOf(m)) /\ vertices' = vertices /\ roots' = roots
  BY DEF DepsOf, graphVars
<1>3. SoundInv'
  BY <1>1, <1>2 DEF SoundInv
<1>4. RankInv'
  BY <1>1, <1>2 DEF RankInv
<1> QED BY <1>3, <1>4

\* A function that is none of those that load and unload runs next.
LEMMA OrderOther ==
    ASSUME call' \notin InitCalls \cup {"destroy"}
    PROVE  ChainInv' /\ RootsInv'
BY DEF ChainInv, RootsInv

\* A module gets a vertex without edges, and becomes a root if it has no dependencies.
LEMMA OrderAdd ==
    ASSUME Full, SoundInv, RankInv, NEW m \in Module, m \notin Nodes, AddNode(m), UNCHANGED deps
    PROVE  SoundInv' /\ RankInv'
<1>0. GraphInv /\ GraphType
  BY DEF Full, GraphInv
<1>1. /\ Nodes' = Nodes \cup {m} /\ (\A n \in Nodes : nodeMap'[n] = nodeMap[n]) /\ GraphInv'
      /\ \A v \in DOMAIN vertices : vertices'[v] = vertices[v] /\ in_edges'[v] = in_edges[v]
  BY <1>0, AddNodeFacts
<1>2. nodeMap'[m] = Len(vertices) + 1
  BY <1>0 DEF GraphInv, CountInv, NewVertex, Nodes, AddNode
<1>3. in_edges'[Len(vertices) + 1] = <<>> /\ vertices'[Len(vertices) + 1].bActive = FALSE
  <2>1. in_edges' = Append(in_edges, <<>>) /\ vertices' = Append(vertices, [bActive |-> FALSE, name |-> m])
    BY DEF AddNode
  <2>2. Len(in_edges) = Len(vertices) /\ in_edges \in Seq(Seq(1..Len(vertices))) /\ vertices \in Seq(Props)
    BY <1>0 DEF GraphType
  <2> QED BY <2>1, <2>2
<1>4. \A n : DepsOf(n)' = DepsOf(n)
  BY DEF DepsOf
<1>5. ASSUME NEW n \in Nodes
      PROVE  /\ Dependents(n)' = Dependents(n) /\ Active(n)' = Active(n)
             /\ \A e \in DOMAIN Dependents(n) : vertices'[Dependents(n)[e]] = vertices[Dependents(n)[e]]
  <2>1. nodeMap[n] \in DOMAIN vertices /\ nodeMap'[n] = nodeMap[n]
    BY <1>0, <1>1 DEF GraphInv, VertexNames
  <2> QED BY <1>1, <2>1, DependentFacts DEF Dependents, Active
<1>6. DOMAIN Dependents(m)' = {} /\ ~Active(m)'
  BY <1>2, <1>3 DEF Dependents, Active
<1>7. \A n \in Nodes' : \A e \in DOMAIN Dependents(n)' : n \in DepsOf(vertices'[Dependents(n)'[e]].name)
  BY <1>1, <1>5, <1>6 DEF SoundInv
<1>8. {roots'[j] : j \in DOMAIN roots'} = {n \in Nodes' : deps[n] = <<>>}
  <2>0. roots' = RootsWith(m) /\ roots \in Seq(Nodes)
    BY <1>0 DEF AddNode, GraphType
  <2>1. CASE deps[m] = <<>>
    <3>1. roots' = Append(roots, m)
      BY <2>0, <2>1 DEF RootsWith
    <3>2. /\ DOMAIN roots' = DOMAIN roots \cup {Len(roots) + 1} /\ roots'[Len(roots) + 1] = m
          /\ \A j \in DOMAIN roots : roots'[j] = roots[j]
      BY <2>0, <3>1
    <3>3. {roots'[j] : j \in DOMAIN roots'} = {roots[j] : j \in DOMAIN roots} \cup {m}
      BY <3>2
    <3> QED BY <1>1, <2>1, <3>3 DEF SoundInv
  <2>2. CASE deps[m] # <<>>
    BY <1>1, <2>0, <2>2 DEF RootsWith, SoundInv
  <2> QED BY <2>1, <2>2
<1>9. SoundInv'
  BY <1>4, <1>7, <1>8 DEF SoundInv
<1>10. RankInv'
  <2>1. \A n \in Nodes' : Active(n)' => n \in Nodes /\ Active(n)
    BY <1>1, <1>5, <1>6
  <2> QED BY <1>4, <2>1 DEF RankInv
<1> QED BY <1>9, <1>10

\* The running module gets its edge to d.
LEMMA OrderEdge ==
    ASSUME Full, SoundInv, RankInv, NEW n \in Nodes, NEW d \in Nodes, d \in DepsOf(n),
           in_edges' = [in_edges EXCEPT ![nodeMap[d]] = Append(@, nodeMap[n])],
           UNCHANGED <<deps, modulesMap, nodeMap, vertices, roots>>
    PROVE  SoundInv' /\ RankInv'
<1>0. GraphInv /\ GraphType /\ VertexNames
  BY DEF Full, GraphInv
<1>1. Nodes' = Nodes /\ (\A m : DepsOf(m)' = DepsOf(m)) /\ \A m : Active(m)' = Active(m)
  BY DEF Nodes, DepsOf, Active
<1>2. /\ nodeMap[d] \in DOMAIN in_edges /\ in_edges[nodeMap[d]] \in Seq(1..Len(vertices))
      /\ vertices[nodeMap[n]].name = n /\ nodeMap[n] \in 1..Len(vertices)
  BY <1>0 DEF GraphType, VertexNames
<1>3. ASSUME NEW m \in Nodes, m # d PROVE Dependents(m)' = Dependents(m)
  <2>1. nodeMap[m] # nodeMap[d]
    BY <1>0, <1>3 DEF VertexNames
  <2>2. nodeMap[m] \in DOMAIN in_edges
    BY <1>0 DEF GraphType
  <2> QED BY <2>1, <2>2 DEF Dependents
<1>4. Dependents(d)' = Append(Dependents(d), nodeMap[n])
  BY <1>2 DEF Dependents
<1>5. \A e \in DOMAIN Dependents(d)' :
          \/ e \in DOMAIN Dependents(d) /\ Dependents(d)'[e] = Dependents(d)[e]
          \/ Dependents(d)'[e] = nodeMap[n]
  <2>1. Dependents(d) \in Seq(1..Len(vertices))
    BY DependentFacts
  <2> QED BY <1>2, <1>4, <2>1
<1>6. \A m \in Nodes : \A e \in DOMAIN Dependents(m)' : m \in DepsOf(vertices[Dependents(m)'[e]].name)
  BY <1>2, <1>3, <1>5 DEF SoundInv
<1>7. SoundInv'
  BY <1>1, <1>6 DEF SoundInv
<1>8. RankInv'
  BY <1>1 DEF RankInv
<1> QED BY <1>7, <1>8

\* make_module_graph, patch_module_graph and __internal_MakeModuleGraph.
LEMMA OrderCallMake ==
    ASSUME Full, SoundInv, RankInv, NEW m \in Module, m \notin Nodes, NEW shared, NEW running \in MakeCalls,
           CallMake(m, shared, running), UNCHANGED deps
    PROVE  OrderInv'
<1>1. call' \notin InitCalls \cup {"destroy"}
  BY DEF CallMake, Enter, MakeCalls, InitCalls
<1>2. SoundInv' /\ RankInv'
  BY OrderAdd, OrderKept DEF CallMake
<1> QED BY <1>1, <1>2, OrderOther DEF OrderInv

\* The calls of make_module_graph and patch_module_graph keep OrderInv.
LEMMA OrderBeginMake ==
    ASSUME Full, OrderInv, NEW m \in Module, NEW shared, NEW kind \in MakeCalls, BeginMake(m, shared, kind)
    PROVE  OrderInv'
<1>1. UNCHANGED deps
  BY DEF BeginMake
<1>2. CASE m \notin Nodes
  BY <1>1, <1>2, OrderCallMake DEF BeginMake, Nodes, OrderInv
<1>3. CASE m \in Nodes
  <2>1. call' = kind /\ UNCHANGED <<graphVars, stack>>
    BY <1>3 DEF BeginMake, Nodes
  <2>2. call' \notin InitCalls \cup {"destroy"}
    BY <2>1 DEF MakeCalls, InitCalls
  <2> QED BY <1>1, <2>1, <2>2, OrderKept, OrderOther DEF OrderInv
<1> QED BY <1>2, <1>3

\* A round of the loop of __internal_MakeModuleGraph keeps OrderInv.
LEMMA OrderMakeDependency == ASSUME Full, OrderInv, MakeDependency PROVE OrderInv'
<1>d. PICK d : d = deps[Top.node][Top.i]
  OBVIOUS
<1>1. call \in MakeCalls /\ stack # <<>> /\ Top.i <= Len(deps[Top.node]) /\ UNCHANGED deps
  BY DEF MakeDependency
<1>2. d \in Module /\ d \in DepsOf(Top.node) /\ Top.node \in Nodes
  BY <1>1, <1>d, NextDependency, TopFacts DEF DepsOf
<1>3. CASE d \notin Nodes
  <2>1. CallMake(d, d \notin initializeMap, call)
    BY <1>3, <1>d DEF MakeDependency, Nodes
  <2> QED BY <1>1, <1>2, <1>3, <2>1, OrderCallMake DEF OrderInv
<1>4. CASE d \in Nodes
  <2>1. /\ in_edges' = [in_edges EXCEPT ![nodeMap[d]] = Append(@, nodeMap[Top.node])]
        /\ call' = call /\ UNCHANGED <<deps, modulesMap, nodeMap, vertices, roots>>
    BY <1>1, <1>4, <1>d DEF MakeDependency, Nodes
  <2>2. call' \notin InitCalls \cup {"destroy"}
    BY <1>1, <2>1 DEF MakeCalls, InitCalls
  <2>3. SoundInv' /\ RankInv'
    BY <1>2, <1>4, <2>1, OrderEdge DEF OrderInv
  <2> QED BY <2>2, <2>3, OrderOther DEF OrderInv
<1> QED BY <1>3, <1>4

\* Loading begins with an inactive module or none, unloading with an active one.
LEMMA OrderFirst ==
    ASSUME Full, NEW m \in Nodes, UNCHANGED <<deps, graphVars>>, stack' = <<>> \/ stack' = <<Frame(m)>>,
           \/ call' \in InitCalls /\ (stack' # <<>> => ~Active(m))
           \/ call' = "destroy" /\ (stack' # <<>> => Active(m))
    PROVE  ChainInv'
<1>1. /\ Nodes' = Nodes /\ \A n : Active(n)' = Active(n)
  BY KeptFacts DEF Full
<1>2. \A k \in DOMAIN stack' : stack' # <<>> /\ stack'[k].node = m /\ ~(k < Len(stack'))
  <2>1. CASE stack' = <<>>
    BY <2>1
  <2>2. CASE stack' = <<Frame(m)>>
    BY <2>2 DEF Frame
  <2> QED BY <2>1, <2>2
<1>3. "destroy" \notin InitCalls
  BY DEF InitCalls
<1> QED BY <1>1, <1>2, <1>3 DEF ChainInv, LoadChain, UnloadChain

\* The end of a making call keeps OrderInv.
LEMMA OrderMakeEnd == ASSUME Full, OrderInv, MakeEnd PROVE OrderInv'
<1>1. call \in MakeCalls /\ UNCHANGED <<deps, graphVars>> /\ entry \in Nodes /\ stack = <<>>
  BY DEF MakeEnd, Full, IdleInv
<1>2. SoundInv' /\ RankInv'
  BY <1>1, OrderKept DEF OrderInv
<1>3. CASE call = "patch"
  <2>1. call' = "patchinit" /\ stack' = InitFrames(entry)
    BY <1>3 DEF MakeEnd
  <2>2. call' \in InitCalls /\ (stack' = <<>> \/ stack' = <<Frame(entry)>>) /\ (stack' # <<>> => ~Active(entry))
    BY <2>1 DEF InitFrames, InitCalls
  <2>3. ChainInv'
    BY <1>1, <2>2, OrderFirst
  <2>4. RootsInv'
    BY <2>1 DEF RootsInv
  <2> QED BY <1>2, <2>3, <2>4 DEF OrderInv
<1>4. CASE call # "patch"
  <2>1. call' \notin InitCalls \cup {"destroy"}
    BY <1>4 DEF MakeEnd, InitCalls
  <2> QED BY <1>2, <2>1, OrderOther DEF OrderInv
<1> QED BY <1>3, <1>4

\* The call of init_module_graph keeps OrderInv.
LEMMA OrderInitModuleGraph == ASSUME Full, OrderInv, InitModuleGraph PROVE OrderInv'
<1>1. /\ call' = "init" /\ UNCHANGED <<deps, graphVars>> /\ mainModuleName \in Nodes
      /\ stack' = InitFrames(mainModuleName)
  BY DEF InitModuleGraph, Full, IdleInv, Crashes
<1>2. SoundInv' /\ RankInv'
  BY <1>1, OrderKept DEF OrderInv
<1>3. ChainInv'
  <2>1. /\ call' \in InitCalls /\ (stack' = <<>> \/ stack' = <<Frame(mainModuleName)>>)
        /\ (stack' # <<>> => ~Active(mainModuleName))
    BY <1>1 DEF InitFrames, InitCalls
  <2> QED BY <1>1, <2>1, OrderFirst
<1> QED BY <1>1, <1>2, <1>3 DEF OrderInv, RootsInv

\* A round of the loop over the roots in destroy_module_graph keeps OrderInv.
LEMMA OrderDestroyRoot == ASSUME Full, OrderInv, DestroyRoot PROVE OrderInv'
<1>r. PICK r : r = roots[rootAt]
  OBVIOUS
<1>1. /\ call = "destroy" /\ call' = "destroy" /\ stack = <<>> /\ rootAt <= Len(roots) /\ rootAt' = rootAt + 1
      /\ stack' = IF Active(r) THEN <<Frame(r)>> ELSE <<>>
      /\ UNCHANGED <<deps, graphVars>>
  BY <1>r DEF DestroyRoot
<1>2. roots \in Seq(Nodes) /\ rootAt \in Nat \ {0} /\ r \in Nodes
  BY <1>1, <1>r DEF Full, CallType, GraphInv, GraphType
<1>3. SoundInv' /\ RankInv' /\ roots' = roots /\ \A m : Active(m)' = Active(m)
  BY <1>1, OrderKept, KeptFacts DEF OrderInv, Full, graphVars
<1>4. ChainInv'
  BY <1>1, <1>2, OrderFirst
<1>5. RootsInv'
  <2> SUFFICES ASSUME NEW j \in DOMAIN roots, j < rootAt + 1
               PROVE  ~Active(roots[j]) \/ (stack' # <<>> /\ stack'[1].node = roots[j])
    BY <1>1, <1>3 DEF RootsInv
  <2>1. CASE j = rootAt
    BY <1>1, <1>r, <2>1 DEF Frame
  <2>2. CASE j # rootAt
    <3>1. j < rootAt
      BY <1>2, <2>2
    <3> QED BY <1>1, <3>1 DEF OrderInv, RootsInv
  <2> QED BY <2>1, <2>2
<1> QED BY <1>3, <1>4, <1>5 DEF OrderInv

\* Steps that neither change the graph nor go on in a loop.
LEMMA OrderPlain ==
    ASSUME Full, OrderInv,
           \/ \E m \in Module : RegisterStaticallyLinkedModule(m)
           \/ DestroyModuleGraph \/ DestroyEnd \/ InitEnd \/ MainModuleExec \/ MakeReturn
           \/ Crashed \/ UNCHANGED vars
    PROVE  OrderInv'
<1>1. UNCHANGED <<deps, graphVars>>
  BY DEF RegisterStaticallyLinkedModule, DestroyModuleGraph, DestroyEnd, InitEnd, MainModuleExec,
         MakeReturn, Crashed, vars
<1>2. SoundInv' /\ RankInv'
  BY <1>1, OrderKept DEF OrderInv
<1>3. \/ UNCHANGED <<call, stack, rootAt>>
      \/ call' \notin InitCalls \cup {"destroy"}
      \/ call' = "destroy" /\ stack' = <<>> /\ rootAt' = 1
  BY DEF RegisterStaticallyLinkedModule, DestroyModuleGraph, DestroyEnd, InitEnd, MainModuleExec,
         MakeReturn, Crashed, vars, callVars, Full, IdleInv, MakeCalls, InitCalls, Crashes
<1>4. CASE UNCHANGED <<call, stack, rootAt>>
  BY <1>1, <1>2, <1>4 DEF OrderInv, ChainInv, RootsInv, LoadChain, UnloadChain, Active, Dependents, graphVars
<1>5. CASE call' \notin InitCalls \cup {"destroy"}
  BY <1>2, <1>5, OrderOther DEF OrderInv
<1>6. CASE call' = "destroy" /\ stack' = <<>> /\ rootAt' = 1
  <2>1. \A j \in DOMAIN roots' : ~(j < 1)
    BY <1>1 DEF graphVars, Full, GraphInv, GraphType
  <2> QED BY <1>2, <1>6, <2>1 DEF OrderInv, ChainInv, RootsInv, InitCalls
<1> QED BY <1>3, <1>4, <1>5, <1>6

\* The stack of a loop after its round: the same modules, and perhaps one more.
LEMMA AdvanceOrPush ==
    ASSUME Full, stack # <<>>, NEW d \in Nodes, stack' = Advance \/ stack' = Append(Advance, Frame(d))
    PROVE  /\ \A k \in DOMAIN stack : k \in DOMAIN stack' /\ stack'[k].node = stack[k].node
           /\ \/ Len(stack') = Len(stack) /\ DOMAIN stack' = DOMAIN stack
              \/ /\ Len(stack') = Len(stack) + 1 /\ stack'[Len(stack) + 1].node = d
                 /\ DOMAIN stack' = DOMAIN stack \cup {Len(stack) + 1}
                 /\ stack' = Append(Advance, Frame(d))
<1>1. /\ Advance \in Seq(Frames(Nodes)) /\ Len(Advance) = Len(stack)
      /\ \A k \in DOMAIN stack : Advance[k].node = stack[k].node
      /\ DOMAIN Advance = DOMAIN stack
  BY TopFacts, AdvanceFacts
<1>2. CASE stack' = Advance
  BY <1>1, <1>2
<1>3. CASE stack' = Append(Advance, Frame(d))
  <2>1. /\ stack' \in Seq(Frames(Nodes)) /\ Len(stack') = Len(stack) + 1
        /\ \A k \in DOMAIN stack : stack'[k] = Advance[k]
        /\ stack'[Len(stack) + 1].node = d
    BY <1>1, <1>3, PushFacts
  <2>2. DOMAIN stack' = DOMAIN stack \cup {Len(stack) + 1}
    BY <2>1, TopFacts
  <2> QED BY <1>1, <1>3, <2>1, <2>2
<1> QED BY <1>2, <1>3

\* One dependency of the module being loaded.
LEMMA OrderInitDependency == ASSUME Full, OrderInv, InitDependency PROVE OrderInv'
<1>d. PICK d : d = deps[Top.node][Top.i]
  OBVIOUS
<1>1. /\ call \in InitCalls /\ stack # <<>> /\ Top.i <= Len(deps[Top.node])
      /\ UNCHANGED <<deps, graphVars>> /\ call \notin MakeCalls \cup Crashes
      /\ IF ~Active(d) THEN Enter(Append(Advance, Frame(d)), call) ELSE stack' = Advance /\ call' = call
  BY <1>d DEF InitDependency, NeedsInit, MakeCalls, InitCalls, Crashes
<1>2. Top.i \in DOMAIN deps[Top.node] /\ d \in Nodes
  BY <1>1, <1>d, NextDependency, EdgesDone, TopFacts DEF EdgeDone
<1>3. SoundInv' /\ RankInv'
  BY <1>1, OrderKept DEF OrderInv
<1>4. CASE call' = "overflow"
  BY <1>3, <1>4, OrderOther DEF OrderInv, InitCalls
<1>5. CASE call' = call /\ (stack' = Advance \/ (~Active(d) /\ stack' = Append(Advance, Frame(d))))
  <2>1. \A m : Active(m)' = Active(m)
    BY <1>1, KeptFacts DEF Full
  <2>2. RootsInv'
    BY <1>1, <1>5 DEF RootsInv, InitCalls
  <2>3. /\ \A k \in DOMAIN stack : k \in DOMAIN stack' /\ stack'[k].node = stack[k].node
        /\ \/ Len(stack') = Len(stack) /\ DOMAIN stack' = DOMAIN stack
           \/ /\ Len(stack') = Len(stack) + 1 /\ stack'[Len(stack) + 1].node = d
              /\ DOMAIN stack' = DOMAIN stack \cup {Len(stack) + 1}
              /\ stack' = Append(Advance, Frame(d))
    BY <1>1, <1>2, <1>5, AdvanceOrPush
  <2>4. \A k \in DOMAIN stack : LoadChain(k)
    BY <1>1 DEF OrderInv, ChainInv
  <2>5. Len(stack) \in Nat /\ \A k \in DOMAIN stack : k \in 1..Len(stack)
    BY <1>1, TopFacts
  <2>6. ASSUME NEW k \in DOMAIN stack' PROVE LoadChain(k)'
    <3>1. CASE k \in DOMAIN stack /\ k < Len(stack)
      <4>1. k + 1 \in DOMAIN stack
        BY <2>5, <3>1
      <4> QED BY <1>1, <2>1, <2>3, <2>4, <3>1, <4>1 DEF LoadChain
    <3>2. CASE k = Len(stack)
      <4>1. stack'[k].node = Top.node /\ ~Active(Top.node)
        BY <1>1, <2>3, <2>4, <3>2, TopFacts DEF LoadChain, Top
      <4>2. k < Len(stack') => stack'[k + 1].node = deps[Top.node][Top.i]
        BY <1>d, <2>3, <2>5, <3>2
      <4> QED BY <1>1, <1>2, <2>1, <4>1, <4>2 DEF LoadChain
    <3>3. CASE k \notin DOMAIN stack
      <4>1. stack'[k].node = d /\ k = Len(stack')
        BY <2>3, <2>6, <3>3
      <4>2. stack' # Advance
        BY <2>3, <2>6, <3>3, <1>1, TopFacts, AdvanceFacts
      <4>3. ~(k < Len(stack'))
        BY <2>3, <2>5, <4>1
      <4> QED BY <1>5, <2>1, <4>1, <4>2, <4>3 DEF LoadChain
    <3> QED BY <2>5, <3>1, <3>2, <3>3
  <2>7. ChainInv'
    BY <1>1, <1>5, <2>6 DEF ChainInv, InitCalls
  <2> QED BY <1>3, <2>2, <2>7 DEF OrderInv
<1> QED BY <1>1, <1>4, <1>5 DEF Enter

\* One dependent of the module being unloaded.
LEMMA OrderDestroyDependent == ASSUME Full, OrderInv, DestroyDependent PROVE OrderInv'
<1>d. PICK d : d = vertices[Dependents(Top.node)[Top.i]].name
  OBVIOUS
<1>1. /\ call = "destroy" /\ stack # <<>> /\ Top.i <= Len(Dependents(Top.node))
      /\ UNCHANGED <<deps, graphVars, rootAt>>
      /\ IF Active(d) THEN Enter(Append(Advance, Frame(d)), call) ELSE stack' = Advance /\ call' = call
  BY <1>d DEF DestroyDependent, NeedsDestroy
<1>2. Top.i \in DOMAIN Dependents(Top.node) /\ d \in Nodes
  <2>1. Top.node \in Nodes /\ Top.i \in Nat \ {0}
    BY <1>1, TopFacts
  <2>2. Dependents(Top.node) \in Seq(1..Len(vertices))
    BY <2>1, DependentFacts
  <2>3. Top.i \in DOMAIN Dependents(Top.node)
    BY <1>1, <2>1, <2>2
  <2> QED BY <1>d, <2>1, <2>3, DependentFacts
<1>3. SoundInv' /\ RankInv'
  BY <1>1, OrderKept DEF OrderInv
<1>4. CASE call' = "overflow"
  BY <1>3, <1>4, OrderOther DEF OrderInv, InitCalls
<1>5. CASE call' = call /\ (stack' = Advance \/ (Active(d) /\ stack' = Append(Advance, Frame(d))))
  <2>1. (\A m : Active(m)' = Active(m) /\ Dependents(m)' = Dependents(m)) /\ vertices' = vertices /\ roots' = roots
    BY <1>1, KeptFacts DEF Full, graphVars
  <2>3. /\ \A k \in DOMAIN stack : k \in DOMAIN stack' /\ stack'[k].node = stack[k].node
        /\ \/ Len(stack') = Len(stack) /\ DOMAIN stack' = DOMAIN stack
           \/ /\ Len(stack') = Len(stack) + 1 /\ stack'[Len(stack) + 1].node = d
              /\ DOMAIN stack' = DOMAIN stack \cup {Len(stack) + 1}
              /\ stack' = Append(Advance, Frame(d))
    BY <1>1, <1>2, <1>5, AdvanceOrPush
  <2>4. \A k \in DOMAIN stack : UnloadChain(k)
    BY <1>1 DEF OrderInv, ChainInv
  <2>5. Len(stack) \in Nat /\ (\A k \in DOMAIN stack : k \in 1..Len(stack)) /\ 1 \in DOMAIN stack
    BY <1>1, TopFacts
  <2>2. RootsInv'
    <3>1. stack'[1].node = stack[1].node /\ stack' # <<>>
      BY <2>3, <2>5
    <3> QED BY <1>1, <1>5, <2>1, <3>1 DEF OrderInv, RootsInv
  <2>6. ASSUME NEW k \in DOMAIN stack' PROVE UnloadChain(k)'
    <3>1. CASE k \in DOMAIN stack /\ k < Len(stack)
      <4>1. k + 1 \in DOMAIN stack
        BY <2>5, <3>1
      <4> QED BY <2>1, <2>3, <2>4, <3>1, <4>1 DEF UnloadChain
    <3>2. CASE k = Len(stack)
      <4>1. stack'[k].node = Top.node /\ Active(Top.node)
        BY <1>1, <2>3, <2>4, <3>2, TopFacts DEF UnloadChain, Top
      <4>2. k < Len(stack') => stack'[k + 1].node = vertices[Dependents(Top.node)[Top.i]].name
        BY <1>d, <2>3, <2>5, <3>2
      <4> QED BY <1>2, <2>1, <4>1, <4>2 DEF UnloadChain
    <3>3. CASE k \notin DOMAIN stack
      <4>1. stack'[k].node = d /\ k = Len(stack')
        BY <2>3, <2>6, <3>3
      <4>2. stack' # Advance
        BY <2>3, <2>6, <3>3, <1>1, TopFacts, AdvanceFacts
      <4>3. ~(k < Len(stack'))
        BY <2>3, <2>5, <4>1
      <4> QED BY <1>5, <2>1, <4>1, <4>2, <4>3 DEF UnloadChain
    <3> QED BY <2>5, <3>1, <3>2, <3>3
  <2>7. ChainInv'
    BY <1>1, <1>5, <2>6 DEF ChainInv, InitCalls
  <2> QED BY <1>3, <2>2, <2>7 DEF OrderInv
<1> QED BY <1>1, <1>4, <1>5 DEF Enter

\* on_load: the module is not below itself on the stack, and is numbered above
\* the modules active before it.
LEMMA OrderOnLoad == ASSUME Full, OrderInv, OnLoad PROVE OrderInv'
<1>n. PICK n : n = Top.node
  OBVIOUS
<1>1. /\ call \in InitCalls /\ stack # <<>> /\ Top.i > Len(deps[n])
      /\ SetActive(n, TRUE) /\ stack' = Pop /\ call' = call
      /\ UNCHANGED <<deps, modulesMap, nodeMap, in_edges, roots>>
      /\ call \notin MakeCalls \cup Crashes
  BY <1>n DEF OnLoad, MakeCalls, InitCalls, Crashes
<1>2. n \in Nodes /\ n \in Module /\ Len(stack) \in DOMAIN stack /\ stack[Len(stack)].node = n
  BY <1>1, <1>n, TopFacts DEF Top
<1>3. /\ Nodes' = Nodes
      /\ \A m \in Nodes : Active(m)' <=> Active(m) \/ m = n
      /\ \A v \in DOMAIN vertices : vertices'[v].name = vertices[v].name
      /\ \A m : Dependents(m)' = Dependents(m) /\ DepsOf(m)' = DepsOf(m)
  <2>1. Nodes' = Nodes /\ \A m : Dependents(m)' = Dependents(m) /\ DepsOf(m)' = DepsOf(m)
    BY <1>1 DEF Nodes, Dependents, DepsOf
  <2> QED BY <1>1, <1>2, <2>1, SetActiveFacts DEF Full
<1>4. \A k \in DOMAIN stack : LoadChain(k)
  BY <1>1 DEF OrderInv, ChainInv
<1>5. ~Active(n)
  BY <1>2, <1>4 DEF LoadChain
<1>6. \A j \in DOMAIN deps[n] : Active(deps[n][j])
  <2>1. ASSUME NEW j \in DOMAIN deps[n] PROVE j < Top.i
    BY <1>1, <1>n, TopFacts
  <2>2. \A m : ~CalledFor(Len(stack), m)
    BY <1>1, TopFacts DEF CalledFor
  <2> QED BY <1>1, <1>n, <2>1, <2>2, TopFacts DEF Full, LoadInv, Top
<1>7. ASSUME NEW k \in DOMAIN stack, k < Len(stack) PROVE stack[k].node # n
  <2>1. k + 1 \in DOMAIN stack
    BY <1>1, <1>7, TopFacts
  <2>2. ~Active(stack[k + 1].node)
    BY <1>4, <2>1 DEF LoadChain
  <2>3. \E j \in DOMAIN deps[stack[k].node] : stack[k + 1].node = deps[stack[k].node][j]
    BY <1>4, <1>7 DEF LoadChain
  <2> QED BY <1>6, <2>2, <2>3
<1>8. /\ Len(Pop) = Len(stack) - 1
      /\ \A k \in DOMAIN Pop : k \in DOMAIN stack /\ k < Len(stack) /\ Pop[k] = stack[k] /\ k \in 1..Len(Pop)
      /\ \A k \in 1..Len(Pop) : k \in DOMAIN Pop
  BY <1>1, TopFacts, PopFacts
<1>9. ChainInv'
  <2>1. ASSUME NEW k \in DOMAIN Pop PROVE LoadChain(k)'
    <3>1. stack[k].node \in Nodes /\ stack[k].node # n /\ ~Active(stack[k].node) /\ Pop[k] = stack[k]
      BY <1>1, <1>4, <1>7, <1>8, <2>1, TopFacts DEF LoadChain
    <3>2. ASSUME k < Len(Pop) PROVE Pop[k + 1] = stack[k + 1]
      BY <1>1, <1>8, <3>2, TopFacts
    <3>3. \E j \in DOMAIN deps[stack[k].node] : stack[k + 1].node = deps[stack[k].node][j]
      BY <1>4, <1>8 DEF LoadChain
    <3> QED BY <1>1, <1>3, <3>1, <3>2, <3>3 DEF LoadChain
  <2> QED BY <1>1, <2>1 DEF ChainInv, InitCalls
<1>10. SoundInv'
  <2>1. ASSUME NEW m \in Nodes, NEW e \in DOMAIN Dependents(m)
        PROVE  vertices'[Dependents(m)[e]].name = vertices[Dependents(m)[e]].name
    BY <1>3, DependentFacts
  <2>2. \A m \in Nodes : \A e \in DOMAIN Dependents(m) : m \in DepsOf(vertices'[Dependents(m)[e]].name)
    BY <2>1 DEF OrderInv, SoundInv
  <2>3. {roots[j] : j \in DOMAIN roots} = {m \in Nodes : deps[m] = <<>>}
    BY DEF OrderInv, SoundInv
  <2> QED BY <1>1, <1>3, <2>2, <2>3 DEF SoundInv
<1>11. RankInv'
  <2>0. PICK R \in Nat : \E rank \in [Module -> 0..R] :
            \A m \in Nodes : Active(m) => \A d \in DepsOf(m) : rank[d] < rank[m]
    BY DEF OrderInv, RankInv
  <2>1. PICK rank \in [Module -> 0..R] :
            \A m \in Nodes : Active(m) => \A d \in DepsOf(m) : rank[d] < rank[m]
    BY <2>0
  <2> DEFINE rank2 == [rank EXCEPT ![n] = R + 1]
  <2>2. R + 1 \in Nat /\ rank2 \in [Module -> 0..(R + 1)]
    <3>1. \A m \in Module : rank[m] \in 0..(R + 1)
      BY <2>1
    <3>2. rank \in [Module -> 0..(R + 1)] /\ R + 1 \in 0..(R + 1)
      BY <2>1, <3>1
    <3>3. \A S : \A f \in [Module -> S], x \in S : [f EXCEPT ![n] = x] \in [Module -> S]
      OBVIOUS
    <3>4. rank2 \in [Module -> 0..(R + 1)]
      BY <3>2, <3>3, Zenon
    <3> QED BY <3>4
  <2>3. ASSUME NEW m \in Nodes, Active(m)', NEW d \in DepsOf(m) PROVE rank2[d] < rank2[m]
    <3>1. deps[m] \in Seq(Module) /\ d \in Module /\ m \in Module
      BY <2>3, DepFacts DEF Full, GraphInv, GraphType, DepsOf
    <3>2. CASE m = n
      <4>1. d # n
        BY <1>5, <1>6, <2>3, <3>2 DEF DepsOf
      <4> QED BY <1>2, <2>1, <3>1, <3>2, <4>1
    <3>3. CASE m # n
      <4>1. Active(m) /\ Active(d)
        BY <1>3, <2>3, <3>3 DEF Full, GraphInv, DependenciesActive
      <4> QED BY <1>5, <2>1, <2>3, <3>1, <3>3, <4>1
    <3> QED BY <3>2, <3>3
  <2> HIDE DEF rank2
  <2>4. \A m \in Nodes' : Active(m)' => \A d \in DepsOf(m)' : rank2[d] < rank2[m]
    BY <1>3, <2>3
  <2> QED BY <2>2, <2>4 DEF RankInv
<1>12. RootsInv'
  BY <1>1 DEF RootsInv, InitCalls
<1> QED BY <1>9, <1>10, <1>11, <1>12 DEF OrderInv

\* on_unload: the module is not below itself on the stack.
LEMMA OrderOnUnload == ASSUME Full, OrderInv, OnUnload PROVE OrderInv'
<1>n. PICK n : n = Top.node
  OBVIOUS
<1>1. /\ call = "destroy" /\ stack # <<>> /\ Top.i > Len(Dependents(n))
      /\ SetActive(n, FALSE) /\ stack' = Pop /\ call' = call
      /\ UNCHANGED <<deps, modulesMap, nodeMap, in_edges, roots, rootAt>>
  BY <1>n DEF OnUnload
<1>2. n \in Nodes /\ Len(stack) \in DOMAIN stack /\ stack[Len(stack)].node = n
  BY <1>1, <1>n, TopFacts DEF Top
<1>3. /\ Nodes' = Nodes
      /\ \A m \in Nodes : Active(m)' <=> Active(m) /\ m # n
      /\ \A v \in DOMAIN vertices : vertices'[v].name = vertices[v].name
      /\ \A m : Dependents(m)' = Dependents(m) /\ DepsOf(m)' = DepsOf(m)
  <2>1. Nodes' = Nodes /\ \A m : Dependents(m)' = Dependents(m) /\ DepsOf(m)' = DepsOf(m)
    BY <1>1 DEF Nodes, Dependents, DepsOf
  <2> QED BY <1>1, <1>2, <2>1, SetActiveFacts DEF Full
<1>4. \A k \in DOMAIN stack : UnloadChain(k)
  BY <1>1 DEF OrderInv, ChainInv
<1>5. \A e \in DOMAIN Dependents(n) : ~Active(vertices[Dependents(n)[e]].name)
  <2>1. ASSUME NEW e \in DOMAIN Dependents(n) PROVE e < Top.i
    <3>1. Dependents(n) \in Seq(1..Len(vertices))
      BY <1>2, DependentFacts
    <3> QED BY <3>1, <1>1, TopFacts
  <2>2. \A m : ~CalledFor(Len(stack), m)
    BY <1>1, TopFacts DEF CalledFor
  <2> QED BY <1>1, <1>n, <2>1, <2>2, TopFacts DEF Full, UnloadInv, Top
<1>6. ASSUME NEW m \in Nodes, NEW e \in DOMAIN Dependents(m)
      PROVE  vertices'[Dependents(m)[e]].name = vertices[Dependents(m)[e]].name
  BY <1>3, DependentFacts
<1>7. ASSUME NEW k \in DOMAIN stack, k < Len(stack) PROVE stack[k].node # n
  <2>1. k + 1 \in DOMAIN stack
    BY <1>1, <1>7, TopFacts
  <2>2. Active(stack[k + 1].node)
    BY <1>4, <2>1 DEF UnloadChain
  <2>3. \E j \in DOMAIN Dependents(stack[k].node) :
            stack[k + 1].node = vertices[Dependents(stack[k].node)[j]].name
    BY <1>4, <1>7 DEF UnloadChain
  <2> QED BY <1>5, <2>2, <2>3
<1>8. /\ Len(Pop) = Len(stack) - 1 /\ Pop \in Seq(Frames(Nodes))
      /\ \A k \in DOMAIN Pop : k \in DOMAIN stack /\ k < Len(stack) /\ Pop[k] = stack[k] /\ k \in 1..Len(Pop)
      /\ \A k \in 1..Len(Pop) : k \in DOMAIN Pop
  BY <1>1, TopFacts, PopFacts
<1>9. ChainInv'
  <2>1. ASSUME NEW k \in DOMAIN Pop PROVE UnloadChain(k)'
    <3>1. stack[k].node \in Nodes /\ stack[k].node # n /\ Active(stack[k].node) /\ Pop[k] = stack[k]
      BY <1>1, <1>4, <1>7, <1>8, <2>1, TopFacts DEF UnloadChain
    <3>2. ASSUME k < Len(Pop) PROVE Pop[k + 1] = stack[k + 1]
      BY <1>1, <1>8, <3>2, TopFacts
    <3>3. \E j \in DOMAIN Dependents(stack[k].node) :
              stack[k + 1].node = vertices[Dependents(stack[k].node)[j]].name
      BY <1>4, <1>8 DEF UnloadChain
    <3> QED BY <1>1, <1>3, <1>6, <3>1, <3>2, <3>3 DEF UnloadChain
  <2> QED BY <1>1, <2>1 DEF ChainInv, InitCalls
<1>10. SoundInv'
  <2>2. \A m \in Nodes : \A e \in DOMAIN Dependents(m) : m \in DepsOf(vertices'[Dependents(m)[e]].name)
    BY <1>6 DEF OrderInv, SoundInv
  <2>3. {roots[j] : j \in DOMAIN roots} = {m \in Nodes : deps[m] = <<>>}
    BY DEF OrderInv, SoundInv
  <2> QED BY <1>1, <1>3, <2>2, <2>3 DEF SoundInv
<1>11. RankInv'
  BY <1>3 DEF OrderInv, RankInv
<1>12. RootsInv'
  <2> SUFFICES ASSUME NEW j \in DOMAIN roots, j < rootAt, Active(roots[j])'
               PROVE  Pop # <<>> /\ Pop[1].node = roots[j]
    BY <1>1 DEF RootsInv
  <2>1. roots[j] \in Nodes
    BY DEF Full, GraphInv, GraphType
  <2>2. stack[1].node = roots[j] /\ roots[j] # n
    BY <1>1, <1>3, <2>1 DEF OrderInv, RootsInv
  <2>3. Len(stack) # 1 /\ Len(stack) \in Nat /\ Len(stack) > 0
    BY <1>1, <1>2, <2>2, TopFacts
  <2> QED BY <1>8, <2>2, <2>3
<1> QED BY <1>9, <1>10, <1>11, <1>12 DEF OrderInv

\* Nothing is in the graph yet.
LEMMA InitOrder == Init => OrderInv
<1> SUFFICES ASSUME Init PROVE OrderInv
  OBVIOUS
<1>1. Nodes = {} /\ roots = <<>> /\ stack = <<>> /\ call = "none"
  BY DEF Init, Nodes
<1>2. RankInv
  <2>1. [m \in Module |-> 0] \in [Module -> 0..0]
    OBVIOUS
  <2> QED BY <1>1, <2>1 DEF RankInv
<1>3. SoundInv
  BY <1>1 DEF SoundInv
<1> QED BY <1>1, <1>2, <1>3 DEF OrderInv, ChainInv, RootsInv, InitCalls

\* The second invariant holds in every state of every call.
THEOREM Order == Spec => [](Full /\ OrderInv)
<1>1. Full /\ OrderInv /\ [Next]_vars => OrderInv'
  <2> SUFFICES ASSUME Full, OrderInv, [Next]_vars PROVE OrderInv'
    OBVIOUS
  <2>1. ASSUME NEW m \in Module, NEW shared \in BOOLEAN,
               MakeModuleGraph(m, shared) \/ PatchModuleGraph(m, shared)
        PROVE  OrderInv'
    BY <2>1, OrderBeginMake DEF MakeModuleGraph, PatchModuleGraph, MakeCalls
  <2> QED BY <2>1, OrderPlain, OrderMakeEnd, OrderInitModuleGraph, OrderDestroyRoot,
             OrderMakeDependency, OrderInitDependency, OrderOnLoad, OrderDestroyDependent, OrderOnUnload
      DEF Next, Step
<1>2. IInv <=> Full
  BY FullIsIInv
<1>3. IInv /\ OrderInv /\ [Next]_vars => OrderInv'
  BY <1>1, <1>2
<1>4. IInv /\ OrderInv => Full /\ OrderInv
  BY <1>2
<1> QED BY <1>3, <1>4, InitOrder, Invariance, PTL DEF Spec

-----------------------------------------------------------------------------
(* What follows for the graph, for on_load and for on_unload.              *)

\* The graph that make_module_graph and patch_module_graph leave behind is the
\* dependency relation of the modules' metadata, for every order in which
\* modules are added to it, and the roots are the modules without dependencies.
THEOREM GraphIsMetadata == Spec => []GraphComplete
<1>1. Full /\ OrderInv => GraphComplete
  <2> SUFFICES ASSUME Full, OrderInv, call \notin MakeCalls \cup Crashes
               PROVE  /\ \A m \in Nodes : DepsOf(m) \subseteq Nodes
                      /\ \A m, n \in Nodes :
                            (\E j \in DOMAIN in_edges[nodeMap[n]] : in_edges[nodeMap[n]][j] = nodeMap[m])
                            <=> n \in DepsOf(m)
                      /\ {roots[j] : j \in DOMAIN roots} = {m \in Nodes : deps[m] = <<>>}
    BY DEF GraphComplete
  <2>1. \A m \in Nodes : \A j \in DOMAIN deps[m] : EdgeDone(m, j)
    BY EdgesDone
  <2>2. \A m \in Nodes : DepsOf(m) \subseteq Nodes
    BY <2>1 DEF EdgeDone, DepsOf
  <2>3. ASSUME NEW m \in Nodes, NEW n \in Nodes, n \in DepsOf(m)
        PROVE  \E j \in DOMAIN in_edges[nodeMap[n]] : in_edges[nodeMap[n]][j] = nodeMap[m]
    BY <2>1, <2>3 DEF EdgeDone, DepsOf
  <2>4. ASSUME NEW m \in Nodes, NEW n \in Nodes, NEW j \in DOMAIN Dependents(n), Dependents(n)[j] = nodeMap[m]
        PROVE  n \in DepsOf(m)
    <3>1. vertices[nodeMap[m]].name = m
      BY DEF Full, GraphInv, VertexNames
    <3> QED BY <2>4, <3>1 DEF OrderInv, SoundInv
  <2>5. {roots[j] : j \in DOMAIN roots} = {m \in Nodes : deps[m] = <<>>}
    BY DEF OrderInv, SoundInv
  <2> QED BY <2>2, <2>3, <2>4, <2>5 DEF Dependents
<1> QED BY <1>1, Order, PTL

\* on_load is never called for a module that is loaded, nor on_unload for one
\* that is not: also when a module is reached along several paths of the graph,
\* and when the dependencies are cyclic.
THEOREM NoSecondLoad == Spec => LoadedOnce
<1>1. Full /\ OrderInv => (OnLoad => ~Active(Top.node)) /\ (OnUnload => Active(Top.node))
  <2> SUFFICES ASSUME Full, OrderInv
               PROVE  (OnLoad => ~Active(Top.node)) /\ (OnUnload => Active(Top.node))
    OBVIOUS
  <2>1. ASSUME OnLoad PROVE ~Active(Top.node)
    <3>1. call \in InitCalls /\ stack # <<>>
      BY <2>1 DEF OnLoad
    <3> QED BY <3>1, TopFacts DEF OrderInv, ChainInv, LoadChain, Top
  <2>2. ASSUME OnUnload PROVE Active(Top.node)
    <3>1. call = "destroy" /\ stack # <<>>
      BY <2>2 DEF OnUnload
    <3> QED BY <3>1, TopFacts DEF OrderInv, ChainInv, UnloadChain, Top
  <2> QED BY <2>1, <2>2
<1> QED BY <1>1, Order, PTL DEF LoadedOnce

\* A set of numbers has a smallest one.
LEMMA SmallestNat ==
    ASSUME NEW S \in SUBSET Nat, S # {}
    PROVE  \E x \in S : \A y \in S : ~(y < x)
<1>1. PICK x \in S : \A y \in S : ~(<<y, x>> \in OpToRel(<, Nat))
  BY NatLessThanWellFounded, WFMin
<1> QED BY <1>1 DEF OpToRel

\* Below every active module there is an active root.
LEMMA ActiveRoot ==
    ASSUME Full, SoundInv, RankInv, NEW m \in Nodes, Active(m)
    PROVE  \E j \in DOMAIN roots : Active(roots[j])
<1>0. PICK R \in Nat : \E rank \in [Module -> 0..R] :
          \A x \in Nodes : Active(x) => \A d \in DepsOf(x) : rank[d] < rank[x]
  BY DEF RankInv
<1>1. PICK rank \in [Module -> 0..R] :
          \A x \in Nodes : Active(x) => \A d \in DepsOf(x) : rank[d] < rank[x]
  BY <1>0
<1>2. Nodes \subseteq Module
  BY DEF Full, GraphInv, GraphType
<1> DEFINE S == {rank[x] : x \in {y \in Nodes : Active(y)}}
<1>3. S \in SUBSET Nat /\ S # {}
  BY <1>1, <1>2
<1>4. PICK r \in S : \A y \in S : ~(y < r)
  BY <1>3, SmallestNat
<1>5. PICK x \in Nodes : Active(x) /\ rank[x] = r
  BY <1>4
<1>6. DepsOf(x) = {}
  <2> SUFFICES ASSUME NEW d \in DepsOf(x) PROVE FALSE
    OBVIOUS
  <2>1. d \in Nodes /\ Active(d)
    BY <1>5 DEF Full, GraphInv, DependenciesActive
  <2>2. rank[d] \in S /\ rank[d] < r
    BY <1>1, <1>5, <2>1
  <2> QED BY <1>4, <2>2
<1>7. deps[x] = <<>>
  <2>1. deps[x] \in Seq(Module)
    BY <1>2, DepFacts DEF Full, GraphInv, GraphType
  <2>2. DOMAIN deps[x] = {}
    BY <1>6 DEF DepsOf
  <2>3. \A s \in Seq(Module) : Len(s) # 0 => 1 \in DOMAIN s
    OBVIOUS
  <2> QED BY <2>1, <2>2, <2>3
<1>8. x \in {roots[j] : j \in DOMAIN roots}
  BY <1>7 DEF SoundInv
<1> QED BY <1>5, <1>8

\* When destroy_module_graph returns no module is left active, whichever main
\* modules were made and loaded and whatever was patched in.
THEOREM NothingLeftLoaded == Spec => AllUnloaded
<1>1. Full /\ OrderInv /\ [Next]_vars =>
          [(call = "destroy" /\ call' = "none") => \A m \in Nodes : ~Active(m)]_vars
  <2> SUFFICES ASSUME Full, OrderInv, [Next]_vars, call = "destroy", call' = "none",
                      NEW m \in Nodes, Active(m)
               PROVE  FALSE
    OBVIOUS
  <2>1. stack = <<>> /\ rootAt > Len(roots)
    <3>1. DestroyEnd
      BY DEF Next, Step, RegisterStaticallyLinkedModule, MakeModuleGraph, PatchModuleGraph, BeginMake,
             InitModuleGraph, DestroyModuleGraph, MakeDependency, MakeReturn, MakeEnd, InitDependency,
             OnLoad, InitEnd, MainModuleExec, DestroyRoot, DestroyDependent, Enter, OnUnload, Crashed,
             vars, callVars, MakeCalls, InitCalls, Crashes
    <3> QED BY <3>1 DEF DestroyEnd
  <2>2. PICK j \in DOMAIN roots : Active(roots[j])
    BY ActiveRoot DEF OrderInv
  <2>3. j < rootAt
    BY <2>1 DEF Full, CallType, GraphInv, GraphType
  <2> QED BY <2>1, <2>2, <2>3 DEF OrderInv, RootsInv
<1> QED BY <1>1, Order, PTL DEF Spec, AllUnloaded
=============================================================================
