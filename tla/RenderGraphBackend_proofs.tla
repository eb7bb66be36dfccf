--------------------- MODULE RenderGraphBackend_proofs ---------------------
(***************************************************************************)
(* The GPU objects of the render graph: who owns them, how long they live  *)
(* and which state they are in, for any program, any number of executors   *)
(* and frames, and any time the GPU takes.                                 *)
(***************************************************************************)
EXTENDS RenderGraphBackend, SequenceTheorems, WellFoundedInduction, TLAPS

-----------------------------------------------------------------------------
(* The inductive invariant.                                                *)

Imported(n) == resources[n].imported

\* A pass has recorded its barrier for n; a pass is not yet through with n.
Begun(n) == \E i \in Users(n) : i < at \/ (i = at /\ (phase = "dealloc" \/ n \notin todo))
Unfinished(n) == \E i \in Users(n) : i > at \/ (i = at /\ (phase = "barriers" \/ n \in todo))

\* What the builders and compile() leave for execute().
GraphInv ==
    /\ \A i \in DOMAIN passes : passes[i].type = "Present" => \A n \in Edges(i) : Imported(n)
    /\ phase \in {"aliasing", "ready", "barriers", "dealloc"} => Disciplined /\ frame_index < MaxFrames
    /\ phase \in {"setup", "collect"} => spans = <<>> /\ \A n \in Handles : source[n] = 0
    /\ \A a \in DOMAIN spans : /\ a \in Nodes /\ spans[a] \in Int /\ ~Imported(a)
                               /\ \E i \in Users(a) : i <= spans[a]
    /\ \A n \in Handles : source[n] # 0 =>
           /\ n \in Nodes /\ source[n] \in Nodes /\ ~Imported(source[n])
           /\ \E i \in Users(source[n]) : \A j \in Users(n) : i < j

\* Where execute() is.
PlaceInv ==
    /\ Recording => /\ at \in 1..(Len(passes) + 1)
                    /\ todo \subseteq IF at \in DOMAIN passes THEN Edges(at) ELSE {}
    /\ phase = "dealloc" => at \in DOMAIN passes
    /\ ~Recording => todo = {} /\ aliasing = {}
    /\ phase \in {"collect", "destroyed"} => resources = <<>>

\* Which nodes have objects.
FrameInv ==
    /\ \A n \in Handles \ Nodes : frame_res[n] = None
    /\ \A n \in Nodes : IF Imported(n) THEN frame_res[n] \in Imports
                        ELSE frame_res[n] \in Phys \cup {None}
    /\ \A n \in Nodes : ~Imported(n) => (frame_res[n] # None <=> Recording /\ Begun(n))
    /\ \A n \in aliasing : n \in Nodes /\ ~Imported(n) /\ frame_res[n] # None

\* The nodes that own their object: the object of a node that is none of them
\* is in the pool again, or belongs to another node.
Owning(n) ==
    /\ n \in Nodes /\ frame_res[n] # None
    /\ Imported(n) \/ n \in aliasing \/ (Recording /\ Unfinished(n))

Aliased == UNION {aliasing_textures[e] : e \in Executors}
Held == {frame_res[n] : n \in {m \in Nodes : Owning(m) /\ ~Imported(m) /\ m \notin aliasing}}

PoolDistinct ==
    \A c, d \in Descs : \A i \in DOMAIN pool[c], j \in DOMAIN pool[d] :
        pool[c][i].res = pool[d][j].res => c = d /\ i = j

\* Every live object has one owner: a pool, an executor or a node.
OwnerInv ==
    /\ PoolDistinct
    /\ live = Pooled \cup Aliased \cup Held
    /\ Pooled \cap Aliased = {} /\ Held \cap (Pooled \cup Aliased) = {}
    /\ \A d, e \in Executors : d # e => aliasing_textures[d] \cap aliasing_textures[e] = {}
    /\ \A n \in aliasing : frame_res[n] \in aliasing_textures[Executor]
    /\ \A m, n \in Nodes : Owning(m) /\ Owning(n) /\ frame_res[m] = frame_res[n] => m = n
    /\ phase = "destroyed" => live = {}

\* An executor's fence is the one of its latest frame, and the GPU is never
\* behind by more than one frame per executor.
FenceInv ==
    /\ \A f \in 0..(frame_index - 1) : f <= fence[f % RG_MAX_FRAME_IN_FLIGHT]
    /\ Recording => fence[Executor] < done
    /\ frame_index - RG_MAX_FRAME_IN_FLIGHT <= done

\* Object q stays for frame f.
Kept(q, f) ==
    /\ q \in live
    /\ \A x \in Elements : x.res = q => f <= x.frame
    /\ \A e \in Executors : q \in aliasing_textures[e] => f % RG_MAX_FRAME_IN_FLIGHT = e

UseInv ==
    /\ memory \in [Phys \cup Imports -> Phys \cup Imports]
    /\ \A p \in live \ Aliased : memory[p] = p
    /\ \A f \in InFlight \cup {frame_index} : \A p \in uses[f] \ Imports :
           Kept(p, f) /\ Kept(memory[p], f)
    /\ \A f \in 0..MaxFrames : f > frame_index \/ (f = frame_index /\ ~Recording) => uses[f] = {}
    /\ Recording => \A n \in Nodes : ~Imported(n) /\ frame_res[n] # None =>
           frame_res[n] \in uses[frame_index]

\* The passes that have recorded a barrier for n, and the state they leave.
Past(n) == Users(n) \ Pending(n)
Left(n) ==
    /\ Past(n) = {} => layout[frame_res[n]] = init_state[n]
    /\ \A k \in Past(n) : (\A j \in Past(n) : j <= k) => layout[frame_res[n]] = Requested(k, n)

StateInv ==
    /\ \A x \in Elements : layout[x.res] = x.state
    /\ Recording => \A n \in Nodes : Owning(n) => Left(n)
    /\ ~Recording => \A n \in Nodes : Imported(n) => layout[frame_res[n]] = init_state[n]

IInv ==
    /\ TypeOK /\ GraphInv /\ PlaceInv /\ FrameInv /\ OwnerInv /\ FenceInv
    /\ UseInv /\ ViewsLive /\ StateInv

-----------------------------------------------------------------------------
(* Arithmetic and sequences.                                               *)

\* A positive multiple of N is at least N.
LEMMA Multiples == ASSUME NEW N \in Nat \ {0}, NEW k \in Int, k > 0 PROVE N * k >= N
OBVIOUS

\* Remainders are executors.
LEMMA ModRange == ASSUME NEW a \in Nat, NEW N \in Nat \ {0} PROVE a % N \in 0..(N - 1)
OBVIOUS

\* Frames that are one round apart have the same executor.
LEMMA ModAdd == ASSUME NEW a \in Nat, NEW N \in Nat \ {0} PROVE (a + N) % N = a % N
<1> DEFINE q == a \div N
<1> DEFINE r == a % N
<1> DEFINE q2 == (a + N) \div N
<1> DEFINE r2 == (a + N) % N
<1>1. q \in Int /\ r \in 0..(N - 1) /\ a = N * q + r
  OBVIOUS
<1>2. q2 \in Int /\ r2 \in 0..(N - 1) /\ a + N = N * q2 + r2
  OBVIOUS
<1> HIDE DEF q, r, q2, r2
<1>3. N * (q2 - q - 1) = r - r2 /\ N * (q + 1 - q2) = r2 - r
  BY <1>1, <1>2
<1>4. ~(q2 - q - 1 > 0) /\ ~(q + 1 - q2 > 0)
  BY <1>1, <1>2, <1>3, Multiples
<1>5. r = r2
  <2>1. q2 - q - 1 = 0
    BY <1>1, <1>2, <1>4
  <2> QED BY <1>1, <1>2, <1>3, <2>1
<1> QED BY <1>5 DEF r, r2

\* A set of numbers has a least element, which Min returns.
LEMMA MinFacts ==
    ASSUME NEW S \in SUBSET Nat, S # {}
    PROVE  Min(S) \in S /\ \A y \in S : Min(S) <= y
<1>1. IsWellFoundedOn(OpToRel(<, Nat), Nat)
  BY NatLessThanWellFounded
<1>2. PICK x \in S : \A y \in S : ~(<<y, x>> \in OpToRel(<, Nat))
  BY <1>1, WFMin
<1>3. \A y \in S : ~(y < x)
  BY <1>2 DEF OpToRel
<1>4. \E z \in S : \A y \in S : z <= y
  BY <1>3
<1> QED BY <1>4 DEF Min

\* A bounded set of numbers has a greatest element, which Max returns.
LEMMA MaxFacts ==
    ASSUME NEW n \in Nat, NEW S \in SUBSET (1..n), S # {}
    PROVE  Max(S) \in S /\ \A y \in S : y <= Max(S)
<1> DEFINE T == {n - y : y \in S}
<1>1. T \in SUBSET Nat /\ T # {}
  <2>1. \A y \in S : n - y \in Nat
    OBVIOUS
  <2> QED BY <2>1
<1>2. Min(T) \in T /\ \A z \in T : Min(T) <= z
  BY <1>1, MinFacts
<1>3. PICK x \in S : Min(T) = n - x
  BY <1>2
<1>4. \A y \in S : n - x <= n - y
  BY <1>2, <1>3
<1>5. \E z \in S : \A y \in S : z >= y
  BY <1>4
<1> QED BY <1>5 DEF Max

\* Element k is taken out of a sequence.
Without(s, k, t) ==
    t = SubSeq(s, 1, k - 1) \o SubSeq(s, k + 1, Len(s)) \/ (k = 1 /\ t = Tail(s))

\* A deque without its k-th element.
LEMMA RemoveFacts ==
    ASSUME NEW s \in Seq(Element), NEW k \in DOMAIN s, NEW t, Without(s, k, t)
    PROVE  /\ t \in Seq(Element) /\ Len(t) = Len(s) - 1
           /\ \A i \in DOMAIN t : t[i] = IF i < k THEN s[i] ELSE s[i + 1]
<1>1. Len(s) \in Nat /\ DOMAIN s = 1..Len(s) /\ k \in 1..Len(s)
  OBVIOUS
<1>2. CASE k = 1 /\ t = Tail(s)
  <2>1. s # <<>>
    BY <1>1
  <2>2. t \in Seq(Element) /\ Len(t) = Len(s) - 1 /\ DOMAIN t = 1..Len(t)
    BY <1>2, <2>1
  <2>3. \A i \in 1..(Len(s) - 1) : t[i] = s[i + 1]
    BY <1>2, <2>1
  <2> QED BY <1>1, <1>2, <2>2, <2>3
<1>3. CASE t = SubSeq(s, 1, k - 1) \o SubSeq(s, k + 1, Len(s))
  <2> DEFINE a == SubSeq(s, 1, k - 1)
  <2> DEFINE b == SubSeq(s, k + 1, Len(s))
  <2>1. a \in Seq(Element) /\ Len(a) = k - 1 /\ \A i \in 1..(k - 1) : a[i] = s[i]
    BY <1>1
  <2>2. b \in Seq(Element) /\ Len(b) = Len(s) - k /\ \A i \in 1..(Len(s) - k) : b[i] = s[k + i]
    BY <1>1
  <2> HIDE DEF a, b
  <2>3. a \o b \in Seq(Element) /\ Len(a \o b) = Len(a) + Len(b)
        /\ \A i \in 1..(Len(a) + Len(b)) : (a \o b)[i] = IF i <= Len(a) THEN a[i] ELSE b[i - Len(a)]
    BY <2>1, <2>2, ConcatProperties
  <2>4. t = a \o b
    BY <1>3 DEF a, b
  <2>5. t \in Seq(Element) /\ Len(t) = Len(a) + Len(b)
        /\ \A i \in 1..(Len(a) + Len(b)) : t[i] = IF i <= Len(a) THEN a[i] ELSE b[i - Len(a)]
    BY <2>3, <2>4, Zenon
  <2>6. Len(t) = Len(s) - 1 /\ DOMAIN t = 1..(Len(s) - 1)
    BY <1>1, <2>1, <2>2, <2>5
  <2>7. \A i \in 1..(Len(s) - 1) : t[i] = IF i < k THEN s[i] ELSE s[i + 1]
    <3> SUFFICES ASSUME NEW i \in 1..(Len(s) - 1) PROVE t[i] = IF i < k THEN s[i] ELSE s[i + 1]
      OBVIOUS
    <3>1. CASE i < k
      BY <1>1, <2>1, <2>2, <2>5, <3>1
    <3>2. CASE ~(i < k)
      <4>1. t[i] = b[i - (k - 1)]
        <5>1. i \in 1..(Len(a) + Len(b)) /\ ~(i <= Len(a))
          BY <1>1, <2>1, <2>2, <3>2
        <5>2. t[i] = b[i - Len(a)]
          BY <2>5, <5>1
        <5> QED BY <2>1, <5>2
      <4>2. b[i - (k - 1)] = s[i + 1]
        <5>1. i - (k - 1) \in 1..(Len(s) - k) /\ k + (i - (k - 1)) = i + 1
          BY <1>1, <3>2
        <5> QED BY <2>2, <5>1
      <4> QED BY <3>2, <4>1, <4>2
    <3> QED BY <3>1, <3>2
  <2> QED BY <2>5, <2>6, <2>7
<1> QED BY <1>2, <1>3 DEF Without

-----------------------------------------------------------------------------
(* The pools.                                                              *)

PoolsType == pool \in [Descs -> Seq(Element)]

\* The elements of all pools, and their objects.
LEMMA PooledFacts ==
    /\ \A x : x \in Elements <=> \E d \in Descs : \E i \in DOMAIN pool[d] : x = pool[d][i]
    /\ \A x \in Elements : x.res \in Pooled
    /\ \A p \in Pooled : \E x \in Elements : p = x.res
    /\ \A p \in Pooled : \E d \in Descs : \E i \in DOMAIN pool[d] : p = pool[d][i].res
BY DEF Elements, Pooled

\* The same for the next state.
LEMMA PooledFactsNext ==
    /\ \A x : x \in Elements' <=> \E d \in Descs : \E i \in DOMAIN pool'[d] : x = pool'[d][i]
    /\ \A x \in Elements' : x.res \in Pooled'
    /\ \A p \in Pooled' : \E x \in Elements' : p = x.res
    /\ \A p \in Pooled' : \E d \in Descs : \E i \in DOMAIN pool'[d] : p = pool'[d][i].res
BY DEF Elements, Pooled

\* Pools hold elements of GPU objects.
LEMMA ElementFacts ==
    ASSUME PoolsType
    PROVE  Elements \subseteq Element /\ Pooled \subseteq Phys
<1>1. \A d \in Descs : \A i \in DOMAIN pool[d] : pool[d][i] \in Element
  BY DEF PoolsType
<1>2. Elements \subseteq Element
  BY <1>1, PooledFacts
<1> QED BY <1>2, PooledFacts DEF Element

\* A step that leaves the pools alone.
LEMMA PoolSame ==
    ASSUME pool' = pool
    PROVE  Elements' = Elements /\ Pooled' = Pooled /\ (PoolDistinct' <=> PoolDistinct)
BY DEF Elements, Pooled, PoolDistinct

\* Pools that are cleared.
LEMMA PoolEmpty ==
    ASSUME pool' = [d \in Descs |-> <<>>]
    PROVE  PoolsType' /\ Elements' = {} /\ Pooled' = {} /\ PoolDistinct'
<1>1. \A d \in Descs : pool'[d] = <<>> /\ DOMAIN pool'[d] = {}
  OBVIOUS
<1>2. Elements' = {}
  BY <1>1, PooledFactsNext
<1> QED BY <1>1, <1>2, PooledFactsNext DEF PoolsType, PoolDistinct

\* An element is taken out of a pool: its object is in no other place.
LEMMA PoolRemove ==
    ASSUME PoolsType, PoolDistinct, NEW d \in Descs, NEW k \in DOMAIN pool[d],
           NEW t, pool' = [pool EXCEPT ![d] = t], Without(pool[d], k, t)
    PROVE  /\ PoolsType' /\ PoolDistinct'
           /\ Elements' \subseteq Elements /\ Pooled' = Pooled \ {pool[d][k].res}
<1>0. pool[d] \in Seq(Element) /\ Len(pool[d]) \in Nat /\ DOMAIN pool[d] = 1..Len(pool[d])
  BY DEF PoolsType
<1>1. /\ t \in Seq(Element) /\ Len(t) = Len(pool[d]) - 1
      /\ \A i \in DOMAIN t : t[i] = IF i < k THEN pool[d][i] ELSE pool[d][i + 1]
  BY <1>0, RemoveFacts
<1>2. pool'[d] = t /\ (\A c \in Descs \ {d} : pool'[c] = pool[c]) /\ PoolsType'
  BY <1>1 DEF PoolsType
<1> DEFINE old(c, i) == IF c = d /\ i >= k THEN i + 1 ELSE i
<1>3. \A c \in Descs : \A i \in DOMAIN pool'[c] :
          /\ old(c, i) \in DOMAIN pool[c] /\ pool'[c][i] = pool[c][old(c, i)]
          /\ ~(c = d /\ old(c, i) = k)
  <2> SUFFICES ASSUME NEW c \in Descs, NEW i \in DOMAIN pool'[c]
               PROVE  /\ old(c, i) \in DOMAIN pool[c] /\ pool'[c][i] = pool[c][old(c, i)]
                      /\ ~(c = d /\ old(c, i) = k)
    OBVIOUS
  <2>1. CASE c = d
    <3>1. i \in 1..(Len(pool[d]) - 1)
      BY <1>0, <1>1, <1>2, <2>1
    <3> QED BY <1>0, <1>1, <1>2, <2>1, <3>1
  <2>2. CASE c # d
    BY <1>2, <2>2
  <2> QED BY <2>1, <2>2
<1>4. \A c \in Descs : \A i, j \in DOMAIN pool'[c] : old(c, i) = old(c, j) => i = j
  <2>1. \A i \in DOMAIN pool'[d] : i \in Int
    BY <1>0, <1>1, <1>2
  <2> QED BY <1>0, <2>1
<1>5. PoolDistinct'
  <2> SUFFICES ASSUME NEW b \in Descs, NEW c \in Descs,
                      NEW i \in DOMAIN pool'[b], NEW j \in DOMAIN pool'[c],
                      pool'[b][i].res = pool'[c][j].res
               PROVE  b = c /\ i = j
    BY DEF PoolDistinct
  <2>1. /\ pool'[b][i] = pool[b][old(b, i)] /\ old(b, i) \in DOMAIN pool[b]
        /\ pool'[c][j] = pool[c][old(c, j)] /\ old(c, j) \in DOMAIN pool[c]
    BY <1>3
  <2>2. b = c /\ old(b, i) = old(c, j)
    <3> HIDE DEF old
    <3> QED BY <2>1 DEF PoolDistinct
  <2> QED BY <1>4, <2>2
<1>6. Elements' \subseteq Elements
  BY <1>3, PooledFacts, PooledFactsNext
<1>7. pool[d][k].res \notin Pooled'
  <2> SUFFICES ASSUME NEW c \in Descs, NEW i \in DOMAIN pool'[c], pool[d][k].res = pool'[c][i].res
               PROVE  FALSE
    BY PooledFactsNext
  <2>1. pool'[c][i] = pool[c][old(c, i)] /\ old(c, i) \in DOMAIN pool[c] /\ ~(c = d /\ old(c, i) = k)
    BY <1>3
  <2> HIDE DEF old
  <2> QED BY <2>1 DEF PoolDistinct
<1>8. \A c \in Descs : \A j \in DOMAIN pool[c] : c # d \/ j # k =>
          \E i \in DOMAIN pool'[c] : pool'[c][i] = pool[c][j]
  <2> SUFFICES ASSUME NEW c \in Descs, NEW j \in DOMAIN pool[c], c # d \/ j # k
               PROVE  \E i \in DOMAIN pool'[c] : pool'[c][i] = pool[c][j]
    OBVIOUS
  <2>1. CASE c # d
    BY <1>2, <2>1
  <2>2. CASE c = d
    <3>0. k \in 1..Len(pool[d]) /\ j \in 1..Len(pool[d]) /\ j # k /\ DOMAIN t = 1..(Len(pool[d]) - 1)
      BY <1>0, <1>1, <2>2
    <3>1. CASE j < k
      <4>1. j \in DOMAIN t
        BY <3>0, <3>1
      <4>2. t[j] = pool[d][j]
        BY <1>1, <3>1, <4>1
      <4> QED BY <1>2, <2>2, <4>1, <4>2
    <3>2. CASE j > k
      <4>1. j - 1 \in DOMAIN t /\ ~(j - 1 < k) /\ (j - 1) + 1 = j
        BY <3>0, <3>2
      <4>2. t[j - 1] = pool[d][j]
        BY <1>1, <4>1
      <4> QED BY <1>2, <2>2, <4>1, <4>2
    <3> QED BY <3>0, <3>1, <3>2
  <2> QED BY <2>1, <2>2
<1>9. Pooled \ {pool[d][k].res} \subseteq Pooled'
  <2> SUFFICES ASSUME NEW c \in Descs, NEW j \in DOMAIN pool[c], pool[c][j].res # pool[d][k].res
               PROVE  pool[c][j].res \in Pooled'
    BY PooledFacts
  <2>1. PICK i \in DOMAIN pool'[c] : pool'[c][i] = pool[c][j]
    BY <1>8
  <2> QED BY <2>1, PooledFactsNext
<1>10. Pooled' \subseteq Pooled
  BY <1>6, PooledFacts, PooledFactsNext
<1> QED BY <1>2, <1>5, <1>6, <1>7, <1>9, <1>10

\* An object that is in no pool is put into one.
LEMMA PoolAdd ==
    ASSUME PoolsType, PoolDistinct, NEW d \in Descs, NEW x \in Element, x.res \notin Pooled,
           pool' = [pool EXCEPT ![d] = Append(@, x)]
    PROVE  /\ PoolsType' /\ PoolDistinct'
           /\ Elements' = Elements \cup {x} /\ Pooled' = Pooled \cup {x.res}
<1> DEFINE s == pool[d]
<1>0. s \in Seq(Element) /\ Len(s) \in Nat /\ DOMAIN s = 1..Len(s)
  BY DEF PoolsType
<1>1. /\ Append(s, x) \in Seq(Element) /\ DOMAIN Append(s, x) = 1..(Len(s) + 1)
      /\ (\A i \in 1..Len(s) : Append(s, x)[i] = s[i]) /\ Append(s, x)[Len(s) + 1] = x
  BY <1>0
<1>2. pool'[d] = Append(s, x) /\ (\A c \in Descs \ {d} : pool'[c] = pool[c]) /\ PoolsType'
  BY <1>1 DEF PoolsType
<1>3. \A c \in Descs : \A i \in DOMAIN pool'[c] :
          \/ i \in DOMAIN pool[c] /\ pool'[c][i] = pool[c][i]
          \/ c = d /\ i = Len(s) + 1 /\ pool'[c][i] = x
  BY <1>0, <1>1, <1>2
<1>4. \A c \in Descs : \A i \in DOMAIN pool[c] : i \in DOMAIN pool'[c] /\ pool'[c][i] = pool[c][i]
  BY <1>0, <1>1, <1>2
<1>5. Len(s) + 1 \in DOMAIN pool'[d] /\ pool'[d][Len(s) + 1] = x
  BY <1>0, <1>1, <1>2
<1> HIDE DEF s
<1>6. Elements' = Elements \cup {x}
  BY <1>3, <1>4, <1>5, PooledFacts, PooledFactsNext
<1>7. Pooled' = Pooled \cup {x.res}
  BY <1>6, PooledFacts, PooledFactsNext
<1>8. PoolDistinct'
  <2> SUFFICES ASSUME NEW b \in Descs, NEW c \in Descs,
                      NEW i \in DOMAIN pool'[b], NEW j \in DOMAIN pool'[c],
                      pool'[b][i].res = pool'[c][j].res
               PROVE  b = c /\ i = j
    BY DEF PoolDistinct
  <2>1. \A a \in Descs : \A k \in DOMAIN pool[a] : pool[a][k].res # x.res
    BY PooledFacts
  <2> QED BY <1>3, <2>1 DEF PoolDistinct
<1> QED BY <1>2, <1>6, <1>7, <1>8

-----------------------------------------------------------------------------
(* Types, and what they say of the graph.                                  *)

GraphType ==
    /\ phase \in {"setup", "aliasing", "ready", "barriers", "dealloc", "collect", "destroyed"}
    /\ aliasing_enabled \in BOOLEAN
    /\ resources \in Seq(Node) /\ Len(resources) <= MaxResources
    /\ passes \in Seq(Pass) /\ \A i \in DOMAIN passes : Edges(i) \subseteq Nodes
    /\ source \in [Handles -> 0..MaxResources] /\ at \in Nat

NodeType ==
    /\ frame_res \in [Handles -> Phys \cup Imports \cup {None}]
    /\ init_state \in [Handles -> States]
    /\ todo \subseteq Nodes /\ aliasing \subseteq Nodes

GpuType ==
    /\ frame_index \in 0..MaxFrames
    /\ live \subseteq Phys /\ views \subseteq Phys \cup Imports
    /\ layout \in [Phys \cup Imports -> States]
    /\ aliasing_textures \in [Executors -> SUBSET Phys]
    /\ fence \in [Executors -> -1..MaxFrames] /\ done \in 0..frame_index
    /\ uses \in [0..MaxFrames -> SUBSET (Phys \cup Imports)]

\* The type invariant in four parts.
LEMMA TypeParts == TypeOK <=> GraphType /\ NodeType /\ PoolsType /\ GpuType
BY DEF TypeOK, GraphType, NodeType, PoolsType, GpuType

\* The same for the next state.
LEMMA TypePartsNext == TypeOK' <=> GraphType' /\ NodeType' /\ PoolsType' /\ GpuType'
BY DEF TypeOK, GraphType, NodeType, PoolsType, GpuType

\* What the types say of nodes, passes and the users of a node.
LEMMA GraphFacts ==
    ASSUME GraphType
    PROVE  /\ Len(resources) \in Nat /\ Nodes = 1..Len(resources) /\ Nodes \subseteq Handles
           /\ Len(passes) \in Nat /\ DOMAIN passes = 1..Len(passes)
           /\ \A n \in Nodes : resources[n] \in Node /\ resources[n].desc \in Descs /\ Imported(n) \in BOOLEAN
           /\ \A i \in DOMAIN passes : passes[i] \in Pass /\ passes[i].type \in PassTypes
           /\ \A n : Users(n) \subseteq DOMAIN passes /\ Users(n) \subseteq Nat
           /\ \A n : Users(n) # {} => n \in Nodes
           /\ \A n : \A i : i \in Users(n) <=> i \in DOMAIN passes /\ n \in Edges(i)
<1>1. Len(resources) \in Nat /\ Nodes = 1..Len(resources) /\ Len(passes) \in Nat /\ DOMAIN passes = 1..Len(passes)
  BY DEF GraphType, Nodes
<1>2. Nodes \subseteq Handles
  BY <1>1, RenderGraphAssumption DEF GraphType, Handles
<1>3. \A n \in Nodes : resources[n] \in Node
  BY <1>1 DEF GraphType
<1>4. \A i \in DOMAIN passes : passes[i] \in Pass
  BY <1>1 DEF GraphType
<1>5. \A n : Users(n) \subseteq DOMAIN passes /\ \A i : i \in Users(n) <=> i \in DOMAIN passes /\ n \in Edges(i)
  BY DEF Users
<1>6. \A n : Users(n) # {} => n \in Nodes
  BY <1>5 DEF GraphType
<1>7. \A n : Users(n) \subseteq Nat
  BY <1>1, <1>5
<1>8. \A n \in Nodes : resources[n].desc \in Descs /\ Imported(n) \in BOOLEAN
  BY <1>3 DEF Node, Imported
<1>9. \A i \in DOMAIN passes : passes[i].type \in PassTypes
  BY <1>4 DEF Pass
<1> QED BY <1>1, <1>2, <1>3, <1>4, <1>5, <1>6, <1>7, <1>8, <1>9

\* The state that a pass asks for is a state.
LEMMA RequestedType ==
    ASSUME GraphType, NEW i \in DOMAIN passes, NEW n
    PROVE  Requested(i, n) \in States
<1>1. passes[i].type \in {"Render", "Compute", "Copy", "Present"}
  BY GraphFacts, RenderGraphAssumption
<1> QED BY <1>1 DEF Requested, ReadState, WriteState, States

\* The executor of the frame, and the frames in flight.
LEMMA ExecutorFacts ==
    ASSUME GpuType
    PROVE  /\ Executor \in Executors /\ frame_index \in Nat /\ done \in Nat /\ done <= frame_index
           /\ \A f \in Nat : f % RG_MAX_FRAME_IN_FLIGHT \in Executors
           /\ \A e \in Executors : fence[e] \in Int
           /\ frame_index \in 0..MaxFrames /\ InFlight \subseteq 0..MaxFrames
           /\ frame_index \notin InFlight
<1>1. frame_index \in Nat /\ done \in Nat /\ done <= frame_index /\ frame_index \in 0..MaxFrames
  BY BackendAssumption DEF GpuType
<1>2. \A f \in Nat : f % RG_MAX_FRAME_IN_FLIGHT \in Executors
  BY BackendAssumption, ModRange DEF Executors
<1>3. Executor \in Executors
  BY <1>1, <1>2 DEF Executor
<1>4. \A e \in Executors : fence[e] \in Int
  BY DEF GpuType
<1>5. InFlight \subseteq 0..MaxFrames /\ frame_index \notin InFlight
  BY <1>1, BackendAssumption DEF InFlight
<1> QED BY <1>1, <1>2, <1>3, <1>4, <1>5

\* A step that leaves resources and passes alone.
LEMMA GraphSame ==
    ASSUME UNCHANGED <<resources, passes>>
    PROVE  /\ Nodes' = Nodes /\ (Disciplined' <=> Disciplined)
           /\ \A n : Users(n)' = Users(n) /\ Readers(n)' = Readers(n) /\ Imported(n)' = Imported(n)
           /\ \A i : Edges(i)' = Edges(i) /\ \A n : Requested(i, n)' = Requested(i, n)
           /\ KeptPasses' = KeptPasses
<1>1. Nodes' = Nodes /\ \A i : Edges(i)' = Edges(i)
  BY DEF Nodes, Edges
<1>2. \A n : Users(n)' = Users(n) /\ Readers(n)' = Readers(n) /\ Imported(n)' = Imported(n)
  BY DEF Users, Readers, Imported, Edges
<1>3. \A i : \A n : Requested(i, n)' = Requested(i, n)
  BY DEF Requested
<1>4. KeptPasses' = KeptPasses
  BY DEF KeptPasses, Edges
<1>5. Disciplined' <=> Disciplined
  BY <1>1, <1>2 DEF Disciplined
<1> QED BY <1>1, <1>2, <1>3, <1>4, <1>5

\* Between frames nodes own what they import, and nothing else.
LEMMA BetweenFrames ==
    ASSUME PlaceInv, FrameInv, ~Recording
    PROVE  Held = {} /\ \A n : Owning(n) <=> n \in Nodes /\ Imported(n)
<1>1. \A n : Owning(n) => n \in Nodes /\ Imported(n)
  BY DEF Owning, PlaceInv
<1>2. \A n \in Nodes : Imported(n) => Owning(n)
  BY RenderGraphAssumption DEF FrameInv, Owning
<1> QED BY <1>1, <1>2 DEF Held

\* When no frame is being recorded only imported nodes own their objects.
LEMMA BetweenFramesNext ==
    ASSUME PlaceInv', FrameInv', ~Recording'
    PROVE  Held' = {} /\ \A n : Owning(n)' <=> n \in Nodes' /\ Imported(n)'
<1>1. \A n : Owning(n)' => n \in Nodes' /\ Imported(n)'
  BY DEF Owning, PlaceInv
<1>2. \A n \in Nodes' : Imported(n)' => Owning(n)'
  BY RenderGraphAssumption DEF FrameInv, Owning
<1> QED BY <1>1, <1>2 DEF Held

-----------------------------------------------------------------------------
(* Between frames.                                                         *)

\* The graph changes and no object does.
LEMMA IdleSame ==
    ASSUME IInv, ~Recording, ~Recording', phase' # "destroyed", PlaceInv', FrameInv', GpuType',
           UNCHANGED <<frame_index, pool, live, views, memory, aliasing_textures, fence, done, uses>>,
           \A m, n \in Nodes' : Imported(m)' /\ Imported(n)' /\ frame_res'[m] = frame_res'[n] => m = n,
           \A n \in Nodes' : Imported(n)' => layout'[frame_res'[n]] = init_state'[n],
           \A p \in Phys : layout'[p] = layout[p]
    PROVE  OwnerInv' /\ FenceInv' /\ UseInv' /\ ViewsLive' /\ StateInv'
<1>0. /\ GpuType /\ PoolsType /\ PlaceInv /\ FrameInv /\ OwnerInv /\ FenceInv /\ UseInv /\ ViewsLive
      /\ StateInv
  BY TypeParts DEF IInv
<1>1. Held = {} /\ Held' = {} /\ \A n : Owning(n)' <=> n \in Nodes' /\ Imported(n)'
  BY <1>0, BetweenFrames, BetweenFramesNext
<1>2. Elements' = Elements /\ Pooled' = Pooled /\ (PoolDistinct' <=> PoolDistinct)
      /\ Elements \subseteq Element /\ Pooled \subseteq Phys
  BY <1>0, PoolSame, ElementFacts
<1>3. Aliased' = Aliased /\ Executor' = Executor /\ InFlight' = InFlight
  BY DEF Aliased, Executor, InFlight
<1>4. aliasing' = {}
  BY DEF PlaceInv
<1>5. OwnerInv'
  BY <1>0, <1>1, <1>2, <1>3, <1>4 DEF OwnerInv
<1>6. FenceInv'
  BY <1>0 DEF FenceInv
<1>7. UseInv'
  <2>1. \A q, f : Kept(q, f)' <=> Kept(q, f)
    BY <1>2 DEF Kept
  <2> QED BY <1>0, <1>3, <2>1 DEF UseInv
<1>8. StateInv'
  BY <1>0, <1>2 DEF StateInv, Element
<1> QED BY <1>0, <1>5, <1>6, <1>7, <1>8 DEF ViewsLive

\* compile() looks for a texture whose memory can be shared.
LEMMA AliasingStep ==
    ASSUME IInv, CalculateAliasing
    PROVE  /\ source' \in [Handles -> 0..MaxResources]
           /\ \A a \in DOMAIN spans' : /\ a \in Nodes /\ spans'[a] \in Int /\ ~Imported(a)
                                       /\ \E i \in Users(a) : i <= spans'[a]
           /\ \A n \in Handles : source'[n] # 0 =>
                  /\ n \in Nodes /\ source'[n] \in Nodes /\ ~Imported(source'[n])
                  /\ \E i \in Users(source'[n]) : \A j \in Users(n) : i < j
<1>0. GraphType /\ GraphInv
  BY TypeParts DEF IInv
<1>1. Nodes \subseteq Handles /\ (\A n : Users(n) \subseteq 1..Len(passes) /\ Users(n) \subseteq Nat) /\ Len(passes) \in Nat
      /\ Nodes \subseteq 0..MaxResources
  BY <1>0, GraphFacts DEF Handles
<1>2. ASSUME NEW n \in Nodes, Users(n) # {}
      PROVE  /\ From(n) \in Users(n) /\ To(n) \in Users(n)
             /\ \A j \in Users(n) : From(n) <= j /\ j <= To(n)
  BY <1>1, <1>2, MinFacts, MaxFacts DEF From, To
<1>3. CASE UNCHANGED <<source, spans>>
  BY <1>0, <1>3 DEF GraphType, GraphInv
<1>4. CASE at \in KeptTextures /\ (AliasFromChain(at) \/ AliasNew(at))
  <2>0. at \in Nodes /\ Users(at) # {}
    BY <1>4 DEF KeptTextures, Textures
  <2>1. /\ From(at) \in Users(at) /\ To(at) \in Users(at) /\ From(at) \in Nat /\ To(at) \in Nat
        /\ \A j \in Users(at) : From(at) <= j /\ j <= To(at)
    BY <1>1, <1>2, <2>0
  <2>2. ASSUME NEW a \in InChain(at)
        PROVE  /\ a \in Nodes /\ ~Imported(a) /\ spans[a] \in Int /\ spans[a] < From(at)
               /\ \E i \in Users(a) : i <= spans[a]
    BY <1>0 DEF InChain, GraphInv
  <2>3. ASSUME NEW a \in Finished(at)
        PROVE  /\ a \in Nodes /\ ~Imported(a) /\ Users(a) # {} /\ To(a) < From(at)
               /\ To(a) \in Users(a) /\ From(a) \in Users(a) /\ From(a) \in Nat
    <3>1. a \in Nodes /\ ~Imported(a) /\ Users(a) # {} /\ To(a) < From(at)
      BY DEF Finished, KeptTextures, Textures, Capacity, Imported
    <3> QED BY <1>1, <1>2, <3>1
  <2>4. ASSUME NEW a \in InChain(at) \cup Finished(at)
        PROVE  \E i \in Users(a) : \A j \in Users(at) : i < j
    <3>1. CASE a \in InChain(at)
      <4>1. PICK i \in Users(a) : i <= spans[a]
        BY <2>2, <3>1
      <4>2. \A j \in Users(at) : i < j
        <5>1. i \in Nat /\ spans[a] \in Int /\ spans[a] < From(at) /\ Users(at) \subseteq Nat
          BY <1>1, <2>2, <3>1
        <5> QED BY <2>1, <4>1, <5>1
      <4> QED BY <4>2
    <3>2. CASE a \in Finished(at)
      <4>1. To(a) \in Users(a) /\ To(a) \in Nat /\ To(a) < From(at)
        BY <1>1, <2>3, <3>2
      <4>2. \A j \in Users(at) : To(a) < j
        BY <1>1, <2>1, <4>1
      <4> QED BY <4>1, <4>2
    <3> QED BY <3>1, <3>2
  <2>5. source' = source \/ \E a \in InChain(at) \cup Finished(at) : source' = [source EXCEPT ![at] = a]
    <3>1. CASE AliasFromChain(at)
      <4>1. PICK H \in HeldInSomeOrder(InChain(at)) :
                \E a \in Chosen(H) : source' = [source EXCEPT ![at] = a]
        BY <3>1 DEF AliasFromChain
      <4>2. H \subseteq InChain(at)
        BY DEF HeldInSomeOrder
      <4> QED BY <4>1, <4>2 DEF Chosen
    <3>2. CASE AliasNew(at)
      BY <3>2 DEF AliasNew, Chosen
    <3> QED BY <1>4, <3>1, <3>2
  <2>6. \A a \in InChain(at) \cup Finished(at) : a \in Nodes /\ ~Imported(a)
    BY <2>2, <2>3
  <2>7. source' \in [Handles -> 0..MaxResources]
    BY <1>0, <1>1, <2>5, <2>6 DEF GraphType
  <2>8. \A n \in Handles : source'[n] # 0 =>
            /\ n \in Nodes /\ source'[n] \in Nodes /\ ~Imported(source'[n])
            /\ \E i \in Users(source'[n]) : \A j \in Users(n) : i < j
    <3> SUFFICES ASSUME NEW n \in Handles, source'[n] # 0
                 PROVE  /\ n \in Nodes /\ source'[n] \in Nodes /\ ~Imported(source'[n])
                        /\ \E i \in Users(source'[n]) : \A j \in Users(n) : i < j
      OBVIOUS
    <3>1. source'[n] = source[n] \/ (n = at /\ source'[n] \in InChain(at) \cup Finished(at))
      BY <1>0, <2>5 DEF GraphType
    <3>2. CASE source'[n] = source[n]
      BY <1>0, <3>2 DEF GraphInv
    <3>3. CASE n = at /\ source'[n] \in InChain(at) \cup Finished(at)
      BY <2>0, <2>4, <2>6, <3>3
    <3> QED BY <3>1, <3>2, <3>3
  <2>9. \A a \in DOMAIN spans' : /\ a \in Nodes /\ spans'[a] \in Int /\ ~Imported(a)
                                 /\ \E i \in Users(a) : i <= spans'[a]
    <3> SUFFICES ASSUME NEW a \in DOMAIN spans'
                 PROVE  /\ a \in Nodes /\ spans'[a] \in Int /\ ~Imported(a)
                        /\ \E i \in Users(a) : i <= spans'[a]
      OBVIOUS
    <3>1. \/ a \in DOMAIN spans /\ spans'[a] = spans[a]
          \/ a \in InChain(at) /\ spans'[a] = To(at)
          \/ a \in Finished(at) /\ spans'[a] = From(a)
      <4>1. CASE AliasFromChain(at)
        <5>1. PICK H \in HeldInSomeOrder(InChain(at)) :
                  spans' = [b \in DOMAIN spans |-> IF b \in H THEN To(at) ELSE spans[b]]
          BY <4>1 DEF AliasFromChain
        <5>2. H \subseteq InChain(at)
          BY DEF HeldInSomeOrder
        <5> QED BY <5>1, <5>2
      <4>2. CASE AliasNew(at)
        BY <4>2 DEF AliasNew, HeldOnTo
      <4> QED BY <1>4, <4>1, <4>2
    <3>2. CASE a \in DOMAIN spans /\ spans'[a] = spans[a]
      BY <1>0, <3>2 DEF GraphInv
    <3>3. CASE a \in InChain(at) /\ spans'[a] = To(at)
      <4>1. PICK i \in Users(a) : i <= spans[a]
        BY <2>2, <3>3
      <4>2. i \in Nat /\ spans[a] \in Int /\ spans[a] < From(at) /\ From(at) <= To(at)
        BY <1>1, <2>1, <2>2, <3>3
      <4>3. i <= To(at)
        BY <2>1, <4>1, <4>2
      <4> QED BY <2>1, <2>6, <3>3, <4>3
    <3>4. CASE a \in Finished(at) /\ spans'[a] = From(a)
      BY <2>3, <3>4
    <3> QED BY <3>1, <3>2, <3>3, <3>4
  <2> QED BY <2>7, <2>8, <2>9
<1> QED BY <1>3, <1>4 DEF CalculateAliasing

\* The nodes and passes stay; at most the phase, the place and aliasing change.
LEMMA SetupSame ==
    ASSUME IInv, ~Recording, phase' \in {"setup", "aliasing", "ready"}, at' \in Nat,
           aliasing_enabled' \in BOOLEAN,
           UNCHANGED <<resources, passes, frame_res, init_state, backend>>,
           source' \in [Handles -> 0..MaxResources], GraphInv'
    PROVE  IInv'
<1>0. /\ TypeOK /\ GraphType /\ NodeType /\ PoolsType /\ GpuType /\ PlaceInv /\ FrameInv /\ OwnerInv /\ StateInv
  BY TypeParts DEF IInv
<1>1. ~Recording' /\ Nodes' = Nodes /\ (\A n : Imported(n)' = Imported(n)) /\ \A i : Edges(i)' = Edges(i)
  BY GraphSame DEF Recording
<1>2. UNCHANGED <<frame_index, todo, aliasing, pool, live, views, layout, memory, aliasing_textures,
                  fence, done, uses>>
  BY DEF backend
<1>3. GraphType'
  BY <1>0, <1>1 DEF GraphType
<1>4. NodeType' /\ PoolsType' /\ GpuType'
  BY <1>0, <1>1, <1>2 DEF NodeType, PoolsType, GpuType
<1>5. PlaceInv'
  BY <1>0, <1>1, <1>2 DEF PlaceInv
<1>6. FrameInv'
  BY <1>0, <1>1, <1>2 DEF FrameInv, PlaceInv
<1>7. \A m, n \in Nodes : Imported(m) /\ Imported(n) /\ frame_res[m] = frame_res[n] => m = n
  BY <1>0, BetweenFrames DEF OwnerInv
<1>8. OwnerInv' /\ FenceInv' /\ UseInv' /\ ViewsLive' /\ StateInv'
  BY <1>0, <1>1, <1>2, <1>4, <1>5, <1>6, <1>7, IdleSame DEF StateInv
<1> QED BY <1>3, <1>4, <1>5, <1>6, <1>8, TypePartsNext DEF IInv

\* A resource is added to a graph without passes.
LEMMA AddNode ==
    ASSUME IInv, phase = "setup", passes = <<>>, Len(resources) < MaxResources, NEW r \in Node,
           resources' = Append(resources, r),
           UNCHANGED <<phase, aliasing_enabled, passes, source, spans, at>>,
           UNCHANGED <<frame_index, todo, aliasing, pool, live, views, memory, aliasing_textures,
                       fence, done, uses>>,
           frame_index < MaxFrames, NEW p \in Imports \cup {None}, NEW st \in States,
           r.imported <=> p # None,
           \A n \in Nodes : p = None \/ frame_res[n] # p,
           frame_res' = IF p = None THEN frame_res ELSE [frame_res EXCEPT ![Len(resources) + 1] = p],
           init_state' = IF p = None THEN init_state ELSE [init_state EXCEPT ![Len(resources) + 1] = st],
           layout' = IF p = None THEN layout ELSE [layout EXCEPT ![p] = st]
    PROVE  IInv'
<1>0. /\ TypeOK /\ GraphType /\ NodeType /\ PoolsType /\ GpuType /\ GraphInv /\ PlaceInv /\ FrameInv
      /\ OwnerInv /\ StateInv /\ ~Recording /\ ~Recording'
  BY TypeParts DEF IInv, Recording
<1>k. PICK k : k = Len(resources) + 1
  OBVIOUS
<1>1. /\ Nodes = 1..Len(resources) /\ Len(resources) \in Nat /\ k \in Handles /\ k \notin Nodes
      /\ Nodes \subseteq Handles
  BY <1>0, <1>k, GraphFacts, RenderGraphAssumption DEF Handles
<1>2. /\ resources' \in Seq(Node) /\ Len(resources') = Len(resources) + 1 /\ Nodes' = Nodes \cup {k}
      /\ resources'[k] = r /\ \A n \in Nodes : resources'[n] = resources[n]
  BY <1>0, <1>1, <1>k DEF GraphType, Nodes
<1>3. (\A n \in Nodes : Imported(n)' <=> Imported(n)) /\ (Imported(k)' <=> p # None)
  BY <1>2 DEF Imported
<1>4. DOMAIN passes = {}
  OBVIOUS
<1>5. GraphType'
  BY <1>0, <1>1, <1>2, <1>4, RenderGraphAssumption DEF GraphType
<1>6. /\ frame_res'[k] = p /\ (p # None => init_state'[k] = st)
      /\ \A n \in Handles \ {k} : frame_res'[n] = frame_res[n] /\ init_state'[n] = init_state[n]
  BY <1>0, <1>1, <1>k DEF NodeType, FrameInv
<1>7. NodeType'
  BY <1>0, <1>1, <1>2, <1>k DEF NodeType
<1>8. PoolsType' /\ GpuType'
  BY <1>0 DEF PoolsType, GpuType
<1>9. GraphInv'
  BY <1>0, <1>4 DEF GraphInv
<1>10. PlaceInv'
  BY <1>0 DEF PlaceInv
<1>11. FrameInv'
  BY <1>0, <1>1, <1>2, <1>3, <1>6, RenderGraphAssumption DEF FrameInv, PlaceInv
<1>12. \A m, n \in Nodes' : Imported(m)' /\ Imported(n)' /\ frame_res'[m] = frame_res'[n] => m = n
  <2>1. \A m, n \in Nodes : Imported(m) /\ Imported(n) /\ frame_res[m] = frame_res[n] => m = n
    BY <1>0, BetweenFrames DEF OwnerInv
  <2>2. \A n \in Nodes : Imported(n)' /\ Imported(k)' => frame_res'[n] # frame_res'[k]
    BY <1>1, <1>3, <1>6
  <2> QED BY <1>1, <1>2, <1>3, <1>6, <2>1, <2>2
<1>13. \A n \in Nodes' : Imported(n)' => layout'[frame_res'[n]] = init_state'[n]
  <2>1. CASE p = None
    BY <1>0, <1>1, <1>2, <1>3, <1>6, <2>1 DEF StateInv
  <2>2. CASE p # None
    <3>1. layout'[p] = st /\ \A q \in Imports \ {p} : layout'[q] = layout[q]
      BY <1>0, <2>2 DEF GpuType
    <3>2. \A n \in Nodes : Imported(n) => frame_res[n] \in Imports \ {p} /\ layout[frame_res[n]] = init_state[n]
      BY <1>0, <2>2 DEF FrameInv, StateInv
    <3> QED BY <1>1, <1>2, <1>3, <1>6, <2>2, <3>1, <3>2
  <2> QED BY <2>1, <2>2
<1>14. \A q \in Phys : layout'[q] = layout[q]
  BY <1>0, RenderGraphAssumption DEF GpuType
<1>15. OwnerInv' /\ FenceInv' /\ UseInv' /\ ViewsLive' /\ StateInv'
  BY <1>0, <1>8, <1>10, <1>11, <1>12, <1>13, <1>14, IdleSame
<1> QED BY <1>5, <1>7, <1>8, <1>9, <1>10, <1>11, <1>15, TypePartsNext DEF IInv

\* The builders of passes keep the invariant.
LEMMA AddPassStep ==
    ASSUME IInv, NEW p \in Pass, AddPass(p), frame_index < MaxFrames, UNCHANGED backend
    PROVE  IInv'
<1>0. /\ TypeOK /\ GraphType /\ NodeType /\ PoolsType /\ GpuType /\ GraphInv /\ PlaceInv /\ FrameInv
      /\ OwnerInv /\ StateInv /\ phase = "setup" /\ phase' = "setup" /\ ~Recording /\ ~Recording'
  BY TypeParts DEF IInv, Recording, AddPass
<1>1. UNCHANGED <<aliasing_enabled, resources, source, spans, at, frame_res, init_state>>
      /\ UNCHANGED <<frame_index, todo, aliasing, pool, live, views, layout, memory, aliasing_textures,
                     fence, done, uses>>
  BY DEF AddPass, backend
<1>2. Nodes' = Nodes /\ \A n : Imported(n)' = Imported(n)
  BY <1>1 DEF Nodes, Imported
<1>3. /\ passes' \in Seq(Pass) /\ DOMAIN passes' = 1..(Len(passes) + 1) /\ passes'[Len(passes) + 1] = p
      /\ \A i \in DOMAIN passes : passes'[i] = passes[i]
  BY <1>0 DEF AddPass, GraphType
<1>4. Len(passes) \in Nat /\ DOMAIN passes = 1..Len(passes)
  BY <1>0, GraphFacts
<1>5. \A i \in DOMAIN passes' :
          /\ Edges(i)' = IF i \in DOMAIN passes THEN Edges(i) ELSE p.reads \cup p.writes
          /\ passes'[i].type = IF i \in DOMAIN passes THEN passes[i].type ELSE p.type
  BY <1>3, <1>4 DEF Edges
<1>6. p.reads \cup p.writes \subseteq Nodes
      /\ (p.type = "Present" => \A n \in p.reads \cup p.writes : Imported(n))
  BY DEF AddPass, Buildable, Imported
<1>7. GraphType'
  BY <1>0, <1>1, <1>2, <1>3, <1>5, <1>6 DEF GraphType
<1>8. NodeType' /\ PoolsType' /\ GpuType'
  BY <1>0, <1>1, <1>2 DEF NodeType, PoolsType, GpuType
<1>9. GraphInv'
  <2>1. \A i \in DOMAIN passes' : passes'[i].type = "Present" => \A n \in Edges(i)' : Imported(n)'
    BY <1>0, <1>2, <1>5, <1>6 DEF GraphInv
  <2>2. spans' = <<>> /\ \A n \in Handles : source'[n] = 0
    BY <1>0, <1>1 DEF GraphInv
  <2> QED BY <1>0, <1>1, <2>1, <2>2 DEF GraphInv
<1>10. PlaceInv'
  BY <1>0, <1>1 DEF PlaceInv
<1>11. FrameInv'
  BY <1>0, <1>1, <1>2 DEF FrameInv, PlaceInv
<1>12. \A m, n \in Nodes : Imported(m) /\ Imported(n) /\ frame_res[m] = frame_res[n] => m = n
  BY <1>0, BetweenFrames DEF OwnerInv
<1>13. OwnerInv' /\ FenceInv' /\ UseInv' /\ ViewsLive' /\ StateInv'
  BY <1>0, <1>1, <1>2, <1>8, <1>10, <1>11, <1>12, IdleSame DEF StateInv
<1> QED BY <1>7, <1>8, <1>9, <1>10, <1>11, <1>13, TypePartsNext DEF IInv

\* The calls between frames keep the invariant.
LEMMA SetupStep == IInv /\ Setup => IInv'
<1> SUFFICES ASSUME IInv, Setup PROVE IInv'
  OBVIOUS
<1>0. GraphType /\ GraphInv /\ PlaceInv
  BY TypeParts DEF IInv
<1>1. ASSUME frame_index < MaxFrames, NEW b \in BOOLEAN, EnableMemoryAliasing(b), UNCHANGED backend PROVE IInv'
  <2>1. phase = "setup" /\ phase' = phase /\ ~Recording /\ at' = at /\ source' = source /\ aliasing_enabled' = b
        /\ UNCHANGED <<resources, passes, frame_res, init_state, backend, spans>>
    BY <1>1 DEF EnableMemoryAliasing, Recording
  <2>2. GraphInv'
    BY <1>0, <2>1, GraphSame DEF GraphInv, backend
  <2> QED BY <1>0, <2>1, <2>2, SetupSame DEF GraphType
<1>2. ASSUME frame_index < MaxFrames, NEW d \in Descs, CreateResource(d), UNCHANGED backend PROVE IInv'
  <2> DEFINE r == [desc |-> d, imported |-> FALSE]
  <2>1. r \in Node /\ ~r.imported /\ "UNDEFINED" \in States
    BY DEF Node, States
  <2> QED BY <1>2, <2>1, AddNode DEF CreateResource, backend
<1>3. ASSUME frame_index < MaxFrames, NEW p \in Pass, AddPass(p), UNCHANGED backend PROVE IInv'
  BY <1>3, AddPassStep
<1>4. ASSUME frame_index < MaxFrames, Compile, UNCHANGED backend PROVE IInv'
  <2>1. phase = "setup" /\ phase' = "aliasing" /\ ~Recording /\ at' = 1 /\ Disciplined
        /\ UNCHANGED <<aliasing_enabled, source, resources, passes, frame_res, init_state, backend, spans>>
    BY <1>4 DEF Compile, Recording
  <2>2. GraphInv'
    BY <1>0, <1>4, <2>1, GraphSame DEF GraphInv, backend
  <2> QED BY <1>0, <2>1, <2>2, SetupSame DEF GraphType
<1>5. ASSUME frame_index < MaxFrames, CalculateAliasing, UNCHANGED backend PROVE IInv'
  <2>1. phase = "aliasing" /\ phase' = "aliasing" /\ ~Recording /\ at' = at + 1
        /\ UNCHANGED <<aliasing_enabled, resources, passes, frame_res, init_state, backend>>
    BY <1>5 DEF CalculateAliasing, Recording
  <2>2. GraphInv'
    BY <1>0, <1>5, <2>1, GraphSame, AliasingStep DEF GraphInv, backend
  <2> QED BY <1>0, <1>5, <2>1, <2>2, SetupSame, AliasingStep DEF GraphType
<1>6. ASSUME frame_index < MaxFrames, Compiled, UNCHANGED backend PROVE IInv'
  <2>1. phase = "aliasing" /\ phase' = "ready" /\ ~Recording
        /\ UNCHANGED <<at, source, spans, aliasing_enabled, resources, passes, frame_res, init_state, backend>>
    BY <1>6 DEF Compiled, Recording
  <2>2. GraphInv'
    BY <1>0, <1>6, <2>1, GraphSame DEF GraphInv, backend
  <2> QED BY <1>0, <2>1, <2>2, SetupSame DEF GraphType
<1>7. ASSUME NEW d \in Descs, NEW p \in Imports, NEW st \in States, Import(d, p, st) PROVE IInv'
  <2> DEFINE r == [desc |-> d, imported |-> TRUE]
  <2>1. r \in Node /\ r.imported /\ p # None
    BY RenderGraphAssumption DEF Node
  <2>2. ImportResource(d, p, st)
    BY <1>7 DEF Import
  <2>3. \A n \in Nodes : frame_res[n] # p
    BY <2>2 DEF ImportResource
  <2> QED BY <1>7, <2>1, <2>2, <2>3, AddNode DEF Import, ImportResource
<1> QED BY <1>1, <1>2, <1>3, <1>4, <1>5, <1>6, <1>7 DEF Setup

-----------------------------------------------------------------------------
(* The GPU, garbage and the end.                                           *)

\* The nodes stay as they are.
LEMMA NodeSame ==
    ASSUME UNCHANGED <<graph, phase, at, frame_res, todo, aliasing>>
    PROVE  /\ UNCHANGED <<aliasing_enabled, resources, passes, source, spans>>
           /\ Nodes' = Nodes /\ (Recording' <=> Recording) /\ Held' = Held
           /\ \A n : /\ Imported(n)' = Imported(n) /\ (Owning(n)' <=> Owning(n))
                     /\ (Begun(n)' <=> Begun(n)) /\ Users(n)' = Users(n) /\ Past(n)' = Past(n)
           /\ \A i : Edges(i)' = Edges(i) /\ \A n : Requested(i, n)' = Requested(i, n)
           /\ (Disciplined' <=> Disciplined)
<1>1. UNCHANGED <<aliasing_enabled, resources, passes, source, spans>>
  BY DEF graph
<1>2. /\ Nodes' = Nodes /\ (Disciplined' <=> Disciplined)
      /\ \A n : Users(n)' = Users(n) /\ Imported(n)' = Imported(n)
      /\ \A i : Edges(i)' = Edges(i) /\ \A n : Requested(i, n)' = Requested(i, n)
  BY <1>1, GraphSame
<1>3. Recording' <=> Recording
  BY DEF Recording
<1>4. \A n : (Begun(n)' <=> Begun(n)) /\ (Unfinished(n)' <=> Unfinished(n)) /\ Past(n)' = Past(n)
  BY <1>2 DEF Begun, Unfinished, Past, Pending
<1>5. \A n : Owning(n)' <=> Owning(n)
  BY <1>2, <1>3, <1>4 DEF Owning
<1>6. Held' = Held
  BY <1>2, <1>5 DEF Held
<1> QED BY <1>1, <1>2, <1>3, <1>4, <1>5, <1>6

\* So do the parts of the invariant about them.
LEMMA NodePartsSame ==
    ASSUME GraphType, NodeType, GraphInv, PlaceInv, FrameInv,
           UNCHANGED <<graph, phase, at, frame_res, init_state, todo, aliasing, frame_index>>
    PROVE  GraphType' /\ NodeType' /\ GraphInv' /\ PlaceInv' /\ FrameInv'
<1>1. GraphType' /\ NodeType'
  BY NodeSame DEF GraphType, NodeType
<1>2. GraphInv'
  BY NodeSame DEF GraphInv
<1>3. PlaceInv'
  BY NodeSame DEF PlaceInv
<1>4. FrameInv'
  BY NodeSame DEF FrameInv
<1> QED BY <1>1, <1>2, <1>3, <1>4

\* The frames' objects, with the objects in whose memory they are.
LEMMA UseNext ==
    ASSUME memory' \in [Phys \cup Imports -> Phys \cup Imports],
           \A p \in live' \ Aliased' : memory'[p] = p,
           \A f \in InFlight' \cup {frame_index'} : \A p \in uses'[f] \ Imports :
               \A q \in {p, memory'[p]} : Kept(q, f)',
           \A f \in 0..MaxFrames : f > frame_index' \/ (f = frame_index' /\ ~Recording') => uses'[f] = {},
           Recording' => \A n \in Nodes' : ~Imported(n)' /\ frame_res'[n] # None =>
               frame_res'[n] \in uses'[frame_index']
    PROVE  UseInv'
BY DEF UseInv, Kept

\* What a frame in flight uses is kept for it, its memory too.
LEMMA UseNow ==
    ASSUME UseInv, NEW f \in InFlight \cup {frame_index}, NEW p \in uses[f] \ Imports,
           NEW q \in {p, memory[p]}
    PROVE  Kept(q, f)
BY DEF UseInv

\* The GPU finishes a frame: what only that frame used is used no more.
LEMMA FrameDoneStep == IInv /\ FrameDone => IInv'
<1> SUFFICES ASSUME IInv, FrameDone PROVE IInv'
  OBVIOUS
<1>0. /\ GraphType /\ NodeType /\ PoolsType /\ GpuType /\ GraphInv /\ PlaceInv /\ FrameInv
      /\ OwnerInv /\ FenceInv /\ UseInv /\ ViewsLive /\ StateInv
  BY TypeParts DEF IInv
<1>1. /\ UNCHANGED <<graph, phase, at, frame_res, init_state, frame_index, todo, aliasing, pool,
                     live, views, layout, memory, aliasing_textures, fence>>
      /\ done < frame_index /\ done' = done + 1 /\ uses' = [uses EXCEPT ![done] = {}]
  BY DEF FrameDone
<1>2. GraphType' /\ NodeType' /\ GraphInv' /\ PlaceInv' /\ FrameInv'
  BY <1>0, <1>1, NodePartsSame
<1>3. frame_index \in Nat /\ done \in Nat /\ Executor \in Executors /\ (\A e \in Executors : fence[e] \in Int)
      /\ frame_index <= MaxFrames /\ MaxFrames \in Nat /\ RG_MAX_FRAME_IN_FLIGHT \in Nat
  BY <1>0, ExecutorFacts, BackendAssumption
<1>4. Elements' = Elements /\ Pooled' = Pooled /\ (PoolDistinct' <=> PoolDistinct)
  BY <1>1, PoolSame
<1>5. Aliased' = Aliased /\ Executor' = Executor /\ InFlight' \subseteq InFlight \ {done}
  BY <1>1, <1>3 DEF Aliased, Executor, InFlight
<1>6. PoolsType' /\ GpuType'
  BY <1>0, <1>1, <1>3 DEF PoolsType, GpuType
<1>7. OwnerInv'
  <2>1. \A n \in aliasing : frame_res[n] \in aliasing_textures[Executor]
    BY <1>0 DEF OwnerInv
  <2> QED BY <1>0, <1>1, <1>4, <1>5, <2>1, NodeSame DEF OwnerInv
<1>8. FenceInv'
  BY <1>0, <1>1, <1>3, <1>5, NodeSame DEF FenceInv
<1>9. UseInv'
  <2>1. \A q, f : Kept(q, f)' <=> Kept(q, f)
    BY <1>1, <1>4 DEF Kept
  <2>2. \A f \in 0..MaxFrames : uses'[f] = IF f = done THEN {} ELSE uses[f]
    BY <1>0, <1>1 DEF GpuType
  <2>3. \A f \in InFlight' \cup {frame_index'} : f \in InFlight \cup {frame_index} /\ uses'[f] = uses[f]
    <3>1. \A f \in InFlight' : f \in InFlight /\ f # done /\ f \in 0..MaxFrames
      BY <1>3, <1>5 DEF InFlight
    <3>2. frame_index # done /\ frame_index \in 0..MaxFrames
      BY <1>1, <1>3
    <3> QED BY <1>1, <2>2, <3>1, <3>2
  <2>4. uses'[frame_index'] = uses[frame_index]
    BY <2>3, <1>1
  <2>5. \A f \in InFlight' \cup {frame_index'} : \A p \in uses'[f] \ Imports :
            \A q \in {p, memory'[p]} : Kept(q, f)'
    BY <1>0, <1>1, <2>1, <2>3, UseNow
  <2>6. \A f \in 0..MaxFrames : f > frame_index' \/ (f = frame_index' /\ ~Recording') => uses'[f] = {}
    BY <1>0, <1>1, <2>2, NodeSame DEF UseInv
  <2>7. Recording' => \A n \in Nodes' : ~Imported(n)' /\ frame_res'[n] # None => frame_res'[n] \in uses'[frame_index']
    BY <1>0, <1>1, <2>4, NodeSame DEF UseInv
  <2>8. memory' \in [Phys \cup Imports -> Phys \cup Imports] /\ \A p \in live' \ Aliased' : memory'[p] = p
    BY <1>0, <1>1, <1>5 DEF UseInv
  <2> QED BY <2>5, <2>6, <2>7, <2>8, UseNext
<1>10. ViewsLive'
  BY <1>0, <1>1 DEF ViewsLive
<1>11. StateInv'
  <2>1. ASSUME NEW n PROVE Left(n)' <=> Left(n)
    <3>1. Past(n)' = Past(n) /\ \A k : Requested(k, n)' = Requested(k, n)
      BY <1>1, NodeSame
    <3> QED BY <1>1, <3>1 DEF Left
  <2> QED BY <1>0, <1>1, <1>4, <2>1, NodeSame DEF StateInv
<1> QED BY <1>2, <1>6, <1>7, <1>8, <1>9, <1>10, <1>11, TypePartsNext DEF IInv

\* collect_garbage returns when nothing in the pools is expired.
LEMMA CollectedStep == IInv /\ Collected => IInv'
<1> SUFFICES ASSUME IInv, Collected PROVE IInv'
  OBVIOUS
<1>0. /\ GraphType /\ NodeType /\ PoolsType /\ GpuType /\ GraphInv /\ PlaceInv /\ FrameInv /\ StateInv
  BY TypeParts DEF IInv
<1>1. /\ phase = "collect" /\ phase' = "setup" /\ ~Recording /\ ~Recording'
      /\ UNCHANGED <<aliasing_enabled, resources, passes, source, spans, at, frame_res, init_state>>
      /\ UNCHANGED <<frame_index, todo, aliasing, pool, live, views, layout, memory, aliasing_textures,
                     fence, done, uses>>
  BY DEF Collected, Recording, graph, backend
<1>2. Nodes = {} /\ Nodes' = {} /\ \A i : Edges(i)' = Edges(i)
  BY <1>0, <1>1 DEF PlaceInv, Nodes, Edges
<1>3. GraphType'
  BY <1>0, <1>1, <1>2 DEF GraphType
<1>4. NodeType' /\ PoolsType' /\ GpuType'
  BY <1>0, <1>1, <1>2 DEF NodeType, PoolsType, GpuType
<1>5. GraphInv'
  BY <1>0, <1>1, GraphSame DEF GraphInv
<1>6. PlaceInv'
  BY <1>0, <1>1 DEF PlaceInv
<1>7. FrameInv'
  BY <1>0, <1>1, <1>2 DEF FrameInv, PlaceInv
<1>8. OwnerInv' /\ FenceInv' /\ UseInv' /\ ViewsLive' /\ StateInv'
  BY <1>1, <1>2, <1>4, <1>6, <1>7, IdleSame
<1> QED BY <1>3, <1>4, <1>5, <1>6, <1>7, <1>8, TypePartsNext DEF IInv

\* collect_garbage frees one element: no frame in flight uses it.
LEMMA CollectGarbageStep ==
    ASSUME IInv, NEW d \in Descs, NEW i \in DOMAIN pool[d], CollectGarbage(d, i)
    PROVE  IInv'
<1>0. /\ GraphType /\ NodeType /\ PoolsType /\ GpuType /\ GraphInv /\ PlaceInv /\ FrameInv
      /\ OwnerInv /\ FenceInv /\ UseInv /\ ViewsLive /\ StateInv
  BY TypeParts DEF IInv
<1>x. PICK x : x = pool[d][i]
  OBVIOUS
<1>1. /\ UNCHANGED <<graph, phase, at, frame_res, init_state, frame_index, todo, aliasing, layout,
                     memory, aliasing_textures, fence, done, uses>>
      /\ phase = "collect" /\ x.frame <= (frame_index - 1) - RG_MAX_FRAME_IN_FLIGHT
      /\ live' = live \ {x.res} /\ views' = views \ {x.res}
  BY <1>x DEF CollectGarbage, Expired
<1>2. GraphType' /\ NodeType' /\ GraphInv' /\ PlaceInv' /\ FrameInv'
  BY <1>0, <1>1, NodePartsSame
<1>3. ~Recording /\ ~Recording' /\ Nodes = {} /\ Nodes' = {}
  BY <1>0, <1>1, NodeSame DEF PlaceInv, Nodes, Recording
<1>4. Held = {} /\ Held' = {} /\ \A n : ~Owning(n)'
  BY <1>0, <1>2, <1>3, BetweenFrames, BetweenFramesNext
<1>5. frame_index \in Nat /\ done \in Nat /\ RG_MAX_FRAME_IN_FLIGHT \in Nat /\ MaxFrames \in Nat
  BY <1>0, ExecutorFacts, BackendAssumption
<1>6. /\ PoolsType' /\ PoolDistinct' /\ Elements' \subseteq Elements /\ Pooled' = Pooled \ {x.res}
  <2> DEFINE t == SubSeq(pool[d], 1, i - 1) \o SubSeq(pool[d], i + 1, Len(pool[d]))
  <2>1. pool' = [pool EXCEPT ![d] = t] /\ Without(pool[d], i, t)
    BY DEF CollectGarbage, Without
  <2>2. PoolDistinct
    BY <1>0 DEF OwnerInv
  <2> HIDE DEF t
  <2> QED BY <1>0, <1>x, <2>1, <2>2, PoolRemove
<1>7. x \in Elements /\ x.res \in Pooled /\ x \in Element
  BY <1>0, <1>x, PooledFacts, ElementFacts
<1>8. Aliased' = Aliased /\ InFlight' = InFlight /\ Executor' = Executor
  BY <1>1 DEF Aliased, InFlight, Executor
<1>9. GpuType'
  BY <1>0, <1>1 DEF GpuType
<1>10. OwnerInv'
  <2>1. live' = Pooled' \cup Aliased' \cup Held' /\ Pooled' \cap Aliased' = {}
    BY <1>0, <1>1, <1>4, <1>6, <1>7, <1>8 DEF OwnerInv
  <2>2. aliasing' = {}
    BY <1>2, <1>3 DEF PlaceInv
  <2> QED BY <1>0, <1>1, <1>3, <1>4, <1>6, <2>1, <2>2 DEF OwnerInv
<1>11. FenceInv'
  BY <1>0, <1>1, <1>3 DEF FenceInv
<1>12. UseInv'
  <2>1. ASSUME NEW f \in InFlight \cup {frame_index}, NEW p \in uses[f] \ Imports, NEW q \in {p, memory[p]}
        PROVE  Kept(q, f)'
    <3>1. Kept(q, f)
      BY <1>0, <2>1, UseNow
    <3>2. f >= done \/ f = frame_index
      BY DEF InFlight
    <3>3. f \in Int
      BY <1>5 DEF InFlight
    <3>4. q # x.res
      <4> SUFFICES ASSUME q = x.res PROVE FALSE
        OBVIOUS
      <4>1. f <= x.frame
        BY <1>7, <3>1 DEF Kept
      <4>2. frame_index - RG_MAX_FRAME_IN_FLIGHT <= done /\ done <= frame_index /\ x.frame \in Int
        BY <1>0, <1>7, ExecutorFacts DEF FenceInv, Element
      <4> QED BY <1>1, <1>5, <3>2, <3>3, <4>1, <4>2, BackendAssumption
    <3> QED BY <1>1, <1>6, <3>1, <3>4 DEF Kept
  <2>2. \A p \in live' \ Aliased' : memory'[p] = p
    BY <1>0, <1>1, <1>8 DEF UseInv
  <2>3. \A f \in 0..MaxFrames : f > frame_index' \/ (f = frame_index' /\ ~Recording') => uses'[f] = {}
    BY <1>0, <1>1, <1>3 DEF UseInv
  <2>4. memory' \in [Phys \cup Imports -> Phys \cup Imports]
    BY <1>0, <1>1 DEF UseInv
  <2> QED BY <1>1, <1>3, <1>8, <2>1, <2>2, <2>3, <2>4, UseNext
<1>13. ViewsLive'
  BY <1>0, <1>1 DEF ViewsLive
<1>14. StateInv'
  BY <1>0, <1>1, <1>3, <1>6 DEF StateInv
<1> QED BY <1>2, <1>6, <1>9, <1>10, <1>11, <1>12, <1>13, <1>14, TypePartsNext DEF IInv

\* The graph is destroyed when the queue is idle.
LEMMA DestroyStep == IInv /\ Destroy => IInv'
<1> SUFFICES ASSUME IInv, Destroy PROVE IInv'
  OBVIOUS
<1>0. /\ GraphType /\ NodeType /\ PoolsType /\ GpuType /\ GraphInv /\ PlaceInv /\ FrameInv
      /\ OwnerInv /\ FenceInv /\ UseInv /\ ViewsLive /\ StateInv
  BY TypeParts DEF IInv
<1>1. /\ phase = "setup" /\ phase' = "destroyed" /\ ~Recording /\ ~Recording' /\ done = frame_index
      /\ resources = <<>> /\ live' = live \ (Pooled \cup Aliased)
      /\ pool' = [d \in Descs |-> <<>>] /\ views' = {} /\ aliasing_textures' = [e \in Executors |-> {}]
      /\ UNCHANGED <<aliasing_enabled, resources, passes, source, spans, at, frame_res, init_state>>
      /\ UNCHANGED <<frame_index, todo, aliasing, layout, memory, fence, done, uses>>
  BY DEF Destroy, Recording, graph, Aliased
<1>2. Nodes = {} /\ Nodes' = {} /\ \A i : Edges(i)' = Edges(i)
  BY <1>1 DEF Nodes, Edges
<1>3. GraphType'
  BY <1>0, <1>1, <1>2 DEF GraphType
<1>4. Held = {}
  BY <1>0, <1>1, BetweenFrames
<1>5. live' = {}
  BY <1>0, <1>1, <1>4 DEF OwnerInv
<1>6. NodeType' /\ GpuType'
  BY <1>0, <1>1, <1>2, <1>5 DEF NodeType, GpuType
<1>7. PoolsType' /\ Elements' = {} /\ Pooled' = {} /\ PoolDistinct'
  BY <1>1, PoolEmpty
<1>8. GraphInv'
  BY <1>0, <1>1, GraphSame DEF GraphInv
<1>9. PlaceInv'
  BY <1>0, <1>1 DEF PlaceInv
<1>10. FrameInv'
  BY <1>0, <1>1, <1>2 DEF FrameInv, PlaceInv
<1>11. Held' = {} /\ \A n : ~Owning(n)'
  BY <1>1, <1>2, <1>9, <1>10, BetweenFramesNext
<1>12. Aliased' = {} /\ InFlight' = {} /\ aliasing' = {}
  <2>1. InFlight' = {}
    BY <1>0, <1>1, ExecutorFacts DEF InFlight
  <2> QED BY <1>1, <1>9, <2>1 DEF Aliased, PlaceInv
<1>13. OwnerInv'
  BY <1>1, <1>2, <1>5, <1>7, <1>11, <1>12 DEF OwnerInv
<1>14. FenceInv'
  BY <1>0, <1>1 DEF FenceInv
<1>15. UseInv'
  <2>1. \A f \in 0..MaxFrames : f > frame_index' \/ (f = frame_index' /\ ~Recording') => uses'[f] = {}
    BY <1>0, <1>1 DEF UseInv
  <2>2. uses'[frame_index'] = {}
    BY <1>0, <1>1, <2>1, ExecutorFacts
  <2>3. memory' \in [Phys \cup Imports -> Phys \cup Imports]
    BY <1>0, <1>1 DEF UseInv
  <2> QED BY <1>1, <1>5, <1>12, <2>1, <2>2, <2>3, UseNext
<1>16. ViewsLive'
  BY <1>1 DEF ViewsLive
<1>17. StateInv'
  BY <1>1, <1>2, <1>7 DEF StateInv
<1> QED BY <1>3, <1>6, <1>7, <1>8, <1>9, <1>10, <1>13, <1>14, <1>15, <1>16, <1>17, TypePartsNext DEF IInv

-----------------------------------------------------------------------------
(* The beginning and the end of a frame.                                   *)

\* A frame on the same executor that the GPU has not finished is not there to
\* lose its aliasing textures: its fence was waited for.
LEMMA AcquireExecutorStep == IInv /\ AcquireExecutor => IInv'
<1> SUFFICES ASSUME IInv, AcquireExecutor PROVE IInv'
  OBVIOUS
<1>0. /\ GraphType /\ NodeType /\ PoolsType /\ GpuType /\ GraphInv /\ PlaceInv /\ FrameInv
      /\ OwnerInv /\ FenceInv /\ UseInv /\ ViewsLive /\ StateInv
  BY TypeParts DEF IInv
<1>e. PICK e : e = Executor
  OBVIOUS
<1>1. /\ phase = "ready" /\ phase' = "barriers" /\ at' = 1 /\ fence[e] < done
      /\ live' = live \ aliasing_textures[e] /\ views' = views \ aliasing_textures[e]
      /\ aliasing_textures' = [aliasing_textures EXCEPT ![e] = {}]
      /\ todo' = IF 1 \in DOMAIN passes THEN Edges(1) ELSE {}
      /\ UNCHANGED <<aliasing_enabled, resources, passes, source, spans, frame_res, init_state>>
      /\ UNCHANGED <<frame_index, aliasing, pool, layout, memory, fence, done, uses>>
  BY <1>e DEF AcquireExecutor, StartPass, graph
<1>2. ~Recording /\ Recording'
  BY <1>1 DEF Recording
<1>3. /\ Nodes' = Nodes /\ (Disciplined' <=> Disciplined)
      /\ \A n : Users(n)' = Users(n) /\ Imported(n)' = Imported(n)
      /\ \A i : Edges(i)' = Edges(i)
  BY <1>1, GraphSame
<1>4. /\ Executor' = e /\ e \in Executors /\ frame_index \in Nat /\ done \in Nat
      /\ (\A f \in Nat : f % RG_MAX_FRAME_IN_FLIGHT \in Executors) /\ InFlight' = InFlight
      /\ \A c \in Executors : fence[c] \in Int
  BY <1>0, <1>1, <1>e, ExecutorFacts DEF Executor, InFlight
<1>5. /\ Len(passes) \in Nat /\ DOMAIN passes = 1..Len(passes) /\ Nodes \subseteq Handles
      /\ \A n : Users(n) \subseteq 1..Len(passes)
      /\ \A n, i : i \in Users(n) <=> i \in DOMAIN passes /\ n \in Edges(i)
  BY <1>0, GraphFacts
<1>6. \A n : (1 \in Users(n) <=> n \in todo') /\ \A i \in Users(n) : i >= 1
  BY <1>1, <1>5
<1>7. \A n : ~Begun(n)' /\ Pending(n)' = Users(n)
  <2> SUFFICES ASSUME NEW n PROVE ~Begun(n)' /\ Pending(n)' = Users(n)
    OBVIOUS
  <2>1. Users(n)' = Users(n) /\ \A i \in Users(n) : i > 1 \/ (i = 1 /\ n \in todo')
    BY <1>3, <1>5, <1>6
  <2>2. ~Begun(n)'
    BY <1>1, <1>5, <2>1 DEF Begun
  <2>3. Pending(n)' = Users(n)
    BY <1>1, <1>5, <2>1 DEF Pending
  <2> QED BY <2>2, <2>3
<1>8. \A n \in Nodes : ~Imported(n) => frame_res[n] = None
  BY <1>0, <1>2 DEF FrameInv
<1>9. GraphType'
  BY <1>0, <1>1, <1>3 DEF GraphType
<1>10. NodeType'
  <2>1. todo' \subseteq Nodes
    BY <1>0, <1>1 DEF GraphType
  <2> QED BY <1>0, <1>1, <1>3, <2>1 DEF NodeType
<1>11. PoolsType' /\ GpuType'
  BY <1>0, <1>1 DEF PoolsType, GpuType
<1>12. GraphInv'
  BY <1>0, <1>1, <1>3 DEF GraphInv
<1>13. PlaceInv'
  BY <1>0, <1>1, <1>2, <1>3, <1>5 DEF PlaceInv
<1>14. FrameInv'
  <2>1. aliasing' = {}
    BY <1>0, <1>1, <1>2 DEF PlaceInv
  <2> QED BY <1>0, <1>1, <1>3, <1>7, <1>8, <2>1 DEF FrameInv
<1>15. aliasing = {} /\ (\A n : Owning(n)' <=> n \in Nodes /\ Imported(n)) /\ Held' = {} /\ Held = {}
  <2>1. aliasing = {}
    BY <1>0, <1>2 DEF PlaceInv
  <2>2. \A n \in Nodes : Imported(n) => frame_res[n] # None
    BY <1>0, RenderGraphAssumption DEF FrameInv
  <2>3. \A n : Owning(n)' <=> n \in Nodes /\ Imported(n)
    BY <1>1, <1>3, <1>8, <2>1, <2>2 DEF Owning
  <2>4. Held' = {}
    BY <1>3, <2>3 DEF Held
  <2> QED BY <1>0, <1>2, <2>1, <2>3, <2>4, BetweenFrames
<1>16. Elements' = Elements /\ Pooled' = Pooled /\ (PoolDistinct' <=> PoolDistinct)
  BY <1>1, PoolSame
<1>17. \A c \in Executors : aliasing_textures'[c] = IF c = e THEN {} ELSE aliasing_textures[c]
  BY <1>0, <1>1 DEF GpuType
<1>18. Aliased' = Aliased \ aliasing_textures[e]
  <2>1. \A c \in Executors : c # e => aliasing_textures[c] \cap aliasing_textures[e] = {}
    BY <1>0, <1>4 DEF OwnerInv
  <2> QED BY <1>17, <2>1 DEF Aliased
<1>19. aliasing_textures[e] \subseteq Aliased
  BY <1>4 DEF Aliased
<1>20. OwnerInv'
  <2>1. live' = Pooled' \cup Aliased' \cup Held' /\ Pooled' \cap Aliased' = {}
    BY <1>0, <1>1, <1>15, <1>16, <1>18, <1>19 DEF OwnerInv
  <2>2. \A m, n \in Nodes' : Owning(m)' /\ Owning(n)' /\ frame_res'[m] = frame_res'[n] => m = n
    <3>1. \A n : Owning(n)' <=> Owning(n)
      BY <1>0, <1>2, <1>15, BetweenFrames
    <3> QED BY <1>0, <1>1, <1>3, <3>1 DEF OwnerInv
  <2> QED BY <1>0, <1>1, <1>15, <1>16, <1>17, <2>1, <2>2 DEF OwnerInv
<1>21. FenceInv'
  BY <1>0, <1>1, <1>4 DEF FenceInv
<1>22. UseInv'
  <2>1. uses[frame_index] = {}
    BY <1>0, <1>2, ExecutorFacts DEF UseInv
  <2>2. ASSUME NEW f \in InFlight \cup {frame_index}, NEW p \in uses[f] \ Imports, NEW q \in {p, memory[p]}
        PROVE  Kept(q, f)'
    <3>1. Kept(q, f) /\ f \in InFlight
      BY <1>0, <2>1, <2>2, UseNow
    <3>2. f \in 0..(frame_index - 1) /\ f >= done /\ f \in Nat
      BY <1>4, <3>1 DEF InFlight
    <3>3. f % RG_MAX_FRAME_IN_FLIGHT # e
      <4>1. f <= fence[f % RG_MAX_FRAME_IN_FLIGHT]
        BY <1>0, <3>2 DEF FenceInv
      <4> QED BY <1>1, <1>4, <3>2, <4>1
    <3>4. q \notin aliasing_textures[e]
      BY <1>4, <3>1, <3>3 DEF Kept
    <3> QED BY <1>1, <1>16, <1>17, <3>1, <3>4 DEF Kept
  <2>3. \A p \in live' \ Aliased' : memory'[p] = p
    BY <1>0, <1>1, <1>18 DEF UseInv
  <2>4. \A f \in 0..MaxFrames : f > frame_index' \/ (f = frame_index' /\ ~Recording') => uses'[f] = {}
    BY <1>0, <1>1, <1>2 DEF UseInv
  <2>5. memory' \in [Phys \cup Imports -> Phys \cup Imports]
    BY <1>0, <1>1 DEF UseInv
  <2> QED BY <1>1, <1>3, <1>4, <1>8, <2>2, <2>3, <2>4, <2>5, UseNext
<1>23. ViewsLive'
  BY <1>0, <1>1 DEF ViewsLive
<1>24. StateInv'
  <2>1. ASSUME NEW n \in Nodes, Imported(n) PROVE Left(n)'
    <3>1. Past(n)' = {}
      BY <1>3, <1>7 DEF Past
    <3>2. layout'[frame_res'[n]] = init_state'[n]
      BY <1>0, <1>1, <1>2, <2>1 DEF StateInv
    <3> QED BY <3>1, <3>2 DEF Left
  <2> QED BY <1>0, <1>1, <1>2, <1>3, <1>15, <1>16, <2>1 DEF StateInv
<1> QED BY <1>9, <1>10, <1>11, <1>12, <1>13, <1>14, <1>20, <1>21, <1>22, <1>23, <1>24, TypePartsNext DEF IInv

\* All passes are recorded, and no node needs its object any more.
LEMMA CommitStep == IInv /\ Commit => IInv'
<1> SUFFICES ASSUME IInv, Commit PROVE IInv'
  OBVIOUS
<1>0. /\ GraphType /\ NodeType /\ PoolsType /\ GpuType /\ GraphInv /\ PlaceInv /\ FrameInv
      /\ OwnerInv /\ FenceInv /\ UseInv /\ ViewsLive /\ StateInv
  BY TypeParts DEF IInv
<1>e. PICK e : e = Executor
  OBVIOUS
<1>1. /\ phase = "barriers" /\ phase' \in {"collect", "setup"} /\ at \notin DOMAIN passes
      /\ fence' = [fence EXCEPT ![e] = frame_index] /\ frame_index' = frame_index + 1
      /\ resources' = <<>> /\ passes' = <<>> /\ source' = [n \in Handles |-> 0] /\ spans' = <<>>
      /\ at' = 0 /\ aliasing' = {} /\ frame_res' = [n \in Handles |-> None]
      /\ init_state' = [n \in Handles |-> "UNDEFINED"]
      /\ UNCHANGED <<aliasing_enabled, todo, pool, live, views, layout, memory,
                     aliasing_textures, done, uses>>
  BY <1>e DEF Commit
<1>2. Recording /\ ~Recording' /\ phase' # "destroyed"
  BY <1>1 DEF Recording
<1>3. Nodes' = {} /\ DOMAIN passes' = {}
  BY <1>1 DEF Nodes
<1>4. /\ e \in Executors /\ frame_index \in Nat /\ done \in Nat /\ frame_index < MaxFrames
      /\ (\A f \in Nat : f % RG_MAX_FRAME_IN_FLIGHT \in Executors)
      /\ (\A c \in Executors : fence[c] \in Int) /\ MaxFrames \in Nat
      /\ RG_MAX_FRAME_IN_FLIGHT \in Nat \ {0} /\ done <= frame_index
  BY <1>0, <1>1, <1>e, ExecutorFacts, BackendAssumption DEF GraphInv
<1>5. todo = {} /\ at = Len(passes) + 1 /\ Len(passes) \in Nat /\ \A n : Users(n) \subseteq 1..Len(passes)
  BY <1>0, <1>1, <1>2, GraphFacts DEF PlaceInv
<1>6. \A n : ~Unfinished(n)
  BY <1>5 DEF Unfinished
<1>7. Held = {} /\ Held' = {} /\ \A n : ~Owning(n)'
  BY <1>3, <1>6 DEF Held, Owning
<1>8. GraphType'
  BY <1>0, <1>1, <1>3, RenderGraphAssumption DEF GraphType
<1>9. NodeType'
  BY <1>0, <1>1, <1>3, <1>5 DEF NodeType, States
<1>f. frame_index' = frame_index + 1 /\ done' = done /\ uses' = uses
  BY <1>1
<1>10. PoolsType' /\ GpuType'
  <2>1. frame_index' \in 0..MaxFrames /\ done' \in 0..frame_index' /\ frame_index \in -1..MaxFrames
    BY <1>4, <1>f
  <2>2. fence' \in [Executors -> -1..MaxFrames]
    BY <1>0, <1>1, <2>1 DEF GpuType
  <2> QED BY <1>0, <1>1, <2>1, <2>2 DEF PoolsType, GpuType
<1>11. GraphInv'
  BY <1>1, <1>3 DEF GraphInv
<1>12. PlaceInv'
  BY <1>1, <1>2, <1>5 DEF PlaceInv
<1>13. FrameInv'
  BY <1>1, <1>3 DEF FrameInv
<1>14. Elements' = Elements /\ Pooled' = Pooled /\ (PoolDistinct' <=> PoolDistinct) /\ Aliased' = Aliased
  BY <1>1, PoolSame DEF Aliased
<1>15. OwnerInv'
  BY <1>0, <1>1, <1>2, <1>3, <1>7, <1>14 DEF OwnerInv
<1>16. \A c \in Executors : fence'[c] = IF c = e THEN frame_index ELSE fence[c]
  BY <1>0, <1>1 DEF GpuType
<1>17. frame_index % RG_MAX_FRAME_IN_FLIGHT = e
  BY <1>e DEF Executor
<1>18. FenceInv'
  <2>1. ASSUME NEW f \in 0..(frame_index' - 1) PROVE f <= fence'[f % RG_MAX_FRAME_IN_FLIGHT]
    <3>1. f \in Nat /\ f % RG_MAX_FRAME_IN_FLIGHT \in Executors /\ f <= frame_index
      BY <1>4, <1>f
    <3>2. CASE f % RG_MAX_FRAME_IN_FLIGHT = e
      BY <1>16, <3>1, <3>2
    <3>3. CASE f % RG_MAX_FRAME_IN_FLIGHT # e
      <4>1. f \in 0..(frame_index - 1)
        BY <1>4, <1>17, <3>1, <3>3
      <4> QED BY <1>0, <1>16, <3>1, <3>3, <4>1 DEF FenceInv
    <3> QED BY <3>2, <3>3
  <2>2. frame_index' - RG_MAX_FRAME_IN_FLIGHT <= done'
    <3>1. CASE frame_index < RG_MAX_FRAME_IN_FLIGHT
      BY <1>4, <1>f, <3>1
    <3>2. CASE frame_index >= RG_MAX_FRAME_IN_FLIGHT
      <4>g. PICK g : g = frame_index - RG_MAX_FRAME_IN_FLIGHT
        OBVIOUS
      <4>1. g \in Nat /\ g + RG_MAX_FRAME_IN_FLIGHT = frame_index /\ g \in 0..(frame_index - 1)
        BY <1>4, <3>2, <4>g
      <4>2. g % RG_MAX_FRAME_IN_FLIGHT = e
        BY <1>4, <1>17, <4>1, ModAdd
      <4>3. g <= fence[e]
        BY <1>0, <4>1, <4>2 DEF FenceInv
      <4>4. fence[e] < done /\ fence[e] \in Int
        BY <1>0, <1>2, <1>4, <1>e DEF FenceInv
      <4>5. done \in Nat /\ RG_MAX_FRAME_IN_FLIGHT \in Nat
        BY <1>4
      <4> QED BY <1>f, <4>1, <4>3, <4>4, <4>5
    <3> QED BY <1>4, <3>1, <3>2
  <2> QED BY <1>2, <2>1, <2>2 DEF FenceInv
<1>19. UseInv'
  <2>1. frame_index' \in 0..MaxFrames /\ uses'[frame_index'] = {}
    <3>1. frame_index' \in 0..MaxFrames /\ frame_index' > frame_index
      BY <1>4, <1>f
    <3> QED BY <1>0, <1>f, <3>1 DEF UseInv
  <2>2. InFlight' \subseteq InFlight \cup {frame_index}
    BY <1>4, <1>f DEF InFlight
  <2>3. ASSUME NEW f \in InFlight' \cup {frame_index'}, NEW p \in uses'[f] \ Imports, NEW q \in {p, memory'[p]}
        PROVE  Kept(q, f)'
    <3>1. f \in InFlight \cup {frame_index}
      BY <2>1, <2>2, <2>3
    <3>2. Kept(q, f)
      BY <1>0, <1>1, <3>1, UseNow
    <3> QED BY <1>1, <1>14, <3>2 DEF Kept
  <2>4. \A f \in 0..MaxFrames : f > frame_index' \/ (f = frame_index' /\ ~Recording') => uses'[f] = {}
    <3>1. \A f \in 0..MaxFrames : f > frame_index => uses[f] = {}
      BY <1>0 DEF UseInv
    <3> QED BY <1>4, <1>f, <3>1
  <2>5. memory' \in [Phys \cup Imports -> Phys \cup Imports] /\ \A p \in live' \ Aliased' : memory'[p] = p
    BY <1>0, <1>1, <1>14 DEF UseInv
  <2> QED BY <1>2, <2>3, <2>4, <2>5, UseNext
<1>20. ViewsLive'
  BY <1>0, <1>1 DEF ViewsLive
<1>21. StateInv'
  BY <1>0, <1>1, <1>2, <1>3, <1>14 DEF StateInv
<1> QED BY <1>8, <1>9, <1>10, <1>11, <1>12, <1>13, <1>15, <1>18, <1>19, <1>20, <1>21, TypePartsNext DEF IInv

-----------------------------------------------------------------------------
(* From pass to pass.                                                      *)

\* execute() moves on, no barrier is recorded and no object changes hands.
LEMMA RecordSame ==
    ASSUME IInv, Recording, phase' \in {"barriers", "dealloc"}, PlaceInv', at' \in Nat,
           UNCHANGED <<graph, frame_res, init_state, frame_index, aliasing, pool, live, layout, memory,
                       aliasing_textures, fence, done, uses>>,
           todo' \subseteq Nodes, views' \subseteq live \cup Imports,
           \A n \in Nodes : /\ (Begun(n)' <=> Begun(n)) /\ Pending(n)' = Pending(n)
                            /\ ~Imported(n) /\ n \notin aliasing => (Unfinished(n)' <=> Unfinished(n))
    PROVE  IInv'
<1>0. /\ GraphType /\ NodeType /\ PoolsType /\ GpuType /\ GraphInv /\ PlaceInv /\ FrameInv
      /\ OwnerInv /\ FenceInv /\ UseInv /\ ViewsLive /\ StateInv /\ Recording'
  BY TypeParts DEF IInv, Recording
<1>1. UNCHANGED <<aliasing_enabled, resources, passes, source, spans>>
  BY DEF graph
<1>2. /\ Nodes' = Nodes /\ (Disciplined' <=> Disciplined)
      /\ \A n : Users(n)' = Users(n) /\ Imported(n)' = Imported(n)
      /\ \A i : Edges(i)' = Edges(i) /\ \A n : Requested(i, n)' = Requested(i, n)
  BY <1>1, GraphSame
<1>3. GraphType'
  BY <1>0, <1>1, <1>2 DEF GraphType
<1>4. NodeType' /\ PoolsType' /\ GpuType'
  BY <1>0, <1>2 DEF NodeType, PoolsType, GpuType
<1>5. GraphInv'
  <2>1. Disciplined' /\ frame_index' < MaxFrames
    BY <1>0, <1>2 DEF GraphInv, Recording
  <2>2. phase' \notin {"setup", "collect"}
    OBVIOUS
  <2> QED BY <1>0, <1>1, <1>2, <2>1, <2>2 DEF GraphInv
<1>6. FrameInv'
  BY <1>0, <1>2 DEF FrameInv
<1>7. (\A n : Owning(n)' <=> Owning(n)) /\ Held' = Held
  <2>1. \A n : Owning(n)' <=> Owning(n)
    BY <1>0, <1>2 DEF Owning
  <2> QED BY <1>2, <2>1 DEF Held
<1>8. Elements' = Elements /\ Pooled' = Pooled /\ (PoolDistinct' <=> PoolDistinct)
  BY PoolSame
<1>9. Aliased' = Aliased /\ Executor' = Executor /\ InFlight' = InFlight
  BY DEF Aliased, Executor, InFlight
<1>10. OwnerInv'
  <2>1. phase' # "destroyed"
    OBVIOUS
  <2> QED BY <1>0, <1>2, <1>7, <1>8, <1>9, <2>1 DEF OwnerInv
<1>11. FenceInv'
  BY <1>0, <1>9 DEF FenceInv
<1>12. UseInv'
  <2>1. \A q, f : Kept(q, f)' <=> Kept(q, f)
    BY <1>8 DEF Kept
  <2> QED BY <1>0, <1>2, <1>9, <2>1 DEF UseInv
<1>13. ViewsLive'
  BY DEF ViewsLive
<1>14. StateInv'
  <2>1. ASSUME NEW n \in Nodes PROVE Left(n)' <=> Left(n)
    <3>1. Past(n)' = Past(n) /\ \A k : Requested(k, n)' = Requested(k, n)
      BY <1>2 DEF Past
    <3> QED BY <3>1 DEF Left
  <2> QED BY <1>0, <1>2, <1>7, <1>8, <2>1 DEF StateInv
<1> QED BY <1>3, <1>4, <1>5, <1>6, <1>10, <1>11, <1>12, <1>13, <1>14, TypePartsNext DEF IInv

\* execute() goes on to the next pass when this one has nothing left to do.
LEMMA NextPassStep ==
    ASSUME IInv, StartPass(at + 1),
           UNCHANGED <<graph, frame_res, init_state, frame_index, aliasing, pool, live, views,
                       layout, memory, aliasing_textures, fence, done, uses>>,
           \/ phase = "barriers" /\ at \in DOMAIN passes /\ Edges(at) = {}
           \/ phase = "dealloc" /\ todo = {}
    PROVE  IInv'
<1>0. /\ GraphType /\ NodeType /\ GraphInv /\ PlaceInv /\ ViewsLive /\ Recording
  BY TypeParts DEF IInv, Recording
<1>1. /\ phase' = "barriers" /\ at' = at + 1 /\ passes' = passes /\ resources' = resources
      /\ todo' = IF at + 1 \in DOMAIN passes THEN Edges(at + 1) ELSE {}
  BY DEF StartPass, graph
<1>2. /\ Len(passes) \in Nat /\ DOMAIN passes = 1..Len(passes)
      /\ \A n : Users(n) \subseteq 1..Len(passes)
      /\ \A n, i : i \in Users(n) <=> i \in DOMAIN passes /\ n \in Edges(i)
  BY <1>0, GraphFacts
<1>3. at \in DOMAIN passes /\ at \in Nat
  BY <1>0, <1>2 DEF PlaceInv
<1>4. Nodes' = Nodes /\ (\A n : Users(n)' = Users(n)) /\ \A i : Edges(i)' = Edges(i)
  BY <1>1, GraphSame
<1>5. todo' \subseteq Nodes
  BY <1>0, <1>1 DEF GraphType
<1>6. PlaceInv'
  <2>1. at' \in 1..(Len(passes') + 1) /\ Recording'
    BY <1>1, <1>2, <1>3 DEF Recording
  <2>2. todo' \subseteq IF at' \in DOMAIN passes' THEN Edges(at)' ELSE {}
    BY <1>1 DEF Edges
  <2> QED BY <1>1, <2>1, <2>2 DEF PlaceInv
<1>7. ASSUME NEW n \in Nodes
      PROVE  (Begun(n)' <=> Begun(n)) /\ Pending(n)' = Pending(n) /\ (Unfinished(n)' <=> Unfinished(n))
  <2>1. \A i \in Users(n) : i \in Nat /\ (i = at + 1 => n \in todo')
    BY <1>1, <1>2
  <2>2. phase = "barriers" => at \notin Users(n)
    BY <1>2
  <2>3. phase = "dealloc" => todo = {}
    OBVIOUS
  <2>4. phase = "barriers" \/ phase = "dealloc"
    OBVIOUS
  <2>5. Begun(n)' <=> \E i \in Users(n) : i <= at
    <3>1. Begun(n)' <=> \E i \in Users(n) : i < at + 1 \/ (i = at + 1 /\ n \notin todo')
      BY <1>1, <1>4 DEF Begun
    <3> QED BY <1>3, <2>1, <3>1
  <2>6. Begun(n) <=> \E i \in Users(n) : i <= at
    BY <1>3, <2>1, <2>2, <2>3, <2>4 DEF Begun
  <2>7. Unfinished(n)' <=> \E i \in Users(n) : i > at
    <3>1. Unfinished(n)' <=> \E i \in Users(n) : i > at + 1 \/ i = at + 1
      BY <1>1, <1>4 DEF Unfinished
    <3> QED BY <1>3, <2>1, <3>1
  <2>8. Unfinished(n) <=> \E i \in Users(n) : i > at
    BY <1>3, <2>1, <2>2, <2>3, <2>4 DEF Unfinished
  <2>9. Pending(n)' = {i \in Users(n) : i > at}
    <3>1. Pending(n)' = {i \in Users(n) : i > at + 1 \/ (i = at + 1 /\ n \in todo')}
      BY <1>1, <1>4 DEF Pending
    <3> QED BY <1>3, <2>1, <3>1
  <2>10. Pending(n) = {i \in Users(n) : i > at}
    BY <1>3, <2>1, <2>2, <2>4 DEF Pending
  <2> QED BY <2>5, <2>6, <2>7, <2>8, <2>9, <2>10
<1>8. views' \subseteq live \cup Imports
  BY <1>0 DEF ViewsLive
<1>9. phase' \in {"barriers", "dealloc"} /\ at' \in Nat
  BY <1>1, <1>3
<1> QED BY <1>0, <1>5, <1>6, <1>7, <1>8, <1>9, RecordSame

\* A culled pass has no edges and is skipped.
LEMMA SkipCulledStep == IInv /\ SkipCulled => IInv'
<1> SUFFICES ASSUME IInv, SkipCulled PROVE IInv'
  OBVIOUS
<1>1. Edges(at) = {}
  BY DEF SkipCulled, KeptPasses
<1> QED BY <1>1, NextPassStep DEF SkipCulled

\* The last edge of a pass is deallocated.
LEMMA EndPassStep == IInv /\ EndPass => IInv'
BY NextPassStep DEF EndPass

\* Objects of begun nodes are there: the frame uses them.
LEMMA BegunLive ==
    ASSUME IInv, Recording, NEW n \in Nodes, ~Imported(n), Begun(n)
    PROVE  /\ frame_res[n] \in uses[frame_index] /\ frame_res[n] \in Phys \ Imports
           /\ Kept(frame_res[n], frame_index) /\ Kept(memory[frame_res[n]], frame_index)
           /\ frame_res[n] \in live /\ memory[frame_res[n]] \in live
<1>0. FrameInv /\ UseInv
  BY DEF IInv
<1>1. frame_res[n] # None /\ frame_res[n] \in Phys
  BY <1>0 DEF FrameInv
<1>2. frame_res[n] \in uses[frame_index] /\ frame_res[n] \in Phys \ Imports
  BY <1>0, <1>1, RenderGraphAssumption DEF UseInv
<1>3. Kept(frame_res[n], frame_index) /\ Kept(memory[frame_res[n]], frame_index)
  BY <1>0, <1>2, UseNow
<1> QED BY <1>2, <1>3 DEF Kept

\* A pass is recorded, and its views are made: its objects are live.
LEMMA RecordPassStep == IInv /\ RecordPass => IInv'
<1> SUFFICES ASSUME IInv, RecordPass PROVE IInv'
  OBVIOUS
<1>0. /\ GraphType /\ NodeType /\ GraphInv /\ PlaceInv /\ FrameInv /\ ViewsLive
  BY TypeParts DEF IInv
<1>1. /\ phase = "barriers" /\ phase' = "dealloc" /\ at \in DOMAIN passes /\ todo = {} /\ at' = at
      /\ Recording /\ Recording' /\ passes' = passes /\ resources' = resources
      /\ todo' = IF passes[at].type = "Present" THEN {} ELSE Edges(at)
      /\ views' \subseteq views \cup {frame_res[n] : n \in Edges(at)}
  BY DEF RecordPass, ViewsOf, KeptPasses, Recording, graph
<1>2. /\ Len(passes) \in Nat /\ DOMAIN passes = 1..Len(passes) /\ at \in Nat
      /\ \A n : Users(n) \subseteq Nat
      /\ \A n, i : i \in Users(n) <=> i \in DOMAIN passes /\ n \in Edges(i)
  BY <1>0, <1>1, GraphFacts
<1>3. Nodes' = Nodes /\ (\A n : Users(n)' = Users(n)) /\ (\A i : Edges(i)' = Edges(i)) /\ Edges(at) \subseteq Nodes
  BY <1>0, <1>1, GraphSame DEF GraphType
<1>4. \A n \in Edges(at) : frame_res[n] \in live \cup Imports
  <2> SUFFICES ASSUME NEW n \in Edges(at), ~Imported(n) PROVE frame_res[n] \in live
    BY <1>0, <1>3 DEF FrameInv
  <2>1. Begun(n)
    BY <1>1, <1>2 DEF Begun
  <2> QED BY <1>1, <1>3, <2>1, BegunLive
<1>5. views' \subseteq live \cup Imports
  BY <1>0, <1>1, <1>4 DEF ViewsLive
<1>6. PlaceInv'
  <2>1. todo' \subseteq IF at' \in DOMAIN passes' THEN Edges(at)' ELSE {}
    BY <1>1 DEF Edges
  <2>2. at' \in 1..(Len(passes') + 1)
    BY <1>1, <1>2
  <2> QED BY <1>1, <2>1, <2>2 DEF PlaceInv
<1>7. ASSUME NEW n \in Nodes
      PROVE  /\ (Begun(n)' <=> Begun(n)) /\ Pending(n)' = Pending(n)
             /\ ~Imported(n) => (Unfinished(n)' <=> Unfinished(n))
  <2>1. Begun(n)' <=> Begun(n)
    BY <1>1, <1>3 DEF Begun
  <2>2. Pending(n)' = Pending(n)
    BY <1>1, <1>3 DEF Pending
  <2>3. ~Imported(n) /\ at \in Users(n) => n \in todo'
    BY <1>0, <1>1, <1>2 DEF GraphInv
  <2>4. ~Imported(n) => (Unfinished(n)' <=> Unfinished(n))
    BY <1>1, <1>3, <2>3 DEF Unfinished
  <2> QED BY <2>1, <2>2, <2>4
<1>8. todo' \subseteq Nodes
  BY <1>1, <1>3
<1>9. at' \in Nat
  BY <1>1, <1>2
<1> QED BY <1>1, <1>5, <1>6, <1>7, <1>8, <1>9, RecordSame DEF RecordPass

-----------------------------------------------------------------------------
(* Barriers.                                                               *)

\* Pass at records its barrier for node n.
LEMMA BarrierNodes ==
    ASSUME IInv, phase = "barriers", NEW n \in todo, NEW p, Barrier(n, p)
    PROVE  /\ Recording /\ Recording' /\ at \in DOMAIN passes /\ at \in Users(n) /\ n \in Nodes
           /\ at \in Nat /\ Begun(n)' /\ Unfinished(n) /\ PlaceInv'
           /\ \A m : Unfinished(m)' <=> Unfinished(m)
           /\ \A m : m # n => (Begun(m)' <=> Begun(m)) /\ Past(m)' = Past(m)
           /\ at \in Past(n)' /\ \A j \in Past(n)' : j <= at
<1>0. GraphType /\ PlaceInv /\ NodeType
  BY TypeParts DEF IInv
<1>1. /\ phase' = "barriers" /\ at' = at /\ passes' = passes /\ resources' = resources /\ todo' = todo \ {n}
      /\ Recording /\ Recording'
  BY DEF Barrier, graph, Recording
<1>2. /\ Len(passes) \in Nat /\ DOMAIN passes = 1..Len(passes) /\ (\A m : Users(m) \subseteq Nat)
      /\ \A m, i : i \in Users(m) <=> i \in DOMAIN passes /\ m \in Edges(i)
  BY <1>0, GraphFacts
<1>3. at \in DOMAIN passes /\ at \in Users(n) /\ n \in Nodes /\ at \in Nat
  BY <1>0, <1>1, <1>2 DEF PlaceInv, NodeType
<1>4. (\A m : Users(m)' = Users(m)) /\ Edges(at)' = Edges(at)
  <2>1. \A i : Edges(i)' = Edges(i)
    BY <1>1, GraphSame
  <2>2. Edges(at)' = Edges(at)
    BY <1>1 DEF Edges
  <2> QED BY <1>1, <2>2, GraphSame
<1>5. PlaceInv'
  <2>1. todo' \subseteq IF at' \in DOMAIN passes' THEN Edges(at)' ELSE {}
    BY <1>0, <1>1, <1>3, <1>4 DEF PlaceInv
  <2>2. at' \in 1..(Len(passes') + 1)
    BY <1>1, <1>2, <1>3
  <2> QED BY <1>1, <2>1, <2>2 DEF PlaceInv
<1>6. Begun(n)' /\ Unfinished(n) /\ \A m : Unfinished(m)' <=> Unfinished(m)
  BY <1>1, <1>3, <1>4 DEF Begun, Unfinished
<1>7. ASSUME NEW m, m # n PROVE (Begun(m)' <=> Begun(m)) /\ Past(m)' = Past(m)
  <2>1. m \in todo' <=> m \in todo
    BY <1>1, <1>7
  <2> QED BY <1>1, <1>4, <2>1 DEF Begun, Past, Pending
<1>8. Past(n)' = {i \in Users(n) : ~(i > at)}
  <2>1. Pending(n)' = {i \in Users(n) : i > at}
    BY <1>1, <1>4 DEF Pending
  <2> QED BY <1>4, <2>1 DEF Past
<1>9. at \in Past(n)' /\ \A j \in Past(n)' : j <= at
  BY <1>2, <1>3, <1>8
<1> QED BY <1>1, <1>3, <1>5, <1>6, <1>7, <1>9

\* Where the objects of nodes are.
LEMMA OwnedPlace ==
    ASSUME IInv, NEW m \in Nodes, Owning(m)
    PROVE  /\ Imported(m) => frame_res[m] \in Imports
           /\ m \in aliasing => frame_res[m] \in aliasing_textures[Executor] /\ frame_res[m] \in Aliased
           /\ ~Imported(m) /\ m \notin aliasing => frame_res[m] \in Held
           /\ ~Imported(m) => frame_res[m] \in live
<1>0. FrameInv /\ OwnerInv /\ GpuType
  BY TypeParts DEF IInv
<1>1. Imported(m) => frame_res[m] \in Imports
  BY <1>0 DEF FrameInv
<1>2. Executor \in Executors
  BY <1>0, ExecutorFacts
<1>3. m \in aliasing => frame_res[m] \in aliasing_textures[Executor] /\ frame_res[m] \in Aliased
  BY <1>0, <1>2 DEF OwnerInv, Aliased
<1>4. ~Imported(m) /\ m \notin aliasing => frame_res[m] \in Held
  BY DEF Held
<1>5. ~Imported(m) => frame_res[m] \in live
  BY <1>0, <1>3, <1>4 DEF OwnerInv
<1> QED BY <1>1, <1>3, <1>4, <1>5

\* The invariant after a barrier for n, whose object is p, when objects have
\* one owner each, and p and what is in use stays for this frame.
LEMMA BarrierInv ==
    ASSUME IInv, phase = "barriers", NEW n \in todo, NEW p \in Phys \cup Imports, Barrier(n, p),
           frame_res' = [frame_res EXCEPT ![n] = p],
           init_state' \in [Handles -> States], \A m \in Handles \ {n} : init_state'[m] = init_state[m],
           aliasing' = aliasing \/ (aliasing' = aliasing \cup {n} /\ ~Imported(n)),
           IF Imported(n) THEN p \in Imports ELSE p \in Phys,
           PoolsType', Elements' \subseteq Elements, live \subseteq live', live' \subseteq Phys,
           aliasing_textures' \in [Executors -> SUBSET Phys],
           \A e \in Executors : aliasing_textures'[e] \cap live \subseteq aliasing_textures[e],
           OwnerInv',
           memory' \in [Phys \cup Imports -> Phys \cup Imports],
           \A q \in live : memory'[q] = memory[q],
           \A q \in live' \ Aliased' : memory'[q] = q,
           ~Imported(n) => \A f : f = frame_index => \A q \in {p, memory'[p]} : Kept(q, f)'
    PROVE  IInv'
<1>0. /\ GraphType /\ NodeType /\ PoolsType /\ GpuType /\ GraphInv /\ PlaceInv /\ FrameInv
      /\ OwnerInv /\ FenceInv /\ UseInv /\ ViewsLive /\ StateInv
  BY TypeParts DEF IInv
<1>1. /\ todo' = todo \ {n} /\ layout' = [layout EXCEPT ![p] = Requested(at, n)]
      /\ uses' = [uses EXCEPT ![frame_index] = @ \cup {p}]
      /\ UNCHANGED <<aliasing_enabled, resources, passes, source, spans>>
      /\ UNCHANGED <<phase, at, frame_index, views, fence, done>>
  BY DEF Barrier, graph
<1>2. /\ Recording /\ Recording' /\ at \in DOMAIN passes /\ at \in Users(n) /\ n \in Nodes
      /\ at \in Nat /\ Begun(n)' /\ Unfinished(n) /\ PlaceInv'
      /\ \A m : Unfinished(m)' <=> Unfinished(m)
      /\ \A m : m # n => (Begun(m)' <=> Begun(m)) /\ Past(m)' = Past(m)
      /\ at \in Past(n)' /\ \A j \in Past(n)' : j <= at
  BY BarrierNodes
<1>3. /\ Nodes' = Nodes /\ (Disciplined' <=> Disciplined)
      /\ \A m : Users(m)' = Users(m) /\ Imported(m)' = Imported(m)
      /\ \A i : Edges(i)' = Edges(i) /\ \A m : Requested(i, m)' = Requested(i, m)
  BY <1>1, GraphSame
<1>4. Nodes \subseteq Handles /\ n \in Handles /\ p # None /\ Requested(at, n) \in States
      /\ \A m \in Nodes : Imported(m) \in BOOLEAN
  BY <1>0, <1>2, GraphFacts, RequestedType, RenderGraphAssumption
<1>5. frame_res'[n] = p /\ \A m \in Handles \ {n} : frame_res'[m] = frame_res[m]
  BY <1>0, <1>4 DEF NodeType
<1>6. GraphType'
  BY <1>0, <1>1, <1>3 DEF GraphType
<1>7. NodeType'
  <2>1. frame_res' \in [Handles -> Phys \cup Imports \cup {None}]
    BY <1>0, <1>4 DEF NodeType
  <2> QED BY <1>0, <1>1, <1>2, <1>3, <2>1 DEF NodeType
<1>8. GpuType'
  <2>1. layout' \in [Phys \cup Imports -> States]
    BY <1>0, <1>1, <1>4 DEF GpuType
  <2>2. uses' \in [0..MaxFrames -> SUBSET (Phys \cup Imports)]
    BY <1>0, <1>1 DEF GpuType
  <2> QED BY <1>0, <1>1, <2>1, <2>2 DEF GpuType
<1>9. GraphInv'
  BY <1>0, <1>1, <1>3 DEF GraphInv
<1>10. FrameInv'
  <2>1. \A m \in Handles \ Nodes' : frame_res'[m] = None
    BY <1>0, <1>2, <1>3, <1>5 DEF FrameInv
  <2>2. ASSUME NEW m \in Nodes'
        PROVE  /\ IF Imported(m)' THEN frame_res'[m] \in Imports ELSE frame_res'[m] \in Phys \cup {None}
               /\ ~Imported(m)' => (frame_res'[m] # None <=> Recording' /\ Begun(m)')
    <3>1. CASE m = n
      BY <1>2, <1>3, <1>4, <1>5, <3>1
    <3>2. CASE m # n
      BY <1>0, <1>2, <1>3, <1>4, <1>5, <3>2 DEF FrameInv
    <3> QED BY <3>1, <3>2
  <2>3. \A m \in aliasing' : m \in Nodes' /\ ~Imported(m)' /\ frame_res'[m] # None
    <3> SUFFICES ASSUME NEW m \in aliasing' PROVE m \in Nodes' /\ ~Imported(m)' /\ frame_res'[m] # None
      OBVIOUS
    <3>1. CASE m = n
      BY <1>0, <1>2, <1>3, <1>4, <1>5, <3>1 DEF FrameInv
    <3>2. CASE m # n
      BY <1>0, <1>3, <1>4, <1>5, <3>2 DEF FrameInv
    <3> QED BY <3>1, <3>2
  <2> QED BY <2>1, <2>2, <2>3 DEF FrameInv
<1>11. \A m : m # n => (Owning(m)' <=> Owning(m))
  BY <1>1, <1>2, <1>3, <1>4, <1>5 DEF Owning
<1>12. Owning(n)'
  BY <1>2, <1>3, <1>4, <1>5 DEF Owning
<1>13. Executor' = Executor /\ InFlight' = InFlight /\ frame_index \in 0..MaxFrames
       /\ frame_index \notin InFlight /\ Executor \in Executors /\ InFlight \subseteq 0..MaxFrames
  BY <1>0, <1>1, ExecutorFacts DEF Executor, InFlight
<1>14. FenceInv'
  BY <1>0, <1>1, <1>2, <1>13 DEF FenceInv
<1>15. UseInv'
  <2>1. \A f \in 0..MaxFrames : uses'[f] = IF f = frame_index THEN uses[f] \cup {p} ELSE uses[f]
    BY <1>0, <1>1 DEF GpuType
  <2>2. ASSUME NEW q, NEW f, Kept(q, f) PROVE Kept(q, f)'
    BY <2>2 DEF Kept
  <2>3. ASSUME NEW f \in InFlight \cup {frame_index}, NEW r \in uses'[f] \ Imports, NEW q \in {r, memory'[r]}
        PROVE  Kept(q, f)'
    <3>0. f \in 0..MaxFrames
      BY <1>13
    <3>1. CASE r \in uses[f]
      <4>1. Kept(r, f) /\ Kept(memory[r], f)
        BY <1>0, <2>3, <3>1, UseNow
      <4>2. memory'[r] = memory[r]
        BY <4>1 DEF Kept
      <4>3. Kept(q, f)
        BY <4>1, <4>2
      <4> QED BY <2>2, <4>3
    <3>2. CASE r \notin uses[f]
      <4>1. f = frame_index /\ r = p
        BY <2>1, <3>0, <3>2
      <4>2. ~Imported(n)
        BY <2>3, <4>1
      <4> QED BY <4>1, <4>2
    <3> QED BY <3>1, <3>2
  <2>4. \A f \in 0..MaxFrames : f > frame_index' \/ (f = frame_index' /\ ~Recording') => uses'[f] = {}
    <3>1. \A f \in 0..MaxFrames : f > frame_index => uses[f] = {} /\ f # frame_index
      BY <1>0, <1>13 DEF UseInv
    <3> QED BY <1>1, <1>2, <2>1, <3>1
  <2>5. \A m \in Nodes' : ~Imported(m)' /\ frame_res'[m] # None => frame_res'[m] \in uses'[frame_index']
    <3> SUFFICES ASSUME NEW m \in Nodes, ~Imported(m), frame_res'[m] # None
                 PROVE  frame_res'[m] \in uses[frame_index] \cup {p}
      BY <1>1, <1>3, <1>13, <2>1
    <3>1. CASE m = n
      BY <1>5, <3>1
    <3>2. CASE m # n
      BY <1>0, <1>2, <1>4, <1>5, <3>2 DEF UseInv
    <3> QED BY <3>1, <3>2
  <2> QED BY <1>1, <1>13, <2>3, <2>4, <2>5, UseNext
<1>16. ViewsLive'
  BY <1>0, <1>1 DEF ViewsLive
<1>17. StateInv'
  <2>1. layout'[p] = Requested(at, n) /\ \A q \in (Phys \cup Imports) \ {p} : layout'[q] = layout[q]
    BY <1>0, <1>1 DEF GpuType
  <2>2. p \notin Pooled'
    <3>1. CASE Imported(n)
      BY <3>1, ElementFacts, RenderGraphAssumption, <1>0, PoolSame, PooledFacts, PooledFactsNext DEF Element
    <3>2. CASE ~Imported(n) /\ n \in aliasing'
      <4>1. p \in aliasing_textures'[Executor']
        BY <1>5, <3>2 DEF OwnerInv
      <4>2. p \in Aliased'
        BY <1>13, <4>1 DEF Aliased
      <4> QED BY <4>2 DEF OwnerInv
    <3>3. CASE ~Imported(n) /\ n \notin aliasing'
      <4>1. p \in Held'
        BY <1>2, <1>3, <1>5, <1>12, <3>3 DEF Held
      <4> QED BY <4>1 DEF OwnerInv
    <3> QED BY <3>1, <3>2, <3>3
  <2>3. \A x \in Elements' : layout'[x.res] = x.state
    <3> SUFFICES ASSUME NEW x \in Elements' PROVE layout'[x.res] = x.state
      OBVIOUS
    <3>1. x \in Elements /\ x.res \in Phys /\ layout[x.res] = x.state
      BY <1>0, ElementFacts DEF StateInv, Element
    <3>2. x.res # p
      BY <2>2, PooledFactsNext
    <3> QED BY <2>1, <3>1, <3>2
  <2>4. Left(n)'
    <3>1. \A k \in Past(n)' : (\A j \in Past(n)' : j <= k) => k = at
      <4>1. Past(n)' \subseteq Nat
        BY <1>0, <1>3, GraphFacts DEF Past
      <4> QED BY <1>2, <4>1
    <3> QED BY <1>2, <1>3, <1>5, <2>1, <3>1 DEF Left
  <2>5. ASSUME NEW m \in Nodes, m # n, Owning(m)' PROVE Left(m)'
    <3>1. Owning(m) /\ Left(m) /\ Past(m)' = Past(m) /\ init_state'[m] = init_state[m]
          /\ frame_res'[m] = frame_res[m]
      BY <1>0, <1>2, <1>4, <1>5, <1>11, <2>5 DEF StateInv
    <3>2. frame_res[m] # p
      BY <1>2, <1>3, <1>5, <1>12, <2>5, <3>1 DEF OwnerInv
    <3>3. frame_res[m] \in Phys \cup Imports
      BY <1>0, <1>4, <3>1 DEF NodeType, Owning
    <3>4. layout'[frame_res'[m]] = layout[frame_res[m]]
      BY <2>1, <3>1, <3>2, <3>3
    <3>5. \A k : Requested(k, m)' = Requested(k, m)
      BY <1>3
    <3> QED BY <3>1, <3>4, <3>5 DEF Left
  <2> QED BY <1>2, <1>3, <2>3, <2>4, <2>5 DEF StateInv
<1> QED BY <1>2, <1>6, <1>7, <1>8, <1>9, <1>10, <1>14, <1>15, <1>16, <1>17, TypePartsNext DEF IInv

\* A barrier of a node that has its object.
LEMMA BarrierResolvedStep ==
    ASSUME IInv, NEW n \in todo, BarrierResolved(n)
    PROVE  IInv'
<1>0. /\ GraphType /\ NodeType /\ PoolsType /\ GpuType /\ FrameInv /\ OwnerInv /\ UseInv
  BY TypeParts DEF IInv
<1>p. PICK p : p = frame_res[n]
  OBVIOUS
<1>1. /\ phase = "barriers" /\ p # None /\ Barrier(n, p) /\ phase' = phase /\ frame_index' = frame_index
      /\ UNCHANGED <<resources, passes>>
      /\ UNCHANGED <<frame_res, init_state, aliasing, pool, live, memory, aliasing_textures>>
  BY <1>p DEF BarrierResolved, Barrier, graph
<1>2. /\ Recording /\ Recording' /\ n \in Nodes /\ (\A m : Unfinished(m)' <=> Unfinished(m))
      /\ Nodes' = Nodes /\ (\A m : Imported(m)' = Imported(m)) /\ Nodes \subseteq Handles
  BY <1>0, <1>1, BarrierNodes, GraphSame, GraphFacts
<1>3. p \in Phys \cup Imports /\ IF Imported(n) THEN p \in Imports ELSE p \in Phys
  BY <1>0, <1>1, <1>2, <1>p DEF FrameInv
<1>4. frame_res' = [frame_res EXCEPT ![n] = p]
  BY <1>0, <1>1, <1>p DEF NodeType
<1>5. (\A m : Owning(m)' <=> Owning(m)) /\ Held' = Held
  <2>1. \A m : Owning(m)' <=> Owning(m)
    BY <1>1, <1>2 DEF Owning
  <2> QED BY <1>1, <1>2, <2>1 DEF Held
<1>6. Elements' = Elements /\ Pooled' = Pooled /\ (PoolDistinct' <=> PoolDistinct) /\ PoolsType'
  BY <1>0, <1>1, PoolSame DEF PoolsType
<1>7. Aliased' = Aliased /\ Executor' = Executor
  BY <1>1 DEF Aliased, Executor
<1>8. OwnerInv'
  BY <1>0, <1>1, <1>2, <1>5, <1>6, <1>7 DEF OwnerInv
<1>9. ~Imported(n) => \A f : f = frame_index => \A q \in {p, memory'[p]} : Kept(q, f)'
  <2> SUFFICES ASSUME ~Imported(n), NEW f, f = frame_index, NEW q \in {p, memory'[p]} PROVE Kept(q, f)'
    OBVIOUS
  <2>1. p \in uses[f] \ Imports
    BY <1>0, <1>1, <1>2, <1>3, <1>p, RenderGraphAssumption DEF UseInv
  <2>2. Kept(q, f)
    BY <1>0, <1>1, <2>1, UseNow
  <2> QED BY <1>1, <1>6, <2>2 DEF Kept
<1>10. init_state' \in [Handles -> States] /\ live' \subseteq Phys /\ aliasing_textures' \in [Executors -> SUBSET Phys]
  BY <1>0, <1>1 DEF NodeType, GpuType
<1>11. memory' \in [Phys \cup Imports -> Phys \cup Imports] /\ \A q \in live' \ Aliased' : memory'[q] = q
  BY <1>0, <1>1, <1>7 DEF UseInv
<1> QED BY <1>1, <1>3, <1>4, <1>6, <1>8, <1>9, <1>10, <1>11, BarrierInv

\* A node without an object is one of the graph's own that no pass has used.
LEMMA Unresolved ==
    ASSUME IInv, NEW n \in todo, Resolving(n), NEW p, Barrier(n, p)
    PROVE  /\ phase = "barriers" /\ n \in Nodes /\ n \in Handles /\ ~Imported(n) /\ n \notin aliasing
           /\ ~Owning(n) /\ Nodes \subseteq Handles /\ Nodes' = Nodes /\ phase' = phase
           /\ frame_index' = frame_index /\ Recording /\ Recording' /\ Executor' = Executor
           /\ Executor \in Executors
           /\ (\A m : Imported(m)' = Imported(m)) /\ (\A m : Unfinished(m)' <=> Unfinished(m))
           /\ at \in Users(n) /\ at \in Nat /\ Unfinished(n)
<1>0. GraphType /\ GpuType /\ FrameInv
  BY TypeParts DEF IInv
<1>1. phase = "barriers" /\ frame_res[n] = None
  BY DEF Resolving
<1>2. UNCHANGED <<resources, passes>> /\ phase' = phase /\ frame_index' = frame_index
  BY DEF Barrier, graph
<1>3. /\ n \in Nodes /\ Recording /\ Recording' /\ (\A m : Unfinished(m)' <=> Unfinished(m)) /\ Nodes' = Nodes
      /\ (\A m : Imported(m)' = Imported(m)) /\ Nodes \subseteq Handles /\ at \in Users(n) /\ at \in Nat
      /\ Unfinished(n)
  BY <1>0, <1>1, <1>2, BarrierNodes, GraphSame, GraphFacts
<1>4. ~Imported(n) /\ n \notin aliasing /\ ~Owning(n)
  BY <1>0, <1>1, <1>3, RenderGraphAssumption DEF FrameInv, Owning
<1>5. Executor' = Executor /\ Executor \in Executors
  BY <1>0, <1>2, ExecutorFacts DEF Executor
<1> QED BY <1>1, <1>2, <1>3, <1>4, <1>5

\* Node n takes p from the pool, or a new object.
LEMMA HeldNext ==
    ASSUME IInv, NEW n \in todo, Resolving(n), NEW p \in Phys, Barrier(n, p),
           frame_res' = [frame_res EXCEPT ![n] = p], aliasing' = aliasing
    PROVE  /\ Held' = Held \cup {p}
           /\ \A m : m # n => (Owning(m)' <=> Owning(m))
           /\ \A m \in Nodes \ {n} : frame_res'[m] = frame_res[m]
           /\ frame_res'[n] = p
<1>0. NodeType
  BY TypeParts DEF IInv
<1>1. /\ n \in Nodes /\ n \in Handles /\ ~Imported(n) /\ n \notin aliasing /\ ~Owning(n) /\ Nodes \subseteq Handles
      /\ Nodes' = Nodes /\ Recording /\ Recording' /\ Unfinished(n)
      /\ (\A m : Imported(m)' = Imported(m)) /\ (\A m : Unfinished(m)' <=> Unfinished(m))
  BY Unresolved
<1>2. frame_res'[n] = p /\ (\A m \in Nodes \ {n} : frame_res'[m] = frame_res[m]) /\ p # None
  BY <1>0, <1>1, RenderGraphAssumption DEF NodeType
<1>3. \A m : m # n => (Owning(m)' <=> Owning(m))
  BY <1>1, <1>2 DEF Owning
<1>4. Owning(n)'
  BY <1>1, <1>2 DEF Owning
<1>5. Held' = Held \cup {p}
  BY <1>1, <1>2, <1>3, <1>4 DEF Held
<1> QED BY <1>2, <1>3, <1>5

\* A node is resolved to a new object.
LEMMA ResolveCreatedStep ==
    ASSUME IInv, NEW n \in todo, NEW p \in Phys, ResolveCreated(n, p)
    PROVE  IInv'
<1>0. /\ GraphType /\ NodeType /\ PoolsType /\ GpuType /\ FrameInv /\ OwnerInv /\ UseInv
  BY TypeParts DEF IInv
<1>1. /\ Resolving(n) /\ Barrier(n, p) /\ p \notin live /\ live' = live \cup {p}
      /\ memory' = [memory EXCEPT ![p] = p] /\ frame_res' = [frame_res EXCEPT ![n] = p]
      /\ init_state' = [init_state EXCEPT ![n] = resources[n].desc.start]
      /\ UNCHANGED <<pool, aliasing, aliasing_textures>>
  BY DEF ResolveCreated
<1>2. /\ phase = "barriers" /\ n \in Nodes /\ n \in Handles /\ ~Imported(n) /\ ~Owning(n) /\ Nodes' = Nodes
      /\ phase' = phase /\ frame_index' = frame_index /\ Executor' = Executor
      /\ \A m : Imported(m)' = Imported(m)
  BY <1>1, Unresolved
<1>3. /\ Held' = Held \cup {p} /\ (\A m : m # n => (Owning(m)' <=> Owning(m))) /\ frame_res'[n] = p
      /\ \A m \in Nodes \ {n} : frame_res'[m] = frame_res[m]
  BY <1>1, HeldNext
<1>4. Elements' = Elements /\ Pooled' = Pooled /\ (PoolDistinct' <=> PoolDistinct) /\ PoolsType'
  BY <1>0, <1>1, PoolSame DEF PoolsType
<1>5. Aliased' = Aliased
  BY <1>1 DEF Aliased
<1>6. p \notin Pooled /\ p \notin Aliased /\ p \notin Held
  BY <1>0, <1>1 DEF OwnerInv
<1>7. \A m \in Nodes : Owning(m) => frame_res[m] # p
  BY <1>1, OwnedPlace, RenderGraphAssumption
<1>8. OwnerInv'
  <2>1. live' = Pooled' \cup Aliased' \cup Held' /\ Pooled' \cap Aliased' = {} /\ Held' \cap (Pooled' \cup Aliased') = {}
    BY <1>0, <1>1, <1>3, <1>4, <1>5, <1>6 DEF OwnerInv
  <2>2. \A k, m \in Nodes' : Owning(k)' /\ Owning(m)' /\ frame_res'[k] = frame_res'[m] => k = m
    <3>1. \A k, m \in Nodes : Owning(k) /\ Owning(m) /\ frame_res[k] = frame_res[m] => k = m
      BY <1>0 DEF OwnerInv
    <3> QED BY <1>2, <1>3, <1>7, <3>1
  <2>3. \A m \in aliasing' : frame_res'[m] \in aliasing_textures'[Executor']
    <3>1. n \notin aliasing /\ aliasing \subseteq Nodes
      BY <1>0, <1>1, Unresolved DEF NodeType
    <3> QED BY <1>0, <1>1, <1>2, <1>3, <3>1 DEF OwnerInv
  <2> QED BY <1>0, <1>1, <1>2, <1>4, <2>1, <2>2, <2>3 DEF OwnerInv
<1>9. /\ memory' \in [Phys \cup Imports -> Phys \cup Imports] /\ memory'[p] = p
      /\ (\A q \in live : memory'[q] = memory[q])
      /\ \A q \in live' \ Aliased' : memory'[q] = q
  <2>1. memory \in [Phys \cup Imports -> Phys \cup Imports] /\ \A q \in live \ Aliased : memory[q] = q
    BY <1>0 DEF UseInv
  <2>2. live \subseteq Phys
    BY <1>0 DEF GpuType
  <2> QED BY <1>1, <1>5, <2>1, <2>2
<1>10. \A f : f = frame_index => \A q \in {p, memory'[p]} : Kept(q, f)'
  <2>1. \A x \in Elements' : x.res # p
    BY <1>4, <1>6, PooledFacts
  <2>2. \A e \in Executors : p \notin aliasing_textures'[e]
    BY <1>1, <1>6 DEF Aliased
  <2> QED BY <1>1, <1>9, <2>1, <2>2 DEF Kept
<1>11. init_state' \in [Handles -> States] /\ \A m \in Handles \ {n} : init_state'[m] = init_state[m]
  <2>1. resources[n].desc.start \in States
    BY <1>0, <1>2, GraphFacts, RenderGraphAssumption
  <2> QED BY <1>0, <1>1, <2>1 DEF NodeType
<1>12. live' \subseteq Phys /\ aliasing_textures' \in [Executors -> SUBSET Phys] /\ p \in Phys \cup Imports
  BY <1>0, <1>1 DEF GpuType
<1> QED BY <1>1, <1>2, <1>4, <1>8, <1>9, <1>10, <1>11, <1>12, BarrierInv

\* A node is resolved to the oldest object of its pool.
LEMMA ResolvePooledStep ==
    ASSUME IInv, NEW n \in todo, ResolvePooled(n)
    PROVE  IInv'
<1>0. /\ GraphType /\ NodeType /\ PoolsType /\ GpuType /\ FrameInv /\ OwnerInv /\ UseInv
  BY TypeParts DEF IInv
<1>d. PICK d : d = resources[n].desc
  OBVIOUS
<1>x. PICK x : x = Head(pool[d])
  OBVIOUS
<1>p. PICK p : p = x.res
  OBVIOUS
<1>1. /\ Resolving(n) /\ Barrier(n, p) /\ pool[d] # <<>> /\ pool' = [pool EXCEPT ![d] = Tail(pool[d])]
      /\ frame_res' = [frame_res EXCEPT ![n] = p] /\ init_state' = [init_state EXCEPT ![n] = x.state]
      /\ UNCHANGED <<live, memory, aliasing, aliasing_textures>>
  BY <1>d, <1>x, <1>p DEF ResolvePooled
<1>2. /\ phase = "barriers" /\ n \in Nodes /\ n \in Handles /\ ~Imported(n) /\ ~Owning(n) /\ Nodes' = Nodes
      /\ phase' = phase /\ frame_index' = frame_index /\ Executor' = Executor
      /\ \A m : Imported(m)' = Imported(m)
  BY <1>1, Unresolved
<1>3. d \in Descs /\ pool[d] \in Seq(Element)
  BY <1>0, <1>2, <1>d, GraphFacts DEF PoolsType
<1>4. 1 \in DOMAIN pool[d] /\ x = pool[d][1] /\ x \in Elements /\ x \in Element /\ p \in Pooled /\ p \in Phys
  <2>1. 1 \in DOMAIN pool[d] /\ x = pool[d][1]
    BY <1>1, <1>3, <1>x
  <2>2. x \in Elements
    BY <1>3, <2>1, PooledFacts
  <2> QED BY <1>0, <1>p, <2>1, <2>2, PooledFacts, ElementFacts
<1>5. PoolsType' /\ PoolDistinct' /\ Elements' \subseteq Elements /\ Pooled' = Pooled \ {p}
  <2>1. Without(pool[d], 1, Tail(pool[d]))
    BY DEF Without
  <2>2. PoolDistinct
    BY <1>0 DEF OwnerInv
  <2> QED BY <1>0, <1>1, <1>3, <1>4, <1>p, <2>1, <2>2, PoolRemove
<1>6. /\ Held' = Held \cup {p} /\ (\A m : m # n => (Owning(m)' <=> Owning(m))) /\ frame_res'[n] = p
      /\ \A m \in Nodes \ {n} : frame_res'[m] = frame_res[m]
  BY <1>1, <1>4, HeldNext
<1>7. Aliased' = Aliased
  BY <1>1 DEF Aliased
<1>8. p \notin Aliased /\ p \notin Held /\ p \in live
  BY <1>0, <1>4 DEF OwnerInv
<1>9. \A m \in Nodes : Owning(m) => frame_res[m] # p
  BY <1>4, <1>8, OwnedPlace, RenderGraphAssumption
<1>10. OwnerInv'
  <2>1. live' = Pooled' \cup Aliased' \cup Held' /\ Pooled' \cap Aliased' = {} /\ Held' \cap (Pooled' \cup Aliased') = {}
    BY <1>0, <1>1, <1>4, <1>5, <1>6, <1>7, <1>8 DEF OwnerInv
  <2>2. \A k, m \in Nodes' : Owning(k)' /\ Owning(m)' /\ frame_res'[k] = frame_res'[m] => k = m
    <3>1. \A k, m \in Nodes : Owning(k) /\ Owning(m) /\ frame_res[k] = frame_res[m] => k = m
      BY <1>0 DEF OwnerInv
    <3> QED BY <1>2, <1>6, <1>9, <3>1
  <2>3. \A m \in aliasing' : frame_res'[m] \in aliasing_textures'[Executor']
    <3>1. n \notin aliasing /\ aliasing \subseteq Nodes
      BY <1>0, <1>1, Unresolved DEF NodeType
    <3> QED BY <1>0, <1>1, <1>2, <1>6, <3>1 DEF OwnerInv
  <2> QED BY <1>0, <1>1, <1>2, <1>5, <2>1, <2>2, <2>3 DEF OwnerInv
<1>11. /\ memory' \in [Phys \cup Imports -> Phys \cup Imports] /\ memory'[p] = p
       /\ \A q \in live' \ Aliased' : memory'[q] = q
  BY <1>0, <1>1, <1>7, <1>8 DEF UseInv
<1>12. \A f : f = frame_index => \A q \in {p, memory'[p]} : Kept(q, f)'
  <2>1. \A y \in Elements' : y.res # p
    BY <1>5, PooledFactsNext
  <2>2. \A e \in Executors : p \notin aliasing_textures'[e]
    BY <1>1, <1>8 DEF Aliased
  <2> QED BY <1>1, <1>8, <1>11, <2>1, <2>2 DEF Kept
<1>13. init_state' \in [Handles -> States] /\ \A m \in Handles \ {n} : init_state'[m] = init_state[m]
  <2>1. x.state \in States
    BY <1>4 DEF Element
  <2> QED BY <1>0, <1>1, <2>1 DEF NodeType
<1>14. live' \subseteq Phys /\ aliasing_textures' \in [Executors -> SUBSET Phys] /\ p \in Phys \cup Imports
  BY <1>0, <1>1, <1>4 DEF GpuType
<1> QED BY <1>1, <1>2, <1>4, <1>5, <1>10, <1>11, <1>12, <1>13, <1>14, BarrierInv

\* The texture whose memory is taken has been used by an earlier pass.
LEMMA SourceBegun ==
    ASSUME IInv, phase = "barriers", NEW n \in todo, source[n] # 0
    PROVE  source[n] \in Nodes /\ ~Imported(source[n]) /\ Begun(source[n])
<1>0. GraphType /\ GraphInv /\ PlaceInv /\ NodeType
  BY TypeParts DEF IInv
<1>1. /\ n \in Handles /\ at \in Users(n) /\ at \in Nat /\ (\A m : Users(m) \subseteq Nat)
  <2>1. n \in Nodes
    BY <1>0 DEF NodeType
  <2>2. at \in DOMAIN passes /\ n \in Edges(at)
    BY <1>0 DEF PlaceInv, Recording
  <2> QED BY <1>0, <2>1, <2>2, GraphFacts
<1>2. source[n] \in Nodes /\ ~Imported(source[n]) /\ \E i \in Users(source[n]) : \A j \in Users(n) : i < j
  BY <1>0, <1>1 DEF GraphInv
<1>3. Begun(source[n])
  BY <1>1, <1>2 DEF Begun
<1> QED BY <1>2, <1>3

\* A node is resolved to a texture in the memory of its source.
LEMMA ResolveAliasingStep ==
    ASSUME IInv, NEW n \in todo, NEW p \in Phys, ResolveAliasing(n, p)
    PROVE  IInv'
<1>0. /\ GraphType /\ NodeType /\ PoolsType /\ GpuType /\ FrameInv /\ OwnerInv /\ UseInv
  BY TypeParts DEF IInv
<1>e. PICK e : e = Executor
  OBVIOUS
<1>q. PICK s : s = memory[frame_res[source[n]]]
  OBVIOUS
<1>1. /\ Resolving(n) /\ Barrier(n, p) /\ p \notin live /\ live' = live \cup {p} /\ source[n] # 0
      /\ memory' = [memory EXCEPT ![p] = s] /\ frame_res' = [frame_res EXCEPT ![n] = p]
      /\ init_state' = [init_state EXCEPT ![n] = "UNDEFINED"] /\ aliasing' = aliasing \cup {n}
      /\ aliasing_textures' = [aliasing_textures EXCEPT ![e] = aliasing_textures[e] \cup {p}]
      /\ pool' = pool
  BY <1>e, <1>q DEF ResolveAliasing
<1>2. /\ phase = "barriers" /\ n \in Nodes /\ n \in Handles /\ ~Imported(n) /\ ~Owning(n) /\ Nodes' = Nodes
      /\ n \notin aliasing /\ Recording /\ Recording' /\ Nodes \subseteq Handles
      /\ phase' = phase /\ frame_index' = frame_index /\ Executor' = e /\ e \in Executors
      /\ (\A m : Imported(m)' = Imported(m)) /\ \A m : Unfinished(m)' <=> Unfinished(m)
  BY <1>1, <1>e, Unresolved
<1>3. s \in live /\ Kept(s, frame_index)
  BY <1>1, <1>2, <1>q, SourceBegun, BegunLive
<1>4. frame_res'[n] = p /\ (\A m \in Nodes \ {n} : frame_res'[m] = frame_res[m]) /\ p # None
  BY <1>0, <1>1, <1>2, RenderGraphAssumption DEF NodeType
<1>5. (\A m : m # n => (Owning(m)' <=> Owning(m))) /\ Held' = Held
  <2>1. \A m : m # n => (Owning(m)' <=> Owning(m))
    BY <1>1, <1>2, <1>4 DEF Owning
  <2> QED BY <1>1, <1>2, <1>4, <2>1 DEF Held
<1>6. Elements' = Elements /\ Pooled' = Pooled /\ (PoolDistinct' <=> PoolDistinct) /\ PoolsType'
  BY <1>0, <1>1, PoolSame DEF PoolsType
<1>7. \A c \in Executors : aliasing_textures'[c] = IF c = e THEN aliasing_textures[e] \cup {p} ELSE aliasing_textures[c]
  BY <1>0, <1>1 DEF GpuType
<1>8. Aliased' = Aliased \cup {p}
  BY <1>2, <1>7 DEF Aliased
<1>9. p \notin Pooled /\ p \notin Aliased /\ p \notin Held
  BY <1>0, <1>1 DEF OwnerInv
<1>10. \A m \in Nodes : Owning(m) => frame_res[m] # p
  BY <1>1, OwnedPlace, RenderGraphAssumption
<1>11. OwnerInv'
  <2>1. live' = Pooled' \cup Aliased' \cup Held' /\ Pooled' \cap Aliased' = {} /\ Held' \cap (Pooled' \cup Aliased') = {}
    BY <1>0, <1>1, <1>5, <1>6, <1>8, <1>9 DEF OwnerInv
  <2>2. \A k, m \in Nodes' : Owning(k)' /\ Owning(m)' /\ frame_res'[k] = frame_res'[m] => k = m
    <3>1. \A k, m \in Nodes : Owning(k) /\ Owning(m) /\ frame_res[k] = frame_res[m] => k = m
      BY <1>0 DEF OwnerInv
    <3> QED BY <1>2, <1>4, <1>5, <1>10, <3>1
  <2>3. \A m \in aliasing' : frame_res'[m] \in aliasing_textures'[e]
    <3>1. aliasing \subseteq Nodes /\ \A m \in aliasing : frame_res[m] \in aliasing_textures[e]
      BY <1>0, <1>e DEF NodeType, OwnerInv
    <3> QED BY <1>1, <1>2, <1>4, <1>7, <3>1
  <2>4. \A c, d \in Executors : c # d => aliasing_textures'[c] \cap aliasing_textures'[d] = {}
    <3>1. \A c, d \in Executors : c # d => aliasing_textures[c] \cap aliasing_textures[d] = {}
      BY <1>0 DEF OwnerInv
    <3>2. \A c \in Executors : p \notin aliasing_textures[c]
      BY <1>9 DEF Aliased
    <3> QED BY <1>7, <3>1, <3>2
  <2> QED BY <1>0, <1>2, <1>6, <2>1, <2>2, <2>3, <2>4 DEF OwnerInv
<1>12. /\ memory' \in [Phys \cup Imports -> Phys \cup Imports] /\ memory'[p] = s
       /\ (\A q \in live : memory'[q] = memory[q])
       /\ \A q \in live' \ Aliased' : memory'[q] = q
  <2>1. memory \in [Phys \cup Imports -> Phys \cup Imports] /\ \A q \in live \ Aliased : memory[q] = q
    BY <1>0 DEF UseInv
  <2>2. live \subseteq Phys
    BY <1>0 DEF GpuType
  <2> QED BY <1>1, <1>3, <1>8, <2>1, <2>2
<1>13. \A f : f = frame_index => \A q \in {p, memory'[p]} : Kept(q, f)'
  <2>1. \A x \in Elements' : x.res # p
    BY <1>6, <1>9, PooledFacts
  <2>2. \A c \in Executors : p \in aliasing_textures'[c] => c = e
    BY <1>7, <1>9 DEF Aliased
  <2>3. frame_index % RG_MAX_FRAME_IN_FLIGHT = e
    BY <1>e DEF Executor
  <2>4. s # p
    BY <1>1, <1>3
  <2>5. ASSUME NEW f, f = frame_index PROVE Kept(p, f)'
    BY <1>1, <2>1, <2>2, <2>3, <2>5 DEF Kept
  <2>6. ASSUME NEW f, f = frame_index PROVE Kept(s, f)'
    BY <1>1, <1>3, <1>6, <1>7, <2>3, <2>4, <2>6 DEF Kept
  <2> QED BY <1>12, <2>5, <2>6
<1>14. init_state' \in [Handles -> States] /\ \A m \in Handles \ {n} : init_state'[m] = init_state[m]
  BY <1>0, <1>1 DEF NodeType, States
<1>15. /\ live' \subseteq Phys /\ aliasing_textures' \in [Executors -> SUBSET Phys] /\ p \in Phys \cup Imports
       /\ \A c \in Executors : aliasing_textures'[c] \cap live \subseteq aliasing_textures[c]
  BY <1>0, <1>1, <1>7 DEF GpuType
<1> QED BY <1>1, <1>2, <1>6, <1>11, <1>12, <1>13, <1>14, <1>15, BarrierInv

-----------------------------------------------------------------------------
(* The objects return to the pool.                                         *)

\* is_last_user looks at readers only; for programs that keep to the order of
\* accesses no user follows.
LEMMA LastUserLast ==
    ASSUME GraphType, Disciplined, NEW n \in Nodes, ~Imported(n), at \in Users(n), LastUser(n)
    PROVE  \A i \in Users(n) : i <= at
<1>1. PICK last \in Users(n) : (\A k \in Users(n) : k <= last) /\ (last \in Readers(n) \/ Users(n) = {last})
  BY DEF Disciplined, Imported
<1>2. Users(n) \subseteq Nat
  BY GraphFacts
<1> QED BY <1>1, <1>2 DEF LastUser

\* deallocate_resources gives the object back after its last reader.
LEMMA DeallocateStep ==
    ASSUME IInv, NEW n \in todo, Deallocate(n)
    PROVE  IInv'
<1>0. /\ GraphType /\ NodeType /\ PoolsType /\ GpuType /\ GraphInv /\ PlaceInv /\ FrameInv
      /\ OwnerInv /\ FenceInv /\ UseInv /\ ViewsLive /\ StateInv
  BY TypeParts DEF IInv
<1>d. PICK d : d = resources[n].desc
  OBVIOUS
<1>p. PICK p : p = frame_res[n]
  OBVIOUS
<1>x. PICK x : x = [res |-> p, state |-> Requested(at, n), frame |-> frame_index]
  OBVIOUS
<1>1. /\ phase = "dealloc" /\ phase' = "dealloc" /\ Recording /\ Recording' /\ at' = at /\ todo' = todo \ {n}
      /\ UNCHANGED <<aliasing_enabled, resources, passes, source, spans>>
      /\ UNCHANGED <<frame_res, init_state, frame_index, aliasing, live, views, layout, memory,
                     aliasing_textures, fence, done, uses>>
  BY DEF Deallocate, Recording, graph
<1>2. pool' = IF ~Imported(n) /\ LastUser(n) /\ n \notin aliasing
              THEN [pool EXCEPT ![d] = Append(@, x)] ELSE pool
  BY <1>d, <1>p, <1>x DEF Deallocate, Imported
<1>3. /\ Len(passes) \in Nat /\ DOMAIN passes = 1..Len(passes) /\ Nodes \subseteq Handles
      /\ (\A m : Users(m) \subseteq Nat) /\ \A m \in Nodes : Imported(m) \in BOOLEAN
      /\ \A m, i : i \in Users(m) <=> i \in DOMAIN passes /\ m \in Edges(i)
  BY <1>0, GraphFacts
<1>4. at \in DOMAIN passes /\ at \in Nat /\ n \in Nodes /\ at \in Users(n)
  BY <1>0, <1>1, <1>3 DEF PlaceInv, NodeType
<1>5. /\ Nodes' = Nodes /\ (Disciplined' <=> Disciplined)
      /\ \A m : Users(m)' = Users(m) /\ Imported(m)' = Imported(m)
      /\ \A i : Edges(i)' = Edges(i) /\ \A m : Requested(i, m)' = Requested(i, m)
  BY <1>1, GraphSame
<1>6. PlaceInv'
  <2>1. todo' \subseteq IF at' \in DOMAIN passes' THEN Edges(at)' ELSE {}
    BY <1>0, <1>1, <1>4 DEF PlaceInv, Edges
  <2>2. at' \in 1..(Len(passes') + 1) /\ at' \in DOMAIN passes'
    BY <1>1, <1>3, <1>4
  <2> QED BY <1>1, <2>1, <2>2 DEF PlaceInv
<1>7. \A m : (Begun(m)' <=> Begun(m)) /\ Pending(m)' = Pending(m)
  BY <1>1, <1>5 DEF Begun, Pending
<1>8. \A m : m # n => (Unfinished(m)' <=> Unfinished(m))
  <2>1. \A m : m # n => (m \in todo' <=> m \in todo)
    BY <1>1
  <2> QED BY <1>1, <1>5, <2>1 DEF Unfinished
<1>9. CASE ~(~Imported(n) /\ LastUser(n) /\ n \notin aliasing)
  <2>1. ~Imported(n) /\ n \notin aliasing => Unfinished(n)' /\ Unfinished(n)
    <3> SUFFICES ASSUME ~LastUser(n) PROVE Unfinished(n)' /\ Unfinished(n)
      BY <1>9
    <3>1. PICK i \in Readers(n) : ~(at >= i)
      BY DEF LastUser
    <3>2. i \in Users(n) /\ i > at
      BY <1>3, <1>4, <3>1 DEF Readers, Edges
    <3> QED BY <1>1, <1>5, <3>2 DEF Unfinished
  <2>2. pool' = pool /\ UNCHANGED graph
    BY <1>1, <1>2, <1>9 DEF graph
  <2>3. todo' \subseteq Nodes /\ views' \subseteq live \cup Imports /\ at' \in Nat /\ phase' \in {"barriers", "dealloc"}
    BY <1>0, <1>1, <1>4 DEF NodeType, ViewsLive
  <2>4. \A m \in Nodes : ~Imported(m) /\ m \notin aliasing => (Unfinished(m)' <=> Unfinished(m))
    BY <1>8, <2>1
  <2> QED BY <1>1, <1>6, <1>7, <2>2, <2>3, <2>4, RecordSame
<1>10. CASE ~Imported(n) /\ LastUser(n) /\ n \notin aliasing
  <2>1. Disciplined /\ frame_index \in 0..MaxFrames
    BY <1>0, <1>1, ExecutorFacts DEF GraphInv
  <2>2. \A i \in Users(n) : i <= at
    BY <1>0, <1>4, <1>10, <2>1, LastUserLast
  <2>3. Begun(n) /\ Unfinished(n) /\ ~Unfinished(n)'
    <3>1. ~(n \in todo')
      BY <1>1
    <3> QED BY <1>1, <1>3, <1>4, <1>5, <2>2, <3>1 DEF Begun, Unfinished
  <2>4. p # None /\ p \in Phys /\ Owning(n) /\ p \in Held
    BY <1>0, <1>1, <1>4, <1>10, <1>p, <2>3 DEF FrameInv, Owning, Held
  <2>5. d \in Descs /\ x \in Element /\ p \notin Pooled /\ p \notin Aliased /\ PoolDistinct
        /\ x.res = p /\ x.state = Requested(at, n) /\ x.frame = frame_index
    <3>1. Requested(at, n) \in States /\ d \in Descs
      BY <1>0, <1>4, <1>d, RequestedType, GraphFacts
    <3> QED BY <1>0, <1>x, <2>1, <2>4, <3>1 DEF Element, OwnerInv
  <2>6. PoolsType' /\ PoolDistinct' /\ Elements' = Elements \cup {x} /\ Pooled' = Pooled \cup {p}
    <3>1. pool' = [pool EXCEPT ![d] = Append(@, x)]
      BY <1>2, <1>10
    <3> QED BY <1>0, <2>5, <3>1, PoolAdd
  <2>7. \A m : Owning(m)' <=> Owning(m) /\ m # n
    <3>1. ~Owning(n)'
      BY <1>1, <1>5, <1>10, <2>3 DEF Owning
    <3>2. \A m : m # n => (Owning(m)' <=> Owning(m))
      BY <1>1, <1>5, <1>8 DEF Owning
    <3> QED BY <3>1, <3>2
  <2>8. Held' = Held \ {p}
    <3>1. \A m \in Nodes : Owning(m) /\ frame_res[m] = p => m = n
      BY <1>0, <1>4, <1>p, <2>4 DEF OwnerInv
    <3> QED BY <1>1, <1>4, <1>5, <1>p, <2>7, <3>1 DEF Held
  <2>9. Aliased' = Aliased /\ Executor' = Executor /\ InFlight' = InFlight
    BY <1>1 DEF Aliased, Executor, InFlight
  <2>10. OwnerInv'
    <3>1. live' = Pooled' \cup Aliased' \cup Held' /\ Pooled' \cap Aliased' = {} /\ Held' \cap (Pooled' \cup Aliased') = {}
      BY <1>0, <1>1, <2>4, <2>5, <2>6, <2>8, <2>9 DEF OwnerInv
    <3>2. phase' # "destroyed"
      BY <1>1
    <3>3. \A k, m \in Nodes' : Owning(k)' /\ Owning(m)' /\ frame_res'[k] = frame_res'[m] => k = m
      BY <1>0, <1>1, <1>5, <2>7 DEF OwnerInv
    <3> QED BY <1>0, <1>1, <2>6, <2>9, <3>1, <3>2, <3>3 DEF OwnerInv
  <2>11. GraphType'
    BY <1>0, <1>1, <1>5 DEF GraphType
  <2>12. NodeType' /\ GpuType'
    BY <1>0, <1>1, <1>5 DEF NodeType, GpuType
  <2>13. GraphInv'
    BY <1>0, <1>1, <1>5 DEF GraphInv
  <2>14. FrameInv'
    BY <1>0, <1>1, <1>5, <1>7 DEF FrameInv
  <2>15. FenceInv'
    BY <1>0, <1>1, <2>9 DEF FenceInv
  <2>16. UseInv'
    <3>1. ASSUME NEW f \in InFlight \cup {frame_index}, NEW r \in uses[f] \ Imports, NEW q \in {r, memory[r]}
          PROVE  Kept(q, f)'
      <4>1. Kept(q, f)
        BY <1>0, <3>1, UseNow
      <4>2. f <= frame_index
        BY <1>0, ExecutorFacts DEF InFlight
      <4> QED BY <1>1, <2>5, <2>6, <4>1, <4>2 DEF Kept
    <3>2. \A f \in 0..MaxFrames : f > frame_index' \/ (f = frame_index' /\ ~Recording') => uses'[f] = {}
      BY <1>0, <1>1 DEF UseInv
    <3>3. \A m \in Nodes' : ~Imported(m)' /\ frame_res'[m] # None => frame_res'[m] \in uses'[frame_index']
      BY <1>0, <1>1, <1>5 DEF UseInv
    <3>4. memory' \in [Phys \cup Imports -> Phys \cup Imports] /\ \A q \in live' \ Aliased' : memory'[q] = q
      BY <1>0, <1>1, <2>9 DEF UseInv
    <3> QED BY <1>1, <2>9, <3>1, <3>2, <3>3, <3>4, UseNext
  <2>17. ViewsLive'
    BY <1>0, <1>1 DEF ViewsLive
  <2>18. StateInv'
    <3>1. Past(n) = Users(n)
      BY <1>1, <1>3, <1>4, <2>2 DEF Past, Pending
    <3>2. layout[p] = Requested(at, n)
      <4>1. Left(n)
        BY <1>0, <1>1, <1>4, <2>4 DEF StateInv
      <4> QED BY <1>4, <1>p, <2>2, <3>1, <4>1 DEF Left
    <3>3. \A y \in Elements' : layout'[y.res] = y.state
      BY <1>0, <1>1, <2>5, <2>6, <3>2 DEF StateInv
    <3>4. ASSUME NEW m \in Nodes PROVE Left(m)' <=> Left(m)
      <4>1. Past(m)' = Past(m) /\ \A k : Requested(k, m)' = Requested(k, m)
        BY <1>5, <1>7 DEF Past
      <4> QED BY <1>1, <4>1 DEF Left
    <3> QED BY <1>0, <1>1, <1>5, <2>7, <3>3, <3>4 DEF StateInv
  <2> QED BY <1>6, <2>6, <2>10, <2>11, <2>12, <2>13, <2>14, <2>15, <2>16, <2>17, <2>18, TypePartsNext DEF IInv
<1> QED BY <1>9, <1>10

-----------------------------------------------------------------------------
(* The theorems.                                                           *)

\* The invariant holds for a new graph.
LEMMA InitInv == Init => IInv
<1> SUFFICES ASSUME Init PROVE IInv
  OBVIOUS
<1>1. /\ phase = "setup" /\ aliasing_enabled \in BOOLEAN /\ resources = <<>> /\ passes = <<>>
      /\ source = [n \in Handles |-> 0] /\ spans = <<>> /\ at = 0
      /\ frame_res = [n \in Handles |-> None] /\ init_state = [n \in Handles |-> "UNDEFINED"]
      /\ frame_index = 0 /\ todo = {} /\ aliasing = {}
      /\ pool = [d \in Descs |-> <<>>] /\ live = {} /\ views = {}
      /\ layout = [p \in Phys \cup Imports |-> "UNDEFINED"]
      /\ memory = [p \in Phys \cup Imports |-> p]
      /\ aliasing_textures = [e \in Executors |-> {}] /\ fence = [e \in Executors |-> -1]
      /\ done = 0 /\ uses = [f \in 0..MaxFrames |-> {}]
  BY DEF Init, GraphInit
<1>2. ~Recording /\ Nodes = {} /\ DOMAIN passes = {} /\ MaxFrames \in Nat /\ RG_MAX_FRAME_IN_FLIGHT \in Nat
      /\ "UNDEFINED" \in States
  BY <1>1, BackendAssumption DEF Recording, Nodes, States
<1>3. GraphType
  BY <1>1, <1>2, RenderGraphAssumption DEF GraphType
<1>4. NodeType
  BY <1>1, <1>2 DEF NodeType
<1>5. PoolsType
  BY <1>1 DEF PoolsType
<1>6. GpuType
  <2>1. -1 \in -1..MaxFrames /\ 0 \in 0..MaxFrames
    BY <1>2
  <2> QED BY <1>1, <1>2, <2>1 DEF GpuType
<1>7. GraphInv
  BY <1>1, <1>2 DEF GraphInv
<1>8. PlaceInv /\ FrameInv
  BY <1>1, <1>2 DEF PlaceInv, FrameInv
<1>9. Elements = {} /\ Pooled = {} /\ Aliased = {} /\ Held = {}
  <2>1. \A d \in Descs : DOMAIN pool[d] = {}
    BY <1>1
  <2>2. Elements = {}
    BY <2>1, PooledFacts
  <2>3. Aliased = {}
    BY <1>1 DEF Aliased
  <2> QED BY <1>2, <1>8, <2>2, <2>3, PooledFacts, BetweenFrames
<1>10. OwnerInv
  <2>1. PoolDistinct
    <3>1. \A d \in Descs : DOMAIN pool[d] = {}
      BY <1>1
    <3> QED BY <3>1 DEF PoolDistinct
  <2>2. \A c, d \in Executors : aliasing_textures[c] \cap aliasing_textures[d] = {}
    BY <1>1
  <2> QED BY <1>1, <1>2, <1>9, <2>1, <2>2 DEF OwnerInv
<1>11. FenceInv
  BY <1>1, <1>2 DEF FenceInv
<1>12. UseInv
  <2>1. \A f \in 0..MaxFrames : uses[f] = {}
    BY <1>1
  <2>2. InFlight = {} /\ frame_index \in 0..MaxFrames
    BY <1>1, <1>2 DEF InFlight
  <2> QED BY <1>1, <1>2, <2>1, <2>2 DEF UseInv
<1>13. ViewsLive
  BY <1>1 DEF ViewsLive
<1>14. StateInv
  BY <1>2, <1>9 DEF StateInv
<1> QED BY <1>3, <1>4, <1>5, <1>6, <1>7, <1>8, <1>10, <1>11, <1>12, <1>13, <1>14, TypeParts DEF IInv

\* The invariant is about the variables only.
LEMMA StutterStep == IInv /\ UNCHANGED vars => IInv'
<1> SUFFICES ASSUME IInv, UNCHANGED vars PROVE IInv'
  OBVIOUS
<1>0. /\ GraphType /\ NodeType /\ PoolsType /\ GpuType /\ GraphInv /\ PlaceInv /\ FrameInv
      /\ OwnerInv /\ FenceInv /\ UseInv /\ ViewsLive /\ StateInv
  BY TypeParts DEF IInv
<1>1. /\ UNCHANGED <<graph, phase, at, frame_res, init_state, todo, aliasing, frame_index>>
      /\ UNCHANGED <<pool, live, views, layout, memory, aliasing_textures, fence, done, uses>>
  BY DEF vars, backend
<1>2. GraphType' /\ NodeType' /\ GraphInv' /\ PlaceInv' /\ FrameInv'
  BY <1>0, <1>1, NodePartsSame
<1>3. Elements' = Elements /\ Pooled' = Pooled /\ (PoolDistinct' <=> PoolDistinct) /\ Aliased' = Aliased
      /\ Executor' = Executor /\ InFlight' = InFlight
  BY <1>1, PoolSame DEF Aliased, Executor, InFlight
<1>4. PoolsType' /\ GpuType' /\ ViewsLive'
  BY <1>0, <1>1 DEF PoolsType, GpuType, ViewsLive
<1>5. OwnerInv'
  BY <1>0, <1>1, <1>3, NodeSame DEF OwnerInv
<1>6. FenceInv'
  BY <1>0, <1>1, <1>3, NodeSame DEF FenceInv
<1>7. UseInv'
  <2>1. \A q, f : Kept(q, f)' <=> Kept(q, f)
    BY <1>1, <1>3 DEF Kept
  <2> QED BY <1>0, <1>1, <1>3, <2>1, NodeSame DEF UseInv
<1>8. StateInv'
  <2>1. ASSUME NEW n PROVE Left(n)' <=> Left(n)
    <3>1. Past(n)' = Past(n) /\ \A k : Requested(k, n)' = Requested(k, n)
      BY <1>1, NodeSame
    <3> QED BY <1>1, <3>1 DEF Left
  <2> QED BY <1>0, <1>1, <1>3, <2>1, NodeSame DEF StateInv
<1> QED BY <1>2, <1>4, <1>5, <1>6, <1>7, <1>8, TypePartsNext DEF IInv

\* Every step keeps the invariant.
LEMMA NextInv == IInv /\ [Next]_vars => IInv'
<1> SUFFICES ASSUME IInv, [Next]_vars PROVE IInv'
  OBVIOUS
<1>1. CASE Setup
  BY <1>1, SetupStep
<1>2. CASE Execute
  <2>1. CASE AcquireExecutor \/ SkipCulled \/ RecordPass \/ EndPass \/ Commit
    BY <2>1, AcquireExecutorStep, SkipCulledStep, RecordPassStep, EndPassStep, CommitStep
  <2>2. ASSUME NEW n \in todo, BarrierResolved(n) \/ ResolvePooled(n) \/ Deallocate(n) PROVE IInv'
    BY <2>2, BarrierResolvedStep, ResolvePooledStep, DeallocateStep
  <2>3. ASSUME NEW n \in todo, NEW p \in Phys, ResolveAliasing(n, p) \/ ResolveCreated(n, p) PROVE IInv'
    BY <2>3, ResolveAliasingStep, ResolveCreatedStep
  <2> QED BY <1>2, <2>1, <2>2, <2>3 DEF Execute
<1>3. CASE Collected \/ Destroy \/ FrameDone
  BY <1>3, CollectedStep, DestroyStep, FrameDoneStep
<1>4. ASSUME NEW d \in Descs, NEW i \in DOMAIN pool[d], CollectGarbage(d, i) PROVE IInv'
  BY <1>4, CollectGarbageStep
<1>5. CASE UNCHANGED vars
  BY <1>5, StutterStep
<1> QED BY <1>1, <1>2, <1>3, <1>4, <1>5 DEF Next

\* The invariant holds: whatever graphs the program builds, however many
\* executors and frames there are and however late the GPU is.
THEOREM Invariance == Spec => []IInv
<1>1. Init => IInv
  BY InitInv
<1>2. IInv /\ [Next]_vars => IInv'
  BY NextInv
<1> QED BY <1>1, <1>2, PTL DEF Spec

\* Every variable of the render graph keeps its type.
THEOREM TypeCorrect == Spec => []TypeOK
<1>1. IInv => TypeOK
  BY DEF IInv
<1> QED BY <1>1, Invariance, PTL

\* A node that passes have still to use owns its object.
LEMMA PendingOwns ==
    ASSUME IInv, Recording, NEW n \in Nodes, frame_res[n] # None, Pending(n) # {}
    PROVE  Owning(n)
<1>1. Unfinished(n)
  BY DEF Pending, Unfinished
<1> QED BY <1>1 DEF Owning

\* deallocate_resources returns an object to the pool once and after its last
\* user, though is_last_user looks at readers only and the frame is still
\* being recorded: pools and nodes never share an object.
THEOREM ExclusiveObjects == Spec => []PoolExclusive
<1>1. IInv => PoolExclusive
  <2> SUFFICES ASSUME IInv PROVE PoolExclusive
    OBVIOUS
  <2>0. OwnerInv /\ PoolsType
    BY TypeParts DEF IInv
  <2>1. ASSUME Recording, NEW n \in Nodes, frame_res[n] # None, Pending(n) # {}
        PROVE  /\ frame_res[n] \notin Pooled
               /\ \A m \in Nodes \ {n} : frame_res[m] = frame_res[n] => Pending(m) = {}
    <3>1. Owning(n)
      BY <2>1, PendingOwns
    <3>2. frame_res[n] \in Imports \cup Aliased \cup Held
      BY <3>1, OwnedPlace
    <3>3. frame_res[n] \notin Pooled
      BY <2>0, <3>2, ElementFacts, RenderGraphAssumption DEF OwnerInv
    <3>4. \A m \in Nodes \ {n} : frame_res[m] = frame_res[n] => Pending(m) = {}
      BY <2>0, <2>1, <3>1, PendingOwns DEF OwnerInv
    <3> QED BY <3>3, <3>4
  <2> QED BY <2>0, <2>1 DEF PoolExclusive, OwnerInv, PoolDistinct
<1> QED BY <1>1, Invariance, PTL

\* The source state of every barrier is the state its object will be in:
\* what get_lastest_state finds in the graph, or what the pool remembers of
\* the frame that used the object before, is what the commands leave behind.
THEOREM BarriersRight == Spec => []BarrierSources
<1>1. IInv => BarrierSources
  <2> SUFFICES ASSUME IInv PROVE BarrierSources
    OBVIOUS
  <2>0. StateInv /\ GraphType
    BY TypeParts DEF IInv
  <2>1. ASSUME Recording, NEW n \in Nodes, frame_res[n] # None, Pending(n) # {}
        PROVE  layout[frame_res[n]] = LatestState(n, Min(Pending(n)))
    <3>i. PICK i : i = Min(Pending(n))
      OBVIOUS
    <3>1. /\ Len(passes) \in Nat /\ Users(n) \subseteq 1..Len(passes) /\ at \in Nat
          /\ \A k : k \in Users(n) <=> k \in DOMAIN passes /\ n \in Edges(k)
      BY <2>0, GraphFacts DEF GraphType
    <3>2. i \in Pending(n) /\ \A k \in Pending(n) : i <= k
      <4>1. Pending(n) \in SUBSET Nat
        BY <3>1 DEF Pending
      <4> QED BY <2>1, <3>i, <4>1, MinFacts
    <3>3. {k \in Users(n) : k < i} = Past(n)
      BY <3>1, <3>2 DEF Past, Pending
    <3>4. (\A k \in KeptPasses : i <= k) => Past(n) = {}
      <4>1. Users(n) \subseteq KeptPasses
        BY <3>1 DEF KeptPasses
      <4>2. i \in Nat
        BY <3>1, <3>2 DEF Pending
      <4> QED BY <3>1, <3>3, <4>1, <4>2
    <3>5. Left(n)
      BY <2>0, <2>1, PendingOwns DEF StateInv
    <3>6. CASE Past(n) = {}
      BY <3>i, <3>3, <3>5, <3>6 DEF LatestState, Left
    <3>7. CASE Past(n) # {}
      <4>1. Past(n) \in SUBSET (1..Len(passes))
        BY <3>1 DEF Past
      <4>2. Max(Past(n)) \in Past(n) /\ \A j \in Past(n) : j <= Max(Past(n))
        BY <3>1, <3>7, <4>1, MaxFacts
      <4>3. layout[frame_res[n]] = Requested(Max(Past(n)), n)
        BY <3>5, <4>2 DEF Left
      <4> QED BY <3>i, <3>3, <3>4, <3>7, <4>3 DEF LatestState
    <3> QED BY <3>6, <3>7
  <2> QED BY <2>0, <2>1 DEF BarrierSources, StateInv
<1> QED BY <1>1, Invariance, PTL

\* Nothing that an unfinished frame uses is freed, nor the object in whose
\* memory it is: collect_garbage and reset_begin keep behind the fences.
THEOREM InFlightKept == Spec => []InFlightIntact
<1>1. IInv => InFlightIntact
  <2> SUFFICES ASSUME IInv PROVE InFlightIntact
    OBVIOUS
  <2>1. UseInv
    BY DEF IInv
  <2> QED BY <2>1, UseNow DEF InFlightIntact, Kept
<1> QED BY <1>1, Invariance, PTL

\* The GPU executes no frame of the executor that execute() records into.
THEOREM IdleExecutor == Spec => []ExecutorIdle
<1>1. IInv => ExecutorIdle
  <2> SUFFICES ASSUME IInv, Recording, NEW f \in InFlight, f % RG_MAX_FRAME_IN_FLIGHT = Executor
               PROVE  FALSE
    BY DEF ExecutorIdle
  <2>0. FenceInv /\ GpuType
    BY TypeParts DEF IInv
  <2>1. f \in 0..(frame_index - 1) /\ f >= done /\ f \in Int /\ done \in Int /\ fence[Executor] \in Int
    BY <2>0, ExecutorFacts DEF InFlight
  <2>2. f <= fence[Executor] /\ fence[Executor] < done
    BY <2>0, <2>1 DEF FenceInv
  <2> QED BY <2>1, <2>2
<1> QED BY <1>1, Invariance, PTL

\* Between frames every object is in a pool or belongs to an executor, and
\* RenderGraph::destroy leaves none behind.
THEOREM NothingLeaks == Spec => []NoLeak
<1>1. IInv => NoLeak
  <2> SUFFICES ASSUME IInv PROVE NoLeak
    OBVIOUS
  <2>0. OwnerInv /\ PlaceInv /\ FrameInv
    BY DEF IInv
  <2>1. phase \in {"setup", "collect"} => Held = {}
    BY <2>0, BetweenFrames DEF Recording
  <2> QED BY <2>0, <2>1 DEF NoLeak, OwnerInv, Aliased
<1> QED BY <1>1, Invariance, PTL

\* The view pool has no views of freed textures.
THEOREM LiveViews == Spec => []ViewsLive
<1>1. IInv => ViewsLive
  BY DEF IInv
<1> QED BY <1>1, Invariance, PTL

\* The texture whose memory try_aliasing_allocate shares has a live object,
\* so the resolve() of it allocates nothing.
THEOREM SourcesReady == Spec => []AliasSourceReady
<1>1. IInv => AliasSourceReady
  <2> SUFFICES ASSUME IInv, phase = "barriers", NEW n \in todo, source[n] # 0
               PROVE  frame_res[source[n]] \in live
    BY DEF AliasSourceReady
  <2>1. source[n] \in Nodes /\ ~Imported(source[n]) /\ Begun(source[n])
    BY SourceBegun
  <2> QED BY <2>1, BegunLive DEF Recording
<1> QED BY <1>1, Invariance, PTL
=============================================================================
