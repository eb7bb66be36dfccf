------------------------ MODULE ChunkStorage_proofs ------------------------
(***************************************************************************)
(* The storage keeps its chunk lists intact, its counts right and every    *)
(* entity in one slot that the registry leads to, for any groups, chunks   *)
(* and capacities.                                                         *)
(***************************************************************************)
EXTENDS ChunkLists_proofs

-----------------------------------------------------------------------------
(* The inductive invariant.                                                *)

\* The chunks that are in use.  A large one is made for more entities than
\* LargeFactor default ones hold, and keeps them.
Fitting(n, pt) ==
    /\ n \in 1..Capacity[pt]
    /\ pt = "large" => n > Capacity["default"] * LargeFactor

InUse(m, c) ==
    /\ m.chunks[c].group \in Group /\ m.chunks[c].pt \in PoolType
    /\ Fitting(Count(m, c), m.chunks[c].pt)
Blank(m, c) == m.chunks[c].pt = "none" /\ m.chunks[c].group = NoGroup /\ m.chunks[c].ents = <<>>
GoodChunks(m) == \A c \in Chunk : Blank(m, c) \/ InUse(m, c)

\* The groups count their chunks and slots.
SlotsOf(m, C) == UNION {{c} \X DOMAIN m.chunks[c].ents : c \in C}
GoodCounts(m) ==
    \A g \in Group :
        /\ m.groups[g].chunkCount = Cardinality(Members(m, g))
        /\ m.groups[g].size = Cardinality(SlotsOf(m, Members(m, g)))

\* The entry of the entity in a slot leads to the slot.
Leads(es, h, c, i) ==
    /\ h.id \in DOMAIN es
    /\ es[h.id].chunk = c /\ es[h.id].indexInChunk = i /\ es[h.id].version = h.version
GoodSlots(m, es) ==
    \A c \in Chunk : \A i \in DOMAIN m.chunks[c].ents : Leads(es, m.chunks[c].ents[i], c, i)

\* The handles in slots, and those of the batches w of a running call.
Stored(m) == {h \in Handles : \E c \in Chunk : \E i \in DOMAIN m.chunks[c].ents : m.chunks[c].ents[i] = h}
Waiting(w) == {h \in Handles : \E i \in DOMAIN w : \E p \in DOMAIN w[i].ents : w[i].ents[p] = h}

MemInv(m, es) == m \in Mem /\ Lists(m) /\ GoodChunks(m) /\ GoodCounts(m) /\ GoodSlots(m, es)

\* A deserialization has still to place the rest of the entities.
LiveInv(l, m, j) == l = Stored(m) \cup (IF j.kind = "load" THEN Waiting(j.work) ELSE {})

\* A call that is running has work left, in batches.
Batches == [group : Group, n : Nat \ {0}, ents : Seq(Handles)]

JobRec == [kind : {"idle", "fresh", "single", "prefab", "load"}, work : Seq(Batches), view : {<<>>}]
JobInv(j, es) ==
    /\ j \in JobRec /\ (j.kind = "idle" <=> j.work = <<>>)
    /\ j.kind \in {"fresh", "single"} =>
           /\ Len(j.work) = 1 /\ j.work[1].ents = <<>> /\ Len(es) + j.work[1].n <= MaxEntries
           /\ j.kind = "single" => j.work[1].n = 1
    /\ j.kind \in {"prefab", "load"} => \A i \in DOMAIN j.work : j.work[i].n = Len(j.work[i].ents)
    /\ j.kind = "load" => \A i \in DOMAIN j.work : \E pt \in PoolType : Fitting(j.work[i].n, pt)

\* The handles to be placed are different, have entries, and no slots yet.
Distinct(w) ==
    \A i, j \in DOMAIN w : \A p \in DOMAIN w[i].ents, q \in DOMAIN w[j].ents :
        w[i].ents[p].id = w[j].ents[q].id => i = j /\ p = q
Unplaced(w, m, es, kind) ==
    \A i \in DOMAIN w : \A p \in DOMAIN w[i].ents :
        /\ w[i].ents[p].id \in DOMAIN es
        /\ \A k \in Stored(m) : k.id # w[i].ents[p].id
        /\ kind = "prefab" => es[w[i].ents[p].id].version = w[i].ents[p].version

\* The calls of Spec free no id: clear() of a group drops them.
RegistryInv(es, free) == es \in Seq(Entries) /\ Len(es) <= MaxEntries /\ free = <<>>

StateInv(es, free, m, l, j) ==
    /\ RegistryInv(es, free) /\ MemInv(m, es) /\ LiveInv(l, m, j) /\ JobInv(j, es)
    /\ Distinct(j.work) /\ Unplaced(j.work, m, es, j.kind)

IInv == StateInv(entries, freeEntries, mem, live, job)

-----------------------------------------------------------------------------
(* Numbers of slots.                                                       *)

\* What the capacities of the bins are like.
LEMMA Capacities ==
    /\ \A pt \in PoolType : Capacity[pt] \in Nat /\ Capacity[pt] <= Capacity["large"]
    /\ \A pt \in PoolType : pt # "large" => Capacity[pt] <= Capacity["default"]
    /\ Capacity["default"] <= Capacity["default"] * LargeFactor
    /\ Capacity["default"] * LargeFactor < Capacity["large"] /\ Capacity["default"] > 0
    /\ Capacity["default"] * LargeFactor \in Nat
<1>1. /\ "small" \in PoolType /\ "default" \in PoolType /\ "large" \in PoolType
      /\ \A pt \in PoolType : pt = "small" \/ pt = "default" \/ pt = "large"
  BY DEF PoolType
<1>2. \A pt \in PoolType : Capacity[pt] \in Nat
  BY StorageAssumption
<1>3. \A d \in Nat, f \in Nat \ {0} : d <= d * f /\ d * f \in Nat
  <2> SUFFICES ASSUME NEW d \in Nat, NEW f \in Nat \ {0} PROVE d <= d * f /\ d * f \in Nat
    OBVIOUS
  <2>1. d * f = d + d * (f - 1) /\ f - 1 \in Nat
    OBVIOUS
  <2>2. d * (f - 1) \in Nat /\ d * f \in Nat
    BY <2>1
  <2> QED BY <2>1, <2>2
<1>4. Capacity["default"] <= Capacity["default"] * LargeFactor /\ Capacity["default"] * LargeFactor \in Nat
  BY <1>1, <1>2, <1>3, StorageAssumption
<1>5. /\ Capacity["small"] <= Capacity["default"] /\ Capacity["default"] * LargeFactor < Capacity["large"]
      /\ Capacity["default"] > 0
  BY StorageAssumption
<1>6. Capacity["small"] \in Nat /\ Capacity["default"] \in Nat /\ Capacity["large"] \in Nat
  BY <1>1, <1>2
<1>7. Capacity["default"] <= Capacity["large"] /\ Capacity["small"] <= Capacity["large"]
  BY <1>4, <1>5, <1>6
<1> QED BY <1>1, <1>4, <1>5, <1>6, <1>7

\* No chunk is longer than the largest bin.
Bounded(m) == \A c \in Chunk : Count(m, c) <= Capacity["large"]

LEMMA GoodBounded ==
    ASSUME NEW m, GoodChunks(m)
    PROVE  Bounded(m)
<1> SUFFICES ASSUME NEW c \in Chunk PROVE Count(m, c) <= Capacity["large"]
  BY DEF Bounded
<1>0. Capacity["large"] \in Nat
  BY Capacities DEF PoolType
<1>1. CASE Blank(m, c)
  BY <1>0, <1>1 DEF Blank, Count
<1>2. CASE InUse(m, c)
  <2>1. m.chunks[c].pt \in PoolType /\ Count(m, c) \in 1..Capacity[m.chunks[c].pt]
    BY <1>2 DEF InUse, Fitting
  <2>2. Capacity[m.chunks[c].pt] \in Nat /\ Capacity[m.chunks[c].pt] <= Capacity["large"]
    BY <2>1, Capacities
  <2> QED BY <1>0, <2>1, <2>2
<1> QED BY <1>1, <1>2 DEF GoodChunks

LEMMA SlotsFinite ==
    ASSUME NEW m \in Mem, Bounded(m), NEW C \in SUBSET Chunk
    PROVE  IsFiniteSet(SlotsOf(m, C))
<1> DEFINE I == 1..Capacity["large"]
<1>1. Capacity["large"] \in Nat
  BY Capacities DEF PoolType
<1>2. IsFiniteSet(I)
  BY <1>1, FS_Interval
<1>3. IsFiniteSet(Chunk \X I)
  BY <1>2, StorageAssumption, FS_Product
<1>4. SlotsOf(m, C) \subseteq Chunk \X I
  <2> SUFFICES ASSUME NEW c \in C PROVE DOMAIN m.chunks[c].ents \subseteq I
    BY DEF SlotsOf
  <2>1. m.chunks[c].ents \in Seq(Handles) /\ Len(m.chunks[c].ents) <= Capacity["large"]
    BY DEF Mem, ChunkRec, Bounded, Count
  <2>2. DOMAIN m.chunks[c].ents = 1..Len(m.chunks[c].ents) /\ Len(m.chunks[c].ents) \in Nat
    BY <2>1
  <2> QED BY <1>1, <2>1, <2>2
<1> HIDE DEF I
<1> QED BY <1>3, <1>4, FS_Subset

\* Slots a + 1 to a + n of one chunk.
Row(c, a, n) == {c} \X ((a + 1)..(a + n))

LEMMA RowSize ==
    ASSUME NEW c, NEW a \in Nat, NEW n \in Nat
    PROVE  IsFiniteSet(Row(c, a, n)) /\ Cardinality(Row(c, a, n)) = n
<1> DEFINE S == {c}
           I == (a + 1)..(a + n)
<1>1. IsFiniteSet(S) /\ Cardinality(S) = 1
  BY FS_Singleton
<1>2. IsFiniteSet(I) /\ Cardinality(I) = IF a + 1 > a + n THEN 0 ELSE (a + n) - (a + 1) + 1
  BY FS_Interval
<1>3. Cardinality(I) = n
  BY <1>2
<1>4. Row(c, a, n) = S \X I
  BY DEF Row
<1> HIDE DEF S, I
<1>5. IsFiniteSet(S \X I) /\ Cardinality(S \X I) = Cardinality(S) * Cardinality(I)
  BY <1>1, <1>2, FS_Product
<1>6. 1 * n = n
  OBVIOUS
<1> QED BY <1>1, <1>3, <1>4, <1>5, <1>6

\* Slots are added to a set of slots.
LEMMA SlotsUnion ==
    ASSUME NEW S, IsFiniteSet(S), NEW T, IsFiniteSet(T), S \cap T = {}
    PROVE  IsFiniteSet(S \cup T) /\ Cardinality(S \cup T) = Cardinality(S) + Cardinality(T)
           /\ Cardinality(S) \in Nat /\ Cardinality(T) \in Nat
<1>1. IsFiniteSet(S \cup T) /\ Cardinality(S \cup T) = Cardinality(S) + Cardinality(T) - Cardinality(S \cap T)
  BY FS_Union
<1>2. Cardinality(S \cap T) = 0
  BY FS_EmptySet
<1>3. Cardinality(S) \in Nat /\ Cardinality(T) \in Nat
  BY FS_CardinalityType
<1> QED BY <1>1, <1>2, <1>3

\* What a slot is.
LEMMA SlotsMember ==
    ASSUME NEW m \in Mem, NEW C \in SUBSET Chunk
    PROVE  \A v : v \in SlotsOf(m, C) <=> \E c \in C : \E i \in 1..Count(m, c) : v = <<c, i>>
<1>1. \A c \in C : DOMAIN m.chunks[c].ents = 1..Count(m, c)
  BY DEF Mem, ChunkRec, Count
<1>2. \A v : v \in SlotsOf(m, C) <=> \E c \in C : v \in {c} \X DOMAIN m.chunks[c].ents
  BY Zenon DEF SlotsOf
<1>3. \A c \in C : \A v : v \in {c} \X DOMAIN m.chunks[c].ents <=> \E i \in 1..Count(m, c) : v = <<c, i>>
  <2> SUFFICES ASSUME NEW c \in C, NEW v
               PROVE  v \in {c} \X DOMAIN m.chunks[c].ents <=> \E i \in 1..Count(m, c) : v = <<c, i>>
    OBVIOUS
  <2> DEFINE D == DOMAIN m.chunks[c].ents
  <2>1. D = 1..Count(m, c)
    BY <1>1
  <2> HIDE DEF D
  <2>2. v \in {c} \X D <=> \E i \in D : v = <<c, i>>
    OBVIOUS
  <2> QED BY <2>1, <2>2 DEF D
<1> QED BY <1>2, <1>3

\* resize_chunk counts the new slots.
LEMMA ResizedCounts ==
    ASSUME NEW m \in Mem, Bounded(m), GoodCounts(m), NEW r, NEW g \in Group, NEW c \in Chunk,
           NEW hs \in Seq(Handles), Resized(m, r, g, c, hs), m.chunks[c].group = g
    PROVE  GoodCounts(r)
<1> DEFINE a == Count(m, c)
           n == Len(hs)
           T == Row(c, a, n)
<1>0. r \in Mem
  BY DEF Resized
<1>1. a \in Nat /\ n \in Nat /\ Count(r, c) = a + n /\ \A x \in Chunk : x # c => Count(r, x) = Count(m, x)
  <2>1. m.chunks[c].ents \in Seq(Handles)
    BY DEF Mem, ChunkRec
  <2>2. r.chunks[c].ents = m.chunks[c].ents \o hs /\ \A x \in Chunk : x # c => r.chunks[x].ents = m.chunks[x].ents
    BY DEF Resized
  <2>3. Len(m.chunks[c].ents \o hs) = Len(m.chunks[c].ents) + Len(hs)
    BY <2>1, Concatenation
  <2>4. Len(m.chunks[c].ents) \in Nat /\ Len(hs) \in Nat
    BY <2>1
  <2> QED BY ONLY <2>2, <2>3, <2>4, c \in Chunk DEF Count
<1>2. \A x \in Group : Members(r, x) = Members(m, x) /\ Members(m, x) \in SUBSET Chunk
  BY DEF Resized, Members
<1> SUFFICES ASSUME NEW x \in Group
             PROVE  /\ r.groups[x].chunkCount = Cardinality(Members(r, x))
                    /\ r.groups[x].size = Cardinality(SlotsOf(r, Members(r, x)))
  BY DEF GoodCounts
<1>3. r.groups[x].chunkCount = Cardinality(Members(r, x))
  BY <1>2 DEF Resized, GoodCounts
<1> DEFINE M == Members(m, x)
<1>4. /\ \A v : v \in SlotsOf(m, M) <=> \E y \in M : \E i \in 1..Count(m, y) : v = <<y, i>>
      /\ \A v : v \in SlotsOf(r, M) <=> \E y \in M : \E i \in 1..Count(r, y) : v = <<y, i>>
  BY <1>0, <1>2, SlotsMember
<1>5. CASE x # g
  <2>1. \A y \in M : Count(r, y) = Count(m, y)
    BY <1>1, <1>5 DEF Members
  <2>2. SlotsOf(r, M) = SlotsOf(m, M)
    BY <1>4, <2>1
  <2>3. r.groups[x].size = m.groups[x].size
    BY <1>5 DEF Resized
  <2> QED BY <1>2, <1>3, <2>2, <2>3 DEF GoodCounts
<1>6. CASE x = g
  <2>1. c \in M /\ M \subseteq Chunk
    BY <1>6 DEF Members
  <2> HIDE DEF M, a, n
  <2>2. \A v : v \in T <=> \E i \in (a + 1)..(a + n) : v = <<c, i>>
    BY DEF Row
  <2> HIDE DEF T
  <2>3. \A i : i \in 1..(a + n) <=> (i \in 1..a \/ i \in (a + 1)..(a + n))
    BY <1>1
  <2>4. SlotsOf(r, M) = SlotsOf(m, M) \cup T
    <3>1. ASSUME NEW v \in SlotsOf(r, M) PROVE v \in SlotsOf(m, M) \cup T
      <4>1. PICK y \in M : \E i \in 1..Count(r, y) : v = <<y, i>>
        BY <1>4
      <4>2. CASE y = c
        BY <1>1, <1>4, <2>1, <2>2, <2>3, <4>1, <4>2 DEF a
      <4>3. CASE y # c
        BY <1>1, <1>4, <2>1, <4>1, <4>3
      <4> QED BY <4>2, <4>3
    <3>2. ASSUME NEW v \in SlotsOf(m, M) PROVE v \in SlotsOf(r, M)
      <4>1. PICK y \in M : \E i \in 1..Count(m, y) : v = <<y, i>>
        BY <1>4
      <4>2. CASE y = c
        BY <1>1, <1>4, <2>1, <2>3, <4>1, <4>2 DEF a
      <4>3. CASE y # c
        BY <1>1, <1>4, <2>1, <4>1, <4>3
      <4> QED BY <4>2, <4>3
    <3>3. ASSUME NEW v \in T PROVE v \in SlotsOf(r, M)
      <4>1. PICK i \in (a + 1)..(a + n) : v = <<c, i>>
        BY <2>2
      <4>2. i \in 1..Count(r, c)
        BY <1>1, <2>3
      <4> QED BY <1>4, <2>1, <4>1, <4>2
    <3> QED BY <3>1, <3>2, <3>3
  <2>5. SlotsOf(m, M) \cap T = {}
    <3> SUFFICES ASSUME NEW v \in SlotsOf(m, M), v \in T PROVE FALSE
      OBVIOUS
    <3>1. PICK i \in (a + 1)..(a + n) : v = <<c, i>>
      BY <2>2
    <3>2. i \in 1..a
      BY <1>4, <3>1 DEF a
    <3> QED BY <1>1, <3>1, <3>2
  <2>6. IsFiniteSet(T) /\ Cardinality(T) = n
    BY <1>1, RowSize DEF T
  <2>7. IsFiniteSet(SlotsOf(m, M))
    BY <2>1, SlotsFinite
  <2>8. Cardinality(SlotsOf(r, M)) = Cardinality(SlotsOf(m, M)) + n
    BY <2>4, <2>5, <2>6, <2>7, SlotsUnion
  <2>9. r.groups[x].size = m.groups[x].size + n /\ m.groups[x].size = Cardinality(SlotsOf(m, M))
    BY <1>6 DEF Resized, GoodCounts, n, M
  <2> QED BY <1>2, <1>3, <2>8, <2>9 DEF M
<1> QED BY <1>5, <1>6

\* The slots of a group with one more chunk.
LEMMA SlotsWith ==
    ASSUME NEW m \in Mem, Bounded(m), NEW C \in SUBSET Chunk, NEW c \in Chunk \ C
    PROVE  /\ Cardinality(C \cup {c}) = Cardinality(C) + 1 /\ Cardinality(C) \in Nat
           /\ Cardinality(SlotsOf(m, C \cup {c})) = Cardinality(SlotsOf(m, C)) + Count(m, c)
           /\ Cardinality(SlotsOf(m, C)) \in Nat /\ Count(m, c) \in Nat
<1> DEFINE T == Row(c, 0, Count(m, c))
<1>1. IsFiniteSet(C) /\ Cardinality(C) \in Nat
  BY StorageAssumption, FS_Subset, FS_CardinalityType
<1>2. Cardinality(C \cup {c}) = Cardinality(C) + 1
  BY <1>1, FS_AddElement
<1>3. m.chunks[c].ents \in Seq(Handles) /\ Count(m, c) \in Nat /\ DOMAIN m.chunks[c].ents = 1..Count(m, c)
  BY DEF Mem, ChunkRec, Count
<1>4. IsFiniteSet(T) /\ Cardinality(T) = Count(m, c)
  BY <1>3, RowSize
<1>5. T = {c} \X DOMAIN m.chunks[c].ents
  <2>1. 0 + 1 = 1 /\ 0 + Count(m, c) = Count(m, c)
    BY <1>3
  <2> QED BY <1>3, <2>1 DEF Row
<1>6. SlotsOf(m, C \cup {c}) = SlotsOf(m, C) \cup T
  <2> HIDE DEF T
  <2> QED BY <1>5 DEF SlotsOf
<1>7. SlotsOf(m, C) \cap T = {}
  <2> HIDE DEF T
  <2> QED BY <1>5 DEF SlotsOf
<1>8. IsFiniteSet(SlotsOf(m, C))
  BY SlotsFinite
<1> HIDE DEF T
<1> QED BY <1>1, <1>2, <1>3, <1>4, <1>6, <1>7, <1>8, SlotsUnion

\* Slots depend on the entities only.
LEMMA SlotsSame ==
    ASSUME NEW m, NEW r, NEW C, \A x \in C : r.chunks[x].ents = m.chunks[x].ents
    PROVE  SlotsOf(r, C) = SlotsOf(m, C)
BY DEF SlotsOf

\* add_chunk counts the chunk and its slots.
LEMMA AddedCounts ==
    ASSUME NEW m \in Mem, Bounded(m), GoodCounts(m), NEW r, NEW g \in Group, NEW c \in Chunk,
           Added(m, r, g, c), m.chunks[c].group = NoGroup
    PROVE  GoodCounts(r)
<1> SUFFICES ASSUME NEW x \in Group
             PROVE  /\ r.groups[x].chunkCount = Cardinality(Members(r, x))
                    /\ r.groups[x].size = Cardinality(SlotsOf(r, Members(r, x)))
  BY DEF GoodCounts
<1>1. \A y \in Chunk : r.chunks[y].ents = m.chunks[y].ents
  BY DEF Added
<1>2. \A C \in SUBSET Chunk : SlotsOf(r, C) = SlotsOf(m, C)
  BY <1>1, SlotsSame
<1>3. CASE x # g
  <2>1. Members(r, x) = Members(m, x) /\ Members(m, x) \in SUBSET Chunk
    BY <1>3, StorageAssumption DEF Added, Members
  <2> QED BY <1>2, <1>3, <2>1 DEF Added, GoodCounts
<1>4. CASE x = g
  <2> DEFINE M == Members(m, g)
  <2>1. Members(r, g) = M \cup {c} /\ M \in SUBSET Chunk /\ c \in Chunk \ M /\ M \cup {c} \in SUBSET Chunk
    BY StorageAssumption DEF Added, Members
  <2> HIDE DEF M
  <2>2. /\ Cardinality(M \cup {c}) = Cardinality(M) + 1
        /\ Cardinality(SlotsOf(m, M \cup {c})) = Cardinality(SlotsOf(m, M)) + Count(m, c)
    BY <2>1, SlotsWith
  <2>3. SlotsOf(r, M \cup {c}) = SlotsOf(m, M \cup {c})
    BY <1>2, <2>1
  <2>4. /\ r.groups[g].chunkCount = m.groups[g].chunkCount + 1
        /\ r.groups[g].size = m.groups[g].size + Count(m, c)
    BY DEF Added
  <2>5. m.groups[g].chunkCount = Cardinality(M) /\ m.groups[g].size = Cardinality(SlotsOf(m, M))
    BY DEF GoodCounts, M
  <2> QED BY <1>4, <2>1, <2>2, <2>3, <2>4, <2>5
<1> QED BY <1>3, <1>4

\* A group with a chunk has counted it.
LEMMA CountsAtLeast ==
    ASSUME NEW m \in Mem, Bounded(m), GoodCounts(m), NEW g \in Group, NEW c \in Chunk, m.chunks[c].group = g
    PROVE  LET M == Members(m, g) \ {c} IN
           /\ m.groups[g].chunkCount >= 1 /\ m.groups[g].size >= Count(m, c)
           /\ m.groups[g].chunkCount - 1 = Cardinality(M)
           /\ m.groups[g].size - Count(m, c) = Cardinality(SlotsOf(m, M))
<1> DEFINE M == Members(m, g) \ {c}
<1>1. Members(m, g) = M \cup {c} /\ M \in SUBSET Chunk /\ c \in Chunk \ M
  BY DEF Members
<1> HIDE DEF M
<1>2. /\ Cardinality(M \cup {c}) = Cardinality(M) + 1 /\ Cardinality(M) \in Nat
      /\ Cardinality(SlotsOf(m, M \cup {c})) = Cardinality(SlotsOf(m, M)) + Count(m, c)
      /\ Cardinality(SlotsOf(m, M)) \in Nat /\ Count(m, c) \in Nat
  BY <1>1, SlotsWith
<1>3. m.groups[g].chunkCount = Cardinality(M \cup {c}) /\ m.groups[g].size = Cardinality(SlotsOf(m, M \cup {c}))
  BY <1>1 DEF GoodCounts
<1>4. /\ m.groups[g].chunkCount >= 1 /\ m.groups[g].size >= Count(m, c)
      /\ m.groups[g].chunkCount - 1 = Cardinality(M)
      /\ m.groups[g].size - Count(m, c) = Cardinality(SlotsOf(m, M))
  BY <1>2, <1>3
<1> QED BY <1>4 DEF M

\* remove_chunk no longer counts the chunk and its slots.
LEMMA RemovedCounts ==
    ASSUME NEW m \in Mem, Bounded(m), GoodCounts(m), NEW r, NEW g \in Group, NEW c \in Chunk,
           Removed(m, r, g, c), m.chunks[c].group = g
    PROVE  GoodCounts(r)
<1> SUFFICES ASSUME NEW x \in Group
             PROVE  /\ r.groups[x].chunkCount = Cardinality(Members(r, x))
                    /\ r.groups[x].size = Cardinality(SlotsOf(r, Members(r, x)))
  BY DEF GoodCounts
<1>1. \A y \in Chunk : r.chunks[y].ents = m.chunks[y].ents
  BY DEF Removed
<1>2. \A C \in SUBSET Chunk : SlotsOf(r, C) = SlotsOf(m, C)
  BY <1>1, SlotsSame
<1>3. CASE x # g
  <2>1. Members(r, x) = Members(m, x) /\ Members(m, x) \in SUBSET Chunk
    BY <1>3, StorageAssumption DEF Removed, Members
  <2> QED BY <1>2, <1>3, <2>1 DEF Removed, GoodCounts
<1>4. CASE x = g
  <2> DEFINE M == Members(m, g) \ {c}
  <2>1. Members(r, g) = M /\ M \in SUBSET Chunk
    BY StorageAssumption DEF Removed, Members
  <2>2. /\ m.groups[g].chunkCount - 1 = Cardinality(M)
        /\ m.groups[g].size - Count(m, c) = Cardinality(SlotsOf(m, M))
    BY CountsAtLeast
  <2> HIDE DEF M
  <2>3. SlotsOf(r, M) = SlotsOf(m, M)
    BY <1>2, <2>1
  <2>4. /\ r.groups[g].chunkCount = m.groups[g].chunkCount - 1
        /\ r.groups[g].size = m.groups[g].size - Count(m, c)
    BY DEF Removed
  <2> QED BY <1>4, <2>1, <2>2, <2>3, <2>4
<1> QED BY <1>3, <1>4

-----------------------------------------------------------------------------
(* Memory without chunks.                                                  *)

\* The storage before its first use, and after reset.
LEMMA EmptyFacts ==
    /\ \A es : MemInv(EmptyMem, es)
    /\ Stored(EmptyMem) = {}
<1>1. /\ \A c \in Chunk : EmptyMem.chunks[c] = NotCreated
      /\ \A g \in Group : EmptyMem.groups[g] = NoChunks
  BY DEF EmptyMem
<1>2. EmptyMem \in Mem
  <2>1. NotCreated \in ChunkRec
    BY DEF NotCreated, ChunkRec, ChunkPtr
  <2>2. NoChunks \in GroupRec
    BY DEF NoChunks, GroupRec, ChunkPtr
  <2> QED BY <2>1, <2>2 DEF EmptyMem, Mem
<1>3. \A g \in Group : Members(EmptyMem, g) = {}
  BY <1>1, StorageAssumption DEF Members, NotCreated
<1>4. Lists(EmptyMem)
  <2>0. <<>> \in Seq(Chunk) /\ Len(<<>>) = 0 /\ DOMAIN <<>> = {} /\ 1..0 = {}
    OBVIOUS
  <2> SUFFICES ASSUME NEW g \in Group PROVE IsList(EmptyMem, g, <<>>)
    BY <2>0 DEF Lists
  <2>1. Linked(EmptyMem, <<>>)
    BY <2>0 DEF Linked, IsInjective
  <2>2. Ends(EmptyMem, g, <<>>)
    BY <1>1, <2>0 DEF Ends, At, NoChunks
  <2>3. FreeEnd(EmptyMem, g, <<>>)
    BY <1>1 DEF FreeEnd, NoChunks
  <2>4. Range(<<>>) = {}
    BY <2>0 DEF Range
  <2> QED BY <1>3, <2>1, <2>2, <2>3, <2>4 DEF IsList
<1>5. GoodChunks(EmptyMem)
  BY <1>1 DEF GoodChunks, Blank, NotCreated
<1>6. GoodCounts(EmptyMem)
  <2>1. SlotsOf(EmptyMem, {}) = {}
    BY DEF SlotsOf
  <2>2. Cardinality({}) = 0
    BY FS_EmptySet
  <2> QED BY <1>1, <1>3, <2>1, <2>2 DEF GoodCounts, NoChunks
<1>7. \A c \in Chunk : DOMAIN EmptyMem.chunks[c].ents = {}
  BY <1>1 DEF NotCreated
<1> QED BY <1>2, <1>4, <1>5, <1>6, <1>7 DEF MemInv, GoodSlots, Stored

\* An entity has one slot.
LEMMA SlotUnique ==
    ASSUME NEW m, NEW es, GoodSlots(m, es), NEW c \in Chunk, NEW d \in Chunk,
           NEW i \in DOMAIN m.chunks[c].ents, NEW j \in DOMAIN m.chunks[d].ents,
           m.chunks[c].ents[i].id = m.chunks[d].ents[j].id
    PROVE  c = d /\ i = j
<1> DEFINE h == m.chunks[c].ents[i]
           k == m.chunks[d].ents[j]
<1>1. Leads(es, h, c, i) /\ Leads(es, k, d, j) /\ h.id = k.id
  BY Zenon DEF GoodSlots
<1> HIDE DEF h, k
<1> QED BY <1>1, Zenon DEF Leads

\* The same entities in the same slots.
LEMMA SameEnts ==
    ASSUME NEW m, NEW r, \A c \in Chunk : r.chunks[c].ents = m.chunks[c].ents
    PROVE  Stored(r) = Stored(m) /\ \A es : GoodSlots(m, es) => GoodSlots(r, es)
BY DEF Stored, GoodSlots

\* cast of a whole chunk with room: remove_chunk and add_chunk.
LEMMA CastFacts ==
    ASSUME NEW m, NEW es, MemInv(m, es), NEW c \in Chunk, NEW g \in Group,
           m.chunks[c].group \in Group \ {g}, Room(m, c) > 0
    PROVE  LET r == AddChunk(RemoveChunk(m, m.chunks[c].group, c), g, c)
           IN  MemInv(r, es) /\ Stored(r) = Stored(m)
<1> DEFINE src == m.chunks[c].group
           k == RemoveChunk(m, src, c)
           r == AddChunk(k, g, c)
<1>1. m \in Mem /\ Lists(m) /\ GoodChunks(m) /\ GoodCounts(m) /\ GoodSlots(m, es) /\ Bounded(m)
  BY GoodBounded DEF MemInv
<1>2. src \in Group /\ src # g
  OBVIOUS
<1>3. m.groups[src].chunkCount >= 1 /\ m.groups[src].size >= Count(m, c)
  BY <1>1, <1>2, CountsAtLeast
<1>4. Removed(m, k, src, c)
  BY <1>1, <1>2, <1>3, RemoveLists
<1>5. GoodCounts(k)
  BY <1>1, <1>2, <1>4, RemovedCounts
<1> HIDE DEF k
<1>6. /\ k \in Mem /\ Lists(k) /\ k.chunks[c].group = NoGroup /\ k.chunks[c].next = NoChunk /\ k.chunks[c].prev = NoChunk
      /\ Room(k, c) > 0 /\ Bounded(k)
      /\ \A x \in Chunk : Count(k, x) = Count(m, x)
  BY <1>1, <1>4 DEF Removed, Room, Count, Bounded
<1>7. Added(k, r, g, c)
  BY <1>6, AddLists
<1>8. GoodCounts(r)
  BY <1>5, <1>6, <1>7, AddedCounts
<1> HIDE DEF r
<1>9. \A x \in Chunk : /\ r.chunks[x].group = IF x = c THEN g ELSE m.chunks[x].group
                       /\ r.chunks[x].pt = m.chunks[x].pt /\ r.chunks[x].ents = m.chunks[x].ents
  BY <1>4, <1>7 DEF Added, Removed
<1>10. GoodChunks(r)
  BY <1>1, <1>2, <1>9, StorageAssumption DEF GoodChunks, Blank, InUse, Count
<1>11. Stored(r) = Stored(m) /\ GoodSlots(r, es)
  BY <1>1, <1>9, SameEnts
<1>12. r \in Mem /\ Lists(r)
  BY <1>7 DEF Added
<1>13. MemInv(r, es) /\ Stored(r) = Stored(m)
  BY <1>8, <1>10, <1>11, <1>12 DEF MemInv
<1> QED BY <1>13 DEF r, k

\* The memory m without the chunks of the groups G.
Cleared(m, G) ==
    [chunks |-> [c \in Chunk |-> IF m.chunks[c].group \in G THEN NotCreated ELSE m.chunks[c]],
     groups |-> [g \in Group |-> IF g \in G THEN [NoChunks EXCEPT !.lastChunk = m.groups[g].lastChunk]
                                 ELSE m.groups[g]]]

\* The handles in the chunks of these groups.
StoredIn(m, G) ==
    {h \in Handles : \E c \in Chunk : \E i \in DOMAIN m.chunks[c].ents :
                         m.chunks[c].ents[i] = h /\ m.chunks[c].group \in G}

\* clear() of the groups G.
LEMMA ClearedFacts ==
    ASSUME NEW m, NEW es, MemInv(m, es), NEW G \in SUBSET Group
    PROVE  MemInv(Cleared(m, G), es) /\ Stored(Cleared(m, G)) = Stored(m) \ StoredIn(m, G)
<1> DEFINE r == Cleared(m, G)
<1>1. m \in Mem /\ Lists(m) /\ GoodChunks(m) /\ GoodCounts(m) /\ GoodSlots(m, es)
  BY DEF MemInv
<1>2. NotCreated \in ChunkRec
  BY DEF NotCreated, ChunkRec, ChunkPtr
<1>3. \A g \in Group : [NoChunks EXCEPT !.lastChunk = m.groups[g].lastChunk] \in GroupRec
  <2> SUFFICES ASSUME NEW g \in Group PROVE [NoChunks EXCEPT !.lastChunk = m.groups[g].lastChunk] \in GroupRec
    OBVIOUS
  <2>1. m.groups[g].lastChunk \in ChunkPtr
    BY <1>1 DEF Mem, GroupRec
  <2> QED BY <2>1 DEF NoChunks, GroupRec, ChunkPtr
<1>4. r \in Mem
  BY <1>1, <1>2, <1>3 DEF Cleared, Mem
<1>5. \A c \in Chunk : r.chunks[c] = IF m.chunks[c].group \in G THEN NotCreated ELSE m.chunks[c]
  BY DEF Cleared
<1>6. /\ \A g \in Group \ G : r.groups[g] = m.groups[g]
      /\ \A g \in G : r.groups[g].firstChunk = NoChunk /\ r.groups[g].firstFree = NoChunk
                      /\ r.groups[g].chunkCount = 0 /\ r.groups[g].size = 0
  BY DEF Cleared, NoChunks
<1> HIDE DEF r
<1>7. \A g \in G : Members(r, g) = {}
  BY <1>5, StorageAssumption DEF Members, NotCreated
<1>8. \A g \in Group \ G : Members(r, g) = Members(m, g)
  BY <1>5, StorageAssumption DEF Members, NotCreated
<1>9. \A g \in Group \ G : \A c \in Members(m, g) : r.chunks[c] = m.chunks[c]
  BY <1>5 DEF Members
<1>10. Lists(r)
  <2> SUFFICES ASSUME NEW g \in Group PROVE \E s \in Seq(Chunk) : IsList(r, g, s)
    BY DEF Lists
  <2>1. CASE g \in G
    <3>0. <<>> \in Seq(Chunk) /\ Len(<<>>) = 0 /\ DOMAIN <<>> = {} /\ 1..0 = {}
      OBVIOUS
    <3>1. Linked(r, <<>>)
      BY <3>0 DEF Linked, IsInjective
    <3>2. Ends(r, g, <<>>)
      BY <1>6, <2>1, <3>0 DEF Ends, At
    <3>3. FreeEnd(r, g, <<>>)
      BY <1>6, <2>1 DEF FreeEnd
    <3>4. Range(<<>>) = {}
      BY <3>0 DEF Range
    <3>5. IsList(r, g, <<>>)
      BY <1>7, <2>1, <3>1, <3>2, <3>3, <3>4 DEF IsList
    <3> QED BY <3>0, <3>5
  <2>2. CASE g \notin G
    <3>1. PICK s \in Seq(Chunk) : IsList(m, g, s)
      BY <1>1 DEF Lists
    <3>2. \A y \in Range(s) : r.chunks[y] = m.chunks[y]
      BY <1>9, <2>2, <3>1 DEF IsList
    <3>3. KeepsLinks(m, r, Range(s)) /\ \A y \in Range(s) : Room(r, y) = Room(m, y)
      BY <3>2 DEF KeepsLinks, Room, Count
    <3>4. r.groups[g] = m.groups[g] /\ Members(r, g) = Members(m, g)
      BY <1>6, <1>8, <2>2
    <3>5. IsList(r, g, s)
      BY <3>1, <3>3, <3>4, ListKept
    <3> QED BY <3>5
  <2> QED BY <2>1, <2>2
<1>11. GoodChunks(r)
  BY <1>1, <1>5 DEF GoodChunks, Blank, InUse, NotCreated, Count
<1>12. GoodCounts(r)
  <2> SUFFICES ASSUME NEW g \in Group
               PROVE  /\ r.groups[g].chunkCount = Cardinality(Members(r, g))
                      /\ r.groups[g].size = Cardinality(SlotsOf(r, Members(r, g)))
    BY DEF GoodCounts
  <2>1. CASE g \in G
    <3>1. SlotsOf(r, {}) = {}
      BY DEF SlotsOf
    <3> QED BY <1>6, <1>7, <2>1, <3>1, FS_EmptySet
  <2>2. CASE g \notin G
    <3>1. SlotsOf(r, Members(m, g)) = SlotsOf(m, Members(m, g))
      BY <1>9, <2>2, SlotsSame
    <3> QED BY <1>1, <1>6, <1>8, <2>2, <3>1 DEF GoodCounts
  <2> QED BY <2>1, <2>2
<1>13. \A c \in Chunk : DOMAIN r.chunks[c].ents = IF m.chunks[c].group \in G THEN {} ELSE DOMAIN m.chunks[c].ents
  BY <1>5 DEF NotCreated
<1>14. GoodSlots(r, es)
  BY <1>1, <1>5, <1>13 DEF GoodSlots
<1>15. Stored(r) = Stored(m) \ StoredIn(m, G)
  <2>1. ASSUME NEW h \in Stored(r) PROVE h \in Stored(m) /\ h \notin StoredIn(m, G)
    <3>1. PICK c \in Chunk : \E i \in DOMAIN r.chunks[c].ents : r.chunks[c].ents[i] = h
      BY <2>1 DEF Stored
    <3>2. m.chunks[c].group \notin G /\ r.chunks[c] = m.chunks[c]
      BY <1>5, <1>13, <3>1
    <3>3. h \in Handles
      BY <2>1 DEF Stored
    <3>4. h \in Stored(m)
      BY <3>1, <3>2, <3>3 DEF Stored
    <3>5. ASSUME h \in StoredIn(m, G) PROVE FALSE
      <4>1. PICK d \in Chunk : \E j \in DOMAIN m.chunks[d].ents : m.chunks[d].ents[j] = h /\ m.chunks[d].group \in G
        BY <3>5 DEF StoredIn
      <4>2. d = c
        BY <1>1, <3>1, <3>2, <4>1, SlotUnique
      <4> QED BY <3>2, <4>1, <4>2
    <3> QED BY <3>4, <3>5
  <2>2. ASSUME NEW h \in Stored(m), h \notin StoredIn(m, G) PROVE h \in Stored(r)
    BY <1>5, <2>2 DEF Stored, StoredIn
  <2> QED BY <2>1, <2>2
<1> QED BY <1>4, <1>10, <1>11, <1>12, <1>14, <1>15 DEF MemInv, r

-----------------------------------------------------------------------------
(* The chunk that gets new entities.                                       *)

\* m is mem, with a new chunk if need be, and c a chunk of g that has room:
\* for all of the n entities if the view must not be split.
IsView(m, g, c, n, strict) ==
    /\ m \in Mem /\ Lists(m) /\ GoodCounts(m)
    /\ m.chunks[c].group = g /\ m.chunks[c].pt \in PoolType
    /\ \A x \in Chunk : m.chunks[x].ents = mem.chunks[x].ents
    /\ \A x \in Chunk \ {c} : m.chunks[x].group = mem.chunks[x].group /\ m.chunks[x].pt = mem.chunks[x].pt
    /\ Room(m, c) > 0 /\ (strict => Room(m, c) >= n)
    /\ \/ Fitting(Count(m, c), m.chunks[c].pt)
       \/ Count(m, c) = 0 /\ (m.chunks[c].pt = "large" => n > Capacity["default"] * LargeFactor)

\* The room of a chunk is a number.
LEMMA RoomType ==
    ASSUME NEW m \in Mem, NEW c \in Chunk, m.chunks[c].pt \in PoolType
    PROVE  /\ Count(m, c) \in Nat /\ Capacity[m.chunks[c].pt] \in Nat
           /\ Room(m, c) = Capacity[m.chunks[c].pt] - Count(m, c) /\ Room(m, c) \in Int
<1>1. Capacity[m.chunks[c].pt] \in Nat
  BY Capacities
<1>2. Count(m, c) \in Nat
  BY DEF Mem, ChunkRec, Count
<1> QED BY <1>1, <1>2 DEF Room

\* A chunk that was found.
LEMMA FoundView ==
    ASSUME NEW g \in Group, NEW n \in Nat \ {0}, MemInv(mem, entries), NEW strict \in BOOLEAN,
           NEW c, c = (IF strict THEN StrictFit(g, n) ELSE mem.groups[g].firstFree), c # NoChunk
    PROVE  c \in Chunk /\ IsView(mem, g, c, n, strict)
<1>1. mem \in Mem /\ Lists(mem) /\ GoodChunks(mem) /\ GoodCounts(mem)
  BY DEF MemInv
<1>2. PICK s \in Seq(Chunk) : IsList(mem, g, s)
  BY <1>1 DEF Lists
<1>3. Len(s) \in Nat /\ DOMAIN s = 1..Len(s) /\ Range(s) = Members(mem, g) /\ FreeEnd(mem, g, s)
  BY <1>2 DEF IsList
<1>4. c \in Range(s) /\ Room(mem, c) > 0 /\ (strict => Room(mem, c) >= n)
  <2>1. CASE strict
    <3>1. c \in Range(s) /\ Room(mem, c) >= n
      BY <1>2, <2>1, StrictFitFacts
    <3>2. c \in Members(mem, g)
      BY <1>3, <3>1
    <3>3. Room(mem, c) \in Int
      <4>1. c \in Chunk /\ mem.chunks[c].group = g
        BY <3>2 DEF Members
      <4>2. mem.chunks[c].pt \in PoolType
        BY <1>1, <4>1, StorageAssumption DEF GoodChunks, Blank, InUse
      <4> QED BY <1>1, <4>1, <4>2, RoomType
    <3> QED BY <2>1, <3>1, <3>3
  <2>2. CASE ~strict
    <3>1. PICK i \in 1..Len(s) : s[i] = c /\ \A j \in i..Len(s) : Room(mem, s[j]) > 0
      BY <1>3, <2>2 DEF FreeEnd, FreeFrom
    <3>2. i \in i..Len(s)
      BY <1>3, <3>1
    <3> QED BY <1>3, <2>2, <3>1, <3>2 DEF Range
  <2> QED BY <2>1, <2>2
<1>5. c \in Chunk /\ mem.chunks[c].group = g
  BY <1>3, <1>4 DEF Members
<1>6. InUse(mem, c)
  BY <1>1, <1>5, StorageAssumption DEF GoodChunks, Blank
<1> QED BY <1>1, <1>4, <1>5, <1>6 DEF IsView, InUse

\* The pool type of a new chunk.
LEMMA PoolFacts ==
    ASSUME NEW g \in Group, NEW n \in Nat \ {0}
    PROVE  LET pt == PoolFor(g, n) IN
           /\ pt \in PoolType /\ Capacity[pt] > 0
           /\ pt = "large" => n > Capacity["default"] * LargeFactor
           /\ n = 1 => Capacity[pt] >= n
           /\ (\E q \in PoolType : Fitting(n, q)) => Capacity[pt] >= n
<1> DEFINE pt == PoolFor(g, n)
           d == Capacity["default"]
           dl == Capacity["default"] * LargeFactor
<1>1. /\ "small" \in PoolType /\ "default" \in PoolType /\ "large" \in PoolType
      /\ \A q \in PoolType : q = "small" \/ q = "default" \/ q = "large"
  BY DEF PoolType
<1>2. /\ Capacity["small"] \in Nat /\ d \in Nat /\ Capacity["large"] \in Nat /\ dl \in Nat
      /\ d > 0 /\ d <= dl /\ dl < Capacity["large"]
  BY <1>1, Capacities
<1>3. \/ pt = "small" /\ n < Capacity["small"]
      \/ pt = "large" /\ n > dl
      \/ pt = "default" /\ ~(n > dl)
  BY DEF PoolFor
<1>4. \A q \in PoolType : Fitting(n, q) => n <= Capacity[q] /\ (q # "large" => n <= d) /\ (q = "large" => n > dl)
  <2> SUFFICES ASSUME NEW q \in PoolType, Fitting(n, q)
               PROVE  n <= Capacity[q] /\ (q # "large" => n <= d) /\ (q = "large" => n > dl)
    OBVIOUS
  <2>1. n <= Capacity[q] /\ (q = "large" => n > dl) /\ Capacity[q] \in Nat
    BY Capacities DEF Fitting
  <2>2. q # "large" => Capacity[q] <= d
    BY Capacities
  <2> QED BY <1>2, <2>1, <2>2
<1> HIDE DEF pt, d, dl
<1>5. pt \in PoolType /\ Capacity[pt] > 0 /\ (pt = "large" => n > dl)
  BY <1>1, <1>2, <1>3 DEF d
<1>6. n = 1 => Capacity[pt] >= n
  BY <1>2, <1>3 DEF d
<1>7. ASSUME NEW q \in PoolType, Fitting(n, q) PROVE Capacity[pt] >= n
  BY <1>1, <1>2, <1>3, <1>4, <1>7 DEF d
<1> QED BY <1>5, <1>6, <1>7 DEF pt, dl

\* A new chunk.
LEMMA NewView ==
    ASSUME NEW g \in Group, NEW n \in Nat \ {0}, MemInv(mem, entries), NEW strict \in BOOLEAN,
           strict => n = 1 \/ \E q \in PoolType : Fitting(n, q),
           NEW c \in Chunk \ Created
    PROVE  IsView(WithChunk(g, n, NoChunk, c), g, c, n, strict)
<1> DEFINE pt == PoolFor(g, n)
           e == [NotCreated EXCEPT !.pt = pt]
           k == [mem EXCEPT !.chunks[c] = e]
           r == AddChunk(k, g, c)
<1>1. mem \in Mem /\ Lists(mem) /\ GoodChunks(mem) /\ GoodCounts(mem) /\ Bounded(mem)
  BY GoodBounded DEF MemInv
<1>2. WithChunk(g, n, NoChunk, c) = r
  BY DEF WithChunk
<1>3. /\ pt \in PoolType /\ Capacity[pt] > 0 /\ Capacity[pt] \in Nat
      /\ pt = "large" => n > Capacity["default"] * LargeFactor
      /\ strict => Capacity[pt] >= n
  BY PoolFacts, Capacities
<1>4. Blank(mem, c)
  BY <1>1, StorageAssumption DEF GoodChunks, Created, InUse, PoolType
<1> HIDE DEF pt
<1>5. e \in ChunkRec /\ e.next = NoChunk /\ e.prev = NoChunk /\ e.group = NoGroup /\ e.pt = pt /\ e.ents = <<>>
  <2>1. e.next = NoChunk /\ e.prev = NoChunk /\ e.group = NoGroup /\ e.pt = pt /\ e.ents = <<>>
    BY DEF NotCreated
  <2>2. e = [next |-> NoChunk, prev |-> NoChunk, group |-> NoGroup, pt |-> pt, ents |-> <<>>]
    BY DEF NotCreated
  <2>3. <<>> \in Seq(Handles) /\ NoChunk \in ChunkPtr /\ NoGroup \in Group \cup {NoGroup}
        /\ pt \in PoolType \cup {"none"}
    BY <1>3 DEF ChunkPtr
  <2> QED BY <2>1, <2>2, <2>3 DEF ChunkRec
<1> HIDE DEF e
<1>6. k \in Mem /\ k.groups = mem.groups /\ k.chunks[c] = e /\ \A x \in Chunk \ {c} : k.chunks[x] = mem.chunks[x]
  BY <1>1, <1>5 DEF Mem
<1> HIDE DEF k
<1>7. \A x \in Group : Members(k, x) = Members(mem, x) /\ c \notin Members(mem, x) /\ Members(mem, x) \in SUBSET Chunk
  BY <1>4, <1>5, <1>6, StorageAssumption DEF Members, Blank
<1>8. Lists(k)
  <2> SUFFICES ASSUME NEW x \in Group PROVE \E s \in Seq(Chunk) : IsList(k, x, s)
    BY DEF Lists
  <2>1. PICK s \in Seq(Chunk) : IsList(mem, x, s)
    BY <1>1 DEF Lists
  <2>2. \A y \in Range(s) : k.chunks[y] = mem.chunks[y]
    BY <1>6, <1>7, <2>1 DEF IsList
  <2>3. KeepsLinks(mem, k, Range(s)) /\ \A y \in Range(s) : Room(k, y) = Room(mem, y)
    BY <2>2 DEF KeepsLinks, Room, Count
  <2>4. IsList(k, x, s)
    BY <1>6, <1>7, <2>1, <2>3, ListKept
  <2> QED BY <2>4
<1>9. \A x \in Chunk : k.chunks[x].ents = mem.chunks[x].ents
  BY <1>4, <1>5, <1>6 DEF Blank
<1>10. GoodCounts(k)
  <2> SUFFICES ASSUME NEW x \in Group
               PROVE  /\ k.groups[x].chunkCount = Cardinality(Members(k, x))
                      /\ k.groups[x].size = Cardinality(SlotsOf(k, Members(k, x)))
    BY DEF GoodCounts
  <2>1. SlotsOf(k, Members(mem, x)) = SlotsOf(mem, Members(mem, x))
    BY <1>7, <1>9, SlotsSame
  <2> QED BY <1>1, <1>6, <1>7, <2>1 DEF GoodCounts
<1>11. Bounded(k)
  BY <1>1, <1>9 DEF Bounded, Count
<1>12. Count(k, c) = 0 /\ Room(k, c) = Capacity[pt]
  <2>1. Count(k, c) = 0
    BY <1>5, <1>6 DEF Count
  <2> QED BY <1>3, <1>5, <1>6, <2>1 DEF Room
<1>13. Added(k, r, g, c)
  <2>1. k.chunks[c].group = NoGroup /\ k.chunks[c].next = NoChunk /\ k.chunks[c].prev = NoChunk /\ Room(k, c) > 0
    BY <1>3, <1>5, <1>6, <1>12
  <2> QED BY <1>6, <1>8, <2>1, AddLists
<1>14. GoodCounts(r)
  BY <1>5, <1>6, <1>10, <1>11, <1>13, AddedCounts
<1> HIDE DEF r
<1>15. r.chunks[c].pt = pt /\ r.chunks[c].group = g /\ Count(r, c) = 0 /\ Room(r, c) = Capacity[pt]
  <2>1. r.chunks[c].pt = pt /\ r.chunks[c].group = g /\ Count(r, c) = 0
    BY <1>5, <1>6, <1>12, <1>13 DEF Added, Count
  <2> QED BY <1>3, <2>1 DEF Room
<1>16. /\ \A x \in Chunk : r.chunks[x].ents = mem.chunks[x].ents
       /\ \A x \in Chunk \ {c} : r.chunks[x].group = mem.chunks[x].group /\ r.chunks[x].pt = mem.chunks[x].pt
  BY <1>6, <1>9, <1>13 DEF Added
<1>17. r \in Mem /\ Lists(r)
  BY <1>13 DEF Added
<1>18. IsView(r, g, c, n, strict)
  BY <1>3, <1>14, <1>15, <1>16, <1>17 DEF IsView
<1> QED BY <1>2, <1>18

-----------------------------------------------------------------------------
(* The entities of a view.                                                 *)

\* r has the slots of m, and those of hs at the end of c.
EntsFilled(m, r, c, hs) ==
    \A x \in Chunk : r.chunks[x].ents = IF x = c THEN m.chunks[x].ents \o hs ELSE m.chunks[x].ents

\* The entities hs fill slots at the end of c.
LEMMA FilledFacts ==
    ASSUME NEW m, NEW g \in Group, NEW c \in Chunk, NEW n \in Nat \ {0}, NEW strict \in BOOLEAN,
           MemInv(mem, entries), IsView(m, g, c, n, strict),
           NEW k, k = (IF strict \/ Room(m, c) > n THEN n ELSE Room(m, c)),
           NEW hs \in Seq(Handles), Len(hs) = k
    PROVE  LET r == ResizeChunk(m, g, c, hs) IN
           r \in Mem /\ Lists(r) /\ GoodChunks(r) /\ GoodCounts(r) /\ EntsFilled(mem, r, c, hs)
<1> DEFINE r == ResizeChunk(m, g, c, hs)
           pt == m.chunks[c].pt
           a == Count(m, c)
<1>1. /\ m \in Mem /\ Lists(m) /\ GoodCounts(m) /\ m.chunks[c].group = g /\ pt \in PoolType
      /\ \A x \in Chunk : m.chunks[x].ents = mem.chunks[x].ents
      /\ \A x \in Chunk \ {c} : m.chunks[x].group = mem.chunks[x].group /\ m.chunks[x].pt = mem.chunks[x].pt
      /\ Room(m, c) > 0 /\ (strict => Room(m, c) >= n)
      /\ \/ Fitting(a, pt)
         \/ a = 0 /\ (pt = "large" => n > Capacity["default"] * LargeFactor)
  BY DEF IsView
<1>2. a \in Nat /\ Capacity[pt] \in Nat /\ Room(m, c) = Capacity[pt] - a /\ Room(m, c) \in Int
  BY <1>1, RoomType
<1>3. k \in 1..n /\ a + k <= Capacity[pt]
  <2>1. CASE strict
    BY <1>1, <1>2, <2>1
  <2>2. CASE ~strict
    BY <1>1, <1>2, <2>2
  <2> QED BY <2>1, <2>2
<1>4. Resized(m, r, g, c, hs)
  BY <1>1, <1>3, ResizeLists
<1>5. GoodChunks(mem) /\ Bounded(mem)
  BY GoodBounded DEF MemInv
<1>6. Bounded(m)
  BY <1>1, <1>5 DEF Bounded, Count
<1>7. GoodCounts(r)
  BY <1>1, <1>4, <1>6, ResizedCounts
<1> HIDE DEF r
<1>8. \A x \in Chunk : /\ r.chunks[x].group = m.chunks[x].group /\ r.chunks[x].pt = m.chunks[x].pt
                       /\ r.chunks[x].ents = IF x = c THEN mem.chunks[x].ents \o hs ELSE mem.chunks[x].ents
  BY <1>1, <1>4 DEF Resized
<1>9. Count(r, c) = a + k
  <2>1. m.chunks[c].ents \in Seq(Handles)
    BY <1>1 DEF Mem, ChunkRec
  <2>2. Len(m.chunks[c].ents \o hs) = Len(m.chunks[c].ents) + Len(hs)
    BY <2>1, Concatenation
  <2> QED BY <1>1, <1>8, <2>2 DEF Count
<1>10. Fitting(a + k, pt)
  <2> DEFINE dl == Capacity["default"] * LargeFactor
  <2>1. dl \in Nat /\ (pt = "large" => Capacity[pt] > dl)
    BY Capacities
  <2>2. a + k \in 1..Capacity[pt]
    BY <1>2, <1>3
  <2>3. CASE Fitting(a, pt)
    <3>1. pt = "large" => a > dl
      BY <2>3 DEF Fitting
    <3> HIDE DEF dl
    <3>2. pt = "large" => a + k > dl
      BY <1>2, <1>3, <2>1, <3>1
    <3> QED BY <2>2, <3>2 DEF Fitting, dl
  <2>4. CASE a = 0 /\ (pt = "large" => n > dl)
    <3>1. k = n \/ k = Capacity[pt]
      BY <1>2, <2>4
    <3> HIDE DEF dl
    <3>2. pt = "large" => a + k > dl
      BY <1>3, <2>1, <2>4, <3>1
    <3> QED BY <2>2, <3>2 DEF Fitting, dl
  <2> QED BY <1>1, <2>3, <2>4
<1>11. GoodChunks(r)
  <2> SUFFICES ASSUME NEW x \in Chunk PROVE Blank(r, x) \/ InUse(r, x)
    BY DEF GoodChunks
  <2>1. CASE x = c
    BY <1>1, <1>8, <1>9, <1>10, <2>1 DEF InUse
  <2>2. CASE x # c
    <3>1. Blank(mem, x) \/ InUse(mem, x)
      BY <1>5 DEF GoodChunks
    <3>2. r.chunks[x].group = mem.chunks[x].group /\ r.chunks[x].pt = mem.chunks[x].pt /\ r.chunks[x].ents = mem.chunks[x].ents
      BY <1>1, <1>8, <2>2
    <3> QED BY <3>1, <3>2 DEF Blank, InUse, Count
  <2> QED BY <2>1, <2>2
<1>12. r \in Mem /\ Lists(r)
  BY <1>4 DEF Resized
<1> QED BY <1>7, <1>8, <1>11, <1>12 DEF r, EntsFilled

\* The entities hs are in slots of c from start on, and their entries say so.
IsPlaced(es, ps, c, start, hs) ==
    /\ ps \in Seq(Entries) /\ Len(ps) = Len(es)
    /\ \A j \in 1..Len(hs) : Leads(ps, hs[j], c, start + j)
    /\ \A id \in 1..Len(es) : (\A j \in 1..Len(hs) : hs[j].id # id) => ps[id] = es[id]

\* The ids of the handles hs are different, and there are entries for them.
HaveEntries(es, hs) ==
    /\ \A i, j \in 1..Len(hs) : hs[i].id = hs[j].id => i = j
    /\ \A j \in 1..Len(hs) : hs[j].id \in 1..Len(es)

\* The entries have the versions of the handles.
SameVersions(es, hs) == \A j \in 1..Len(hs) : es[hs[j].id].version = hs[j].version

\* es is old, with new entries perhaps.
MoreEntries(old, es) == Len(old) <= Len(es) /\ \A id \in 1..Len(old) : es[id] = old[id]

\* The entities hs have no slots in m.
NoSlots(m, hs) == \A h \in Stored(m) : \A j \in 1..Len(hs) : hs[j].id # h.id

\* fill_entities, move_entities
LEMMA PlacedFacts ==
    ASSUME NEW es \in Seq(Entries), NEW c \in Chunk, NEW start \in Nat, NEW hs \in Seq(Handles),
           HaveEntries(es, hs),
           job.kind # "load" => SameVersions(es, hs)
    PROVE  IsPlaced(es, Placed(es, c, start, hs), c, start, hs)
<1> DEFINE ps == Placed(es, c, start, hs)
           js(id) == {j \in 1..Len(hs) : hs[j].id = id}
           e(id) == [chunk |-> c, indexInChunk |-> start + Max(js(id)),
                     version |-> IF job.kind = "load" THEN hs[Max(js(id))].version ELSE es[id].version]
<1>1. /\ Len(es) \in Nat /\ DOMAIN es = 1..Len(es) /\ Len(hs) \in Nat /\ DOMAIN hs = 1..Len(hs)
      /\ \A id \in 1..Len(es) : es[id] \in Entries
      /\ \A j \in 1..Len(hs) : hs[j] \in Handles
  OBVIOUS
<1>2. ps = [id \in 1..Len(es) |-> IF js(id) = {} THEN es[id] ELSE e(id)]
  BY <1>1 DEF Placed
<1>3. \A j \in 1..Len(hs) : js(hs[j].id) = {j}
  BY DEF HaveEntries
<1>4. \A j \in Nat : Max({j}) = j
  BY DEF Max
<1>5. \A j \in 1..Len(hs) : Max(js(hs[j].id)) = j
  BY <1>1, <1>3, <1>4
<1>6. \A id \in 1..Len(es) : js(id) # {} => \E j \in 1..Len(hs) : hs[j].id = id
  OBVIOUS
<1>7. \A j \in 1..Len(hs) : js(hs[j].id) # {}
  BY <1>3
<1>8. \A id \in 1..Len(es) : (\A j \in 1..Len(hs) : hs[j].id # id) => js(id) = {}
  OBVIOUS
<1> HIDE DEF js
<1>9. ASSUME NEW j \in 1..Len(hs)
      PROVE  /\ hs[j].id \in 1..Len(es) /\ ps[hs[j].id].chunk = c /\ ps[hs[j].id].indexInChunk = start + j
             /\ ps[hs[j].id].version = hs[j].version /\ ps[hs[j].id] \in Entries
  <2>1. hs[j].id \in 1..Len(es)
    BY DEF HaveEntries
  <2>2. ps[hs[j].id] = [chunk |-> c, indexInChunk |-> start + j,
                        version |-> IF job.kind = "load" THEN hs[j].version ELSE es[hs[j].id].version]
    BY <1>2, <1>5, <1>7, <2>1
  <2>3. (IF job.kind = "load" THEN hs[j].version ELSE es[hs[j].id].version) = hs[j].version
    BY DEF SameVersions
  <2>4. hs[j].version \in Versions
    BY <1>1 DEF Handles
  <2>5. start + j \in Nat
    BY <1>1
  <2> HIDE DEF ps
  <2>6. ps[hs[j].id] = [chunk |-> c, indexInChunk |-> start + j, version |-> hs[j].version]
    BY <2>2, <2>3
  <2> QED BY <2>1, <2>4, <2>5, <2>6 DEF Entries
<1>10. \A id \in 1..Len(es) : (\A j \in 1..Len(hs) : hs[j].id # id) => ps[id] = es[id]
  BY <1>2, <1>8
<1>11. ps \in Seq(Entries) /\ Len(ps) = Len(es) /\ DOMAIN ps = 1..Len(es)
  <2>1. ASSUME NEW id \in 1..Len(es) PROVE ps[id] \in Entries
    BY <1>1, <1>9, <1>10
  <2>2. ps \in [1..Len(es) -> Entries]
    BY <1>2, <2>1
  <2> HIDE DEF ps
  <2> QED BY <1>1, <2>2
<1> HIDE DEF ps
<1> QED BY <1>9, <1>10, <1>11 DEF IsPlaced, Leads, ps

\* new_entities when no id is free.
LEMMA NewFacts ==
    ASSUME entries \in Seq(Entries), freeEntries = <<>>, NEW n \in Nat
    PROVE  /\ Recycled(n) = 0 /\ FreeCut(n) = <<>>
           /\ EntriesGrown(n) \in Seq(Entries) /\ Len(EntriesGrown(n)) = Len(entries) + n
           /\ \A id \in 1..Len(entries) : EntriesGrown(n)[id] = entries[id]
           /\ NewHandles(n) \in Seq(Handles) /\ Len(NewHandles(n)) = n
           /\ \A j \in 1..n : NewHandles(n)[j].id = Len(entries) + j
           /\ \A j \in 1..n : NewHandles(n)[j].version = EntriesGrown(n)[Len(entries) + j].version
<1> DEFINE add == [j \in 1..n |-> NewEntry]
           es == entries \o add
<1>1. Recycled(n) = 0 /\ FreeCut(n) = <<>> /\ Len(entries) \in Nat
  BY DEF Recycled, FreeCut
<1>2. NewEntry \in Entries /\ NewEntry.version = 0 /\ 0 \in Versions
  BY RegistryAssumption DEF NewEntry, Entries, Versions
<1>3. add \in Seq(Entries) /\ Len(add) = n /\ \A j \in 1..n : add[j] = NewEntry
  BY <1>2
<1>4. EntriesGrown(n) = es
  <2>1. n - Recycled(n) = n
    BY <1>1
  <2> QED BY <2>1 DEF EntriesGrown
<1> HIDE DEF add
<1>5. /\ es \in Seq(Entries) /\ Len(es) = Len(entries) + n
      /\ \A id \in 1..Len(entries) : es[id] = entries[id]
      /\ \A j \in 1..n : es[Len(entries) + j] = NewEntry
  <2>1. /\ es \in Seq(Entries) /\ Len(es) = Len(entries) + Len(add)
        /\ \A id \in 1..Len(entries) : es[id] = entries[id]
        /\ \A j \in 1..Len(add) : es[Len(entries) + j] = add[j]
    <3>1. add \in Seq(Entries)
      BY <1>3
    <3>2. \A s, u \in Seq(Entries) :
            /\ s \o u \in Seq(Entries) /\ Len(s \o u) = Len(s) + Len(u)
            /\ \A i \in 1..Len(s) : (s \o u)[i] = s[i]
            /\ \A i \in 1..Len(u) : (s \o u)[Len(s) + i] = u[i]
      BY Concatenation
    <3> QED BY <3>1, <3>2, Zenon
  <2> HIDE DEF es
  <2> QED BY <1>3, <2>1
<1> HIDE DEF es
<1>6. \A j \in 1..n : NewId(n, j) = Len(entries) + j
  BY <1>1 DEF NewId
<1>7. /\ NewHandles(n) = [j \in 1..n |-> [id |-> NewId(n, j), version |-> EntriesGrown(n)[NewId(n, j)].version]]
      /\ \A j \in 1..n : EntriesGrown(n)[NewId(n, j)].version = 0
  <2>1. \A j \in 1..n : EntriesGrown(n)[NewId(n, j)] = NewEntry
    BY <1>4, <1>5, <1>6
  <2>2. \A j \in 1..n : EntriesGrown(n)[NewId(n, j)].version = 0
    BY <1>2, <2>1
  <2> QED BY <2>2 DEF NewHandles
<1>8. \A j \in 1..n : NewHandles(n)[j].id = Len(entries) + j /\ NewHandles(n)[j].version = 0
  BY <1>6, <1>7
<1>9. \A j \in 1..n : [id |-> NewId(n, j), version |-> EntriesGrown(n)[NewId(n, j)].version] \in Handles
  BY <1>1, <1>2, <1>6, <1>7 DEF Handles
<1>10. NewHandles(n) \in [1..n -> Handles]
  BY <1>7, <1>9
<1>11. NewHandles(n) \in Seq(Handles) /\ Len(NewHandles(n)) = n
  BY <1>10
<1>12. \A j \in 1..n : NewHandles(n)[j].version = EntriesGrown(n)[Len(entries) + j].version
  BY <1>2, <1>4, <1>5, <1>8
<1> QED BY <1>1, <1>4, <1>5, <1>8, <1>11, <1>12

\* r has the entities of m and hs in its slots, and the entries ps lead there.
Gained(m, r, ps, hs) == GoodSlots(r, ps) /\ Stored(r) = Stored(m) \cup Range(hs)

\* The entities hs, which had no slots, have those after the last one of c.
LEMMA SlotsFilled ==
    ASSUME NEW m \in Mem, NEW r, NEW es \in Seq(Entries), NEW old \in Seq(Entries), NEW ps, NEW c \in Chunk,
           NEW hs \in Seq(Handles),
           GoodSlots(m, old), MoreEntries(old, es), EntsFilled(m, r, c, hs),
           IsPlaced(es, ps, c, Count(m, c), hs), NoSlots(m, hs)
    PROVE  Gained(m, r, ps, hs)
<1> USE DEF EntsFilled, MoreEntries, NoSlots
<1> DEFINE a == Count(m, c)
           was(x) == m.chunks[x].ents
<1>1. \A x \in Chunk : was(x) \in Seq(Handles) /\ DOMAIN was(x) = 1..Len(was(x)) /\ Len(was(x)) \in Nat
  BY DEF Mem, ChunkRec
<1>2. Len(hs) \in Nat /\ a \in Nat /\ DOMAIN hs = 1..Len(hs) /\ a = Len(was(c))
  BY <1>1 DEF Count
<1>3. /\ r.chunks[c].ents \in Seq(Handles) /\ Len(r.chunks[c].ents) = a + Len(hs)
      /\ \A i \in 1..a : r.chunks[c].ents[i] = was(c)[i]
      /\ \A j \in 1..Len(hs) : r.chunks[c].ents[a + j] = hs[j]
      /\ DOMAIN r.chunks[c].ents = 1..(a + Len(hs))
  <2>1. \A s, u \in Seq(Handles) :
          /\ s \o u \in Seq(Handles) /\ Len(s \o u) = Len(s) + Len(u)
          /\ \A i \in 1..Len(s) : (s \o u)[i] = s[i]
          /\ \A i \in 1..Len(u) : (s \o u)[Len(s) + i] = u[i]
    BY Concatenation
  <2>2. r.chunks[c].ents = was(c) \o hs /\ was(c) \in Seq(Handles)
    BY <1>1
  <2>3. /\ r.chunks[c].ents \in Seq(Handles) /\ Len(r.chunks[c].ents) = a + Len(hs)
        /\ \A i \in 1..a : r.chunks[c].ents[i] = was(c)[i]
        /\ \A j \in 1..Len(hs) : r.chunks[c].ents[a + j] = hs[j]
    <3> DEFINE u == was(c)
               v == r.chunks[c].ents
    <3>1. u \in Seq(Handles) /\ v = u \o hs /\ a = Len(u)
      BY <1>2, <2>2
    <3> HIDE DEF u, v, a
    <3>2. v \in Seq(Handles) /\ Len(v) = a + Len(hs) /\ (\A i \in 1..a : v[i] = u[i])
          /\ \A j \in 1..Len(hs) : v[a + j] = hs[j]
      BY <2>1, <3>1, Zenon
    <3> QED BY <3>2 DEF u, v
  <2> QED BY <2>3
<1>4. \A i \in DOMAIN r.chunks[c].ents : i \in 1..a \/ \E j \in 1..Len(hs) : i = a + j
  <2> SUFFICES ASSUME NEW i \in 1..(a + Len(hs)), i \notin 1..a PROVE \E j \in 1..Len(hs) : i = a + j
    BY <1>3
  <2>1. i - a \in 1..Len(hs) /\ i = a + (i - a)
    BY <1>2
  <2> QED BY <2>1
<1>5. /\ \A i \in 1..a : i \in DOMAIN r.chunks[c].ents
      /\ \A j \in 1..Len(hs) : a + j \in DOMAIN r.chunks[c].ents
  BY <1>2, <1>3
<1>6. /\ Len(ps) = Len(es) /\ ps \in Seq(Entries)
      /\ \A j \in 1..Len(hs) : Leads(ps, hs[j], c, a + j)
      /\ \A id \in 1..Len(es) : (\A j \in 1..Len(hs) : hs[j].id # id) => ps[id] = es[id]
  BY DEF IsPlaced
<1>7. ASSUME NEW x \in Chunk, NEW i \in DOMAIN was(x) PROVE Leads(ps, was(x)[i], x, i)
  <2>1. Leads(old, was(x)[i], x, i)
    BY DEF GoodSlots
  <2>2. was(x)[i] \in Stored(m)
    BY <1>1 DEF Stored
  <2>3. was(x)[i].id \in 1..Len(old)
    BY <2>1 DEF Leads
  <2>4. was(x)[i].id \in 1..Len(es)
    BY <2>3
  <2>5. ps[was(x)[i].id] = old[was(x)[i].id]
    BY <1>6, <2>2, <2>3, <2>4
  <2>6. DOMAIN ps = 1..Len(es)
    BY <1>6
  <2> QED BY <2>1, <2>4, <2>5, <2>6 DEF Leads
<1>8. GoodSlots(r, ps)
  <2> SUFFICES ASSUME NEW x \in Chunk, NEW i \in DOMAIN r.chunks[x].ents PROVE Leads(ps, r.chunks[x].ents[i], x, i)
    BY DEF GoodSlots
  <2>1. CASE x # c
    BY <1>7, <2>1
  <2>2. CASE x = c /\ i \in 1..a
    BY <1>1, <1>2, <1>3, <1>7, <2>2
  <2>3. CASE x = c /\ \E j \in 1..Len(hs) : i = a + j
    BY <1>3, <1>6, <2>3
  <2> QED BY <1>4, <2>1, <2>2, <2>3
<1>9. Stored(r) = Stored(m) \cup Range(hs)
  <2>1. ASSUME NEW h \in Stored(r) PROVE h \in Stored(m) \/ h \in Range(hs)
    <3>1. PICK x \in Chunk : \E i \in DOMAIN r.chunks[x].ents : r.chunks[x].ents[i] = h
      BY <2>1 DEF Stored
    <3>2. PICK i \in DOMAIN r.chunks[x].ents : r.chunks[x].ents[i] = h
      BY <3>1
    <3>3. h \in Handles
      BY <2>1 DEF Stored
    <3>4. CASE x # c
      BY <3>2, <3>3, <3>4 DEF Stored
    <3>5. CASE x = c /\ i \in 1..a
      <4>1. i \in DOMAIN was(c) /\ was(c)[i] = h
        BY <1>1, <1>2, <1>3, <3>2, <3>5
      <4> QED BY <3>3, <4>1 DEF Stored
    <3>6. CASE x = c /\ \E j \in 1..Len(hs) : i = a + j
      <4>1. PICK j \in 1..Len(hs) : i = a + j
        BY <3>6
      <4>2. h = hs[j] /\ j \in DOMAIN hs
        BY <1>2, <1>3, <3>2, <3>6, <4>1
      <4> QED BY <4>2 DEF Range
    <3> QED BY <1>4, <3>4, <3>5, <3>6
  <2>2. ASSUME NEW h \in Stored(m) PROVE h \in Stored(r)
    <3>1. PICK x \in Chunk : \E i \in DOMAIN was(x) : was(x)[i] = h
      BY <2>2 DEF Stored
    <3>2. h \in Handles
      BY <2>2 DEF Stored
    <3>3. \E i \in DOMAIN r.chunks[x].ents : r.chunks[x].ents[i] = h
      <4>1. CASE x # c
        BY <3>1, <4>1
      <4>2. CASE x = c
        BY <1>1, <1>2, <1>3, <1>5, <3>1, <4>2
      <4> QED BY <4>1, <4>2
    <3> QED BY <3>2, <3>3 DEF Stored
  <2>3. ASSUME NEW h \in Range(hs) PROVE h \in Stored(r)
    <3>1. PICK j \in 1..Len(hs) : hs[j] = h
      BY <1>2 DEF Range
    <3>2. h \in Handles
      BY <3>1
    <3>3. r.chunks[c].ents[a + j] = h /\ a + j \in DOMAIN r.chunks[c].ents
      BY <1>3, <1>5, <3>1
    <3> QED BY <3>2, <3>3 DEF Stored
  <2> QED BY <2>1, <2>2, <2>3
<1> QED BY <1>8, <1>9 DEF Gained

-----------------------------------------------------------------------------
(* The rest of a call.                                                     *)

\* w2 is what is left of the batches w once the first k handles of the first
\* one are done: batch i is batch at[i] without its first off[i] handles.
Remains(w, w2, k) ==
    \E at \in [1..Len(w2) -> 1..Len(w)], off \in [1..Len(w2) -> Nat] :
        /\ \A i, j \in 1..Len(w2) : at[i] = at[j] => i = j
        /\ \A i \in 1..Len(w2) :
              /\ off[i] = IF at[i] = 1 THEN k ELSE 0
              /\ \A p \in 1..Len(w2[i].ents) : p + off[i] \in 1..Len(w[at[i]].ents)
              /\ \A p \in 1..Len(w2[i].ents) : w2[i].ents[p] = w[at[i]].ents[p + off[i]]
              /\ \A q \in 1..Len(w[at[i]].ents) : q > off[i] => q - off[i] \in 1..Len(w2[i].ents)
        /\ \A i \in 1..Len(w) : (\E j \in 1..Len(w2) : at[j] = i) \/ (i = 1 /\ k = Len(w[1].ents))

\* The first batch is done.
LEMMA RemainsTail ==
    ASSUME NEW w \in Seq(Batches), w # <<>>, w[1].n = Len(w[1].ents)
    PROVE  Remains(w, Tail(w), w[1].n)
<1> DEFINE w2 == Tail(w)
           at == [i \in 1..Len(w2) |-> i + 1]
           off == [i \in 1..Len(w2) |-> 0]
           ln(i) == Len(w[i].ents)
<1>1. /\ Len(w) \in Nat \ {0} /\ Len(w2) = Len(w) - 1 /\ \A i \in 1..Len(w2) : w2[i] = w[i + 1]
  OBVIOUS
<1>2. \A i \in 1..Len(w2) : i + 1 \in 1..Len(w) /\ i + 1 # 1
  BY <1>1
<1>3. \A i \in 1..Len(w) : ln(i) \in Nat
  <2> SUFFICES ASSUME NEW i \in 1..Len(w) PROVE ln(i) \in Nat
    OBVIOUS
  <2>1. w[i] \in Batches
    OBVIOUS
  <2> QED BY <2>1 DEF Batches
<1> HIDE DEF w2
<1>4. at \in [1..Len(w2) -> 1..Len(w)] /\ off \in [1..Len(w2) -> Nat]
  BY <1>2
<1>5. \A i \in 1..Len(w2) : at[i] = i + 1 /\ at[i] # 1 /\ off[i] = 0
  BY <1>2
<1>6. \A i, j \in 1..Len(w2) : at[i] = at[j] => i = j
  BY <1>1
<1>7. \A i \in 1..Len(w) : (\E j \in 1..Len(w2) : at[j] = i) \/ i = 1
  <2> SUFFICES ASSUME NEW i \in 1..Len(w), i # 1 PROVE \E j \in 1..Len(w2) : at[j] = i
    OBVIOUS
  <2>1. i - 1 \in 1..Len(w2) /\ at[i - 1] = i
    BY <1>1
  <2> QED BY <2>1
<1>8. ASSUME NEW i \in 1..Len(w2)
      PROVE  /\ off[i] = IF at[i] = 1 THEN w[1].n ELSE 0
             /\ \A p \in 1..Len(w2[i].ents) : p + off[i] \in 1..Len(w[at[i]].ents)
             /\ \A p \in 1..Len(w2[i].ents) : w2[i].ents[p] = w[at[i]].ents[p + off[i]]
             /\ \A q \in 1..Len(w[at[i]].ents) : q > off[i] => q - off[i] \in 1..Len(w2[i].ents)
  <2>1. w2[i] = w[at[i]] /\ off[i] = 0 /\ at[i] # 1 /\ ln(at[i]) \in Nat
    BY <1>1, <1>2, <1>3, <1>5
  <2> HIDE DEF at, off
  <2>2. \A p \in Int : p + 0 = p /\ p - 0 = p
    OBVIOUS
  <2> QED BY <2>1, <2>2
<1> HIDE DEF at, off
<1>9. Remains(w, w2, w[1].n)
  <2>1. \A i \in 1..Len(w) : (\E j \in 1..Len(w2) : at[j] = i) \/ (i = 1 /\ w[1].n = Len(w[1].ents))
    BY <1>7
  <2> QED BY <1>4, <1>6, <1>8, <2>1, Zenon DEF Remains
<1> QED BY <1>9 DEF w2

\* The rest of a batch.
LEMMA RestFacts ==
    ASSUME NEW b \in Batches, NEW k \in Nat, k < b.n, b.n = Len(b.ents), k >= 1
    PROVE  /\ Rest(b, k) \in Batches /\ Rest(b, k).n = b.n - k
           /\ Len(Rest(b, k).ents) = b.n - k
           /\ \A p \in 1..(b.n - k) : Rest(b, k).ents[p] = b.ents[p + k]
<1> DEFINE e == SubSeq(b.ents, k + 1, Len(b.ents))
<1>1. b.ents \in Seq(Handles) /\ b.n \in Nat /\ b.group \in Group
  BY DEF Batches
<1>2. b.ents # <<>>
  BY <1>1
<1>3. e \in Seq(Handles) /\ Len(e) = b.n - k /\ \A p \in 1..(b.n - k) : e[p] = b.ents[p + k]
  BY <1>1
<1>4. Rest(b, k) = [b EXCEPT !.n = b.n - k, !.ents = e]
  BY <1>2 DEF Rest, Batches
<1> HIDE DEF e
<1>5. Rest(b, k).n = b.n - k /\ Rest(b, k).ents = e
  BY <1>4 DEF Batches
<1>6. b.n - k \in Nat \ {0}
  BY <1>1
<1>7. Rest(b, k) \in Batches
  BY <1>3, <1>4, <1>6 DEF Batches
<1> QED BY <1>3, <1>5, <1>7

\* The first batch goes on.
LEMMA RemainsRest ==
    ASSUME NEW w \in Seq(Batches), w # <<>>, w[1].n = Len(w[1].ents), NEW k \in 1..(w[1].n - 1)
    PROVE  LET w2 == <<Rest(w[1], k)>> \o Tail(w)
           IN  Remains(w, w2, k) /\ w2 \in Seq(Batches) /\ Len(w2) = Len(w) /\ w2[1] = Rest(w[1], k)
               /\ \A i \in 2..Len(w) : w2[i] = w[i]
<1> DEFINE v == <<Rest(w[1], k)>>
           t == Tail(w)
           w2 == v \o t
           at == [i \in 1..Len(w2) |-> i]
           off == [i \in 1..Len(w2) |-> IF i = 1 THEN k ELSE 0]
<1>1. /\ Len(w) \in Nat \ {0} /\ t \in Seq(Batches) /\ Len(t) = Len(w) - 1 /\ \A i \in 1..Len(t) : t[i] = w[i + 1]
      /\ 1 \in 1..Len(w) /\ \A i \in 1..Len(w) : w[i] \in Batches
  OBVIOUS
<1>2. w[1] \in Batches /\ w[1].n \in Nat /\ k \in Nat /\ k < w[1].n /\ k >= 1
  <2>1. w[1] \in Batches
    BY <1>1
  <2>2. w[1].n \in Nat
    BY <2>1 DEF Batches
  <2> QED BY <2>1, <2>2
<1>3. /\ Rest(w[1], k) \in Batches /\ Len(Rest(w[1], k).ents) = w[1].n - k
      /\ \A p \in 1..(w[1].n - k) : Rest(w[1], k).ents[p] = w[1].ents[p + k]
  BY <1>2, RestFacts
<1>4. v \in Seq(Batches) /\ Len(v) = 1 /\ v[1] = Rest(w[1], k)
  BY <1>3
<1> HIDE DEF v, t
<1>5. /\ w2 \in Seq(Batches) /\ Len(w2) = Len(v) + Len(t)
      /\ \A i \in 1..Len(v) : w2[i] = v[i]
      /\ \A i \in 1..Len(t) : w2[Len(v) + i] = t[i]
  <2>1. \A x, u \in Seq(Batches) :
          /\ x \o u \in Seq(Batches) /\ Len(x \o u) = Len(x) + Len(u)
          /\ \A i \in 1..Len(x) : (x \o u)[i] = x[i]
          /\ \A i \in 1..Len(u) : (x \o u)[Len(x) + i] = u[i]
    BY Concatenation
  <2>2. v \in Seq(Batches) /\ t \in Seq(Batches)
    BY <1>1, <1>4
  <2> QED BY <2>1, <2>2, Zenon
<1> HIDE DEF w2
<1>6. /\ Len(w2) = Len(w) /\ w2[1] = Rest(w[1], k)
      /\ \A i \in 2..Len(w) : w2[i] = w[i]
  <2>1. Len(w2) = Len(w) /\ w2[1] = Rest(w[1], k)
    BY <1>1, <1>4, <1>5
  <2>2. ASSUME NEW i \in 2..Len(w) PROVE w2[i] = w[i]
    <3>1. i - 1 \in 1..Len(t) /\ 1 + (i - 1) = i /\ (i - 1) + 1 = i
      BY <1>1
    <3>2. w2[1 + (i - 1)] = t[i - 1] /\ t[i - 1] = w[(i - 1) + 1]
      BY <1>1, <1>4, <1>5, <3>1
    <3> QED BY <3>1, <3>2
  <2> QED BY <2>1, <2>2
<1>7. at \in [1..Len(w2) -> 1..Len(w)] /\ off \in [1..Len(w2) -> Nat]
  BY <1>2, <1>6
<1>8. \A i \in 1..Len(w2) : at[i] = i /\ off[i] = IF i = 1 THEN k ELSE 0
  OBVIOUS
<1> HIDE DEF at, off
<1>9. ASSUME NEW i \in 1..Len(w2)
      PROVE  /\ off[i] = IF at[i] = 1 THEN k ELSE 0
             /\ \A p \in 1..Len(w2[i].ents) : p + off[i] \in 1..Len(w[at[i]].ents)
             /\ \A p \in 1..Len(w2[i].ents) : w2[i].ents[p] = w[at[i]].ents[p + off[i]]
             /\ \A q \in 1..Len(w[at[i]].ents) : q > off[i] => q - off[i] \in 1..Len(w2[i].ents)
  <2>1. CASE i = 1
    <3>1. at[i] = 1 /\ off[i] = k /\ w2[i] = Rest(w[1], k)
      BY <1>6, <1>8, <2>1
    <3>2. Len(w2[i].ents) = w[1].n - k /\ Len(w[at[i]].ents) = w[1].n
      BY <1>3, <3>1
    <3>3. \A p \in 1..(w[1].n - k) : p + k \in 1..w[1].n
      BY <1>2
    <3>4. \A q \in 1..w[1].n : q > k => q - k \in 1..(w[1].n - k)
      BY <1>2
    <3> QED BY <1>3, <3>1, <3>2, <3>3, <3>4
  <2>2. CASE i # 1
    <3>1. w2[i] = w[i] /\ at[i] = i /\ off[i] = 0
      BY <1>1, <1>6, <1>8, <2>2
    <3>2. w[i].ents \in Seq(Handles)
      BY <1>1, <1>6 DEF Batches
    <3>3. \A p \in Int : p + 0 = p /\ p - 0 = p
      OBVIOUS
    <3> QED BY <2>2, <3>1, <3>2, <3>3
  <2> QED BY <2>1, <2>2
<1>10. Remains(w, w2, k)
  <2>1. \A i, j \in 1..Len(w2) : at[i] = at[j] => i = j
    BY <1>8
  <2>2. \A i \in 1..Len(w) : \E j \in 1..Len(w2) : at[j] = i
    BY <1>6, <1>8
  <2> QED BY <1>7, <1>9, <2>1, <2>2, Zenon DEF Remains
<1> QED BY <1>5, <1>6, <1>10 DEF w2, v, t

\* The first k elements.
LEMMA Prefix ==
    ASSUME NEW S, NEW s \in Seq(S), NEW k \in 1..Len(s)
    PROVE  /\ SubSeq(s, 1, k) \in Seq(S) /\ Len(SubSeq(s, 1, k)) = k
           /\ \A j \in 1..k : SubSeq(s, 1, k)[j] = s[j] /\ j \in 1..Len(s)
OBVIOUS

\* The handles in w2 are some of those in w, and not those in hs.
Others(w, w2, hs) ==
    \A i \in DOMAIN w2 : \A p \in DOMAIN w2[i].ents :
        /\ \E x \in DOMAIN w : \E y \in DOMAIN w[x].ents : w[x].ents[y] = w2[i].ents[p]
        /\ \A j \in 1..Len(hs) : hs[j].id # w2[i].ents[p].id

\* The handles hs are done and w2 is left.
Divided(w, w2, k, hs) ==
    /\ hs \in Seq(Handles) /\ Len(hs) = k /\ \A j \in 1..k : hs[j] = w[1].ents[j]
    /\ Distinct(w2) /\ Waiting(w) = Waiting(w2) \cup Range(hs) /\ Others(w, w2, hs)

\* The handles that are done and those that are left.
LEMMA RemainsFacts ==
    ASSUME NEW w \in Seq(Batches), NEW w2 \in Seq(Batches), w # <<>>, NEW k \in 1..Len(w[1].ents),
           Remains(w, w2, k), Distinct(w), NEW hs, hs = SubSeq(w[1].ents, 1, k)
    PROVE  Divided(w, w2, k, hs)
<1>1. PICK at \in [1..Len(w2) -> 1..Len(w)], off \in [1..Len(w2) -> Nat] :
        /\ \A i, j \in 1..Len(w2) : at[i] = at[j] => i = j
        /\ \A i \in 1..Len(w2) :
              /\ off[i] = IF at[i] = 1 THEN k ELSE 0
              /\ \A p \in 1..Len(w2[i].ents) : p + off[i] \in 1..Len(w[at[i]].ents)
              /\ \A p \in 1..Len(w2[i].ents) : w2[i].ents[p] = w[at[i]].ents[p + off[i]]
              /\ \A q \in 1..Len(w[at[i]].ents) : q > off[i] => q - off[i] \in 1..Len(w2[i].ents)
        /\ \A i \in 1..Len(w) : (\E j \in 1..Len(w2) : at[j] = i) \/ (i = 1 /\ k = Len(w[1].ents))
  BY Zenon DEF Remains
<1>2. /\ Len(w) \in Nat \ {0} /\ DOMAIN w = 1..Len(w) /\ DOMAIN w2 = 1..Len(w2) /\ 1 \in 1..Len(w)
      /\ \A i \in 1..Len(w) : w[i] \in Batches
      /\ \A i \in 1..Len(w2) : w2[i] \in Batches
  OBVIOUS
<1>3. \A b \in Batches : b.ents \in Seq(Handles) /\ DOMAIN b.ents = 1..Len(b.ents) /\ Len(b.ents) \in Nat
  BY DEF Batches
<1>4. /\ \A i \in 1..Len(w) : w[i].ents \in Seq(Handles) /\ DOMAIN w[i].ents = 1..Len(w[i].ents) /\ Len(w[i].ents) \in Nat
      /\ \A i \in 1..Len(w2) : w2[i].ents \in Seq(Handles) /\ DOMAIN w2[i].ents = 1..Len(w2[i].ents) /\ Len(w2[i].ents) \in Nat
  BY <1>2, <1>3
<1>5. hs \in Seq(Handles) /\ Len(hs) = k /\ DOMAIN hs = 1..k /\ \A j \in 1..k : hs[j] = w[1].ents[j]
  <2> DEFINE e == w[1].ents
  <2>1. e \in Seq(Handles) /\ k \in 1..Len(e) /\ hs = SubSeq(e, 1, k)
    BY <1>2, <1>4
  <2> HIDE DEF e
  <2>2. hs \in Seq(Handles) /\ Len(hs) = k /\ DOMAIN hs = 1..k /\ \A j \in 1..k : hs[j] = e[j]
    <3>1. hs \in Seq(Handles) /\ Len(hs) = k /\ \A j \in 1..k : hs[j] = e[j]
      <4>1. \A s \in Seq(Handles) : \A j \in 1..Len(s) :
              /\ SubSeq(s, 1, j) \in Seq(Handles) /\ Len(SubSeq(s, 1, j)) = j
              /\ \A i \in 1..j : SubSeq(s, 1, j)[i] = s[i]
        BY Prefix
      <4> QED BY <2>1, <4>1, Zenon
    <3> QED BY <3>1
  <2> QED BY <2>2 DEF e
<1>6. \A j \in 1..k : j \in 1..Len(w[1].ents)
  BY <1>2, <1>4
<1>7. \A x, y \in 1..Len(w) : \A p \in 1..Len(w[x].ents), q \in 1..Len(w[y].ents) :
         w[x].ents[p].id = w[y].ents[q].id => x = y /\ p = q
  <2> SUFFICES ASSUME NEW x \in 1..Len(w), NEW y \in 1..Len(w),
                      NEW p \in 1..Len(w[x].ents), NEW q \in 1..Len(w[y].ents),
                      w[x].ents[p].id = w[y].ents[q].id
               PROVE  x = y /\ p = q
    BY Zenon
  <2>1. x \in DOMAIN w /\ y \in DOMAIN w /\ p \in DOMAIN w[x].ents /\ q \in DOMAIN w[y].ents
    BY <1>2, <1>4
  <2> QED BY <2>1, Zenon DEF Distinct
<1>8. ASSUME NEW i \in 1..Len(w2), NEW p \in 1..Len(w2[i].ents)
      PROVE  /\ at[i] \in 1..Len(w) /\ off[i] \in Nat /\ p + off[i] \in 1..Len(w[at[i]].ents)
             /\ w2[i].ents[p] = w[at[i]].ents[p + off[i]]
             /\ \A j \in 1..k : hs[j].id # w2[i].ents[p].id
  <2>1. /\ at[i] \in 1..Len(w) /\ off[i] \in Nat /\ p + off[i] \in 1..Len(w[at[i]].ents)
        /\ w2[i].ents[p] = w[at[i]].ents[p + off[i]]
        /\ (at[i] = 1 => off[i] = k)
    BY <1>1
  <2>2. p \in Nat /\ p >= 1 /\ k \in Nat
    BY <1>2, <1>4
  <2>3. ASSUME NEW j \in 1..k, hs[j].id = w2[i].ents[p].id PROVE FALSE
    <3>1. w[1].ents[j].id = w[at[i]].ents[p + off[i]].id
      BY <1>5, <2>1, <2>3
    <3>2. 1 = at[i] /\ j = p + off[i]
      BY <1>2, <1>6, <1>7, <2>1, <3>1, SMTT(30)
    <3> QED BY <2>1, <2>2, <3>2
  <2> QED BY <2>1, <2>3
<1>9. Distinct(w2)
  <2> SUFFICES ASSUME NEW i \in DOMAIN w2, NEW j \in DOMAIN w2, NEW p \in DOMAIN w2[i].ents,
                      NEW q \in DOMAIN w2[j].ents, w2[i].ents[p].id = w2[j].ents[q].id
               PROVE  i = j /\ p = q
    BY Zenon DEF Distinct
  <2>a. i \in 1..Len(w2) /\ j \in 1..Len(w2) /\ p \in 1..Len(w2[i].ents) /\ q \in 1..Len(w2[j].ents)
    BY <1>2, <1>4
  <2>0. /\ at[i] \in 1..Len(w) /\ p + off[i] \in 1..Len(w[at[i]].ents) /\ w2[i].ents[p] = w[at[i]].ents[p + off[i]]
        /\ at[j] \in 1..Len(w) /\ q + off[j] \in 1..Len(w[at[j]].ents) /\ w2[j].ents[q] = w[at[j]].ents[q + off[j]]
    BY <1>8, <2>a
  <2>1. at[i] = at[j] /\ p + off[i] = q + off[j]
    <3>1. w[at[i]].ents[p + off[i]].id = w[at[j]].ents[q + off[j]].id
      BY <2>0
    <3> DEFINE x == at[i]
               y == at[j]
               u == p + off[i]
               v == q + off[j]
    <3>2. x \in 1..Len(w) /\ y \in 1..Len(w) /\ u \in 1..Len(w[x].ents) /\ v \in 1..Len(w[y].ents)
          /\ w[x].ents[u].id = w[y].ents[v].id
      BY <2>0, <3>1
    <3> HIDE DEF x, y, u, v
    <3>3. x = y /\ u = v
      BY ONLY <1>7, <3>2
    <3> QED BY <3>3 DEF x, y, u, v
  <2>2. i = j
    BY <1>1, <2>a, <2>1
  <2>3. off[i] \in Nat /\ p \in Nat /\ q \in Nat
    <3>1. Len(w2[i].ents) \in Nat /\ Len(w2[j].ents) \in Nat
      BY <1>4, <2>a
    <3>2. off[i] \in Nat
      BY <2>a
    <3> QED BY <2>a, <3>1, <3>2
  <2> QED BY <2>1, <2>2, <2>3
<1>10. ASSUME NEW h \in Waiting(w) PROVE h \in Waiting(w2) \/ h \in Range(hs)
  <2>1. PICK x \in 1..Len(w) : \E q \in 1..Len(w[x].ents) : w[x].ents[q] = h
    BY <1>2, <1>4, <1>10 DEF Waiting
  <2>2. PICK q \in 1..Len(w[x].ents) : w[x].ents[q] = h
    BY <2>1
  <2>3. q \in Nat /\ q >= 1 /\ q <= Len(w[x].ents) /\ k \in Nat /\ h \in Handles
    BY <1>2, <1>4, <1>10 DEF Waiting
  <2>4. CASE x = 1 /\ q <= k
    <3>1. q \in 1..k /\ hs[q] = h
      BY <1>5, <2>2, <2>3, <2>4
    <3> QED BY <1>5, <3>1 DEF Range
  <2>5. CASE ~(x = 1 /\ q <= k)
    <3>1. PICK i \in 1..Len(w2) : at[i] = x
      <4>1. (\E j \in 1..Len(w2) : at[j] = x) \/ (x = 1 /\ k = Len(w[1].ents))
        BY <1>1
      <4>2. ~(x = 1 /\ k = Len(w[1].ents))
        BY <2>3, <2>5
      <4> QED BY <4>1, <4>2
    <3>2. off[i] = (IF x = 1 THEN k ELSE 0) /\ off[i] \in Nat
      BY <1>1, <3>1
    <3>3. q > off[i]
      BY <2>3, <2>5, <3>2
    <3>4. q - off[i] \in 1..Len(w2[i].ents)
      BY <1>1, <3>1, <3>3
    <3>5. w2[i].ents[q - off[i]] = w[x].ents[(q - off[i]) + off[i]]
      BY <1>1, <3>1, <3>4
    <3>6. (q - off[i]) + off[i] = q
      BY <2>3, <3>2
    <3>7. w2[i].ents[q - off[i]] = h
      BY <2>2, <3>5, <3>6
    <3> QED BY <1>2, <1>4, <2>3, <3>4, <3>7 DEF Waiting
  <2> QED BY <2>4, <2>5
<1>11. ASSUME NEW h \in Waiting(w2) PROVE h \in Waiting(w)
  <2>1. PICK i \in 1..Len(w2) : \E p \in 1..Len(w2[i].ents) : w2[i].ents[p] = h
    BY <1>2, <1>4, <1>11 DEF Waiting
  <2>2. h \in Handles
    BY <1>11 DEF Waiting
  <2>3. PICK p \in 1..Len(w2[i].ents) : w2[i].ents[p] = h
    BY <2>1
  <2>4. at[i] \in DOMAIN w /\ p + off[i] \in DOMAIN w[at[i]].ents /\ w[at[i]].ents[p + off[i]] = h
    BY <1>2, <1>4, <1>8, <2>3
  <2> QED BY <2>2, <2>4, Zenon DEF Waiting
<1>12. ASSUME NEW h \in Range(hs) PROVE h \in Waiting(w)
  <2>1. PICK j \in 1..k : hs[j] = h
    BY <1>5, <1>12 DEF Range
  <2>2. j \in 1..Len(w[1].ents) /\ w[1].ents[j] = h /\ h \in Handles
    BY <1>5, <1>6, <2>1
  <2> QED BY <1>2, <1>4, <2>2 DEF Waiting
<1>13. Waiting(w) = Waiting(w2) \cup Range(hs)
  BY <1>10, <1>11, <1>12
<1>14. Others(w, w2, hs)
  <2> SUFFICES ASSUME NEW i \in DOMAIN w2, NEW p \in DOMAIN w2[i].ents
               PROVE  /\ \E x \in DOMAIN w : \E y \in DOMAIN w[x].ents : w[x].ents[y] = w2[i].ents[p]
                      /\ \A j \in 1..Len(hs) : hs[j].id # w2[i].ents[p].id
    BY Zenon DEF Others
  <2>1. i \in 1..Len(w2) /\ p \in 1..Len(w2[i].ents)
    BY <1>2, <1>4
  <2>2. at[i] \in DOMAIN w /\ p + off[i] \in DOMAIN w[at[i]].ents
    BY <1>2, <1>4, <1>8, <2>1
  <2>3. w[at[i]].ents[p + off[i]] = w2[i].ents[p] /\ \A j \in 1..k : hs[j].id # w2[i].ents[p].id
    BY <1>8, <2>1
  <2>4. Len(hs) = k
    BY <1>5
  <2> QED BY <2>2, <2>3, <2>4, Zenon
<1> QED BY <1>5, <1>9, <1>13, <1>14 DEF Divided

\* What is left of the batches w.
Left(w, k) == IF k = w[1].n THEN Tail(w) ELSE <<Rest(w[1], k)>> \o Tail(w)

\* The job after a view.
LEMMA ContinuedFacts ==
    ASSUME job \in JobRec, job.work # <<>>, NEW k, Left(job.work, k) \in Seq(Batches)
    PROVE  /\ Continued(k) \in JobRec /\ Continued(k).work = Left(job.work, k)
           /\ Continued(k).kind = IF Left(job.work, k) = <<>> THEN "idle" ELSE job.kind
<1> DEFINE w2 == Left(job.work, k)
<1>1. job.work \in Seq(Batches) /\ Head(job.work) = job.work[1] /\ job.kind # "cast"
  BY DEF JobRec
<1>2. Continued(k) = IF w2 = <<>> THEN Idle ELSE [job EXCEPT !.work = w2]
  BY <1>1 DEF Continued, Left
<1>3. w2 \in Seq(Batches)
  OBVIOUS
<1> HIDE DEF w2
<1>4. Idle \in JobRec /\ Idle.work = <<>> /\ Idle.kind = "idle"
  BY DEF Idle, JobRec
<1>5. LET j == [job EXCEPT !.work = w2] IN j \in JobRec /\ j.work = w2 /\ j.kind = job.kind
  BY <1>3 DEF JobRec
<1>6. CASE w2 = <<>>
  BY <1>2, <1>4, <1>6 DEF w2
<1>7. CASE w2 # <<>>
  BY <1>2, <1>5, <1>7 DEF w2
<1> QED BY <1>6, <1>7

\* Handles that are left have entries, and no slots.
LEMMA UnplacedRest ==
    ASSUME NEW w \in Seq(Batches), NEW w2 \in Seq(Batches), NEW kind, NEW m, NEW r, NEW es \in Seq(Entries),
           NEW ps, NEW c, NEW a, NEW hs \in Seq(Handles),
           Unplaced(w, m, es, kind), IsPlaced(es, ps, c, a, hs), Stored(r) = Stored(m) \cup Range(hs),
           Others(w, w2, hs)
    PROVE  Unplaced(w2, r, ps, kind)
<1> SUFFICES ASSUME NEW i \in DOMAIN w2, NEW p \in DOMAIN w2[i].ents
             PROVE  /\ w2[i].ents[p].id \in DOMAIN ps
                    /\ \A k \in Stored(r) : k.id # w2[i].ents[p].id
                    /\ kind = "prefab" => ps[w2[i].ents[p].id].version = w2[i].ents[p].version
  BY Zenon DEF Unplaced
<1> DEFINE h == w2[i].ents[p]
<1>1. PICK x \in DOMAIN w : \E y \in DOMAIN w[x].ents : w[x].ents[y] = h
  BY DEF Others
<1>2. PICK y \in DOMAIN w[x].ents : w[x].ents[y] = h
  BY <1>1
<1>3. \A j \in 1..Len(hs) : hs[j].id # h.id
  BY DEF Others
<1> HIDE DEF h
<1>4. /\ h.id \in DOMAIN es /\ \A k \in Stored(m) : k.id # h.id
      /\ kind = "prefab" => es[h.id].version = h.version
  BY <1>2, Zenon DEF Unplaced
<1>5. DOMAIN es = 1..Len(es) /\ DOMAIN ps = 1..Len(es) /\ Len(ps) = Len(es)
  BY DEF IsPlaced
<1>6. h.id \in DOMAIN ps /\ ps[h.id] = es[h.id]
  BY <1>3, <1>4, <1>5 DEF IsPlaced
<1>7. DOMAIN hs = 1..Len(hs)
  OBVIOUS
<1>8. \A k \in Range(hs) : k.id # h.id
  BY <1>3, <1>7 DEF Range
<1>9. \A k \in Stored(r) : k.id # h.id
  BY <1>4, <1>8
<1>10. kind = "prefab" => ps[h.id].version = h.version
  BY <1>4, <1>6
<1> QED BY <1>6, <1>9, <1>10 DEF h

\* The size of a view.
LEMMA ViewSize ==
    ASSUME NEW m, NEW g \in Group, NEW c \in Chunk, NEW n \in Nat \ {0}, NEW strict \in BOOLEAN,
           IsView(m, g, c, n, strict)
    PROVE  (IF strict \/ Room(m, c) > n THEN n ELSE Room(m, c)) \in 1..n
<1>1. m \in Mem /\ m.chunks[c].pt \in PoolType /\ Room(m, c) > 0
  BY DEF IsView
<1>2. Room(m, c) \in Int
  BY <1>1, RoomType
<1> QED BY <1>1, <1>2

\* A step that fills a view: the memory m with the chunk c of the view, the
\* number k of its entities, and their handles.
Fills(m, c, k, hs) ==
    LET b == job.work[1]
        strict == job.kind \in {"single", "load"}
    IN  /\ IsView(m, b.group, c, b.n, strict)
        /\ k = IF strict \/ Room(m, c) > b.n THEN b.n ELSE Room(m, c)
        /\ hs = IF b.ents = <<>> THEN NewHandles(k) ELSE SubSeq(b.ents, 1, k)
        /\ mem' = ResizeChunk(m, b.group, c, hs)
        /\ entries' = Placed(IF b.ents = <<>> THEN EntriesGrown(k) ELSE entries, c, Count(mem, c), hs)
        /\ freeEntries' = IF b.ents = <<>> THEN FreeCut(k) ELSE freeEntries
        /\ live' = live \cup Range(hs)
        /\ job' = Continued(k)

LEMMA FillChunk ==
    ASSUME IInv, FillView
    PROVE  /\ job.work \in Seq(Batches) /\ job.work # <<>> /\ job.work[1] \in Batches
           /\ \E c \in Chunk : \E m, k, hs : Fills(m, c, k, hs)
<1> DEFINE b == job.work[1]
           g == b.group
           n == b.n
           strict == job.kind \in {"single", "load"}
           found == IF strict THEN StrictFit(g, n) ELSE mem.groups[g].firstFree
<1>1. JobInv(job, entries) /\ MemInv(mem, entries)
  BY DEF IInv, StateInv
<1>2. job \in JobRec /\ job.work \in Seq(Batches) /\ job.work # <<>>
  BY <1>1 DEF JobInv, JobRec, FillView
<1>3. b = Head(job.work) /\ b \in Batches /\ 1 \in DOMAIN job.work
  BY <1>2
<1>4. g \in Group /\ n \in Nat \ {0}
  BY <1>3 DEF Batches
<1>5. PICK c \in Candidates(found) :
             LET m == WithChunk(g, n, found, c)
                 k == IF strict \/ Room(m, c) > n THEN n ELSE Room(m, c)
                 hs == IF b.ents = <<>> THEN NewHandles(k) ELSE SubSeq(b.ents, 1, k)
             IN  /\ mem' = ResizeChunk(m, g, c, hs)
                 /\ entries' = Placed(IF b.ents = <<>> THEN EntriesGrown(k) ELSE entries,
                                      c, Count(m, c), hs)
                 /\ freeEntries' = IF b.ents = <<>> THEN FreeCut(k) ELSE freeEntries
                 /\ live' = live \cup Range(hs)
                 /\ job' = Continued(k)
  <2>1. b = Head(job.work)
    BY <1>3
  <2> HIDE DEF b
  <2> QED BY <2>1, ZenonT(60) DEF FillView
<1> DEFINE m == WithChunk(g, n, found, c)
           k == IF strict \/ Room(m, c) > n THEN n ELSE Room(m, c)
           hs == IF b.ents = <<>> THEN NewHandles(k) ELSE SubSeq(b.ents, 1, k)
<1>6. strict => n = 1 \/ \E q \in PoolType : Fitting(n, q)
  BY <1>1, <1>3 DEF JobInv
<1>7. c \in Chunk /\ IsView(m, g, c, n, strict)
  <2>1. CASE found # NoChunk
    <3>1. c = found /\ m = mem
      BY <2>1 DEF Candidates, WithChunk
    <3>2. c \in Chunk /\ IsView(mem, g, c, n, strict)
      <4> DEFINE st == strict
      <4>1. st \in BOOLEAN /\ c = (IF st THEN StrictFit(g, n) ELSE mem.groups[g].firstFree) /\ c # NoChunk
        BY <2>1, <3>1
      <4> HIDE DEF g, n, st
      <4>2. c \in Chunk /\ IsView(mem, g, c, n, st)
        BY <1>1, <1>4, <4>1, FoundView
      <4> QED BY <4>2 DEF st
    <3> QED BY <3>1, <3>2
  <2>2. CASE found = NoChunk
    <3>1. c \in Chunk \ Created /\ m = WithChunk(g, n, NoChunk, c)
      BY <2>2 DEF Candidates
    <3>2. IsView(WithChunk(g, n, NoChunk, c), g, c, n, strict)
      <4> DEFINE st == strict
      <4>1. st \in BOOLEAN /\ (st => n = 1 \/ \E q \in PoolType : Fitting(n, q))
        BY <1>6
      <4> HIDE DEF g, n, st
      <4>2. IsView(WithChunk(g, n, NoChunk, c), g, c, n, st)
        BY <1>1, <1>4, <3>1, <4>1, NewView
      <4> QED BY <4>2 DEF st
    <3> QED BY <3>1, <3>2
  <2> QED BY <2>1, <2>2
<1>8. Count(m, c) = Count(mem, c)
  <2> HIDE DEF m
  <2> QED BY <1>7 DEF IsView, Count
<1>9. /\ mem' = ResizeChunk(m, g, c, hs)
      /\ entries' = Placed(IF b.ents = <<>> THEN EntriesGrown(k) ELSE entries, c, Count(m, c), hs)
      /\ freeEntries' = IF b.ents = <<>> THEN FreeCut(k) ELSE freeEntries
      /\ live' = live \cup Range(hs)
      /\ job' = Continued(k)
  BY <1>5, Zenon
<1>10. Fills(m, c, k, hs)
  <2>1. k = IF strict \/ Room(m, c) > n THEN n ELSE Room(m, c)
    OBVIOUS
  <2>2. hs = IF b.ents = <<>> THEN NewHandles(k) ELSE SubSeq(b.ents, 1, k)
    OBVIOUS
  <2> HIDE DEF m, k, hs
  <2> QED BY <1>7, <1>8, <1>9, <2>1, <2>2, Zenon DEF Fills
<1> HIDE DEF m, k, hs
<1>11. \E x, y, z : Fills(x, c, y, z)
  BY <1>10, Zenon
<1> QED BY <1>2, <1>3, <1>7, <1>11, Zenon

\* The entities of a slot have entries.
LEMMA StoredIds ==
    ASSUME NEW m \in Mem, NEW es, GoodSlots(m, es), NEW h \in Stored(m)
    PROVE  h.id \in DOMAIN es
<1>1. PICK c \in Chunk : \E i \in DOMAIN m.chunks[c].ents : m.chunks[c].ents[i] = h
  BY DEF Stored
<1> QED BY <1>1 DEF GoodSlots, Leads

\* The memory and the registry once a view is filled.
LEMMA FillMem ==
    ASSUME IInv, job.work[1] \in Batches, NEW c \in Chunk, NEW m, NEW k, NEW hs, Fills(m, c, k, hs),
           hs \in Seq(Handles), Len(hs) = k,
           NEW es, es = (IF job.work[1].ents = <<>> THEN EntriesGrown(k) ELSE entries),
           es \in Seq(Entries), MoreEntries(entries, es), HaveEntries(es, hs),
           job.kind # "load" => SameVersions(es, hs), NoSlots(mem, hs)
    PROVE  /\ MemInv(mem', entries') /\ Stored(mem') = Stored(mem) \cup Range(hs)
           /\ entries' \in Seq(Entries) /\ Len(entries') = Len(es)
           /\ IsPlaced(es, entries', c, Count(mem, c), hs)
<1> DEFINE b == job.work[1]
           g == b.group
           n == b.n
           strict == job.kind \in {"single", "load"}
           a == Count(mem, c)
<1>1. MemInv(mem, entries) /\ mem \in Mem /\ GoodSlots(mem, entries) /\ entries \in Seq(Entries)
  BY DEF IInv, StateInv, MemInv, RegistryInv
<1>2. g \in Group /\ n \in Nat \ {0} /\ strict \in BOOLEAN /\ a \in Nat
  <2>1. a \in Nat
    BY <1>1 DEF Mem, ChunkRec, Count
  <2> QED BY <2>1 DEF Batches
<1>3. /\ IsView(m, g, c, n, strict) /\ k = IF strict \/ Room(m, c) > n THEN n ELSE Room(m, c)
      /\ mem' = ResizeChunk(m, g, c, hs) /\ entries' = Placed(es, c, a, hs)
  BY DEF Fills
<1> HIDE DEF g, n, strict, a
<1>4. LET r == ResizeChunk(m, g, c, hs)
      IN  r \in Mem /\ Lists(r) /\ GoodChunks(r) /\ GoodCounts(r) /\ EntsFilled(mem, r, c, hs)
  BY <1>1, <1>2, <1>3, FilledFacts
<1> DEFINE r == ResizeChunk(m, g, c, hs)
           ps == Placed(es, c, a, hs)
<1>5. IsPlaced(es, ps, c, a, hs)
  BY <1>2, PlacedFacts
<1> HIDE DEF r, ps
<1>6. r \in Mem /\ Lists(r) /\ GoodChunks(r) /\ GoodCounts(r) /\ EntsFilled(mem, r, c, hs)
  BY <1>4 DEF r
<1>7. GoodSlots(r, ps) /\ Stored(r) = Stored(mem) \cup Range(hs)
  <2>1. /\ mem \in Mem /\ es \in Seq(Entries) /\ entries \in Seq(Entries) /\ hs \in Seq(Handles)
        /\ GoodSlots(mem, entries) /\ MoreEntries(entries, es) /\ EntsFilled(mem, r, c, hs)
        /\ IsPlaced(es, ps, c, Count(mem, c), hs) /\ NoSlots(mem, hs)
        /\ c \in Chunk
    BY <1>1, <1>5, <1>6 DEF a
  <2>2. Gained(mem, r, ps, hs)
    BY <2>1, SlotsFilled
  <2> QED BY <2>2 DEF Gained
<1>8. MemInv(r, ps)
  BY <1>6, <1>7 DEF MemInv
<1>9. ps \in Seq(Entries) /\ Len(ps) = Len(es)
  BY <1>5 DEF IsPlaced
<1>10. mem' = r /\ entries' = ps
  BY <1>3 DEF r, ps
<1> QED BY <1>5, <1>7, <1>8, <1>9, <1>10 DEF a

\* A view for new entities.
LEMMA FillFresh ==
    ASSUME IInv, FillView, job.kind \in {"fresh", "single"}
    PROVE  IInv'
<1> DEFINE b == job.work[1]
           w2(k) == Left(job.work, k)
<1>1. /\ job.work \in Seq(Batches) /\ job.work # <<>> /\ b \in Batches
      /\ \E c \in Chunk : \E m, k, hs : Fills(m, c, k, hs)
  BY FillChunk
<1>2. PICK c \in Chunk : \E m, k, hs : Fills(m, c, k, hs)
  BY <1>1
<1>3. PICK m, k, hs : Fills(m, c, k, hs)
  BY <1>2
<1>4. /\ JobInv(job, entries) /\ job \in JobRec /\ MemInv(mem, entries) /\ GoodSlots(mem, entries) /\ mem \in Mem
      /\ entries \in Seq(Entries) /\ Len(entries) <= MaxEntries /\ freeEntries = <<>> /\ live = Stored(mem)
  BY DEF IInv, StateInv, MemInv, RegistryInv, LiveInv, JobInv
<1>5. /\ Len(job.work) = 1 /\ b.ents = <<>> /\ Len(entries) + b.n <= MaxEntries
      /\ job.kind = "single" => b.n = 1
  BY <1>4 DEF JobInv
<1>6. b.n \in Nat \ {0} /\ b.group \in Group /\ Len(entries) \in Nat /\ MaxEntries \in Nat
  BY <1>1, <1>4, StorageAssumption DEF Batches
<1>7. k \in 1..b.n
  <2> DEFINE st == job.kind \in {"single", "load"}
  <2>1. IsView(m, b.group, c, b.n, st) /\ k = (IF st \/ Room(m, c) > b.n THEN b.n ELSE Room(m, c)) /\ st \in BOOLEAN
    BY <1>3 DEF Fills
  <2> HIDE DEF st
  <2>2. (IF st \/ Room(m, c) > b.n THEN b.n ELSE Room(m, c)) \in 1..b.n
    BY <1>6, <2>1, ViewSize
  <2> QED BY <2>1, <2>2
<1>8. /\ k \in Nat /\ FreeCut(k) = <<>>
      /\ EntriesGrown(k) \in Seq(Entries) /\ Len(EntriesGrown(k)) = Len(entries) + k
      /\ \A id \in 1..Len(entries) : EntriesGrown(k)[id] = entries[id]
      /\ NewHandles(k) \in Seq(Handles) /\ Len(NewHandles(k)) = k
      /\ \A j \in 1..k : NewHandles(k)[j].id = Len(entries) + j
      /\ \A j \in 1..k : NewHandles(k)[j].version = EntriesGrown(k)[Len(entries) + j].version
  <2>1. k \in Nat
    BY <1>6, <1>7
  <2> QED BY <1>4, <2>1, NewFacts
<1>9. hs = NewHandles(k) /\ freeEntries' = <<>> /\ live' = live \cup Range(hs) /\ job' = Continued(k)
  BY <1>3, <1>5, <1>8 DEF Fills
<1> DEFINE es == EntriesGrown(k)
<1>10. es = IF b.ents = <<>> THEN EntriesGrown(k) ELSE entries
  BY <1>5
<1> HIDE DEF es
<1>11. /\ es \in Seq(Entries) /\ Len(es) = Len(entries) + k /\ MoreEntries(entries, es)
       /\ hs \in Seq(Handles) /\ Len(hs) = k
       /\ \A j \in 1..k : hs[j].id = Len(entries) + j
       /\ \A j \in 1..k : hs[j].version = es[hs[j].id].version
  <2>1. /\ es \in Seq(Entries) /\ Len(es) = Len(entries) + k /\ MoreEntries(entries, es)
    BY <1>6, <1>8 DEF es, MoreEntries
  <2>2. /\ hs \in Seq(Handles) /\ Len(hs) = k
        /\ \A j \in 1..k : hs[j].id = Len(entries) + j
        /\ \A j \in 1..k : hs[j].version = es[Len(entries) + j].version
    BY <1>8, <1>9 DEF es
  <2> QED BY <2>1, <2>2
<1>12. HaveEntries(es, hs)
  <2>1. ASSUME NEW i \in 1..k, NEW j \in 1..k, hs[i].id = hs[j].id PROVE i = j
    <3>1. Len(entries) + i = Len(entries) + j
      BY <1>11, <2>1
    <3> QED BY <1>6, <1>8, <3>1
  <2>2. \A j \in 1..k : hs[j].id \in 1..(Len(entries) + k)
    BY <1>6, <1>8, <1>11
  <2> QED BY <1>11, <2>1, <2>2 DEF HaveEntries
<1>13. NoSlots(mem, hs)
  <2> SUFFICES ASSUME NEW h \in Stored(mem), NEW j \in 1..k PROVE hs[j].id # h.id
    BY <1>11 DEF NoSlots
  <2>1. h.id \in DOMAIN entries
    BY <1>4, StoredIds
  <2>2. h.id \in 1..Len(entries)
    BY <1>4, <2>1
  <2>3. hs[j].id = Len(entries) + j
    BY <1>11
  <2> QED BY <1>6, <1>8, <2>2, <2>3
<1>14. /\ MemInv(mem', entries') /\ Stored(mem') = Stored(mem) \cup Range(hs)
       /\ entries' \in Seq(Entries) /\ Len(entries') = Len(es)
  <2>1. job.kind # "load" => SameVersions(es, hs)
    BY <1>11 DEF SameVersions
  <2> QED BY <1>1, <1>3, <1>10, <1>11, <1>12, <1>13, <2>1, FillMem
<1>15. RegistryInv(entries', freeEntries')
  <2>1. Len(entries') <= MaxEntries
    BY <1>5, <1>6, <1>7, <1>11, <1>14
  <2> QED BY <1>9, <1>14, <2>1 DEF RegistryInv
<1>16. Tail(job.work) = <<>>
  <2> DEFINE w == job.work
  <2>1. w \in Seq(Batches) /\ Len(w) = 1
    BY <1>1, <1>5
  <2> HIDE DEF w
  <2>2. Tail(w) \in Seq(Batches) /\ Len(Tail(w)) = 0
    BY <2>1
  <2>3. \A s \in Seq(Batches) : Len(s) = 0 => s = <<>>
    OBVIOUS
  <2> QED BY <2>2, <2>3 DEF w
<1>17. CASE k = b.n
  <2>1. Left(job.work, k) = <<>> /\ <<>> \in Seq(Batches)
    BY <1>16, <1>17 DEF Left
  <2>2. job' \in JobRec /\ job'.work = <<>> /\ job'.kind = "idle"
    BY <1>1, <1>4, <1>9, <2>1, ContinuedFacts
  <2>3. JobInv(job', entries')
    BY <2>2 DEF JobInv
  <2>4. Distinct(job'.work) /\ Unplaced(job'.work, mem', entries', job'.kind)
    BY <2>2 DEF Distinct, Unplaced
  <2>5. LiveInv(live', mem', job')
    BY <1>4, <1>9, <1>14, <2>2 DEF LiveInv
  <2> QED BY <1>14, <1>15, <2>3, <2>4, <2>5 DEF IInv, StateInv
<1>18. CASE k # b.n
  <2> DEFINE e == Rest(b, k)
  <2>1. e \in Batches /\ e.n = b.n - k /\ e.ents = <<>>
    <3>1. e = [b EXCEPT !.n = b.n - k]
      BY <1>1, <1>5 DEF Rest, Batches
    <3>2. b.n - k \in Nat \ {0}
      BY <1>6, <1>7, <1>18
    <3> QED BY <1>1, <1>5, <3>1, <3>2 DEF Batches
  <2> HIDE DEF e
  <2>2. Left(job.work, k) = <<e>>
    <3>1. <<e>> \o <<>> = <<e>>
      BY <2>1
    <3> QED BY <1>16, <1>18, <3>1 DEF Left, e
  <2>3. <<e>> \in Seq(Batches) /\ <<e>> # <<>> /\ Len(<<e>>) = 1 /\ <<e>>[1] = e /\ DOMAIN <<e>> = {1}
    BY <2>1
  <2>4. job' \in JobRec /\ job'.work = <<e>> /\ job'.kind = job.kind
    BY <1>1, <1>4, <1>9, <2>2, <2>3, ContinuedFacts
  <2>5. job.kind = "fresh"
    BY <1>5, <1>7, <1>18
  <2>6. Len(entries') + e.n <= MaxEntries
    BY <1>5, <1>6, <1>7, <1>11, <1>14, <2>1
  <2>7. JobInv(job', entries')
    BY <2>1, <2>3, <2>4, <2>5, <2>6 DEF JobInv
  <2>8. \A i \in DOMAIN job'.work : DOMAIN job'.work[i].ents = {}
    BY <2>1, <2>3, <2>4
  <2>9. Distinct(job'.work) /\ Unplaced(job'.work, mem', entries', job'.kind)
    BY <2>8 DEF Distinct, Unplaced
  <2>10. LiveInv(live', mem', job')
    BY <1>4, <1>9, <1>14, <2>4, <2>5 DEF LiveInv
  <2> QED BY <1>14, <1>15, <2>7, <2>9, <2>10 DEF IInv, StateInv
<1> QED BY <1>17, <1>18

\* What is left of batches of handles.
LEMMA LeftFacts ==
    ASSUME NEW w \in Seq(Batches), w # <<>>, \A i \in DOMAIN w : w[i].n = Len(w[i].ents), NEW k \in 1..w[1].n
    PROVE  /\ Left(w, k) \in Seq(Batches) /\ Remains(w, Left(w, k), k)
           /\ \A i \in DOMAIN Left(w, k) : Left(w, k)[i].n = Len(Left(w, k)[i].ents)
           /\ k = w[1].n => \A i \in DOMAIN Left(w, k) : i + 1 \in DOMAIN w /\ Left(w, k)[i] = w[i + 1]
<1>1. /\ Len(w) \in Nat \ {0} /\ DOMAIN w = 1..Len(w) /\ 1 \in DOMAIN w /\ w[1] \in Batches
      /\ Tail(w) \in Seq(Batches) /\ DOMAIN Tail(w) = 1..(Len(w) - 1)
      /\ \A i \in 1..(Len(w) - 1) : Tail(w)[i] = w[i + 1]
  OBVIOUS
<1>2. w[1].n \in Nat /\ w[1].n = Len(w[1].ents)
  BY <1>1 DEF Batches
<1>3. CASE k = w[1].n
  <2>1. Left(w, k) = Tail(w)
    BY <1>3 DEF Left
  <2>2. Remains(w, Tail(w), k)
    BY <1>2, <1>3, RemainsTail
  <2>3. \A i \in DOMAIN Tail(w) : i + 1 \in DOMAIN w /\ Tail(w)[i] = w[i + 1]
    BY <1>1
  <2> QED BY <1>1, <2>1, <2>2, <2>3
<1>4. CASE k # w[1].n
  <2> DEFINE w2 == <<Rest(w[1], k)>> \o Tail(w)
  <2>1. Left(w, k) = w2
    BY <1>4 DEF Left
  <2>2. k \in 1..(w[1].n - 1) /\ k \in Nat /\ k >= 1 /\ k < w[1].n
    BY <1>2, <1>4
  <2>3. /\ Remains(w, w2, k) /\ w2 \in Seq(Batches) /\ Len(w2) = Len(w) /\ w2[1] = Rest(w[1], k)
        /\ \A i \in 2..Len(w) : w2[i] = w[i]
    BY <1>2, <2>2, RemainsRest
  <2>4. Rest(w[1], k).n = Len(Rest(w[1], k).ents)
    BY <1>1, <1>2, <2>2, RestFacts
  <2> HIDE DEF w2
  <2>5. ASSUME NEW i \in 1..Len(w) PROVE w2[i].n = Len(w2[i].ents)
    <3>1. CASE i = 1
      BY <2>3, <2>4, <3>1
    <3>2. CASE i # 1
      <4>1. i \in 2..Len(w)
        BY <1>1, <3>2
      <4> QED BY <1>1, <2>3, <4>1
    <3> QED BY <3>1, <3>2
  <2>6. DOMAIN w2 = 1..Len(w)
    BY <2>3
  <2> QED BY <1>4, <2>1, <2>3, <2>5, <2>6
<1> QED BY <1>3, <1>4

\* A view for entities that have their handles.
LEMMA FillGiven ==
    ASSUME IInv, FillView, job.kind \in {"prefab", "load"}
    PROVE  IInv'
<1> DEFINE w == job.work
           b == w[1]
<1>1. /\ w \in Seq(Batches) /\ w # <<>> /\ b \in Batches
      /\ \E c \in Chunk : \E m, k, hs : Fills(m, c, k, hs)
  BY FillChunk
<1>2. PICK c \in Chunk : \E m, k, hs : Fills(m, c, k, hs)
  BY <1>1
<1>3. PICK m, k, hs : Fills(m, c, k, hs)
  BY <1>2
<1>4. /\ JobInv(job, entries) /\ job \in JobRec /\ MemInv(mem, entries) /\ LiveInv(live, mem, job)
      /\ entries \in Seq(Entries) /\ Len(entries) <= MaxEntries /\ freeEntries = <<>>
      /\ Distinct(w) /\ Unplaced(w, mem, entries, job.kind)
  BY DEF IInv, StateInv, MemInv, RegistryInv, JobInv
<1>5. /\ \A i \in DOMAIN w : w[i].n = Len(w[i].ents)
      /\ job.kind = "load" => \A i \in DOMAIN w : \E pt \in PoolType : Fitting(w[i].n, pt)
  BY <1>4 DEF JobInv
<1>6. /\ b.n \in Nat \ {0} /\ b.group \in Group /\ Len(entries) \in Nat /\ DOMAIN entries = 1..Len(entries)
      /\ 1 \in DOMAIN w /\ b.n = Len(b.ents) /\ b.ents \in Seq(Handles) /\ b.ents # <<>>
  <2>1. b.n \in Nat \ {0} /\ b.group \in Group /\ b.ents \in Seq(Handles)
    BY <1>1 DEF Batches
  <2>2. 1 \in DOMAIN w
    BY <1>1
  <2>3. b.n = Len(b.ents)
    BY <1>5, <2>2
  <2>4. b.ents # <<>>
    BY <2>1, <2>3
  <2> QED BY <1>4, <2>1, <2>2, <2>3, <2>4
<1>7. k \in 1..b.n /\ (job.kind = "load" => k = b.n)
  <2> DEFINE st == job.kind \in {"single", "load"}
  <2>1. IsView(m, b.group, c, b.n, st) /\ k = (IF st \/ Room(m, c) > b.n THEN b.n ELSE Room(m, c)) /\ st \in BOOLEAN
    BY <1>3 DEF Fills
  <2>2. job.kind = "load" => st
    OBVIOUS
  <2> HIDE DEF st
  <2>3. (IF st \/ Room(m, c) > b.n THEN b.n ELSE Room(m, c)) \in 1..b.n
    BY <1>6, <2>1, ViewSize
  <2> QED BY <2>1, <2>2, <2>3
<1> DEFINE w2 == Left(w, k)
<1>8. /\ w2 \in Seq(Batches) /\ Remains(w, w2, k)
      /\ \A i \in DOMAIN w2 : w2[i].n = Len(w2[i].ents)
      /\ k = b.n => \A i \in DOMAIN w2 : i + 1 \in DOMAIN w /\ w2[i] = w[i + 1]
  <2>1. k \in 1..w[1].n
    BY <1>7
  <2> HIDE DEF w
  <2> QED BY <1>1, <1>5, <2>1, LeftFacts
<1>9. /\ hs = SubSeq(b.ents, 1, k) /\ freeEntries' = <<>> /\ live' = live \cup Range(hs) /\ job' = Continued(k)
      /\ entries = IF b.ents = <<>> THEN EntriesGrown(k) ELSE entries
  BY <1>3, <1>4, <1>6 DEF Fills
<1> HIDE DEF w2
<1>10. /\ hs \in Seq(Handles) /\ Len(hs) = k /\ \A j \in 1..k : hs[j] = b.ents[j]
       /\ Distinct(w2) /\ Waiting(w) = Waiting(w2) \cup Range(hs)
       /\ Others(w, w2, hs)
  <2>1. k \in 1..Len(w[1].ents) /\ hs = SubSeq(w[1].ents, 1, k)
    BY <1>6, <1>7, <1>9
  <2> HIDE DEF w
  <2>2. Divided(w, w2, k, hs)
    BY <1>1, <1>4, <1>8, <2>1, RemainsFacts
  <2> QED BY <2>2 DEF Divided
<1>11. \A j \in 1..k : j \in DOMAIN b.ents
  BY <1>6, <1>7
<1>12. HaveEntries(entries, hs)
  <2>1. ASSUME NEW i \in 1..k, NEW j \in 1..k, hs[i].id = hs[j].id PROVE i = j
    <3>1. w[1].ents[i].id = w[1].ents[j].id /\ i \in DOMAIN w[1].ents /\ j \in DOMAIN w[1].ents
      BY <1>10, <1>11, <2>1
    <3> HIDE DEF w
    <3> QED BY <1>4, <1>6, <3>1, Zenon DEF Distinct
  <2>2. ASSUME NEW j \in 1..k PROVE hs[j].id \in 1..Len(entries)
    <3>1. w[1].ents[j].id \in DOMAIN entries
      BY <1>4, <1>6, <1>11, Zenon DEF Unplaced
    <3> QED BY <1>6, <1>10, <3>1
  <2> QED BY <1>10, <2>1, <2>2 DEF HaveEntries
<1>13. NoSlots(mem, hs)
  <2> SUFFICES ASSUME NEW h \in Stored(mem), NEW j \in 1..k PROVE hs[j].id # h.id
    BY <1>10 DEF NoSlots
  <2>1. h.id # w[1].ents[j].id
    BY <1>4, <1>6, <1>11, Zenon DEF Unplaced
  <2> QED BY <1>10, <2>1
<1>14. job.kind # "load" => SameVersions(entries, hs)
  <2> SUFFICES ASSUME job.kind = "prefab", NEW j \in 1..k PROVE entries[hs[j].id].version = hs[j].version
    BY <1>10 DEF SameVersions
  <2>1. entries[w[1].ents[j].id].version = w[1].ents[j].version
    BY <1>4, <1>6, <1>11, Zenon DEF Unplaced
  <2> QED BY <1>10, <2>1
<1>15. /\ MemInv(mem', entries') /\ Stored(mem') = Stored(mem) \cup Range(hs)
       /\ entries' \in Seq(Entries) /\ Len(entries') = Len(entries)
       /\ IsPlaced(entries, entries', c, Count(mem, c), hs)
  <2>1. MoreEntries(entries, entries)
    BY <1>6 DEF MoreEntries
  <2>2. job.work[1] \in Batches /\ entries = IF job.work[1].ents = <<>> THEN EntriesGrown(k) ELSE entries
    BY <1>1, <1>9
  <2> HIDE DEF w
  <2> QED BY <1>3, <1>4, <1>10, <1>12, <1>13, <1>14, <2>1, <2>2, FillMem
<1>16. RegistryInv(entries', freeEntries')
  BY <1>4, <1>9, <1>15 DEF RegistryInv
<1>17. job' \in JobRec /\ job'.work = w2 /\ job'.kind = IF w2 = <<>> THEN "idle" ELSE job.kind
  BY <1>1, <1>4, <1>8, <1>9, ContinuedFacts DEF w2
<1> HIDE DEF w
<1>18. Unplaced(w2, mem', entries', job.kind)
  BY <1>1, <1>4, <1>8, <1>10, <1>15, UnplacedRest
<1>19. Unplaced(job'.work, mem', entries', job'.kind)
  BY <1>17, <1>18 DEF Unplaced
<1>20. Distinct(job'.work)
  BY <1>10, <1>17
<1>21. LiveInv(live', mem', job')
  <2>1. live = Stored(mem) \cup (IF job.kind = "load" THEN Waiting(w) ELSE {})
    BY <1>4 DEF LiveInv, w
  <2>2. w2 = <<>> => Waiting(w2) = {}
    BY DEF Waiting
  <2>3. live' = Stored(mem') \cup (IF job.kind = "load" THEN Waiting(w2) ELSE {})
    BY <1>9, <1>10, <1>15, <2>1
  <2> QED BY <1>17, <2>2, <2>3 DEF LiveInv
<1>22. JobInv(job', entries')
  <2>1. job'.kind = "load" => \A i \in DOMAIN w2 : \E pt \in PoolType : Fitting(w2[i].n, pt)
    <3> SUFFICES ASSUME job.kind = "load", NEW i \in DOMAIN w2 PROVE \E pt \in PoolType : Fitting(w2[i].n, pt)
      BY <1>17
    <3>1. i + 1 \in DOMAIN w /\ w2[i] = w[i + 1]
      BY <1>7, <1>8
    <3> QED BY <1>5, <3>1
  <2>2. job'.kind = "idle" <=> job'.work = <<>>
    BY <1>17
  <2>3. job'.kind \notin {"fresh", "single"}
    BY <1>17
  <2> QED BY <1>8, <1>17, <2>1, <2>2, <2>3 DEF JobInv
<1> QED BY <1>15, <1>16, <1>19, <1>20, <1>21, <1>22 DEF IInv, StateInv

-----------------------------------------------------------------------------
(* The calls.                                                              *)

\* Between calls.
LEMMA IdleFacts ==
    ASSUME IInv, job = Idle
    PROVE  /\ entries \in Seq(Entries) /\ Len(entries) <= MaxEntries /\ Len(entries) \in Nat
           /\ DOMAIN entries = 1..Len(entries) /\ freeEntries = <<>>
           /\ mem \in Mem /\ Lists(mem) /\ GoodChunks(mem) /\ GoodSlots(mem, entries) /\ MemInv(mem, entries)
           /\ live = Stored(mem)
           /\ job \in JobRec /\ job.kind = "idle" /\ job.work = <<>>
<1>1. RegistryInv(entries, freeEntries) /\ MemInv(mem, entries) /\ LiveInv(live, mem, job) /\ JobInv(job, entries)
  BY DEF IInv, StateInv
<1>2. job.kind = "idle" /\ job.work = <<>>
  BY DEF Idle
<1>3. live = Stored(mem)
  BY <1>1, <1>2 DEF LiveInv
<1>4. entries \in Seq(Entries) /\ Len(entries) <= MaxEntries /\ freeEntries = <<>>
  BY <1>1 DEF RegistryInv
<1> QED BY <1>1, <1>2, <1>3, <1>4 DEF MemInv, JobInv

\* A job that starts.
LEMMA StartFacts ==
    ASSUME NEW kind \in {"fresh", "single", "prefab", "load"}, NEW work \in Seq(Batches), Start(kind, work)
    PROVE  job = Idle /\ job' \in JobRec /\ job'.kind = kind /\ job'.work = work
<1>1. job = Idle /\ job' = [Idle EXCEPT !.kind = kind, !.work = work]
  BY DEF Start
<1>2. job' = [kind |-> kind, work |-> work, view |-> <<>>]
  BY <1>1 DEF Idle
<1> QED BY <1>1, <1>2 DEF JobRec

\* allocate, instantiate, deserialize_single
LEMMA StartFresh ==
    ASSUME IInv, NEW g \in Group, NEW n \in Nat \ {0}, NEW kind \in {"fresh", "single"}, kind = "single" => n = 1,
           Fits(n), Start(kind, <<[group |-> g, n |-> n, ents |-> <<>>]>>),
           UNCHANGED <<entries, freeEntries, mem, live>>
    PROVE  IInv'
<1> DEFINE b == [group |-> g, n |-> n, ents |-> <<>>]
           w == <<b>>
<1>1. b \in Batches /\ b.n = n /\ b.ents = <<>>
  <2>1. <<>> \in Seq(Handles)
    OBVIOUS
  <2> QED BY <2>1 DEF Batches
<1>2. Start(kind, w)
  OBVIOUS
<1> HIDE DEF b
<1>3. w \in Seq(Batches) /\ Len(w) = 1 /\ w[1] = b /\ w # <<>> /\ DOMAIN w = {1}
  BY <1>1
<1> HIDE DEF w
<1>4. job = Idle /\ job' \in JobRec /\ job'.kind = kind /\ job'.work = w
  BY <1>2, <1>3, StartFacts
<1>5. /\ RegistryInv(entries, freeEntries) /\ MemInv(mem, entries) /\ live = Stored(mem)
      /\ entries \in Seq(Entries) /\ freeEntries = <<>>
  BY <1>4, IdleFacts DEF IInv, StateInv
<1>6. Len(entries) + n <= MaxEntries
  <2>1. Recycled(n) = 0
    BY <1>5, NewFacts
  <2>2. Len(entries) \in Nat
    BY <1>5
  <2> QED BY <2>1, <2>2 DEF Fits
<1>7. JobInv(job', entries')
  BY <1>1, <1>3, <1>4, <1>6 DEF JobInv
<1>8. Distinct(job'.work) /\ Unplaced(job'.work, mem', entries', job'.kind)
  <2>1. \A i \in DOMAIN job'.work : DOMAIN job'.work[i].ents = {}
    BY <1>1, <1>3, <1>4
  <2> QED BY <2>1 DEF Distinct, Unplaced
<1>9. LiveInv(live', mem', job')
  BY <1>4, <1>5 DEF LiveInv
<1> QED BY <1>5, <1>7, <1>8, <1>9 DEF IInv, StateInv

\* An entity that is alive is in a chunk of a group.
LEMMA LiveGroup ==
    ASSUME IInv, job = Idle, NEW h \in live
    PROVE  mem.chunks[entries[h.id].chunk].group \in Group
<1>1. GoodChunks(mem) /\ GoodSlots(mem, entries) /\ h \in Stored(mem)
  BY IdleFacts
<1>2. PICK c \in Chunk : \E i \in DOMAIN mem.chunks[c].ents : mem.chunks[c].ents[i] = h
  BY <1>1 DEF Stored
<1>3. entries[h.id].chunk = c
  BY <1>1, <1>2 DEF GoodSlots, Leads
<1>4. ~Blank(mem, c)
  BY <1>2 DEF Blank
<1> QED BY <1>1, <1>3, <1>4 DEF GoodChunks, InUse

\* More entries keep the slots of the old ones.
LEMMA MoreSlots ==
    ASSUME NEW m, NEW old \in Seq(Entries), NEW es \in Seq(Entries), MemInv(m, old), MoreEntries(old, es)
    PROVE  MemInv(m, es)
<1>1. GoodSlots(m, es)
  <2> SUFFICES ASSUME NEW c \in Chunk, NEW i \in DOMAIN m.chunks[c].ents
               PROVE  Leads(es, m.chunks[c].ents[i], c, i)
    BY DEF GoodSlots
  <2> DEFINE h == m.chunks[c].ents[i]
  <2>1. Leads(old, h, c, i)
    BY DEF MemInv, GoodSlots
  <2> HIDE DEF h
  <2>2. h.id \in 1..Len(old) /\ Len(old) \in Nat /\ Len(es) \in Nat
    BY <2>1 DEF Leads
  <2>3. h.id \in 1..Len(es) /\ es[h.id] = old[h.id]
    BY <2>2 DEF MoreEntries
  <2>4. Leads(es, h, c, i)
    BY <2>1, <2>3 DEF Leads
  <2> QED BY <2>4 DEF h
<1> QED BY <1>1 DEF MemInv

\* A function on 1..n is a sequence.
LEMMA FunSeq ==
    ASSUME NEW S, NEW n \in Nat, NEW f \in [1..n -> S]
    PROVE  f \in Seq(S) /\ Len(f) = n
OBVIOUS

\* instantiate of a prefab of two entities.
LEMMA StartPrefab ==
    ASSUME IInv, job = Idle, NEW x \in live, NEW y \in live, NEW n \in Nat \ {0}, InstantiatePrefab(<<x, y>>, n)
    PROVE  IInv'
<1> DEFINE N == n * 2
           hs == NewHandles(N)
           src == <<x, y>>
           gr == [i \in 1..2 |-> mem.chunks[entries[src[i].id].chunk].group]
           row == [i \in 1..2 |-> [j \in 1..n |-> hs[(j - 1) * 2 + i]]]
           w == [i \in 1..2 |-> Batch(gr[i], row[i])]
<1>1. /\ entries \in Seq(Entries) /\ Len(entries) <= MaxEntries /\ Len(entries) \in Nat
      /\ DOMAIN entries = 1..Len(entries) /\ freeEntries = <<>>
      /\ mem \in Mem /\ GoodSlots(mem, entries) /\ MemInv(mem, entries) /\ live = Stored(mem)
  BY IdleFacts
<1>2. N \in Nat /\ Len(src) = 2 /\ src[1] = x /\ src[2] = y
  OBVIOUS
<1>3. /\ Fits(N) /\ Start("prefab", w) /\ entries' = EntriesGrown(N) /\ freeEntries' = FreeCut(N)
      /\ mem' = mem /\ live' = live
  <2>1. Len(<<x, y>>) = 2
    OBVIOUS
  <2>2. w = [i \in 1..2 |-> Batch(mem.chunks[entries[<<x, y>>[i].id].chunk].group, [j \in 1..n |-> NewHandles(n * 2)[(j - 1) * 2 + i]])]
    OBVIOUS
  <2> HIDE DEF w
  <2> QED BY <2>1, <2>2, Zenon DEF InstantiatePrefab, N
<1> HIDE DEF N
<1>4. /\ Recycled(N) = 0 /\ FreeCut(N) = <<>>
      /\ EntriesGrown(N) \in Seq(Entries) /\ Len(EntriesGrown(N)) = Len(entries) + N
      /\ \A id \in 1..Len(entries) : EntriesGrown(N)[id] = entries[id]
      /\ hs \in Seq(Handles) /\ Len(hs) = N
      /\ \A j \in 1..N : hs[j].id = Len(entries) + j
      /\ \A j \in 1..N : hs[j].version = EntriesGrown(N)[Len(entries) + j].version
  BY <1>1, <1>2, NewFacts
<1> HIDE DEF hs
<1>5. \A i \in 1..2 : gr[i] \in Group
  <2>1. \A h \in live : mem.chunks[entries[h.id].chunk].group \in Group
    BY LiveGroup
  <2>2. \A i \in 1..2 : src[i] \in live
    BY <1>2
  <2> HIDE DEF src
  <2> QED BY <2>1, <2>2
<1>6. \A i \in 1..2, j \in 1..n : (j - 1) * 2 + i \in 1..N
  BY DEF N
<1>7. \A i \in 1..2 : row[i] \in Seq(Handles) /\ Len(row[i]) = n /\ DOMAIN row[i] = 1..n
  <2> SUFFICES ASSUME NEW i \in 1..2 PROVE row[i] \in Seq(Handles) /\ Len(row[i]) = n /\ DOMAIN row[i] = 1..n
    OBVIOUS
  <2>1. row[i] \in [1..n -> Handles]
    BY <1>4, <1>6
  <2> HIDE DEF row
  <2> QED BY <2>1
<1>8. \A i \in 1..2 : \A j \in 1..n : row[i][j] = hs[(j - 1) * 2 + i]
  OBVIOUS
<1> HIDE DEF gr, row
<1>9. \A i \in 1..2 : w[i] \in Batches /\ w[i].n = n /\ w[i].ents = row[i]
  BY <1>5, <1>7 DEF Batch, Batches
<1>10. w \in Seq(Batches) /\ Len(w) = 2 /\ DOMAIN w = 1..2 /\ w # <<>>
  <2>1. w \in [1..2 -> Batches]
    BY <1>9
  <2>2. DOMAIN w = 1..2
    OBVIOUS
  <2> HIDE DEF w
  <2>3. w \in Seq(Batches) /\ Len(w) = 2
    <3>1. \A f \in [1..2 -> Batches] : f \in Seq(Batches) /\ Len(f) = 2
      BY FunSeq
    <3> QED BY <2>1, <3>1
  <2>4. w # <<>>
    BY <2>3
  <2> QED BY <2>2, <2>3, <2>4
<1> HIDE DEF w
<1>11. job' \in JobRec /\ job'.kind = "prefab" /\ job'.work = w
  BY <1>3, <1>10, StartFacts
<1>12. Len(entries) + N <= MaxEntries
  BY <1>1, <1>2, <1>3, <1>4 DEF Fits
<1>13. RegistryInv(entries', freeEntries')
  BY <1>3, <1>4, <1>12 DEF RegistryInv
<1>14. MemInv(mem', entries')
  <2>1. MoreEntries(entries, EntriesGrown(N))
    BY <1>1, <1>2, <1>4 DEF MoreEntries
  <2>2. MemInv(mem, EntriesGrown(N))
    BY <1>1, <1>4, <2>1, MoreSlots
  <2> QED BY <1>3, <2>2
<1>15. JobInv(job', entries')
  BY <1>7, <1>9, <1>10, <1>11 DEF JobInv
<1>16. LiveInv(live', mem', job')
  BY <1>1, <1>3, <1>11 DEF LiveInv
<1>17. \A i \in 1..2 : \A j \in 1..n : row[i][j].id = Len(entries) + ((j - 1) * 2 + i)
  BY <1>4, <1>6, <1>8
<1>18. Distinct(w)
  <2> SUFFICES ASSUME NEW i \in DOMAIN w, NEW j \in DOMAIN w, NEW p \in DOMAIN w[i].ents, NEW q \in DOMAIN w[j].ents,
                      w[i].ents[p].id = w[j].ents[q].id
               PROVE  i = j /\ p = q
    BY Zenon DEF Distinct
  <2>1. i \in 1..2 /\ j \in 1..2 /\ p \in 1..n /\ q \in 1..n
    BY <1>7, <1>9, <1>10
  <2>2. Len(entries) + ((p - 1) * 2 + i) = Len(entries) + ((q - 1) * 2 + j)
    <3>1. row[i][p].id = row[j][q].id
      BY <1>9, <2>1
    <3>2. row[i][p].id = Len(entries) + ((p - 1) * 2 + i) /\ row[j][q].id = Len(entries) + ((q - 1) * 2 + j)
      BY <1>17, <2>1, Zenon
    <3> QED BY <3>1, <3>2, Zenon
  <2> QED BY <1>1, <2>1, <2>2
<1>19. Unplaced(w, mem', entries', "prefab")
  <2> SUFFICES ASSUME NEW i \in DOMAIN w, NEW p \in DOMAIN w[i].ents
               PROVE  /\ w[i].ents[p].id \in DOMAIN entries'
                      /\ \A k \in Stored(mem') : k.id # w[i].ents[p].id
                      /\ entries'[w[i].ents[p].id].version = w[i].ents[p].version
    BY Zenon DEF Unplaced
  <2> DEFINE j == (p - 1) * 2 + i
  <2>1. i \in 1..2 /\ p \in 1..n
    BY <1>7, <1>9, <1>10
  <2>2. j \in 1..N /\ w[i].ents[p] = hs[j]
    BY <1>6, <1>8, <1>9, <2>1
  <2> HIDE DEF j
  <2>3. hs[j].id = Len(entries) + j /\ hs[j].version = entries'[hs[j].id].version
    BY <1>3, <1>4, <2>2
  <2>4. DOMAIN entries' = 1..(Len(entries) + N)
    BY <1>3, <1>4
  <2>5. hs[j].id \in DOMAIN entries' /\ hs[j].id > Len(entries)
    BY <1>1, <1>2, <2>2, <2>3, <2>4
  <2>6. ASSUME NEW k \in Stored(mem) PROVE k.id # hs[j].id
    <3>1. k.id \in 1..Len(entries)
      BY <1>1, StoredIds
    <3> QED BY <1>1, <2>5, <3>1
  <2> QED BY <1>3, <2>2, <2>3, <2>5, <2>6
<1> QED BY <1>11, <1>13, <1>14, <1>15, <1>16, <1>18, <1>19 DEF IInv, StateInv

\* The groups come in some order.
LEMMA OrderFacts ==
    ASSUME NEW order \in SetToSeqs(Group)
    PROVE  /\ order \in Seq(Group) /\ DOMAIN order = 1..Len(order) /\ Len(order) \in Nat
           /\ \A i, j \in 1..Len(order) : order[i] = order[j] => i = j
           /\ \A g \in Group : \E i \in 1..Len(order) : order[i] = g
<1> DEFINE D == 1..Cardinality(Group)
<1>1. IsFiniteSet(Group) /\ Cardinality(Group) \in Nat
  BY StorageAssumption, FS_CardinalityType
<1>2. order \in [D -> Group] /\ \A i, j \in D : i # j => order[i] # order[j]
  BY DEF SetToSeqs
<1>3. order \in Seq(Group) /\ Len(order) = Cardinality(Group) /\ DOMAIN order = D
  BY <1>1, <1>2
<1>4. order \in Injection(D, Group)
  BY <1>2 DEF Injection, IsInjective
<1>5. Cardinality(D) = Cardinality(Group) /\ IsFiniteSet(D)
  <2>1. Cardinality(D) = IF 1 > Cardinality(Group) THEN 0 ELSE Cardinality(Group) - 1 + 1
    BY <1>1, FS_Interval
  <2>2. IsFiniteSet(D)
    BY <1>1, FS_Interval
  <2> QED BY <1>1, <2>1, <2>2
<1> HIDE DEF D
<1>6. order \in Surjection(D, Group)
  BY <1>1, <1>4, <1>5, FS_Injection
<1>7. \A g \in Group : \E i \in D : order[i] = g
  BY <1>6 DEF Surjection
<1> QED BY <1>1, <1>2, <1>3, <1>7 DEF D

\* The batches work hold the entities of the chunks of all groups, batch p
\* those of chunk at[p].
Serial(work, at) ==
    /\ work \in Seq(Batches) /\ at \in [1..Len(work) -> Chunk]
    /\ \A p \in 1..Len(work) : /\ mem.chunks[at[p]].group \in Group
                               /\ work[p].ents = mem.chunks[at[p]].ents
                               /\ work[p].n = Len(mem.chunks[at[p]].ents)
    /\ \A p, q \in 1..Len(work) : at[p] = at[q] => p = q
    /\ \A c \in Chunk : mem.chunks[c].group \in Group => \E p \in 1..Len(work) : at[p] = c

\* serialize
LEMMA SerialFacts ==
    ASSUME MemInv(mem, entries), NEW order \in SetToSeqs(Group)
    PROVE  LET work == FlattenSeq([i \in DOMAIN order |-> [j \in DOMAIN ChunksOf(order[i]) |->
                           Batch(order[i], mem.chunks[ChunksOf(order[i])[j]].ents)]])
           IN  \E at : Serial(work, at)
<1> DEFINE ch == [i \in DOMAIN order |-> ChunksOf(order[i])]
           qs == [i \in DOMAIN order |-> [j \in DOMAIN ch[i] |-> Batch(order[i], mem.chunks[ch[i][j]].ents)]]
           work == FlattenSeq(qs)
<1>1. mem \in Mem /\ Lists(mem) /\ GoodChunks(mem)
  BY DEF MemInv
<1>2. /\ order \in Seq(Group) /\ DOMAIN order = 1..Len(order) /\ Len(order) \in Nat
      /\ \A i, j \in 1..Len(order) : order[i] = order[j] => i = j
      /\ \A g \in Group : \E i \in 1..Len(order) : order[i] = g
  BY OrderFacts
<1>3. qs = [i \in DOMAIN order |-> [j \in DOMAIN ChunksOf(order[i]) |->
                           Batch(order[i], mem.chunks[ChunksOf(order[i])[j]].ents)]]
  OBVIOUS
<1>4. \A i \in 1..Len(order) : IsList(mem, order[i], ch[i]) /\ order[i] \in Group
  <2> SUFFICES ASSUME NEW i \in 1..Len(order) PROVE IsList(mem, order[i], ch[i]) /\ order[i] \in Group
    OBVIOUS
  <2>1. order[i] \in Group
    BY <1>2
  <2>2. PICK s \in Seq(Chunk) : IsList(mem, order[i], s)
    BY <1>1, <2>1 DEF Lists
  <2>3. ch[i] = s
    BY <1>2, <2>1, <2>2, ChunksOfList
  <2> QED BY <2>1, <2>2, <2>3
<1> HIDE DEF ch
<1>5. \A i \in 1..Len(order) :
         /\ ch[i] \in Seq(Chunk) /\ Len(ch[i]) \in Nat /\ DOMAIN ch[i] = 1..Len(ch[i])
         /\ \A j, k \in 1..Len(ch[i]) : ch[i][j] = ch[i][k] => j = k
         /\ \A j \in 1..Len(ch[i]) : ch[i][j] \in Chunk /\ mem.chunks[ch[i][j]].group = order[i]
         /\ \A c \in Chunk : mem.chunks[c].group = order[i] => \E j \in 1..Len(ch[i]) : ch[i][j] = c
  <2> SUFFICES ASSUME NEW i \in 1..Len(order)
               PROVE  /\ ch[i] \in Seq(Chunk) /\ Len(ch[i]) \in Nat /\ DOMAIN ch[i] = 1..Len(ch[i])
                      /\ \A j, k \in 1..Len(ch[i]) : ch[i][j] = ch[i][k] => j = k
                      /\ \A j \in 1..Len(ch[i]) : ch[i][j] \in Chunk /\ mem.chunks[ch[i][j]].group = order[i]
                      /\ \A c \in Chunk : mem.chunks[c].group = order[i] => \E j \in 1..Len(ch[i]) : ch[i][j] = c
    OBVIOUS
  <2> DEFINE s == ch[i]
  <2>1. s \in Seq(Chunk) /\ IsInjective(s) /\ Range(s) = Members(mem, order[i])
    BY <1>4 DEF IsList, Linked
  <2> HIDE DEF s
  <2>2. /\ Len(s) \in Nat /\ DOMAIN s = 1..Len(s)
        /\ \A j \in 1..Len(s) : s[j] \in Chunk /\ s[j] \in Range(s)
        /\ \A j, k \in 1..Len(s) : s[j] = s[k] => j = k
        /\ \A x \in Range(s) : \E j \in 1..Len(s) : x = s[j]
    BY <2>1, ListTypes
  <2>3. \A j \in 1..Len(s) : mem.chunks[s[j]].group = order[i]
    BY <2>1, <2>2 DEF Members
  <2>4. \A c \in Chunk : mem.chunks[c].group = order[i] => \E j \in 1..Len(s) : s[j] = c
    BY <2>1, <2>2 DEF Members
  <2> QED BY <2>1, <2>2, <2>3, <2>4 DEF s
<1>6. ASSUME NEW i \in 1..Len(order), NEW j \in 1..Len(ch[i])
      PROVE  LET b == Batch(order[i], mem.chunks[ch[i][j]].ents)
             IN  b \in Batches /\ b.ents = mem.chunks[ch[i][j]].ents /\ b.n = Len(mem.chunks[ch[i][j]].ents)
  <2> DEFINE c == ch[i][j]
  <2>1. c \in Chunk /\ mem.chunks[c].group \in Group /\ order[i] \in Group
    BY <1>4, <1>5
  <2>2. InUse(mem, c)
    BY <1>1, <2>1, StorageAssumption DEF GoodChunks, Blank
  <2>3. mem.chunks[c].ents \in Seq(Handles)
    BY <1>1, <2>1 DEF Mem, ChunkRec
  <2>4. Capacity[mem.chunks[c].pt] \in Nat /\ Len(mem.chunks[c].ents) \in 1..Capacity[mem.chunks[c].pt]
    BY <2>2, Capacities DEF InUse, Fitting, Count
  <2>5. Len(mem.chunks[c].ents) \in Nat \ {0}
    BY <2>4
  <2> HIDE DEF c
  <2>6. LET b == Batch(order[i], mem.chunks[c].ents)
        IN  b \in Batches /\ b.ents = mem.chunks[c].ents /\ b.n = Len(mem.chunks[c].ents)
    BY <2>1, <2>3, <2>5 DEF Batch, Batches
  <2> QED BY <2>6 DEF c
<1>7. \A i \in 1..Len(order) :
         /\ qs[i] \in Seq(Batches) /\ Len(qs[i]) = Len(ch[i])
         /\ \A j \in 1..Len(ch[i]) : qs[i][j] = Batch(order[i], mem.chunks[ch[i][j]].ents)
  <2> SUFFICES ASSUME NEW i \in 1..Len(order)
               PROVE  /\ qs[i] \in Seq(Batches) /\ Len(qs[i]) = Len(ch[i])
                      /\ \A j \in 1..Len(ch[i]) : qs[i][j] = Batch(order[i], mem.chunks[ch[i][j]].ents)
    OBVIOUS
  <2>1. qs[i] = [j \in 1..Len(ch[i]) |-> Batch(order[i], mem.chunks[ch[i][j]].ents)]
    BY <1>2, <1>5
  <2> DEFINE B(j) == Batch(order[i], mem.chunks[ch[i][j]].ents)
             q == qs[i]
             n == Len(ch[i])
  <2>2. (\A j \in 1..n : B(j) \in Batches) /\ q = [j \in 1..n |-> B(j)] /\ n \in Nat
    BY <1>5, <1>6, <2>1
  <2> HIDE DEF B, q, n
  <2>3. q \in [1..n -> Batches] /\ \A j \in 1..n : q[j] = B(j)
    BY <2>2
  <2>4. q \in Seq(Batches) /\ Len(q) = n
    BY <2>2, <2>3, FunSeq
  <2> QED BY <2>3, <2>4 DEF B, q, n
<1>8. qs \in Seq(Seq(Batches)) /\ Len(qs) = Len(order)
  <2>1. qs \in [1..Len(order) -> Seq(Batches)]
    BY <1>2, <1>7
  <2> HIDE DEF qs
  <2> QED BY <1>2, <2>1
<1> HIDE DEF qs
<1>9. work \in Seq(Batches) /\ IsFlat(work, qs, Len(order))
  BY <1>8, FlattenFacts
<1> HIDE DEF work
<1>10. PICK a, b : Places(work, qs, Len(order), a, b)
  BY <1>9 DEF IsFlat
<1>11. /\ a \in [1..Len(work) -> 1..Len(order)]
       /\ \A p \in 1..Len(work) : b[p] \in 1..Len(ch[a[p]]) /\ work[p] = Batch(order[a[p]], mem.chunks[ch[a[p]][b[p]]].ents)
       /\ \A p, q \in 1..Len(work) : a[p] = a[q] /\ b[p] = b[q] => p = q
       /\ \A i \in 1..Len(order) : \A j \in 1..Len(ch[i]) : \E p \in 1..Len(work) : a[p] = i /\ b[p] = j
  <2>1. /\ a \in [1..Len(work) -> 1..Len(order)]
        /\ \A p \in 1..Len(work) : b[p] \in 1..Len(qs[a[p]]) /\ work[p] = qs[a[p]][b[p]]
        /\ \A p, q \in 1..Len(work) : a[p] = a[q] /\ b[p] = b[q] => p = q
        /\ \A i \in 1..Len(order) : \A j \in 1..Len(qs[i]) : \E p \in 1..Len(work) : a[p] = i /\ b[p] = j
    BY <1>10, Zenon DEF Places
  <2>2. \A p \in 1..Len(work) : b[p] \in 1..Len(ch[a[p]]) /\ work[p] = Batch(order[a[p]], mem.chunks[ch[a[p]][b[p]]].ents)
    <3> SUFFICES ASSUME NEW p \in 1..Len(work)
                 PROVE  b[p] \in 1..Len(ch[a[p]]) /\ work[p] = Batch(order[a[p]], mem.chunks[ch[a[p]][b[p]]].ents)
      OBVIOUS
    <3> DEFINE i == a[p]
               j == b[p]
    <3>1. i \in 1..Len(order) /\ j \in 1..Len(qs[i]) /\ work[p] = qs[i][j]
      BY <2>1
    <3> HIDE DEF i, j
    <3>2. j \in 1..Len(ch[i]) /\ qs[i][j] = Batch(order[i], mem.chunks[ch[i][j]].ents)
      BY <1>7, <3>1
    <3> QED BY <3>1, <3>2 DEF i, j
  <2>3. \A i \in 1..Len(order) : \A j \in 1..Len(ch[i]) : \E p \in 1..Len(work) : a[p] = i /\ b[p] = j
    <3>1. \A i \in 1..Len(order) : Len(qs[i]) = Len(ch[i])
      BY <1>7
    <3> SUFFICES ASSUME NEW i \in 1..Len(order), NEW j \in 1..Len(ch[i])
                 PROVE  \E p \in 1..Len(work) : a[p] = i /\ b[p] = j
      BY Zenon
    <3>2. j \in 1..Len(qs[i])
      BY <3>1
    <3> QED BY <2>1, <3>2, Zenon
  <2> QED BY <2>1, <2>2, <2>3
<1> DEFINE at == [p \in 1..Len(work) |-> ch[a[p]][b[p]]]
<1>12. at \in [1..Len(work) -> Chunk]
  BY <1>5, <1>11
<1>13. \A p \in 1..Len(work) : at[p] = ch[a[p]][b[p]] /\ a[p] \in 1..Len(order) /\ b[p] \in 1..Len(ch[a[p]])
  BY <1>11
<1> HIDE DEF at
<1>14. \A p \in 1..Len(work) : /\ mem.chunks[at[p]].group = order[a[p]] /\ order[a[p]] \in Group
                               /\ work[p].ents = mem.chunks[at[p]].ents
                               /\ work[p].n = Len(mem.chunks[at[p]].ents)
  <2> SUFFICES ASSUME NEW p \in 1..Len(work)
               PROVE  /\ mem.chunks[at[p]].group = order[a[p]] /\ order[a[p]] \in Group
                      /\ work[p].ents = mem.chunks[at[p]].ents
                      /\ work[p].n = Len(mem.chunks[at[p]].ents)
    BY Zenon
  <2> DEFINE i == a[p]
             j == b[p]
  <2>1. /\ i \in 1..Len(order) /\ j \in 1..Len(ch[i]) /\ at[p] = ch[i][j]
        /\ work[p] = Batch(order[i], mem.chunks[ch[i][j]].ents)
    BY <1>11, <1>13
  <2> HIDE DEF i, j
  <2>2. order[i] \in Group /\ mem.chunks[ch[i][j]].group = order[i]
    BY <1>4, <1>5, <2>1
  <2>3. work[p].ents = mem.chunks[ch[i][j]].ents /\ work[p].n = Len(mem.chunks[ch[i][j]].ents)
    BY <2>1 DEF Batch
  <2>4. /\ mem.chunks[at[p]].group = order[i] /\ work[p].ents = mem.chunks[at[p]].ents
        /\ work[p].n = Len(mem.chunks[at[p]].ents)
    BY <2>1, <2>2, <2>3
  <2> QED BY <2>2, <2>4 DEF i
<1>15. ASSUME NEW p \in 1..Len(work), NEW q \in 1..Len(work), at[p] = at[q] PROVE p = q
  <2>0. order[a[p]] = order[a[q]] /\ a[p] \in 1..Len(order) /\ a[q] \in 1..Len(order)
    <3>1. order[a[p]] = mem.chunks[at[p]].group /\ order[a[q]] = mem.chunks[at[q]].group
      BY <1>14
    <3> QED BY <1>13, <1>15, <3>1
  <2>1. a[p] = a[q]
    BY <1>2, <2>0
  <2>2. ch[a[p]][b[p]] = ch[a[p]][b[q]] /\ b[q] \in 1..Len(ch[a[p]])
    BY <1>13, <1>15, <2>1
  <2>3. b[p] = b[q]
    BY <1>5, <1>13, <2>2
  <2> QED BY <1>11, <2>1, <2>3
<1>16. ASSUME NEW c \in Chunk, mem.chunks[c].group \in Group PROVE \E p \in 1..Len(work) : at[p] = c
  <2>1. PICK i \in 1..Len(order) : order[i] = mem.chunks[c].group
    BY <1>2, <1>16
  <2>2. PICK j \in 1..Len(ch[i]) : ch[i][j] = c
    BY <1>5, <2>1
  <2>3. PICK p \in 1..Len(work) : a[p] = i /\ b[p] = j
    BY <1>11
  <2> QED BY <1>13, <2>2, <2>3
<1>17. Serial(work, at)
  BY <1>9, <1>12, <1>14, <1>15, <1>16 DEF Serial
<1>18. \E x : Serial(work, x)
  BY <1>17
<1> QED BY <1>3, <1>18 DEF work

\* serialize, and the start of deserialize.
LEMMA StartLoad ==
    ASSUME IInv, job = Idle, NEW order \in SetToSeqs(Group), Reload(order)
    PROVE  IInv'
<1> DEFINE work == FlattenSeq([i \in DOMAIN order |-> [j \in DOMAIN ChunksOf(order[i]) |->
                           Batch(order[i], mem.chunks[ChunksOf(order[i])[j]].ents)]])
<1>1. /\ entries \in Seq(Entries) /\ Len(entries) <= MaxEntries /\ Len(entries) \in Nat
      /\ DOMAIN entries = 1..Len(entries) /\ freeEntries = <<>>
      /\ mem \in Mem /\ GoodChunks(mem) /\ GoodSlots(mem, entries) /\ MemInv(mem, entries)
      /\ live = Stored(mem)
  BY IdleFacts
<1>2. /\ live # {} /\ Start("load", work) /\ mem' = EmptyMem
      /\ entries' = [id \in DOMAIN entries |-> NewEntry] /\ freeEntries' = freeEntries /\ live' = live
  BY DEF Reload
<1>3. \E at : Serial(work, at)
  BY <1>1, SerialFacts
<1> HIDE DEF work
<1>4. PICK at : Serial(work, at)
  BY <1>3
<1>5. /\ work \in Seq(Batches) /\ Len(work) \in Nat /\ DOMAIN work = 1..Len(work)
      /\ \A p \in 1..Len(work) : /\ at[p] \in Chunk /\ mem.chunks[at[p]].group \in Group
                                 /\ work[p].ents = mem.chunks[at[p]].ents
                                 /\ work[p].n = Len(mem.chunks[at[p]].ents)
      /\ \A p, q \in 1..Len(work) : at[p] = at[q] => p = q
      /\ \A c \in Chunk : mem.chunks[c].group \in Group => \E p \in 1..Len(work) : at[p] = c
  BY <1>4 DEF Serial
<1>6. \A c \in Chunk : DOMAIN mem.chunks[c].ents # {} => \E p \in 1..Len(work) : at[p] = c
  <2> SUFFICES ASSUME NEW c \in Chunk, DOMAIN mem.chunks[c].ents # {}
               PROVE  \E p \in 1..Len(work) : at[p] = c
    OBVIOUS
  <2>1. ~Blank(mem, c)
    BY DEF Blank
  <2>2. mem.chunks[c].group \in Group
    BY <1>1, <2>1 DEF GoodChunks, InUse
  <2> QED BY <1>5, <2>2
<1>7. Waiting(work) = Stored(mem)
  <2>1. ASSUME NEW h \in Waiting(work) PROVE h \in Stored(mem)
    <3>1. PICK p \in DOMAIN work : \E q \in DOMAIN work[p].ents : work[p].ents[q] = h
      BY <2>1 DEF Waiting
    <3>2. at[p] \in Chunk /\ \E q \in DOMAIN mem.chunks[at[p]].ents : mem.chunks[at[p]].ents[q] = h
      BY <1>5, <3>1
    <3> QED BY <2>1, <3>2 DEF Waiting, Stored
  <2>2. ASSUME NEW h \in Stored(mem) PROVE h \in Waiting(work)
    <3>1. PICK c \in Chunk : \E i \in DOMAIN mem.chunks[c].ents : mem.chunks[c].ents[i] = h
      BY <2>2 DEF Stored
    <3>2. PICK p \in 1..Len(work) : at[p] = c
      BY <1>6, <3>1
    <3>3. p \in DOMAIN work /\ \E q \in DOMAIN work[p].ents : work[p].ents[q] = h
      BY <1>5, <3>1, <3>2
    <3> QED BY <2>2, <3>3 DEF Waiting, Stored
  <2> QED BY <2>1, <2>2
<1>8. work # <<>>
  <2>1. PICK h : h \in Waiting(work)
    BY <1>1, <1>2, <1>7
  <2>2. DOMAIN work # {}
    BY <2>1 DEF Waiting
  <2> QED BY <2>2
<1>9. job' \in JobRec /\ job'.kind = "load" /\ job'.work = work
  BY <1>2, <1>5, StartFacts
<1>10. entries' \in Seq(Entries) /\ Len(entries') = Len(entries) /\ DOMAIN entries' = DOMAIN entries
  <2>1. NewEntry \in Entries
    BY RegistryAssumption DEF NewEntry, Entries, Versions
  <2>2. entries' \in [1..Len(entries) -> Entries]
    BY <1>1, <1>2, <2>1
  <2> QED BY <1>1, <2>2, FunSeq
<1>11. RegistryInv(entries', freeEntries')
  BY <1>1, <1>2, <1>10 DEF RegistryInv
<1>12. MemInv(mem', entries') /\ Stored(mem') = {}
  BY <1>2, EmptyFacts
<1>13. LiveInv(live', mem', job')
  BY <1>1, <1>2, <1>7, <1>9, <1>12 DEF LiveInv
<1>14. JobInv(job', entries')
  <2>1. \A p \in DOMAIN work : work[p].n = Len(work[p].ents)
    BY <1>5
  <2>2. \A p \in DOMAIN work : \E pt \in PoolType : Fitting(work[p].n, pt)
    <3> SUFFICES ASSUME NEW p \in DOMAIN work PROVE \E pt \in PoolType : Fitting(work[p].n, pt)
      OBVIOUS
    <3>1. at[p] \in Chunk /\ mem.chunks[at[p]].group \in Group /\ work[p].n = Count(mem, at[p])
      BY <1>5 DEF Count
    <3>2. InUse(mem, at[p])
      BY <1>1, <3>1, StorageAssumption DEF GoodChunks, Blank
    <3> QED BY <3>1, <3>2 DEF InUse
  <2> QED BY <1>8, <1>9, <2>1, <2>2 DEF JobInv
<1>15. Distinct(work)
  <2> SUFFICES ASSUME NEW i \in DOMAIN work, NEW j \in DOMAIN work,
                      NEW p \in DOMAIN work[i].ents, NEW q \in DOMAIN work[j].ents,
                      work[i].ents[p].id = work[j].ents[q].id
               PROVE  i = j /\ p = q
    BY Zenon DEF Distinct
  <2>1. /\ at[i] \in Chunk /\ at[j] \in Chunk /\ i \in 1..Len(work) /\ j \in 1..Len(work)
        /\ work[i].ents = mem.chunks[at[i]].ents /\ work[j].ents = mem.chunks[at[j]].ents
    BY <1>5
  <2>2. at[i] = at[j] /\ p = q
    BY <1>1, <2>1, SlotUnique
  <2> QED BY <1>5, <2>1, <2>2
<1>16. Unplaced(work, mem', entries', "load")
  <2>1. \A i \in DOMAIN work : \A p \in DOMAIN work[i].ents : work[i].ents[p].id \in DOMAIN entries
    <3> SUFFICES ASSUME NEW i \in DOMAIN work, NEW p \in DOMAIN work[i].ents
                 PROVE  work[i].ents[p].id \in DOMAIN entries
      OBVIOUS
    <3>1. at[i] \in Chunk /\ work[i].ents = mem.chunks[at[i]].ents
      BY <1>5
    <3> QED BY <1>1, <3>1 DEF GoodSlots, Leads
  <2> QED BY <1>10, <1>12, <2>1 DEF Unplaced
<1> QED BY <1>9, <1>11, <1>12, <1>13, <1>14, <1>15, <1>16 DEF IInv, StateInv

\* The chunks that a walk of the list of g meets are those of g.
LEMMA WalkMembers ==
    ASSUME Lists(mem), NEW g \in Group
    PROVE  /\ IsList(mem, g, ChunksOf(g)) /\ ChunksOf(g) \in Seq(Chunk)
           /\ Range(ChunksOf(g)) = Members(mem, g) /\ Len(ChunksOf(g)) = Cardinality(Members(mem, g))
<1>1. PICK s \in Seq(Chunk) : IsList(mem, g, s)
  BY DEF Lists
<1>2. ChunksOf(g) = s
  BY <1>1, ChunksOfList
<1>3. Range(s) = Members(mem, g) /\ IsInjective(s)
  BY <1>1 DEF IsList, Linked
<1>4. Cardinality(Range(s)) = Len(s)
  BY <1>3, ListBound
<1> QED BY <1>1, <1>2, <1>3, <1>4

\* destroy of the entities of whole groups.
LEMMA DestroyStep ==
    ASSUME IInv, NEW G \in SUBSET Group, DestroyAll(G)
    PROVE  IInv'
<1>1. /\ job = Idle /\ entries' = entries /\ freeEntries' = freeEntries /\ job' = job
      /\ mem' = [chunks |-> [c \in Chunk |-> IF \E g \in G : c \in Range(ChunksOf(g))
                                             THEN NotCreated ELSE mem.chunks[c]],
                 groups |-> [g \in Group |->
                     IF g \in G THEN [NoChunks EXCEPT !.lastChunk = mem.groups[g].lastChunk]
                     ELSE mem.groups[g]]]
      /\ live' = live \ UNION {Entities(g) : g \in G}
  BY DEF DestroyAll
<1>2. mem \in Mem /\ Lists(mem) /\ MemInv(mem, entries) /\ live = Stored(mem)
  BY <1>1, IdleFacts
<1>3. \A g \in G : Range(ChunksOf(g)) = Members(mem, g)
  BY <1>2, WalkMembers
<1>4. \A c \in Chunk : (\E g \in G : c \in Range(ChunksOf(g))) <=> mem.chunks[c].group \in G
  BY <1>3 DEF Members
<1>5. mem' = Cleared(mem, G)
  BY <1>1, <1>4 DEF Cleared
<1>6. MemInv(mem', entries) /\ Stored(mem') = Stored(mem) \ StoredIn(mem, G)
  BY <1>2, <1>5, ClearedFacts
<1>7. \A h \in Stored(mem) : h \in UNION {Entities(g) : g \in G} <=> h \in StoredIn(mem, G)
  <2> SUFFICES ASSUME NEW h \in Stored(mem)
               PROVE  h \in UNION {Entities(g) : g \in G} <=> h \in StoredIn(mem, G)
    OBVIOUS
  <2>1. h \in UNION {Entities(g) : g \in G} <=> \E g \in G : h \in Entities(g)
    BY Zenon
  <2>2. \A g \in G : h \in Entities(g) <=> \E c \in Members(mem, g) : h \in Range(mem.chunks[c].ents)
    BY <1>3, Zenon DEF Entities
  <2>3. \A c \in Chunk : h \in Range(mem.chunks[c].ents) <=> \E i \in DOMAIN mem.chunks[c].ents : mem.chunks[c].ents[i] = h
    BY DEF Range
  <2>4. (\E g \in G : h \in Entities(g)) <=> \E c \in Chunk : mem.chunks[c].group \in G /\ h \in Range(mem.chunks[c].ents)
    BY <2>2 DEF Members
  <2>5. h \in Handles
    BY DEF Stored
  <2> QED BY <2>1, <2>3, <2>4, <2>5 DEF StoredIn
<1>8. live' = Stored(mem')
  BY <1>1, <1>2, <1>6, <1>7
<1>9. RegistryInv(entries, freeEntries) /\ JobInv(job, entries) /\ job.kind = "idle" /\ job.work = <<>>
  BY <1>1, IdleFacts DEF IInv, StateInv
<1>10. Distinct(job'.work) /\ Unplaced(job'.work, mem', entries', job'.kind)
  BY <1>1, <1>9 DEF Distinct, Unplaced
<1> QED BY <1>1, <1>6, <1>8, <1>9, <1>10 DEF IInv, StateInv, LiveInv

\* An empty storage.
LEMMA EmptyStep ==
    ASSUME NEW es, es = <<>>, NEW m, m = EmptyMem, NEW j, j = Idle
    PROVE  StateInv(es, <<>>, m, {}, j)
<1>1. RegistryInv(es, <<>>)
  <2>1. <<>> \in Seq(Entries) /\ Len(<<>>) = 0
    OBVIOUS
  <2> QED BY <2>1, StorageAssumption DEF RegistryInv
<1>2. MemInv(m, es) /\ Stored(m) = {}
  BY EmptyFacts
<1>3. j.kind = "idle" /\ j.work = <<>> /\ DOMAIN j.work = {}
  BY DEF Idle
<1>4. j \in JobRec
  <2>1. <<>> \in Seq(Batches)
    OBVIOUS
  <2> QED BY <2>1 DEF Idle, JobRec
<1>5. JobInv(j, es)
  BY <1>3, <1>4 DEF JobInv
<1>6. LiveInv({}, m, j)
  BY <1>2, <1>3 DEF LiveInv
<1>7. Distinct(j.work) /\ Unplaced(j.work, m, es, j.kind)
  BY <1>3 DEF Distinct, Unplaced
<1> QED BY <1>1, <1>2, <1>5, <1>6, <1>7 DEF StateInv

\* cast of a whole chunk that has room.
LEMMA CastStep ==
    ASSUME IInv, NEW c \in Chunk, NEW g \in Group, Room(mem, c) > 0, CastChunk(c, g)
    PROVE  IInv'
<1>1. /\ job = Idle /\ mem.chunks[c].group \in Group \ {g} /\ entries' = entries /\ freeEntries' = freeEntries
      /\ live' = live /\ job' = job
      /\ mem' = AddChunk(RemoveChunk(mem, mem.chunks[c].group, c), g, c)
  BY DEF CastChunk
<1>2. MemInv(mem, entries) /\ live = Stored(mem) /\ job.kind = "idle" /\ job.work = <<>>
  BY <1>1, IdleFacts
<1>3. MemInv(mem', entries) /\ Stored(mem') = Stored(mem)
  BY <1>1, <1>2, CastFacts
<1>4. RegistryInv(entries, freeEntries) /\ JobInv(job, entries)
  BY DEF IInv, StateInv
<1>5. Distinct(job'.work) /\ Unplaced(job'.work, mem', entries', job'.kind)
  BY <1>1, <1>2 DEF Distinct, Unplaced
<1> QED BY <1>1, <1>2, <1>3, <1>4, <1>5 DEF IInv, StateInv, LiveInv

-----------------------------------------------------------------------------
(* The specification keeps the invariant.                                  *)

\* A call with a view to fill.
LEMMA FillStep ==
    ASSUME IInv, FillView
    PROVE  IInv'
<1>1. job.work # <<>>
  BY DEF FillView
<1>2. job \in JobRec /\ job.kind # "idle"
  BY <1>1 DEF IInv, StateInv, JobInv
<1>3. job.kind \in {"fresh", "single"} \/ job.kind \in {"prefab", "load"}
  BY <1>2 DEF JobRec
<1> QED BY <1>3, FillFresh, FillGiven

\* A call that starts, or is done in one step.
LEMMA CallStep ==
    ASSUME IInv, job = Idle, Calls
    PROVE  IInv'
<1>0. \A n \in 1..MaxBatch : n \in Nat \ {0}
  BY StorageAssumption
<1>1. ASSUME NEW g \in Group, DeserializeSingle(g) PROVE IInv'
  BY <1>1, StartFresh DEF DeserializeSingle
<1>2. ASSUME NEW g \in Group, NEW n \in 1..MaxBatch, Allocate(g, n) PROVE IInv'
  BY <1>0, <1>2, StartFresh DEF Allocate
<1>3. ASSUME NEW h \in live, NEW n \in 1..MaxBatch, Instantiate(h, n) PROVE IInv'
  <2>1. mem.chunks[entries[h.id].chunk].group \in Group
    BY LiveGroup
  <2> QED BY <1>2, <1>3, <2>1 DEF Instantiate
<1>4. ASSUME NEW x \in live, NEW y \in live, NEW n \in 1..MaxBatch, InstantiatePrefab(<<x, y>>, n) PROVE IInv'
  BY <1>0, <1>4, StartPrefab
<1>5. ASSUME NEW order \in SetToSeqs(Group), Reload(order) PROVE IInv'
  BY <1>5, StartLoad
<1>6. ASSUME NEW G \in SUBSET Group, DestroyAll(G) PROVE IInv'
  BY <1>6, DestroyStep
<1>7. ASSUME Reset PROVE IInv'
  <2>1. entries' = <<>> /\ freeEntries' = <<>> /\ mem' = EmptyMem /\ live' = {} /\ job' = Idle
    BY <1>7 DEF Reset
  <2>2. StateInv(entries', <<>>, mem', {}, job')
    BY <2>1, EmptyStep
  <2> QED BY <2>1, <2>2 DEF IInv
<1> QED BY <1>1, <1>2, <1>3, <1>4, <1>5, <1>6, <1>7, Zenon DEF Calls

LEMMA NextStep ==
    ASSUME IInv, [Next]_vars
    PROVE  IInv'
<1>1. CASE FillView
  BY <1>1, FillStep
<1>2. CASE job = Idle /\ Calls
  BY <1>2, CallStep
<1>3. ASSUME NEW c \in Created, NEW g \in Group, Room(mem, c) > 0, CastChunk(c, g) PROVE IInv'
  <2>1. c \in Chunk
    BY DEF Created
  <2> QED BY <1>3, <2>1, CastStep
<1>4. CASE UNCHANGED vars
  <2>1. entries' = entries /\ freeEntries' = freeEntries /\ mem' = mem /\ live' = live /\ job' = job
    BY <1>4 DEF vars
  <2> QED BY <2>1 DEF IInv
<1> QED BY <1>1, <1>2, <1>3, <1>4, Zenon DEF Next

LEMMA InitStep == Init => IInv
<1> SUFFICES ASSUME Init PROVE IInv
  OBVIOUS
<1>1. entries = <<>> /\ freeEntries = <<>> /\ mem = EmptyMem /\ live = {} /\ job = Idle
  BY DEF Init
<1>2. StateInv(entries, <<>>, mem, {}, job)
  BY <1>1, EmptyStep
<1> QED BY <1>1, <1>2 DEF IInv

\* The inductive invariant: whatever calls the program makes, the lists, the
\* counts, the slots, the registry and the running call agree with each other
\* (storage.cpp, archetype.cpp, chunk.cpp, entities.cpp).
THEOREM Invariance == Spec => []IInv
<1>1. IInv /\ [Next]_vars => IInv'
  BY NextStep
<1> QED BY <1>1, InitStep, PTL DEF Spec

-----------------------------------------------------------------------------
(* What follows from it.                                                   *)

LEMMA TypesFollow == IInv => TypeOK
<1> SUFFICES ASSUME IInv PROVE TypeOK
  OBVIOUS
<1>1. /\ entries \in Seq(Entries) /\ Len(entries) <= MaxEntries /\ freeEntries = <<>>
      /\ mem \in Mem /\ GoodChunks(mem) /\ LiveInv(live, mem, job)
  BY DEF IInv, StateInv, RegistryInv, MemInv
<1>2. freeEntries \in Seq(DOMAIN entries)
  <2>1. \A S : <<>> \in Seq(S)
    OBVIOUS
  <2> QED BY <1>1, <2>1
<1>3. live \subseteq Handles
  BY <1>1 DEF LiveInv, Stored, Waiting
<1>4. \A g \in Group : mem.groups[g] \in
          [firstChunk : Chunk \cup {NoChunk}, lastChunk : Chunk \cup {NoChunk},
           firstFree : Chunk \cup {NoChunk}, chunkCount : Nat, size : Nat]
  BY <1>1 DEF Mem, GroupRec, ChunkPtr
<1>5. ASSUME NEW c \in Created
      PROVE  /\ mem.chunks[c] \in
                   [next : Chunk \cup {NoChunk}, prev : Chunk \cup {NoChunk}, group : Group,
                    pt : PoolType, ents : Seq(Handles)]
             /\ Count(mem, c) \in 1..Capacity[mem.chunks[c].pt]
  <2>1. c \in Chunk /\ ~Blank(mem, c)
    BY DEF Created, Blank
  <2>2. InUse(mem, c)
    BY <1>1, <2>1 DEF GoodChunks
  <2>3. mem.chunks[c] \in ChunkRec
    BY <1>1, <2>1 DEF Mem
  <2> QED BY <2>2, <2>3 DEF InUse, Fitting, ChunkRec, ChunkPtr
<1> QED BY <1>1, <1>2, <1>3, <1>4, <1>5 DEF TypeOK

\* Entries, groups and chunks have their types, and a chunk that exists holds
\* between one entity and what its bin has room for: new_chunk is always
\* followed by resize_chunk, which never overfills it.
THEOREM TypeCorrect == Spec => []TypeOK
BY Invariance, TypesFollow, PTL

LEMMA ListsFollow == IInv => ListIntact
<1> SUFFICES ASSUME IInv, NEW g \in Group
             PROVE  \E s \in SetToSeqs(Owned(g)) :
                        LET At_(i) == IF i \in DOMAIN s THEN s[i] ELSE NoChunk
                            G == mem.groups[g]
                        IN  /\ G.firstChunk = At_(1) /\ (s # <<>> => G.lastChunk = At_(Len(s)))
                            /\ \A i \in DOMAIN s : /\ mem.chunks[s[i]].next = At_(i + 1)
                                                   /\ mem.chunks[s[i]].prev = At_(i - 1)
                            /\ G.firstFree = NoChunk \/ \E i \in DOMAIN s :
                                   G.firstFree = s[i] /\ \A j \in i..Len(s) : Room(mem, s[j]) > 0
  BY DEF ListIntact
<1>1. Lists(mem)
  BY DEF IInv, StateInv, MemInv
<1>2. PICK s \in Seq(Chunk) : IsList(mem, g, s)
  BY <1>1 DEF Lists
<1>3. /\ Linked(mem, s) /\ IsInjective(s) /\ Ends(mem, g, s) /\ FreeEnd(mem, g, s) /\ Range(s) = Owned(g)
      /\ Len(s) \in Nat /\ DOMAIN s = 1..Len(s)
  BY <1>2 DEF IsList, Linked, Members, Owned
<1>4. s \in SetToSeqs(Owned(g))
  <2> DEFINE D == 1..Cardinality(Owned(g))
  <2>1. Cardinality(Owned(g)) = Len(s)
    BY <1>3, ListBound
  <2>2. s \in [D -> Owned(g)]
    <3>1. \A i \in 1..Len(s) : s[i] \in Range(s)
      BY <1>3 DEF Range
    <3> QED BY <1>3, <2>1, <3>1
  <2>3. \A i, j \in D : i # j => s[i] # s[j]
    BY <1>3, <2>1 DEF IsInjective
  <2> QED BY <2>2, <2>3, Zenon DEF SetToSeqs
<1>5. \A i : At(s, i) = IF i \in DOMAIN s THEN s[i] ELSE NoChunk
  BY <1>3 DEF At
<1>6. mem.groups[g].firstChunk = At(s, 1) /\ (s # <<>> => mem.groups[g].lastChunk = At(s, Len(s)))
  BY <1>3 DEF Ends
<1>7. \A i \in DOMAIN s : mem.chunks[s[i]].next = At(s, i + 1) /\ mem.chunks[s[i]].prev = At(s, i - 1)
  BY <1>3 DEF Linked
<1>8. mem.groups[g].firstFree = NoChunk \/ \E i \in DOMAIN s :
          mem.groups[g].firstFree = s[i] /\ \A j \in i..Len(s) : Room(mem, s[j]) > 0
  BY <1>3 DEF FreeEnd, FreeFrom
<1> HIDE DEF At
<1> QED BY <1>4, <1>5, <1>6, <1>7, <1>8

\* The list of every group stays doubly linked and complete, and from
\* firstFree on every chunk has room, through add_chunk, remove_chunk,
\* mark_free, mark_full and clear.
THEOREM ListsIntact == Spec => []ListIntact
BY Invariance, ListsFollow, PTL

LEMMA CountsFollow == IInv => GroupCounts
<1> SUFFICES ASSUME IInv, NEW g \in Group
             PROVE  /\ mem.groups[g].chunkCount = Len(ChunksOf(g))
                    /\ mem.groups[g].size = Cardinality(SlotsIn(Range(ChunksOf(g))))
  BY DEF GroupCounts
<1>1. Lists(mem) /\ GoodCounts(mem)
  BY DEF IInv, StateInv, MemInv
<1>2. Range(ChunksOf(g)) = Members(mem, g) /\ Len(ChunksOf(g)) = Cardinality(Members(mem, g))
  BY <1>1, WalkMembers
<1>3. SlotsIn(Members(mem, g)) = SlotsOf(mem, Members(mem, g))
  BY Zenon DEF SlotsIn, SlotsOf
<1> QED BY <1>1, <1>2, <1>3 DEF GoodCounts

\* chunkCount and size of every group are the numbers of its chunks and of
\* its entities: what serialize writes ahead of them, and what resize_chunk,
\* add_chunk and remove_chunk keep up to date.
THEOREM CountsRight == Spec => []GroupCounts
BY Invariance, CountsFollow, PTL

\* A view of one slot.
LEMMA OneSlot ==
    ASSUME NEW S, NEW e \in Seq(S), NEW k \in 1..Len(e)
    PROVE  SubSeq(e, k, k) = <<e[k]>>
<1> DEFINE t == SubSeq(e, k, k)
<1>0. e[k] \in S /\ k \in Nat /\ Len(e) \in Nat
  OBVIOUS
<1>1. t \in Seq(S) /\ Len(t) = 1 /\ t[1] = e[k]
  BY <1>0
<1> HIDE DEF t
<1>2. \A x \in Seq(S), y \in S : Len(x) = 1 /\ x[1] = y => x = <<y>>
  OBVIOUS
<1> QED BY <1>0, <1>1, <1>2 DEF t

LEMMA ViewsFollow == IInv => EntityViewRight
<1> SUFFICES ASSUME IInv, job.kind # "load", NEW h \in live
             PROVE  LET v == EntityView(h) IN
                    /\ Exists(h) /\ v.chunk \in Chunk
                    /\ mem.chunks[v.chunk].group \in Group
                    /\ v.start \in 1..Count(mem, v.chunk) /\ Slots(v) = <<h>>
  BY DEF EntityViewRight
<1>1. mem \in Mem /\ GoodChunks(mem) /\ GoodSlots(mem, entries) /\ h \in Stored(mem)
  BY DEF IInv, StateInv, MemInv, LiveInv
<1>2. PICK c \in Chunk : \E i \in DOMAIN mem.chunks[c].ents : mem.chunks[c].ents[i] = h
  BY <1>1 DEF Stored
<1>3. PICK i \in DOMAIN mem.chunks[c].ents : mem.chunks[c].ents[i] = h
  BY <1>2
<1>4. Exists(h) /\ entries[h.id].chunk = c /\ entries[h.id].indexInChunk = i
  BY <1>1, <1>3 DEF GoodSlots, Leads, Exists
<1>5. ~Blank(mem, c)
  BY <1>3 DEF Blank
<1>6. mem.chunks[c].group \in Group
  BY <1>1, <1>5 DEF GoodChunks, InUse
<1>7. mem.chunks[c].ents \in Seq(Handles)
  BY <1>1 DEF Mem, ChunkRec
<1>8. i \in 1..Count(mem, c)
  BY <1>7 DEF Count
<1>9. SubSeq(mem.chunks[c].ents, i, i + 1 - 1) = <<h>>
  <2> DEFINE e == mem.chunks[c].ents
  <2>1. e \in Seq(Handles) /\ i \in 1..Len(e) /\ e[i] = h
    BY <1>3, <1>7
  <2> HIDE DEF e
  <2>2. i + 1 - 1 = i
    BY <2>1
  <2>3. SubSeq(e, i, i) = <<e[i]>>
    BY <2>1, OneSlot
  <2>4. SubSeq(e, i, i + 1 - 1) = <<h>>
    BY <2>1, <2>2, <2>3, Zenon
  <2> QED BY <2>4 DEF e
<1> QED BY <1>4, <1>6, <1>8, <1>9 DEF EntityView, Slots

\* The registry leads every handle that is alive to the slot that holds it
\* (entity_view), once deserialize has placed them all.
THEOREM ViewsRight == Spec => []EntityViewRight
BY Invariance, ViewsFollow, PTL

LEMMA VisitsFollow == IInv => VisitedOnce
<1> DEFINE all == UNION {Range(ChunksOf(g)) : g \in Group}
           visit == SlotsIn(all)
           At_(v) == mem.chunks[v[1]].ents[v[2]]
<1> SUFFICES ASSUME IInv, job.kind # "load"
             PROVE  {At_(v) : v \in visit} = live /\ Cardinality(visit) = Cardinality(live)
  BY DEF VisitedOnce
<1>1. /\ mem \in Mem /\ Lists(mem) /\ GoodChunks(mem) /\ GoodSlots(mem, entries) /\ live = Stored(mem) /\ Bounded(mem)
  BY GoodBounded DEF IInv, StateInv, MemInv, LiveInv
<1>2. \A c : c \in all <=> c \in Chunk /\ mem.chunks[c].group \in Group
  <2>1. \A g \in Group : Range(ChunksOf(g)) = Members(mem, g)
    BY <1>1, WalkMembers
  <2>2. \A c : c \in all <=> \E g \in Group : c \in Range(ChunksOf(g))
    BY Zenon
  <2> QED BY <2>1, <2>2 DEF Members
<1>3. all \in SUBSET Chunk
  BY <1>2
<1> HIDE DEF all
<1>4. visit = SlotsOf(mem, all)
  BY Zenon DEF SlotsIn, SlotsOf
<1> HIDE DEF visit
<1>5. \A v : v \in visit <=> \E c \in Chunk : \E i \in DOMAIN mem.chunks[c].ents : v = <<c, i>>
  <2>1. \A v : v \in visit <=> \E c \in all : \E i \in DOMAIN mem.chunks[c].ents : v = <<c, i>>
    <3>1. \A v : v \in visit <=> \E c \in all : v \in {c} \X DOMAIN mem.chunks[c].ents
      BY <1>4, Zenon DEF SlotsOf
    <3> QED BY <3>1
  <2>2. \A c \in Chunk : \A i \in DOMAIN mem.chunks[c].ents : c \in all
    <3> SUFFICES ASSUME NEW c \in Chunk, NEW i \in DOMAIN mem.chunks[c].ents PROVE c \in all
      OBVIOUS
    <3>1. ~Blank(mem, c)
      BY DEF Blank
    <3> QED BY <1>1, <1>2, <3>1 DEF GoodChunks, InUse
  <2> QED BY <1>3, <2>1, <2>2, Zenon
<1>6. IsFiniteSet(visit)
  BY <1>1, <1>3, <1>4, SlotsFinite
<1> DEFINE f == [v \in visit |-> At_(v)]
<1>7. \A v \in visit : At_(v) \in live
  <2> SUFFICES ASSUME NEW v \in visit PROVE At_(v) \in live
    OBVIOUS
  <2>1. PICK c \in Chunk : \E i \in DOMAIN mem.chunks[c].ents : v = <<c, i>>
    BY <1>5
  <2>2. PICK i \in DOMAIN mem.chunks[c].ents : v = <<c, i>>
    BY <2>1
  <2>3. mem.chunks[c].ents[i] \in Handles
    BY <1>1 DEF Mem, ChunkRec
  <2>4. mem.chunks[c].ents[i] \in Stored(mem)
    BY <2>3 DEF Stored
  <2> QED BY <1>1, <2>2, <2>4
<1>8. \A h \in live : \E v \in visit : At_(v) = h
  <2> SUFFICES ASSUME NEW h \in live PROVE \E v \in visit : At_(v) = h
    OBVIOUS
  <2>1. PICK c \in Chunk : \E i \in DOMAIN mem.chunks[c].ents : mem.chunks[c].ents[i] = h
    BY <1>1 DEF Stored
  <2>2. PICK i \in DOMAIN mem.chunks[c].ents : mem.chunks[c].ents[i] = h
    BY <2>1
  <2>3. <<c, i>> \in visit
    BY <1>5
  <2> QED BY <2>2, <2>3
<1>9. \A u, v \in visit : At_(u) = At_(v) => u = v
  <2> SUFFICES ASSUME NEW u \in visit, NEW v \in visit, At_(u) = At_(v) PROVE u = v
    OBVIOUS
  <2>1. PICK c \in Chunk : \E i \in DOMAIN mem.chunks[c].ents : u = <<c, i>>
    BY <1>5
  <2>2. PICK i \in DOMAIN mem.chunks[c].ents : u = <<c, i>>
    BY <2>1
  <2>3. PICK d \in Chunk : \E j \in DOMAIN mem.chunks[d].ents : v = <<d, j>>
    BY <1>5
  <2>4. PICK j \in DOMAIN mem.chunks[d].ents : v = <<d, j>>
    BY <2>3
  <2>5. mem.chunks[c].ents[i].id = mem.chunks[d].ents[j].id
    BY <2>2, <2>4
  <2>6. c = d /\ i = j
    BY <1>1, <2>5, SlotUnique
  <2> QED BY <2>2, <2>4, <2>6
<1>10. {At_(v) : v \in visit} = live
  BY <1>7, <1>8
<1> HIDE DEF At_
<1>11. f \in Bijection(visit, live)
  BY <1>7, <1>8, <1>9 DEF Bijection, Injection, Surjection, IsInjective
<1>12. Cardinality(visit) = Cardinality(live)
  <2>1. ExistsBijection(visit, live)
    BY <1>11 DEF ExistsBijection
  <2> QED BY <1>6, <2>1, FS_Bijection
<1> QED BY <1>10, <1>12

\* Iterating the chunks of all groups (dualS_all, queries) meets every entity
\* that is alive exactly once, and nothing else, between the loads.
THEOREM AllVisitedOnce == Spec => []VisitedOnce
BY Invariance, VisitsFollow, PTL
=============================================================================
