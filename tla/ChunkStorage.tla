---------------------------- MODULE ChunkStorage ----------------------------
(***************************************************************************)
(* The storage of the ECS (src/ecs/storage.cpp, archetype.cpp, chunk.cpp): *)
(* entities are the slots of chunks, a group owns a doubly linked list of  *)
(* chunks, full ones before firstFree, and the registry knows the chunk    *)
(* and the slot of every entity.                                           *)
(*                                                                         *)
(* Component data is left out: it moves with the handle in the slot.  A    *)
(* call that fills several chunks runs the program's callback after each   *)
(* of them, so each chunk is a step.  Groups without tracked components    *)
(* (dead is null, cloned is the group itself).  Slots count from 1.        *)
(***************************************************************************)
EXTENDS EntityRegistry, SequencesExt

CONSTANTS
    Group, NoGroup,     \* groups, by type and metadata, and the null pointer
    Archetype,          \* the archetype of each group
    Capacity,           \* chunkCapacity, by pool type
    kSmallBinThreshold, \* groups with fewer chunks may get small ones
    LargeFactor,        \* 8: a large chunk is for more than 8 default ones
    MaxBatch,           \* bound: entities of one call
    MaxEntries          \* bound: entries of the registry

PoolType == {"small", "default", "large"}

\* Bins of 1 KB, 64 KB and 1 MB, divided by the size of an entity: a small one
\* may hold none, a large one more than eight times a default one.
ASSUME StorageAssumption ==
    /\ IsFiniteSet(Chunk) /\ IsFiniteSet(Group)
    /\ NoGroup \notin Group /\ Group = DOMAIN Archetype
    /\ Capacity \in [PoolType -> Nat] /\ Capacity["default"] > 0
    /\ Capacity["small"] <= Capacity["default"]
    /\ Capacity["default"] * LargeFactor < Capacity["large"]
    /\ kSmallBinThreshold \in Nat /\ LargeFactor \in Nat \ {0}
    /\ MaxBatch \in Nat /\ MaxEntries \in Nat

VARIABLES
    mem,  \* the chunks and the groups
    live, \* history: the handles of the entities that are alive
    job   \* what is left of the call that is running

vars == <<entries, freeEntries, mem, live, job>>

NoChunks == [firstChunk |-> NoChunk, lastChunk |-> NoChunk, firstFree |-> NoChunk,
             chunkCount |-> 0, size |-> 0]
NotCreated == [next |-> NoChunk, prev |-> NoChunk, group |-> NoGroup, pt |-> "none", ents |-> <<>>]
EmptyMem == [chunks |-> [c \in Chunk |-> NotCreated], groups |-> [g \in Group |-> NoChunks]]
Idle == [kind |-> "idle", work |-> <<>>, view |-> <<>>]

Init ==
    /\ entries = <<>> /\ freeEntries = <<>>
    /\ mem = EmptyMem /\ live = {} /\ job = Idle

Created == {c \in Chunk : mem.chunks[c].pt # "none"}

-----------------------------------------------------------------------------
(* The chunk list of a group: operators on the memory m.                   *)

Count(m, c) == Len(m.chunks[c].ents)
Room(m, c) == Capacity[m.chunks[c].pt] - Count(m, c)

\* a->link(c)
Link(m, a, c) ==
    LET n == m.chunks[a].next
        m1 == [m EXCEPT !.chunks[c].next = n, !.chunks[c].prev = a]
        m2 == IF n = NoChunk THEN m1 ELSE [m1 EXCEPT !.chunks[n].prev = c]
    IN  [m2 EXCEPT !.chunks[a].next = c]

\* c->unlink()
Unlink(m, c) ==
    LET p == m.chunks[c].prev
        n == m.chunks[c].next
        m1 == IF p = NoChunk THEN m ELSE [m EXCEPT !.chunks[p].next = n]
        m2 == IF n = NoChunk THEN m1 ELSE [m1 EXCEPT !.chunks[n].prev = p]
    IN  [m2 EXCEPT !.chunks[c].prev = NoChunk, !.chunks[c].next = NoChunk]

\* Mutant: the tail is not moved back.
TakeOutKeepingTail(m, g, c) ==
    Unlink([m EXCEPT !.groups[g].firstChunk = IF @ = c THEN m.chunks[c].next ELSE @], c)

\* remove(firstChunk, lastChunk, c)
TakeOut(m, g, c) ==
    Unlink([m EXCEPT !.groups[g].lastChunk = IF @ = c THEN m.chunks[c].prev ELSE @,
                     !.groups[g].firstChunk = IF @ = c THEN m.chunks[c].next ELSE @], c)

AddChunk(m, g, c) ==
    LET m1 == [m EXCEPT !.groups[g].size = @ + Count(m, c),
                        !.groups[g].chunkCount = @ + 1, !.chunks[c].group = g]
    IN  IF m.groups[g].firstChunk = NoChunk
        THEN [m1 EXCEPT !.groups[g].firstChunk = c, !.groups[g].lastChunk = c,
                        !.groups[g].firstFree = IF Room(m, c) > 0 THEN c ELSE @]
        ELSE IF Room(m, c) > 0
        THEN [Link(m1, m.groups[g].lastChunk, c) EXCEPT
                 !.groups[g].lastChunk = c,
                 !.groups[g].firstFree = IF @ = NoChunk THEN c ELSE @]
        ELSE Link(m1, m.groups[g].firstChunk, c)

\* Mutant: firstFree keeps pointing to the chunk.
RemoveChunkStillFree(m, g, c) ==
    [TakeOut([m EXCEPT !.groups[g].size = @ - Count(m, c), !.groups[g].chunkCount = @ - 1], g, c)
        EXCEPT !.chunks[c].group = NoGroup]

RemoveChunk(m, g, c) ==
    [TakeOut([m EXCEPT !.groups[g].size = @ - Count(m, c), !.groups[g].chunkCount = @ - 1,
                      !.groups[g].firstFree = IF @ = c THEN m.chunks[c].next ELSE @], g, c)
        EXCEPT !.chunks[c].group = NoGroup]

MarkFree(m, g, c) ==
    LET m1 == TakeOut(m, g, c)
        t == m1.groups[g].lastChunk
        m2 == IF t = NoChunk THEN m1 ELSE Link(m1, t, c)
    IN  [m2 EXCEPT !.groups[g].lastChunk = c,
                   !.groups[g].firstFree = IF @ = NoChunk THEN c ELSE @,
                   !.groups[g].firstChunk = IF @ = NoChunk THEN c ELSE @]

MarkFull(m, g, c) ==
    IF m.groups[g].firstFree = c
    THEN [m EXCEPT !.groups[g].firstFree = m.chunks[c].next]
    ELSE LET m1 == TakeOut(m, g, c)
             h == m1.groups[g].firstChunk
             m2 == IF h = NoChunk THEN m1
                   ELSE Link([m1 EXCEPT !.chunks[c].next = m1.chunks[h].next], c, h)
         IN  [m2 EXCEPT !.groups[g].firstChunk = c,
                        !.groups[g].lastChunk = IF @ = NoChunk THEN c ELSE @]

\* Mutant: the size of the group is not kept up to date.
ResizeUncounted(m, g, c, hs) ==
    LET m1 == [m EXCEPT !.chunks[c].ents = @ \o hs]
    IN  IF Room(m1, c) = 0 THEN MarkFull(m1, g, c) ELSE MarkFree(m1, g, c)

\* resize_chunk of a chunk that grows by the slots hs.
ResizeChunk(m, g, c, hs) ==
    LET m1 == [m EXCEPT !.groups[g].size = @ + Len(hs), !.chunks[c].ents = @ \o hs]
    IN  IF Room(m1, c) = 0 THEN MarkFull(m1, g, c) ELSE MarkFree(m1, g, c)

-----------------------------------------------------------------------------
(* Views for new entities.                                                 *)

\* new_chunk's choice of a pool type.
PoolFor(g, hint) ==
    IF mem.groups[g].chunkCount < kSmallBinThreshold /\ hint < Capacity["small"] THEN "small"
    ELSE IF hint > Capacity["default"] * LargeFactor THEN "large" ELSE "default"

\* Mutant: any chunk with room will do.
StrictFitLoose(g, n) == mem.groups[g].firstFree

\* allocate_view_strict walks from firstFree to a chunk with room for n slots.
StrictFit(g, n) ==
    LET Done(c) == c = NoChunk \/ Room(mem, c) >= n
        walk[i \in 0..Cardinality(Chunk)] ==
            IF i = 0 THEN mem.groups[g].firstFree
            ELSE IF Done(walk[i - 1]) THEN walk[i - 1] ELSE mem.chunks[walk[i - 1]].next
    IN  walk[Cardinality(Chunk)]

\* The memory with c, the chunk that was found or else a new one.
WithChunk(g, n, found, c) ==
    IF found # NoChunk THEN mem
    ELSE AddChunk([mem EXCEPT !.chunks[c] = [NotCreated EXCEPT !.pt = PoolFor(g, n)]], g, c)

Candidates(found) ==
    IF found # NoChunk THEN {found} ELSE Chunk \ Created

\* Mutant: the slots are counted from the start of the chunk.
PlacedFromStart(es, c, start, hs) ==
    [id \in DOMAIN es |->
        LET js == {j \in DOMAIN hs : hs[j].id = id} IN
        IF js = {} THEN es[id]
        ELSE [chunk |-> c, indexInChunk |-> Max(js),
              version |-> IF job.kind = "load" THEN hs[Max(js)].version ELSE es[id].version]]

\* fill_entities, move_entities: the entries es once the handles hs have the
\* slots of c after start.  Only deserialize sets versions.
Placed(es, c, start, hs) ==
    [id \in DOMAIN es |->
        LET js == {j \in DOMAIN hs : hs[j].id = id} IN
        IF js = {} THEN es[id]
        ELSE [chunk |-> c, indexInChunk |-> start + Max(js),
              version |-> IF job.kind = "load" THEN hs[Max(js)].version ELSE es[id].version]]

Batch(g, hs) == [group |-> g, n |-> Len(hs), ents |-> hs]
Rest(b, k) == [b EXCEPT !.n = @ - k, !.ents = IF @ = <<>> THEN @ ELSE SubSeq(@, k + 1, Len(@))]

\* The job once k entities of its first batch are done.
Continued(k) ==
    LET b == Head(job.work)
        w == IF k = b.n THEN Tail(job.work) ELSE <<Rest(b, k)>> \o Tail(job.work)
    IN  IF w = <<>> /\ job.kind # "cast" THEN Idle ELSE [job EXCEPT !.work = w]

\* One allocate_view or allocate_view_strict, and the entities of its slots.
FillView ==
    /\ job.work # <<>>
    /\ LET b == Head(job.work)
           g == b.group
           strict == job.kind \in {"single", "load"}
           found == IF strict THEN StrictFit(g, b.n) ELSE mem.groups[g].firstFree
       IN  \E c \in Candidates(found) :
             LET m == WithChunk(g, b.n, found, c)
                 k == IF strict \/ Room(m, c) > b.n THEN b.n ELSE Room(m, c)
                 hs == IF b.ents = <<>> THEN NewHandles(k) ELSE SubSeq(b.ents, 1, k)
             IN  /\ mem' = ResizeChunk(m, g, c, hs)
                 /\ entries' = Placed(IF b.ents = <<>> THEN EntriesGrown(k) ELSE entries,
                                      c, Count(m, c), hs)
                 /\ freeEntries' = IF b.ents = <<>> THEN FreeCut(k) ELSE freeEntries
                 /\ live' = live \cup Range(hs)
                 /\ job' = Continued(k)

-----------------------------------------------------------------------------
(* The calls.                                                              *)

Fits(n) == Len(entries) + n - Recycled(n) <= MaxEntries

Start(kind, work) == job = Idle /\ job' = [Idle EXCEPT !.kind = kind, !.work = work]

\* allocate; instantiate(src, count) into the group of src.
Allocate(g, n) ==
    /\ Fits(n) /\ Start("fresh", <<[group |-> g, n |-> n, ents |-> <<>>]>>)
    /\ UNCHANGED <<entries, freeEntries, mem, live>>

Instantiate(h, n) == Allocate(mem.chunks[entries[h.id].chunk].group, n)

\* deserialize_single
DeserializeSingle(g) ==
    /\ Fits(1) /\ Start("single", <<[group |-> g, n |-> 1, ents |-> <<>>]>>)
    /\ UNCHANGED <<entries, freeEntries, mem, live>>

\* instantiate of the prefab that the entities src make up: all handles are
\* made first, every src.size-th is a copy of the same entity.
InstantiatePrefab(src, n) ==
    LET size == Len(src)
        hs == NewHandles(n * size)
    IN  /\ Fits(n * size)
        /\ Start("prefab", [i \in 1..size |->
               Batch(mem.chunks[entries[src[i].id].chunk].group,
                     [j \in 1..n |-> hs[(j - 1) * size + i]])])
        /\ entries' = EntriesGrown(n * size) /\ freeEntries' = FreeCut(n * size)
        /\ UNCHANGED <<mem, live>>

\* The chunks of group g, in the order of its list.
ChunksOf(g) ==
    LET walk[i \in 1..Cardinality(Chunk)] ==
            IF i = 1 THEN mem.groups[g].firstChunk
            ELSE IF walk[i - 1] = NoChunk THEN NoChunk ELSE mem.chunks[walk[i - 1]].next
    IN  SubSeq(walk, 1, Cardinality({i \in DOMAIN walk : walk[i] # NoChunk}))

\* serialize, and deserialize into a storage that is empty; the groups come
\* in the order of a hash map.
Reload(order) ==
    /\ live # {} /\ Start("load", FlattenSeq([i \in DOMAIN order |->
           [j \in DOMAIN ChunksOf(order[i]) |->
               Batch(order[i], mem.chunks[ChunksOf(order[i])[j]].ents)]]))
    /\ mem' = EmptyMem
    /\ entries' = [id \in DOMAIN entries |-> NewEntry]
    /\ UNCHANGED <<freeEntries, live>>

Entities(g) == UNION {Range(mem.chunks[c].ents) : c \in Range(ChunksOf(g))}

\* destroy(meta) of the groups G: clear() each of them.
DestroyAll(G) ==
    /\ job = Idle
    /\ mem' = [chunks |-> [c \in Chunk |-> IF \E g \in G : c \in Range(ChunksOf(g))
                                           THEN NotCreated ELSE mem.chunks[c]],
               groups |-> [g \in Group |->
                   IF g \in G THEN [NoChunks EXCEPT !.lastChunk = mem.groups[g].lastChunk]
                   ELSE mem.groups[g]]]
    /\ live' = live \ UNION {Entities(g) : g \in G}
    /\ UNCHANGED <<entries, freeEntries, job>>

Reset ==
    /\ job = Idle /\ mem' = EmptyMem
    /\ entries' = <<>> /\ freeEntries' = <<>> /\ live' = {}
    /\ UNCHANGED job

\* cast of the view of a whole chunk to a group of the same archetype.
CastChunk(c, g) ==
    LET src == mem.chunks[c].group IN
    /\ job = Idle /\ src \in Group \ {g} /\ Archetype[src] = Archetype[g]
    /\ mem' = AddChunk(RemoveChunk(mem, src, c), g, c)
    /\ UNCHANGED <<entries, freeEntries, live, job>>

-----------------------------------------------------------------------------
(* Calls that take entities out of a chunk.                                *)

Slots(v) == SubSeq(mem.chunks[v.chunk].ents, v.start, v.start + v.count - 1)
EntityView(h) == [chunk |-> entries[h.id].chunk, start |-> entries[h.id].indexInChunk, count |-> 1]
WholeView(c) == [chunk |-> c, start |-> 1, count |-> Count(mem, c)]

\* free(view), when the entries are es: the last slots of the chunk are moved
\* to the view.  The count of the chunk stays.
FreeView(es, v) ==
    LET s == mem.chunks[v.chunk].ents
        k == Min({v.count, Len(s) - (v.start - 1) - v.count})
        From(i) == Len(s) - k + 1 + i - v.start
        moved == SubSeq(s, Len(s) - k + 1, Len(s))
    IN  /\ mem' = [mem EXCEPT !.groups[mem.chunks[v.chunk].group].size = @ - v.count,
                              !.chunks[v.chunk].ents = [i \in DOMAIN s |->
                                  IF i \in v.start..(v.start + k - 1) THEN s[From(i)] ELSE s[i]]]
        /\ entries' = [id \in DOMAIN es |->
                          LET js == {j \in DOMAIN moved : moved[j].id = id} IN
                          IF js = {} THEN es[id]
                          ELSE [es[id] EXCEPT !.indexInChunk = v.start + Max(js) - 1]]

\* destroy(view), cast to no group.
Destroy(v) ==
    /\ job = Idle
    /\ freeEntries' = FreeExtended(Slots(v)) /\ live' = live \ Range(Slots(v))
    /\ FreeView(EntriesFreed(Slots(v)), v)
    /\ UNCHANGED job

\* cast of other views: the entities move, then the view is freed.
CastView(v, g) ==
    LET src == mem.chunks[v.chunk].group IN
    /\ job = Idle /\ src \in Group \ {g}
    /\ v = WholeView(v.chunk) => Archetype[src] # Archetype[g]
    /\ job' = [kind |-> "cast", work |-> <<Batch(g, Slots(v))>>, view |-> v]
    /\ UNCHANGED <<entries, freeEntries, mem, live>>

FinishCast ==
    /\ job.kind = "cast" /\ job.work = <<>>
    /\ FreeView(entries, job.view)
    /\ job' = Idle
    /\ UNCHANGED <<freeEntries, live>>

-----------------------------------------------------------------------------
(* A program that only takes out whole groups, and casts chunks with room. *)

Calls ==
    \/ \E g \in Group : DeserializeSingle(g) \/ \E n \in 1..MaxBatch : Allocate(g, n)
    \/ \E h \in live, n \in 1..MaxBatch : Instantiate(h, n)
    \/ \E g, h \in live, n \in 1..MaxBatch : InstantiatePrefab(<<g, h>>, n)
    \/ \E order \in SetToSeqs(Group) : Reload(order)
    \/ \E G \in SUBSET Group : DestroyAll(G)
    \/ Reset

Next ==
    \/ FillView \/ (job = Idle /\ Calls)
    \/ \E c \in Created, g \in Group : Room(mem, c) > 0 /\ CastChunk(c, g)

Spec == Init /\ [][Next]_vars

\* Every call.
Views == {EntityView(h) : h \in live} \cup {WholeView(c) : c \in Created}

NextAll ==
    \/ FillView \/ FinishCast \/ (job = Idle /\ Calls)
    \/ \E c \in Created, g \in Group : CastChunk(c, g)
    \/ job = Idle /\ \E v \in Views : Destroy(v) \/ \E g \in Group : CastView(v, g)

SpecAll == Init /\ [][NextAll]_vars

-----------------------------------------------------------------------------
(* Properties.                                                             *)

TypeOK ==
    /\ entries \in Seq(Entries) /\ Len(entries) <= MaxEntries
    /\ freeEntries \in Seq(DOMAIN entries) /\ live \subseteq Handles
    /\ \A g \in Group : mem.groups[g] \in
           [firstChunk : Chunk \cup {NoChunk}, lastChunk : Chunk \cup {NoChunk},
            firstFree : Chunk \cup {NoChunk}, chunkCount : Nat, size : Nat]
    /\ \A c \in Created :
           /\ mem.chunks[c] \in
                 [next : Chunk \cup {NoChunk}, prev : Chunk \cup {NoChunk}, group : Group,
                  pt : PoolType, ents : Seq(Handles)]
           /\ Count(mem, c) \in 1..Capacity[mem.chunks[c].pt]

Owned(g) == {c \in Chunk : mem.chunks[c].group = g}

\* The list of a group is doubly linked, runs from firstChunk to lastChunk
\* through every chunk that names the group as its own, and from firstFree on
\* every chunk has room: allocate_view never returns an empty view.
ListIntact ==
    \A g \in Group : \E s \in SetToSeqs(Owned(g)) :
        LET At(i) == IF i \in DOMAIN s THEN s[i] ELSE NoChunk
            G == mem.groups[g]
        IN  /\ G.firstChunk = At(1) /\ (s # <<>> => G.lastChunk = At(Len(s)))
            /\ \A i \in DOMAIN s : /\ mem.chunks[s[i]].next = At(i + 1)
                                   /\ mem.chunks[s[i]].prev = At(i - 1)
            /\ G.firstFree = NoChunk \/ \E i \in DOMAIN s :
                   G.firstFree = s[i] /\ \A j \in i..Len(s) : Room(mem, s[j]) > 0

\* The slots of the chunks C.
SlotsIn(C) == UNION {{c} \X DOMAIN mem.chunks[c].ents : c \in C}

\* A group knows how many chunks and entities it has: serialize writes the
\* one as the number of chunks that follow, defragment lays out the other.
GroupCounts ==
    \A g \in Group :
        /\ mem.groups[g].chunkCount = Len(ChunksOf(g))
        /\ mem.groups[g].size = Cardinality(SlotsIn(Range(ChunksOf(g))))

\* A handle that is alive leads to the slot that holds it (entity_view, "get
\* the chunk view of an entity"), after a reload too.
EntityViewRight ==
    job.kind # "load" => \A h \in live :
        LET v == EntityView(h) IN
        /\ Exists(h) /\ v.chunk \in Chunk
        /\ mem.chunks[v.chunk].group \in Group
        /\ v.start \in 1..Count(mem, v.chunk) /\ Slots(v) = <<h>>

\* Who visits the chunks of all groups (dualS_all, queries) meets every
\* entity that is alive, once, and no other.
VisitedOnce ==
    LET visit == SlotsIn(UNION {Range(ChunksOf(g)) : g \in Group})
    IN  job.kind # "load" =>
            /\ {mem.chunks[v[1]].ents[v[2]] : v \in visit} = live
            /\ Cardinality(visit) = Cardinality(live)
=============================================================================
