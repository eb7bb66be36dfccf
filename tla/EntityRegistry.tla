--------------------------- MODULE EntityRegistry ---------------------------
(***************************************************************************)
(* The entity registry of the ECS (src/ecs/entities.cpp, src/ecs/entity.hpp): *)
(* a table of entries and a list of free ids.  A handle (dual_entity_t) is *)
(* an id with the version the entry had when the handle was made; freeing  *)
(* an entity changes the version, so that old handles can be told apart.   *)
(*                                                                         *)
(* The registry has no behaviour of its own: EntityHandles uses it the way *)
(* its owners do.  Ids count from 1.                                       *)
(***************************************************************************)
EXTENDS Integers, Sequences, FiniteSets

CONSTANTS
    Chunk, NoChunk,   \* chunks of entities, and the null pointer
    TransientVersion  \* kEntityTransientVersion, 255: no entity has this version

ASSUME RegistryAssumption ==
    /\ NoChunk \notin Chunk
    /\ TransientVersion \in Nat \ {0}

VARIABLES
    entries,     \* for each id the place of the entity and its version
    freeEntries  \* the ids to use again, the last one first

Versions == 0..(TransientVersion - 1)
Handles == [id : Nat \ {0}, version : Versions]
Entries == [chunk : Chunk \cup {NoChunk}, indexInChunk : Nat, version : Versions]

\* entries.resize adds zero-initialised entries.
NewEntry == [chunk |-> NoChunk, indexInChunk |-> 0, version |-> 0]

-----------------------------------------------------------------------------
(* new_entities                                                            *)

\* rn: how many of n new entities get a recycled id.
Recycled(n) == IF Len(freeEntries) < n THEN Len(freeEntries) ELSE n

\* Mutant: the ids are taken from the front while the list is cut at its end.
NewIdFront(n, j) ==
    IF j <= Recycled(n) THEN freeEntries[j] ELSE Len(entries) + j - Recycled(n)

\* The id of the j-th of n new entities: from the end of the free list, in the
\* order of the list, and then from the end of the table.
NewId(n, j) ==
    IF j <= Recycled(n) THEN freeEntries[Len(freeEntries) - Recycled(n) + j]
                        ELSE Len(entries) + j - Recycled(n)

EntriesGrown(n) == entries \o [j \in 1..(n - Recycled(n)) |-> NewEntry]
FreeCut(n) == SubSeq(freeEntries, 1, Len(freeEntries) - Recycled(n))

NewHandles(n) ==
    [j \in 1..n |-> [id |-> NewId(n, j), version |-> EntriesGrown(n)[NewId(n, j)].version]]

-----------------------------------------------------------------------------
(* free_entities                                                           *)

\* e_inc_version, k times: the version after TransientVersion - 1 is 0.
VersionAfter(v, k) == (v + k) % TransientVersion

\* How often the loop meets the id.
Times(hs, id) == Cardinality({j \in DOMAIN hs : hs[j].id = id})

\* Mutant: a freed entry keeps its version.
FreedKept(e, k) == [chunk |-> NoChunk, indexInChunk |-> 0, version |-> e.version]
Freed(e, k) == [chunk |-> NoChunk, indexInChunk |-> 0, version |-> VersionAfter(e.version, k)]

EntriesFreed(hs) ==
    [id \in DOMAIN entries |->
        IF Times(hs, id) = 0 THEN entries[id] ELSE Freed(entries[id], Times(hs, id))]
FreeExtended(hs) == freeEntries \o [j \in DOMAIN hs |-> hs[j].id]

-----------------------------------------------------------------------------
\* dual_storage_t::exist
Exists(h) == h.id \in DOMAIN entries /\ entries[h.id].version = h.version
=============================================================================
