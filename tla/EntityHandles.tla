--------------------------- MODULE EntityHandles ---------------------------
(***************************************************************************)
(* Handles of an entity registry, as owners use them: new_entities hands   *)
(* out handles, free_entities takes back handles that are in use.  The job *)
(* scheduler keeps its resources this way (add_resource, remove_resource   *)
(* in src/ecs/scheduler.cpp), a storage its entities.                      *)
(***************************************************************************)
EXTENDS EntityRegistry, Functions

CONSTANTS
    MaxBatch,  \* bound: handles in one call
    MaxEntries \* bound: entries in the table, at most ENTITY_ID_MASK

ASSUME HandlesAssumption == MaxBatch \in Nat /\ MaxEntries \in Nat

VARIABLES
    live, \* the handles in use
    age   \* history: how often the id of each handle ever made has been freed
          \* since, counted up to TransientVersion

vars == <<entries, freeEntries, live, age>>

Init ==
    /\ entries = <<>> /\ freeEntries = <<>>
    /\ live = {} /\ age = <<>>

Older(a) == IF a = TransientVersion THEN a ELSE a + 1

NewEntities(n) ==
    /\ Len(entries) + n - Recycled(n) <= MaxEntries
    /\ entries' = EntriesGrown(n)
    /\ freeEntries' = FreeCut(n)
    /\ live' = live \cup Range(NewHandles(n))
    /\ age' = [h \in DOMAIN age \cup Range(NewHandles(n)) |->
                  IF h \in Range(NewHandles(n)) THEN 0 ELSE age[h]]

FreeEntities(hs) ==
    /\ entries' = EntriesFreed(hs)
    /\ freeEntries' = FreeExtended(hs)
    /\ live' = live \ Range(hs)
    /\ age' = [h \in DOMAIN age |-> IF Times(hs, h.id) = 0 THEN age[h] ELSE Older(age[h])]

Next ==
    \/ \E n \in 1..MaxBatch : NewEntities(n)
    \/ \E n \in 1..MaxBatch : \E hs \in Injection(1..n, live) : FreeEntities(hs)

Spec == Init /\ [][Next]_vars

-----------------------------------------------------------------------------
(* Properties.                                                             *)

TypeOK ==
    /\ entries \in Seq(Entries) /\ freeEntries \in Seq(DOMAIN entries)
    /\ live \subseteq DOMAIN age /\ DOMAIN age \subseteq Handles
    /\ age \in [DOMAIN age -> 0..TransientVersion]

\* Handles in use exist, no two of them share an id, and new_entities and
\* free_entities pass every id back and forth: it is in use or in the free
\* list, once, and never both.
IdsPartitioned ==
    /\ \A h \in live : Exists(h)
    /\ \A g, h \in live : g.id = h.id => g = h
    /\ IsInjective(freeEntries)
    /\ DOMAIN entries = Range(freeEntries) \cup {h.id : h \in live}
    /\ \A h \in live : h.id \notin Range(freeEntries)

\* exist() recognises a handle that was freed, until its id has been freed
\* TransientVersion times: the eight bits of the version then repeat.
StaleDetected ==
    \A h \in DOMAIN age : (h \notin live /\ age[h] < TransientVersion) => ~Exists(h)
=============================================================================
