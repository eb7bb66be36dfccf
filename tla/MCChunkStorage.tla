--------------------------- MODULE MCChunkStorage ---------------------------
(* Small instances of ChunkStorage for TLC. *)
EXTENDS ChunkStorage

OneArchetype == [g \in Group |-> "archetype"]
SmallChunks == [small |-> 2, default |-> 2, large |-> 4]

ChunkSymmetry == Permutations(Chunk)
=============================================================================
