--------------------------- MODULE MCRenderGraph ---------------------------
(* Small instances of RenderGraphBackend for TLC. *)
EXTENDS RenderGraphBackend, TLC

Texture == [tex |-> TRUE, size |-> 1, samples |-> 1, dedicated |-> FALSE, start |-> "UNDEFINED"]
LargeTexture == [tex |-> TRUE, size |-> 2, samples |-> 1, dedicated |-> FALSE, start |-> "UNDEFINED"]
Buffer == [tex |-> FALSE, size |-> 1, samples |-> 1, dedicated |-> FALSE, start |-> "COPY_DEST"]

TextureDescs == {Texture}
AllDescs == {Texture, LargeTexture, Buffer}

PhysSymmetry == Permutations(Phys)
=============================================================================
