--------------------------- MODULE MCPetReallocate --------------------------
(* PetReallocate with two addresses per tier.                              *)
EXTENDS PetReallocate

CONSTANTS i1, i2

MCIds == {i1, i2}

====
