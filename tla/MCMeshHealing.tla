--------------------------- MODULE MCMeshHealing ---------------------------
(* A small instance of MeshHealing for TLC. *)
EXTENDS MeshHealing

CONSTANTS a1, a2
=============================================================================
