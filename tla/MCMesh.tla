------------------------------- MODULE MCMesh -------------------------------
(* Small instances of Mesh and MeshTiming for TLC. *)
EXTENDS MeshTiming

CONSTANTS a1, a2
=============================================================================
