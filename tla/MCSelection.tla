----------------------------- MODULE MCSelection -----------------------------
(* Model-checking instances of Selection: no symmetry, the runs check liveness. *)
EXTENDS Selection
=============================================================================
