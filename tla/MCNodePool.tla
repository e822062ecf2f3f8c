----------------------------- MODULE MCNodePool -----------------------------
(* Model-checking instances of NodePool: no symmetry, a run checks liveness. *)
EXTENDS NodePool
=============================================================================
