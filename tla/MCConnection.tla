---------------------------- MODULE MCConnection ----------------------------
(* Model-checking instances of Connection: no symmetry, a run checks liveness. *)
EXTENDS Connection
=============================================================================
