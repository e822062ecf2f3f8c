---------------------------- MODULE MCJevDecider ----------------------------
(* Model-checking instance of JevDecider: no symmetry, the run checks liveness. *)
EXTENDS JevDecider
=============================================================================
