----------------------------- MODULE MCUdpRelay -----------------------------
(* Model-checking instances of UdpRelay: no symmetry, the runs check liveness. *)
EXTENDS UdpRelay
=============================================================================
