---------------------------- MODULE MCRouteCache ----------------------------
(* Model-checking instances of RouteCache. *)
EXTENDS RouteCache, TLC

Symmetry == Permutations(Hosts)
=============================================================================
