------------------------------- MODULE MCTun -------------------------------
(* Model-checking instances of Tun: no symmetry, the run checks liveness. *)
EXTENDS Tun

(* Chain, which picks by place, is the filter of the code: what is left of the
   selection when the tags without an adapter are passed over. *)
ChainOf(sel, reg, n) ==
  LET Held(t) == t \in reg.tags
      here == SelectSeq(sel, Held)
  IN [k \in 1..(IF Len(here) < n THEN Len(here) ELSE n) |->
        [tag |-> here[k], gen |-> reg.gen]]

ASSUME ChainIsFilter ==
  \A sel \in Lists, reg \in Registries, n \in 1..(MaxAttempts + 1) :
    Chain(sel, reg, n) = ChainOf(sel, reg, n)
=============================================================================
