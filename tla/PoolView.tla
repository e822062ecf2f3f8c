------------------------------ MODULE PoolView ------------------------------
(***************************************************************************)
(* The pool as the selection sees it: who is in it, and who of them has    *)
(* been measured and can be ranked.  NodePool keeps this promise with all  *)
(* its failures, clocks and clones, and Selection takes no more than it    *)
(* for granted, so that the two may be checked apart.                      *)
(***************************************************************************)

VARIABLES
  pool,     \* the tags in the pool
  measured  \* those with a finite ewma, which select_top may rank

view == <<pool, measured>>

Init == measured \subseteq pool

(* A batch: nobody who was measured ceases to be. *)
Measure == pool' = pool /\ measured \subseteq measured' /\ measured' \subseteq pool

(* A reload or a retirement: who stays in the pool keeps what it has, who is
   new or comes back starts unmeasured. *)
Rebuild == measured' = measured \cap pool'

Next == Measure \/ Rebuild

Spec == Init /\ [][Next]_view
=============================================================================
