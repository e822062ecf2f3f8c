------------------------------ MODULE TunExit ------------------------------
(***************************************************************************)
(* What the TUN data plane promises its connections: each sync makes its   *)
(* exit the one that is due at that moment.  How a sync finds out that     *)
(* there is nothing to do is no part of the promise.                       *)
(***************************************************************************)

VARIABLES
  due,   \* what the selection, the registry and fallback_attempts call for
  exit,  \* what a new connection tries in turn before DIRECT
  fresh  \* whether nothing has changed since the last sync

tvars == <<due, exit, fresh>>

Init == exit = <<>> /\ fresh = FALSE

(* The scheduler, a command or the panel, whatever is due from then on. *)
Change == exit' = exit /\ fresh' = FALSE

Sync == exit' = due /\ due' = due /\ fresh' = TRUE

Next == Change \/ Sync

Spec == Init /\ [][Next]_tvars

(* After a sync, and until the next change, the exit is the one that is due. *)
FreshExit == fresh => exit = due
=============================================================================
