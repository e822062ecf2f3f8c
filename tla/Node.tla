-------------------------------- MODULE Node --------------------------------
(***************************************************************************)
(* One node of the pool and what each kind of evidence does to it          *)
(* (scheduler/node.rs).  A node is a record with the fields of the Rust    *)
(* struct that the scheduler's decisions read.  Abstracted data:           *)
(*   - ewma is "finite" or "INFINITY" (never measured): its magnitude only *)
(*     ranks nodes, and ranking is the business of module Selection;       *)
(*   - bw says whether a bandwidth sample was ever taken;                  *)
(*   - an Instant is replaced by its age in ticks, capped at the largest   *)
(*     age the code distinguishes: failing_since by the retire keep-alive, *)
(*     last_runtime_failure by the cooldown (cooling = ticks left of it).  *)
(***************************************************************************)
EXTENDS Naturals

CONSTANTS
  HP_INITIAL,  \* 50 in the code
  HP_MAX,      \* 100 in the code
  FailCap,     \* u32::MAX: where consecutive_failures saturates
  SampleCap,   \* bound of this model on samples (the code counts on)
  KeepAlive,   \* retire_keep_alive_secs, in ticks
  Cooldown,    \* RECENT_FAILURE_COOLDOWN, in ticks
  NONE         \* the None of an Option

ASSUME NodeAssumption ==
  /\ HP_MAX \in Nat /\ HP_INITIAL \in 0..HP_MAX
  /\ FailCap \in Nat \ {0} /\ SampleCap \in Nat \ {0}
  /\ KeepAlive \in Nat /\ Cooldown \in Nat
  /\ NONE \notin Nat

NodeState ==
  [hp: 0..HP_MAX, ewma: {"INFINITY", "finite"}, samples: 0..SampleCap,
   bw: BOOLEAN, consecutive_failures: 0..FailCap,
   failing_since: (0..KeepAlive) \cup {NONE},
   ever_responded: BOOLEAN, cooling: 0..Cooldown]

New ==
  [hp |-> HP_INITIAL, ewma |-> "INFINITY", samples |-> 0, bw |-> FALSE,
   consecutive_failures |-> 0, failing_since |-> NONE,
   ever_responded |-> FALSE, cooling |-> 0]

CappedAdd(a, b, cap) == IF a + b > cap THEN cap ELSE a + b
(* Mutation: u8 arithmetic without saturation. *)
SaturatingSub_Unchecked(a, b) == a - b
SaturatingSub(a, b) == IF a > b THEN a - b ELSE 0

-----------------------------------------------------------------------------
(* Probe results. *)

Update(n) ==
  [n EXCEPT !.consecutive_failures = 0, !.failing_since = NONE,
            !.ewma = IF n.samples = 0 THEN "finite" ELSE n.ewma,
            !.samples = CappedAdd(n.samples, 1, SampleCap)]

UpdateBw(n) ==
  [n EXCEPT !.consecutive_failures = 0, !.failing_since = NONE, !.bw = TRUE]

(* Mutation: each failure restarts the clock. *)
Penalize_RestartsClock(n) ==
  [n EXCEPT !.consecutive_failures = CappedAdd(@, 1, FailCap), !.failing_since = 0]

Penalize(n) ==
  [n EXCEPT !.consecutive_failures = CappedAdd(@, 1, FailCap),
            !.failing_since = IF @ = NONE THEN 0 ELSE @]

NoteProbeSuccess(n) == [n EXCEPT !.hp = CappedAdd(@, 1, HP_MAX)]
NoteProbeFailure(n) == [n EXCEPT !.hp = SaturatingSub(@, 5)]

(* Traffic results. *)

(* Mutation: traffic clears the count and forgets the clock. *)
NoteProxySuccess_KeepsClock(n) ==
  [n EXCEPT !.hp = CappedAdd(@, 2, HP_MAX), !.ever_responded = TRUE,
            !.consecutive_failures = 0, !.cooling = 0]

NoteProxySuccess(n) ==
  [n EXCEPT !.hp = CappedAdd(@, 2, HP_MAX), !.ever_responded = TRUE,
            !.consecutive_failures = 0, !.failing_since = NONE, !.cooling = 0]

NoteProxyFailure(n) ==
  [n EXCEPT !.hp = SaturatingSub(@, 15), !.cooling = Cooldown]

-----------------------------------------------------------------------------
(* Mutation: the reload that once left ewma behind. *)
AdoptScore_DropsEwma(o) ==
  [New EXCEPT !.hp = o.hp, !.samples = o.samples, !.bw = o.bw,
              !.consecutive_failures = o.consecutive_failures,
              !.failing_since = o.failing_since,
              !.ever_responded = o.ever_responded]

(* A node built by a reload takes its predecessor's score; the moment of the
   last traffic failure stays behind. *)
AdoptScore(o) ==
  [New EXCEPT !.hp = o.hp, !.ewma = o.ewma, !.samples = o.samples, !.bw = o.bw,
              !.consecutive_failures = o.consecutive_failures,
              !.failing_since = o.failing_since,
              !.ever_responded = o.ever_responded]

(* Time passes by one tick. *)
Aged(n) ==
  [n EXCEPT !.failing_since = IF @ = NONE THEN @ ELSE CappedAdd(@, 1, KeepAlive),
            !.cooling = SaturatingSub(@, 1)]

(* What retire_stale accepts as evidence that the node ever worked. *)
HasEvidence(n) == n.samples > 0 \/ n.ever_responded
=============================================================================
