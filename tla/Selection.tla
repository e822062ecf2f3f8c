----------------------------- MODULE Selection -----------------------------
(***************************************************************************)
(* Who the data plane dials: the shared `selection`, written by the        *)
(* scheduler (seed, reselect), by `select <tag>`, `select auto` and        *)
(* `reload`.  Every lock of the code is taken and released within one      *)
(* action; a command or a reselect is as many actions as it takes locks,   *)
(* and what it read before it keeps in its own copy.                       *)
(* ranking is the order in which score_with puts the measured nodes: how   *)
(* scores come about is the business of module NodePool.                   *)
(***************************************************************************)
EXTENDS Naturals, Sequences, FiniteSets, Functions

CONSTANTS
  Tags,      \* every tag a nodes.yaml may list
  Clients,   \* concurrent ctl connections and web requests
  Capacity,  \* capacity, clamped to 1..50 by RuntimeTuning::validated
  JevOn,     \* whether a jev decider is configured
  NONE       \* the None of an Option

ASSUME SelectionAssumption ==
  /\ IsFiniteSet(Tags) /\ NONE \notin Tags
  /\ Capacity \in Nat \ {0} /\ JevOn \in BOOLEAN

VARIABLES
  registry,   \* tags with an adapter
  pool,       \* tags in the pool
  ranking,    \* the measured ones among them, best score first
  head,       \* the tag a fresh jev decision promotes, or NONE
  pinned, pinTarget,
  selection,
  store,      \* what the meow SelectorStore file names, or NONE
  sched,      \* the scheduler: its step, the target it read, its desired list
  cmd         \* each client: the step of its command, its tag, its specs, its top list

vars == <<registry, pool, ranking, head, pinned, pinTarget, selection, store, sched, cmd>>

-----------------------------------------------------------------------------
(* Lists of distinct tags: the test, and the finite set of them. *)
IsList(s, S) == s \in Seq(S) /\ IsInjective(s)

Lists(S) == {s \in UNION {[1..n -> S] : n \in 0..Cardinality(S)} : IsInjective(s)}

Take(s, n) == SubSeq(s, 1, IF Len(s) < n THEN Len(s) ELSE n)

SelectTop(r) == Take(r, Capacity)

(* Mutation: the promoted tag is put in front and left where it was. *)
ApplyHead_Inserts(s, h) == IF h \notin Range(s) THEN s ELSE <<h>> \o s

(* Mutation: the tag that the promoted one pushes back is lost, its own
   old place kept. *)
ApplyHead_OffByOne(s, h) ==
  IF h \notin Range(s) THEN s ELSE [i \in DOMAIN s |-> IF i = 1 THEN h ELSE s[i]]

(* apply_head_to: the promoted tag, if it is a candidate, moves to the front. *)
ApplyHead(s, h) ==
  IF h \notin Range(s) THEN s
  ELSE LET pos == CHOOSE i \in DOMAIN s : s[i] = h
       IN [i \in DOMAIN s |-> IF i = 1 THEN h ELSE IF i <= pos THEN s[i - 1] ELSE s[i]]

SchedSteps == {"seed", "seed_pool", "seed_write", "plan", "measure", "target", "flag",
               "top", "write", "publish", "next", "end", "bw", "retire"}

CmdSteps == {"idle", "pin_target", "pin_flag", "pin_write",
             "auto_target", "auto_flag", "auto_top", "auto_write",
             "reload_pool", "reload_flag", "reload_write"}

Idle == [step |-> "idle", tag |-> NONE, listed |-> {}, top |-> <<>>]

SchedState == [step: SchedSteps, want: Tags \cup {NONE}, desired: Seq(Tags)]
CmdState == [step: CmdSteps, tag: Tags \cup {NONE}, listed: SUBSET Tags, top: Seq(Tags)]

TypeOK ==
  /\ registry \subseteq Tags /\ pool \subseteq Tags
  /\ IsList(ranking, Tags)
  /\ head \in Tags \cup {NONE}
  /\ pinned \in BOOLEAN /\ pinTarget \in Tags \cup {NONE}
  /\ IsList(selection, Tags)
  /\ store \in Tags \cup {NONE}
  /\ sched \in SchedState
  /\ cmd \in [Clients -> CmdState]

Init ==
  /\ pool \in SUBSET Tags /\ registry \in SUBSET pool
  /\ ranking \in Lists(pool)  \* what the snapshot restored
  /\ head = NONE
  /\ pinned = FALSE /\ pinTarget = NONE
  /\ selection = <<>>
  /\ store = NONE
  /\ sched = [step |-> "seed", want |-> NONE, desired |-> <<>>]
  /\ cmd = [c \in Clients |-> Idle]

-----------------------------------------------------------------------------
(* schedule_loop. *)

At(step) == sched.step = step
GoTo(step) == sched' = [sched EXCEPT !.step = step]

(* What the seeding or a reselect had read goes with it. *)
Return(step) == sched' = [step |-> step, want |-> NONE, desired |-> <<>>]

(* Cold start: the first Capacity nodes in configuration order, if there is
   still no selection and no pin. *)
CheckSeed ==
  /\ At("seed")
  /\ IF selection = <<>> /\ ~pinned THEN GoTo("seed_pool") ELSE GoTo("plan")
  /\ UNCHANGED <<registry, pool, ranking, head, pinned, pinTarget, selection, store, cmd>>

PickSeed ==
  /\ At("seed_pool")
  /\ \E order \in Lists(pool) :
       /\ Range(order) = pool
       /\ sched' = [sched EXCEPT !.desired = SelectTop(order),
                                 !.step = IF order = <<>> THEN "plan" ELSE "seed_write"]
  /\ UNCHANGED <<registry, pool, ranking, head, pinned, pinTarget, selection, store, cmd>>

WriteSeed ==
  /\ At("seed_write")
  /\ selection' = sched.desired
  /\ Return("plan")
  /\ UNCHANGED <<registry, pool, ranking, head, pinned, pinTarget, store, cmd>>

(* A round: an empty pool has no batches to measure. *)
PlanRound ==
  /\ At("plan")
  /\ IF pool = {} THEN GoTo("end") ELSE GoTo("measure")
  /\ UNCHANGED <<registry, pool, ranking, head, pinned, pinTarget, selection, store, cmd>>

(* apply_batch, over the pool as it is by then: more nodes are measured, the
   scores move. *)
MeasureBatch ==
  /\ At("measure")
  /\ ranking' \in Lists(pool) /\ Range(ranking) \subseteq Range(ranking')
  /\ GoTo("target")
  /\ UNCHANGED <<registry, pool, head, pinned, pinTarget, selection, store, cmd>>

(* reselect, one action per lock or atomic it touches. *)
ReadTarget ==
  /\ At("target")
  /\ sched' = [sched EXCEPT !.step = "flag", !.want = pinTarget]
  /\ UNCHANGED <<registry, pool, ranking, head, pinned, pinTarget, selection, store, cmd>>

(* Mutation: the pin is not consulted. *)
ReadFlag_IgnoresPin ==
  /\ At("flag")
  /\ GoTo("top")
  /\ UNCHANGED <<registry, pool, ranking, head, pinned, pinTarget, selection, store, cmd>>

ReadFlag ==
  /\ At("flag")
  /\ IF sched.want # NONE /\ pinned
     THEN sched' = [sched EXCEPT !.step = "write", !.desired = <<sched.want>>]
     ELSE GoTo("top")
  /\ UNCHANGED <<registry, pool, ranking, head, pinned, pinTarget, selection, store, cmd>>

(* Mutation: an empty desired list is written too. *)
RankPool_WritesEmpty ==
  /\ At("top")
  /\ sched' = [sched EXCEPT !.step = "write", !.desired = ApplyHead(SelectTop(ranking), head)]
  /\ UNCHANGED <<registry, pool, ranking, head, pinned, pinTarget, selection, store, cmd>>

(* Mutation: candidates once chosen are kept while there are any. *)
RankPool_KeepsSelection ==
  /\ At("top")
  /\ LET desired == IF selection # <<>> THEN selection
                    ELSE ApplyHead(SelectTop(ranking), head)
     IN IF desired = <<>> THEN Return("next")
        ELSE sched' = [sched EXCEPT !.desired = desired, !.step = "write"]
  /\ UNCHANGED <<registry, pool, ranking, head, pinned, pinTarget, selection, store, cmd>>

RankPool ==
  /\ At("top")
  /\ LET desired == ApplyHead(SelectTop(ranking), head)
     IN IF desired = <<>> THEN Return("next")
        ELSE sched' = [sched EXCEPT !.desired = desired, !.step = "write"]
  /\ UNCHANGED <<registry, pool, ranking, head, pinned, pinTarget, selection, store, cmd>>

WriteSelection ==
  /\ At("write")
  /\ selection' = sched.desired
  /\ IF selection = sched.desired THEN Return("next") ELSE GoTo("publish")
  /\ UNCHANGED <<registry, pool, ranking, head, pinned, pinTarget, store, cmd>>

Publish ==
  /\ At("publish")
  /\ store' = Head(sched.desired)
  /\ Return("next")
  /\ UNCHANGED <<registry, pool, ranking, head, pinned, pinTarget, selection, cmd>>

(* After a reselect comes the next batch, or the end of the round.  How many
   batches a round has is left open. *)
NextBatch ==
  /\ At("next")
  /\ GoTo("measure") \/ GoTo("end")
  /\ UNCHANGED <<registry, pool, ranking, head, pinned, pinTarget, selection, store, cmd>>

(* Some rounds have a throughput batch: not while pinned, and only of selected
   nodes that are in the pool.  (Selection and pool are read one after the other;
   a reload in between changes no more than whether there are any.) *)
EndBatches ==
  /\ At("end")
  /\ GoTo("retire") \/ (~pinned /\ GoTo("bw"))
  /\ UNCHANGED <<registry, pool, ranking, head, pinned, pinTarget, selection, store, cmd>>

ThroughputBatch ==
  /\ At("bw")
  /\ IF Range(selection) \cap pool = {} THEN GoTo("retire") ELSE GoTo("measure")
  /\ UNCHANGED <<registry, pool, ranking, head, pinned, pinTarget, selection, store, cmd>>

(* The end of the round, which may retire. *)
Retire ==
  /\ At("retire")
  /\ pool' \in SUBSET pool
  /\ ranking' \in Lists(pool') /\ Range(ranking') = Range(ranking) \cap pool'
  /\ GoTo("plan")
  /\ UNCHANGED <<registry, head, pinned, pinTarget, selection, store, cmd>>

Scheduler ==
  \/ CheckSeed \/ PickSeed \/ WriteSeed
  \/ PlanRound \/ MeasureBatch
  \/ ReadTarget \/ ReadFlag \/ RankPool \/ WriteSelection \/ Publish
  \/ NextBatch \/ EndBatches \/ ThroughputBatch \/ Retire

-----------------------------------------------------------------------------
(* Commands.  Each handler runs in a task of its own. *)

Doing(c, step) == cmd[c].step = step
Then(c, step) == cmd' = [cmd EXCEPT ![c].step = step]
Done(c) == cmd' = [cmd EXCEPT ![c] = Idle]

(* select <tag>: an unknown tag is refused, otherwise the intent is noted,
   then the flag, then the selection. *)
StartPin(c, t) ==
  /\ Doing(c, "idle") /\ t \in registry
  /\ cmd' = [cmd EXCEPT ![c] = [Idle EXCEPT !.step = "pin_target", !.tag = t]]
  /\ UNCHANGED <<registry, pool, ranking, head, pinned, pinTarget, selection, store, sched>>

PinTarget(c) ==
  /\ Doing(c, "pin_target") /\ Then(c, "pin_flag")
  /\ pinTarget' = cmd[c].tag
  /\ UNCHANGED <<registry, pool, ranking, head, pinned, selection, store, sched>>

PinFlag(c) ==
  /\ Doing(c, "pin_flag") /\ Then(c, "pin_write")
  /\ pinned' = TRUE
  /\ UNCHANGED <<registry, pool, ranking, head, pinTarget, selection, store, sched>>

PinWrite(c) ==
  /\ Doing(c, "pin_write") /\ Done(c)
  /\ selection' = <<cmd[c].tag>>
  /\ UNCHANGED <<registry, pool, ranking, head, pinned, pinTarget, store, sched>>

(* select auto: the same two cells are cleared, then the current top list is
   written at once, jev's head left out of it. *)
StartAuto(c) ==
  /\ Doing(c, "idle") /\ Then(c, "auto_target")
  /\ UNCHANGED <<registry, pool, ranking, head, pinned, pinTarget, selection, store, sched>>

AutoTarget(c) ==
  /\ Doing(c, "auto_target") /\ Then(c, "auto_flag")
  /\ pinTarget' = NONE
  /\ UNCHANGED <<registry, pool, ranking, head, pinned, selection, store, sched>>

AutoFlag(c) ==
  /\ Doing(c, "auto_flag") /\ Then(c, "auto_top")
  /\ pinned' = FALSE
  /\ UNCHANGED <<registry, pool, ranking, head, pinTarget, selection, store, sched>>

AutoTop(c) ==
  /\ Doing(c, "auto_top")
  /\ cmd' = [cmd EXCEPT ![c] = [@ EXCEPT !.step = "auto_write", !.top = SelectTop(ranking)]]
  /\ UNCHANGED <<registry, pool, ranking, head, pinned, pinTarget, selection, store, sched>>

AutoWrite(c) ==
  /\ Doing(c, "auto_write") /\ Done(c)
  /\ selection' = cmd[c].top
  /\ UNCHANGED <<registry, pool, ranking, head, pinned, pinTarget, store, sched>>

(* reload: adapters for the specs it read (a spec may fail to build), then the
   pool of the same specs with the scores of the nodes that stay, then the
   selection unless pinned.  Another reload may run in between: its registry and
   this one's pool then stay together. *)
StartReload(c, listed) ==
  /\ Doing(c, "idle")
  /\ registry' \in SUBSET listed
  /\ cmd' = [cmd EXCEPT ![c] = [Idle EXCEPT !.step = "reload_pool", !.listed = listed]]
  /\ UNCHANGED <<pool, ranking, head, pinned, pinTarget, selection, store, sched>>

ReloadPool(c) ==
  /\ Doing(c, "reload_pool")
  /\ pool' = cmd[c].listed
  /\ ranking' \in Lists(pool') /\ Range(ranking') = Range(ranking) \cap pool'
  /\ cmd' = [cmd EXCEPT ![c] = [Idle EXCEPT !.step = "reload_flag", !.top = SelectTop(ranking')]]
  /\ UNCHANGED <<registry, head, pinned, pinTarget, selection, store, sched>>

ReloadFlag(c) ==
  /\ Doing(c, "reload_flag")
  /\ IF pinned THEN Done(c) ELSE Then(c, "reload_write")
  /\ UNCHANGED <<registry, pool, ranking, head, pinned, pinTarget, selection, store, sched>>

ReloadWrite(c) ==
  /\ Doing(c, "reload_write") /\ Done(c)
  /\ selection' = cmd[c].top
  /\ UNCHANGED <<registry, pool, ranking, head, pinned, pinTarget, store, sched>>

Continue(c) ==
  \/ PinTarget(c) \/ PinFlag(c) \/ PinWrite(c)
  \/ AutoTarget(c) \/ AutoFlag(c) \/ AutoTop(c) \/ AutoWrite(c)
  \/ ReloadPool(c) \/ ReloadFlag(c) \/ ReloadWrite(c)

Command(c) ==
  \/ \E t \in Tags : StartPin(c, t)
  \/ StartAuto(c)
  \/ \E listed \in SUBSET Tags : StartReload(c, listed)
  \/ Continue(c)

-----------------------------------------------------------------------------
(* Traffic moves HP and with it the order of the measured nodes; a jev answer
   arrives, or its head expires. *)
Reorder ==
  /\ ranking' \in Lists(pool) /\ Range(ranking') = Range(ranking)
  /\ UNCHANGED <<registry, pool, head, pinned, pinTarget, selection, store, sched, cmd>>

JevDecides ==
  /\ JevOn
  /\ head' \in Tags \cup {NONE}
  /\ UNCHANGED <<registry, pool, ranking, pinned, pinTarget, selection, store, sched, cmd>>

Next == Scheduler \/ (\E c \in Clients : Command(c)) \/ Reorder \/ JevDecides

Spec == Init /\ [][Next]_vars

(* The loop's awaits all end; a handler once started runs to its end. *)
FairSpec == Spec /\ WF_vars(Scheduler) /\ \A c \in Clients : WF_vars(Continue(c))

-----------------------------------------------------------------------------
(* The candidate list never names a node twice and never exceeds the capacity,
   whoever wrote it and whatever jev promoted: a repeated node would turn the
   fallback chain into retries of itself. *)
NoWastedCandidate ==
  /\ IsInjective(selection) /\ Len(selection) <= Capacity
  /\ IsInjective(sched.desired) /\ Len(sched.desired) <= Capacity

(* A step of the scheduler never empties the selection, though pool, ranking
   and pin may all have changed since it looked. *)
SchedulerNeverEmpties ==
  [][sched' # sched => (selection # <<>> => selection' # <<>>)]_vars

Settled == \A c \in Clients : cmd[c].step = "idle"

(* A pin that stays is honoured while there is a pool to measure: whatever
   stale list was about to be written when it came, in the end the selection is
   the pinned node and stays so.  (With an empty pool no reselect comes to take
   such a list off again.) *)
PinHonoured ==
  \A t \in Tags :
    <>[](Settled /\ pinned /\ pinTarget = t /\ pool # {}) => <>[](selection = <<t>>)

(* Once commands stop and nothing is pinned, the selection in the end holds
   measured pool members only (the node pinned before leaves it, retired ones
   too), unless there are none to hold. *)
AutoRecovers ==
  <>[](Settled /\ ~pinned)
    => <>[](\/ ranking = <<>>
            \/ selection # <<>> /\ Range(selection) \subseteq Range(ranking))

(* protocol.rs, pinned: "when true the schedule loop does not overwrite the
   selection".  Stated of the reselects of the loop, not of the seeding of a
   cold start before it. *)
PinNotOverwritten ==
  [][At("write") /\ sched' # sched /\ Settled /\ pinned /\ selection = <<pinTarget>>
       => selection' = selection]_vars
=============================================================================
