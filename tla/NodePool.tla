------------------------------ MODULE NodePool ------------------------------
(***************************************************************************)
(* The pool of nodes under its three writers: the scheduler's rounds       *)
(* (apply_batch, retire_stale), the data plane's traffic attribution       *)
(* (health.rs) and `reload`.  Each writer holds the pool's write lock for  *)
(* exactly one action; between two actions of the scheduler the others     *)
(* run.  The scheduler measures CLONES: the result of a probe is applied   *)
(* by tag, to whatever node carries the tag by then.                       *)
(* The pool is a set of tags: its order only breaks ties.                  *)
(***************************************************************************)
EXTENDS Node, FiniteSets

CONSTANTS
  Tags,         \* every tag a nodes.yaml may list
  BatchSize,    \* batch_size
  MaxFailures,  \* retire_max_failures; 0 disables retirement
  MinPool,      \* retire_min_pool
  BwResults     \* what measure_bw of the configured Measurer may answer

ASSUME PoolAssumption ==
  /\ IsFiniteSet(Tags)
  /\ BatchSize \in Nat \ {0} /\ MaxFailures \in Nat /\ MinPool \in Nat
  /\ MaxFailures <= FailCap
  /\ BwResults \subseteq BOOLEAN /\ BwResults # {}

VARIABLES
  members,  \* the tags in the pool
  node,     \* their nodes; New for a tag that is not in the pool
  pc,       \* where schedule_loop is
  todo,     \* clones taken for measurement and not applied yet
  quiet     \* history: ticks since the last sign of life of a tag, capped

poolVars == <<members, node, pc, todo, quiet>>

Phases == {"plan", "measure", "save", "bw", "bw_measure", "bw_save", "retire"}

TypeOK ==
  /\ members \subseteq Tags
  /\ node \in [Tags -> NodeState]
  /\ pc \in Phases
  /\ todo \subseteq Tags
  /\ quiet \in [Tags -> 0..KeepAlive]

Init ==
  /\ members \in SUBSET Tags
  /\ node = [t \in Tags |-> New]
  /\ pc = "plan"
  /\ todo = {}
  /\ quiet = [t \in Tags |-> KeepAlive]

-----------------------------------------------------------------------------
(* One measurement as apply_batch books it. *)
Applied(n, m) ==
  LET updated == IF m.delay THEN IF m.bw THEN UpdateBw(Update(n)) ELSE Update(n)
                            ELSE UpdateBw(n)
  IN IF m.delay \/ m.bw THEN NoteProbeSuccess(updated)
                        ELSE NoteProbeFailure(Penalize(n))

(* The latency batch never fills bw_bps, the bandwidth batch never delay_ms. *)
DelayResult(ok) == [delay |-> ok, bw |-> FALSE]
BwResult(ok) == [delay |-> FALSE, bw |-> ok]

ApplyBatch(results) ==
  LET applied == members \cap DOMAIN results
  IN /\ node' = [t \in Tags |-> IF t \in applied THEN Applied(node[t], results[t])
                                                 ELSE node[t]]
     /\ quiet' = [t \in Tags |->
                    IF t \in applied /\ (results[t].delay \/ results[t].bw)
                    THEN 0 ELSE quiet[t]]
     /\ UNCHANGED members

-----------------------------------------------------------------------------
(* schedule_loop. *)

Plan ==
  /\ pc = "plan"
  /\ todo' = members
  /\ pc' = IF members = {} THEN "bw" ELSE "measure"
  /\ UNCHANGED <<members, node, quiet>>

MeasureBatch ==
  /\ pc = "measure"
  /\ \E chunk \in SUBSET todo \ {{}} :
       /\ Cardinality(chunk) <= BatchSize
       /\ \E ok \in [chunk -> BOOLEAN] :
            ApplyBatch([t \in chunk |-> DelayResult(ok[t])])
       /\ todo' = todo \ chunk
  /\ pc' = "save"

(* persist::save after each batch; what it writes is in PoolPersistence. *)
SaveDone ==
  /\ pc \in {"save", "bw_save"}
  /\ pc' = IF pc = "bw_save" THEN "retire"
           ELSE IF todo = {} THEN "bw" ELSE "measure"
  /\ UNCHANGED <<members, node, todo, quiet>>

(* The bandwidth batch runs every bw_interval_rounds rounds, unless pinned,
   over the selected nodes: a seeded or just unpinned one may be unmeasured. *)
SkipBw ==
  /\ pc = "bw"
  /\ pc' = "retire"
  /\ UNCHANGED <<members, node, todo, quiet>>

StartBw ==
  /\ pc = "bw"
  /\ todo' \in SUBSET members \ {{}}
  /\ pc' = "bw_measure"
  /\ UNCHANGED <<members, node, quiet>>

MeasureBw ==
  /\ pc = "bw_measure"
  /\ \E ok \in [todo -> BwResults] :
       ApplyBatch([t \in todo |-> BwResult(ok[t])])
  /\ todo' = {}
  /\ pc' = "bw_save"

(* retire_stale: who is condemned, and whom the floor takes back. *)
Stale(t) ==
  LET n == node[t]
  IN /\ n.consecutive_failures >= MaxFailures
     /\ \/ ~HasEvidence(n)
        \/ n.failing_since # NONE /\ n.failing_since >= KeepAlive

LikelierAlive(t, u) ==
  \/ node[t].consecutive_failures < node[u].consecutive_failures
  \/ /\ node[t].consecutive_failures = node[u].consecutive_failures
     /\ node[t].samples >= node[u].samples

(* Mutation: no floor. *)
Backfill_None(stale) == {{}}

Backfill(stale) ==
  LET kept == Cardinality(members \ stale)
      need == IF kept >= MinPool THEN 0
              ELSE IF MinPool - kept > Cardinality(stale) THEN Cardinality(stale)
              ELSE MinPool - kept
  IN {back \in SUBSET stale :
        /\ Cardinality(back) = need
        /\ \A t \in back, u \in stale \ back : LikelierAlive(t, u)}

RetireStale ==
  /\ pc = "retire"
  /\ IF MaxFailures = 0 THEN UNCHANGED <<members, node>>
     ELSE LET stale == {t \in members : Stale(t)}
          IN \E back \in Backfill(stale) :
               /\ members' = members \ (stale \ back)
               /\ node' = [t \in Tags |-> IF t \in members' THEN node[t] ELSE New]
  /\ pc' = "plan"
  /\ UNCHANGED <<todo, quiet>>

Scheduler ==
  \/ Plan \/ MeasureBatch \/ SaveDone
  \/ SkipBw \/ StartBw \/ MeasureBw
  \/ RetireStale

-----------------------------------------------------------------------------
(* The data plane books a first byte (ok) or a failed dial of a proxy. *)
AttributeRuntime(t, ok) ==
  /\ t \in members
  /\ node' = [node EXCEPT ![t] = IF ok THEN NoteProxySuccess(@)
                                       ELSE NoteProxyFailure(@)]
  /\ quiet' = IF ok THEN [quiet EXCEPT ![t] = 0] ELSE quiet
  /\ UNCHANGED <<members, pc, todo>>

(* `reload` rebuilds the pool from the node table it read. *)
Reload(listed) ==
  /\ members' = listed
  /\ node' = [t \in Tags |-> IF t \in listed \cap members THEN AdoptScore(node[t])
                                                          ELSE New]
  /\ UNCHANGED <<pc, todo, quiet>>

Tick ==
  /\ node' = [t \in Tags |-> Aged(node[t])]
  /\ quiet' = [t \in Tags |-> CappedAdd(quiet[t], 1, KeepAlive)]
  /\ UNCHANGED <<members, pc, todo>>

Next ==
  \/ Scheduler
  \/ \E t \in Tags, ok \in BOOLEAN : AttributeRuntime(t, ok)
  \/ \E listed \in SUBSET Tags : Reload(listed)
  \/ Tick

Spec == Init /\ [][Next]_poolVars

(* The loop never stops and every await in it has a timeout; time goes on. *)
FairSpec == Spec /\ WF_poolVars(Scheduler) /\ WF_poolVars(Tick)

-----------------------------------------------------------------------------
(* The marks of a node agree.  It is failing exactly when its failure clock
   runs: retire_stale calls a count without a clock impossible ("should not
   happen") and would keep such a node for ever; a clock without a count would
   condemn a node that has recovered the moment it fails again.  And the two
   tests for "ever measured" agree: select_top asks whether ewma is finite,
   measurement_order and retire_stale whether samples > 0.  A reload that
   carried only one of them over once emptied the selection. *)
MarksAgree ==
  \A t \in Tags :
    /\ (node[t].consecutive_failures > 0) <=> (node[t].failing_since # NONE)
    /\ (node[t].samples > 0) <=> (node[t].ewma = "finite")

Retiring(t) == pc = "retire" /\ pc' = "plan" /\ t \in members \ members'

(* A node with evidence of life is retired only after a whole keep-alive in
   which neither a probe nor traffic got an answer from it, whatever the order
   of failures, successes, reloads and traffic was. *)
AliveKeepsItsPlace ==
  [][\A t \in Tags :
       Retiring(t) /\ HasEvidence(node[t]) => quiet[t] = KeepAlive]_poolVars

(* Retirement stops at the floor: a round either retires nobody or leaves at
   least MinPool nodes to probe again. *)
RetirementFloor ==
  [][(\E t \in Tags : Retiring(t)) => Cardinality(members') >= MinPool]_poolVars

(* A node that never again gives a sign of life does not stay: again and again
   it is out of the pool, or the pool is down at its floor. *)
DeadNodeLeaves ==
  \A t \in Tags :
    <>[](quiet[t] = KeepAlive)
      => []<>(t \notin members \/ Cardinality(members) <= MinPool)
=============================================================================
