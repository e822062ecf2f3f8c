--------------------------- MODULE NodePoolProofs ---------------------------
(***************************************************************************)
(* Theorems about NodePool and PoolPersistence, for every set of tags,     *)
(* every tuning and every Measurer.  The inductive invariant of the pool   *)
(* has two parts: every node is sound by itself (SoundNode), and no        *)
(* failure clock is older than the last sign of life of its tag            *)
(* (ClockWithinQuiet).  PInv adds what each file on disk says.  The pool   *)
(* also does what the selection expects of it (PoolView).                  *)
(***************************************************************************)
EXTENDS PoolPersistence, FiniteSetTheorems, TLAPS

SoundNode(n) ==
  /\ n \in NodeState
  /\ (n.consecutive_failures > 0) <=> (n.failing_since # NONE)
  /\ (n.samples > 0) <=> (n.ewma = "finite")

ClockWithinQuiet(n, q) == n.failing_since # NONE => n.failing_since <= q

IInv ==
  /\ TypeOK
  /\ \A t \in Tags : SoundNode(node[t]) /\ ClockWithinQuiet(node[t], quiet[t])

-----------------------------------------------------------------------------
(* The operations of one node. *)

(* A new node is sound and its clock does not run. *)
LEMMA NewSound == SoundNode(New) /\ New.failing_since = NONE
  BY NodeAssumption DEF SoundNode, NodeState, New

(* The saturating operations stay in range. *)
LEMMA Saturation ==
  ASSUME NEW cap \in Nat, NEW a \in 0..cap, NEW b \in Nat
  PROVE  /\ CappedAdd(a, b, cap) \in 0..cap
         /\ SaturatingSub(a, b) \in 0..cap
  BY DEF CappedAdd, SaturatingSub

(* What the type says of the fields that the operations compute with. *)
LEMMA Fields ==
  ASSUME NEW n, SoundNode(n)
  PROVE  /\ n \in NodeState
         /\ n.hp \in 0..HP_MAX /\ HP_MAX \in Nat
         /\ n.samples \in 0..SampleCap /\ SampleCap \in Nat \ {0}
         /\ n.consecutive_failures \in 0..FailCap /\ FailCap \in Nat \ {0}
         /\ n.cooling \in 0..Cooldown /\ Cooldown \in Nat
         /\ n.failing_since # NONE => n.failing_since \in 0..KeepAlive
         /\ KeepAlive \in Nat /\ \A k \in Nat : k # NONE
  BY NodeAssumption DEF SoundNode, NodeState

LEMMA UpdateSound ==
  ASSUME NEW n, SoundNode(n)
  PROVE  SoundNode(Update(n)) /\ Update(n).failing_since = NONE
<1>1. n \in NodeState /\ 0 \in 0..FailCap
  BY Fields
<1>2. /\ CappedAdd(n.samples, 1, SampleCap) \in 0..SampleCap
      /\ CappedAdd(n.samples, 1, SampleCap) > 0
  <2>1. n.samples \in 0..SampleCap /\ SampleCap \in Nat \ {0}
    BY Fields
  <2> QED
    BY <2>1 DEF CappedAdd
<1>3. Update(n) \in NodeState
  <2>1. (IF n.samples = 0 THEN "finite" ELSE n.ewma) \in {"INFINITY", "finite"}
    BY <1>1 DEF NodeState
  <2> QED
    BY <1>1, <1>2, <2>1 DEF NodeState, Update
<1>4. /\ Update(n).consecutive_failures = 0 /\ Update(n).failing_since = NONE
      /\ Update(n).samples = CappedAdd(n.samples, 1, SampleCap)
      /\ Update(n).ewma = IF n.samples = 0 THEN "finite" ELSE n.ewma
  BY <1>1 DEF NodeState, Update
<1>5. Update(n).ewma = "finite"
  <2>1. n.samples = 0 \/ n.samples > 0
    BY Fields
  <2> QED
    BY <1>4, <2>1 DEF SoundNode
<1> QED
  BY <1>2, <1>3, <1>4, <1>5 DEF SoundNode

LEMMA UpdateBwSound ==
  ASSUME NEW n, SoundNode(n)
  PROVE  SoundNode(UpdateBw(n)) /\ UpdateBw(n).failing_since = NONE
<1>1. n \in NodeState /\ 0 \in 0..FailCap
  BY Fields
<1>2. UpdateBw(n) \in NodeState
  BY <1>1 DEF NodeState, UpdateBw
<1>3. /\ UpdateBw(n).consecutive_failures = 0 /\ UpdateBw(n).failing_since = NONE
      /\ UpdateBw(n).samples = n.samples /\ UpdateBw(n).ewma = n.ewma
  BY <1>1 DEF NodeState, UpdateBw
<1> QED
  BY <1>2, <1>3 DEF SoundNode

LEMMA PenalizeSound ==
  ASSUME NEW n, SoundNode(n)
  PROVE  /\ SoundNode(Penalize(n))
         /\ Penalize(n).failing_since = IF n.failing_since = NONE THEN 0
                                        ELSE n.failing_since
<1>1. n \in NodeState /\ 0 \in 0..KeepAlive
  BY Fields
<1>2. /\ CappedAdd(n.consecutive_failures, 1, FailCap) \in 0..FailCap
      /\ CappedAdd(n.consecutive_failures, 1, FailCap) > 0
  <2>1. n.consecutive_failures \in 0..FailCap /\ FailCap \in Nat \ {0}
    BY Fields
  <2> QED
    BY <2>1 DEF CappedAdd
<1>3. Penalize(n) \in NodeState
  <2>1. (IF n.failing_since = NONE THEN 0 ELSE n.failing_since)
          \in (0..KeepAlive) \cup {NONE}
    BY <1>1 DEF NodeState
  <2> QED
    BY <1>1, <1>2, <2>1 DEF NodeState, Penalize
<1>4. /\ Penalize(n).consecutive_failures = CappedAdd(n.consecutive_failures, 1, FailCap)
      /\ Penalize(n).failing_since = IF n.failing_since = NONE THEN 0 ELSE n.failing_since
      /\ Penalize(n).samples = n.samples /\ Penalize(n).ewma = n.ewma
  BY <1>1 DEF NodeState, Penalize
<1>5. Penalize(n).failing_since # NONE
  BY <1>4, Fields
<1> QED
  BY <1>2, <1>3, <1>4, <1>5 DEF SoundNode

(* Writing hp alone disturbs nothing else. *)
LEMMA HpSound ==
  ASSUME NEW n, SoundNode(n), NEW h \in 0..HP_MAX
  PROVE  /\ SoundNode([n EXCEPT !.hp = h])
         /\ [n EXCEPT !.hp = h].failing_since = n.failing_since
  BY NodeAssumption DEF SoundNode, NodeState

LEMMA ProbeHpSound ==
  ASSUME NEW n, SoundNode(n)
  PROVE  /\ SoundNode(NoteProbeSuccess(n)) /\ SoundNode(NoteProbeFailure(n))
         /\ NoteProbeSuccess(n).failing_since = n.failing_since
         /\ NoteProbeFailure(n).failing_since = n.failing_since
<1>1. n.hp \in 0..HP_MAX /\ HP_MAX \in Nat
  BY NodeAssumption DEF SoundNode, NodeState
<1>2. CappedAdd(n.hp, 1, HP_MAX) \in 0..HP_MAX /\ SaturatingSub(n.hp, 5) \in 0..HP_MAX
  BY <1>1, Saturation
<1> QED
  BY <1>2, HpSound DEF NoteProbeSuccess, NoteProbeFailure

(* A measurement keeps a node sound; a success stops its clock, a failure
   leaves a running clock alone and starts a stopped one at zero. *)
LEMMA AppliedSound ==
  ASSUME NEW n, SoundNode(n), NEW m \in [delay: BOOLEAN, bw: BOOLEAN]
  PROVE  /\ SoundNode(Applied(n, m))
         /\ m.delay \/ m.bw => Applied(n, m).failing_since = NONE
         /\ ~(m.delay \/ m.bw) =>
              Applied(n, m).failing_since = IF n.failing_since = NONE THEN 0
                                            ELSE n.failing_since
  BY UpdateSound, UpdateBwSound, PenalizeSound, ProbeHpSound DEF Applied

(* Traffic keeps a node sound; a success stops its clock, a failed dial does
   not touch it. *)
LEMMA TrafficSound ==
  ASSUME NEW n, SoundNode(n)
  PROVE  /\ SoundNode(NoteProxySuccess(n)) /\ SoundNode(NoteProxyFailure(n))
         /\ NoteProxySuccess(n).failing_since = NONE
         /\ NoteProxyFailure(n).failing_since = n.failing_since
<1>1. /\ n \in NodeState /\ 0 \in 0..FailCap
      /\ 0 \in 0..Cooldown /\ Cooldown \in 0..Cooldown
  BY Fields
<1>2. CappedAdd(n.hp, 2, HP_MAX) \in 0..HP_MAX /\ SaturatingSub(n.hp, 15) \in 0..HP_MAX
  BY Fields, Saturation
<1>3. NoteProxySuccess(n) \in NodeState /\ NoteProxyFailure(n) \in NodeState
  BY <1>1, <1>2 DEF NodeState, NoteProxySuccess, NoteProxyFailure
<1>4. LET s == NoteProxySuccess(n)
      IN /\ s.consecutive_failures = 0 /\ s.failing_since = NONE
         /\ s.samples = n.samples /\ s.ewma = n.ewma
  BY <1>1 DEF NodeState, NoteProxySuccess
<1>5. LET f == NoteProxyFailure(n)
      IN /\ f.consecutive_failures = n.consecutive_failures
         /\ f.failing_since = n.failing_since
         /\ f.samples = n.samples /\ f.ewma = n.ewma
  BY <1>1 DEF NodeState, NoteProxyFailure
<1> QED
  BY <1>3, <1>4, <1>5 DEF SoundNode

(* A reload keeps a node sound and its clock running. *)
LEMMA AdoptSound ==
  ASSUME NEW n, SoundNode(n)
  PROVE  SoundNode(AdoptScore(n)) /\ AdoptScore(n).failing_since = n.failing_since
<1>1. n \in NodeState /\ New \in NodeState
  BY Fields, NewSound DEF SoundNode
<1>2. AdoptScore(n) \in NodeState
  BY <1>1 DEF NodeState, AdoptScore
<1>3. /\ AdoptScore(n).consecutive_failures = n.consecutive_failures
      /\ AdoptScore(n).failing_since = n.failing_since
      /\ AdoptScore(n).samples = n.samples /\ AdoptScore(n).ewma = n.ewma
  BY <1>1 DEF NodeState, AdoptScore
<1> QED
  BY <1>2, <1>3 DEF SoundNode

(* A tick ages a running clock and starts none. *)
LEMMA AgedSound ==
  ASSUME NEW n, SoundNode(n)
  PROVE  /\ SoundNode(Aged(n))
         /\ Aged(n).failing_since = IF n.failing_since = NONE THEN NONE
                                    ELSE CappedAdd(n.failing_since, 1, KeepAlive)
<1>1. n \in NodeState
  BY Fields
<1>2. /\ SaturatingSub(n.cooling, 1) \in 0..Cooldown
      /\ n.failing_since # NONE =>
           CappedAdd(n.failing_since, 1, KeepAlive) \in 0..KeepAlive
  BY Fields, Saturation
<1>3. Aged(n) \in NodeState
  BY <1>1, <1>2 DEF NodeState, Aged
<1>4. /\ Aged(n).failing_since = IF n.failing_since = NONE THEN NONE
                                 ELSE CappedAdd(n.failing_since, 1, KeepAlive)
      /\ Aged(n).consecutive_failures = n.consecutive_failures
      /\ Aged(n).samples = n.samples /\ Aged(n).ewma = n.ewma
  BY <1>1 DEF NodeState, Aged
<1>5. Aged(n).failing_since # NONE <=> n.failing_since # NONE
  BY <1>2, <1>4, Fields
<1> QED
  BY <1>3, <1>4, <1>5 DEF SoundNode

-----------------------------------------------------------------------------
(* A batch, of whatever results, keeps the invariant. *)
LEMMA BatchKeeps ==
  ASSUME IInv, NEW chunk \in SUBSET Tags,
         NEW r \in [chunk -> [delay: BOOLEAN, bw: BOOLEAN]],
         ApplyBatch(r)
  PROVE  /\ members' \subseteq Tags
         /\ node' \in [Tags -> NodeState]
         /\ quiet' \in [Tags -> 0..KeepAlive]
         /\ \A t \in Tags : SoundNode(node'[t]) /\ ClockWithinQuiet(node'[t], quiet'[t])
<1>1. \A t \in Tags : /\ SoundNode(node'[t])
                      /\ ClockWithinQuiet(node'[t], quiet'[t])
                      /\ quiet'[t] \in 0..KeepAlive
  <2> SUFFICES ASSUME NEW t \in Tags
               PROVE  /\ SoundNode(node'[t])
                      /\ ClockWithinQuiet(node'[t], quiet'[t])
                      /\ quiet'[t] \in 0..KeepAlive
    OBVIOUS
  <2>1. /\ SoundNode(node[t]) /\ ClockWithinQuiet(node[t], quiet[t])
        /\ quiet[t] \in 0..KeepAlive
    BY DEF IInv, TypeOK
  <2>2. CASE t \in members \cap DOMAIN r
    <3>1. r[t] \in [delay: BOOLEAN, bw: BOOLEAN]
      BY <2>2
    <3>2. /\ SoundNode(Applied(node[t], r[t]))
          /\ r[t].delay \/ r[t].bw => Applied(node[t], r[t]).failing_since = NONE
          /\ ~(r[t].delay \/ r[t].bw) =>
               Applied(node[t], r[t]).failing_since =
                 IF node[t].failing_since = NONE THEN 0 ELSE node[t].failing_since
      BY <2>1, <3>1, AppliedSound
    <3>3. /\ node'[t] = Applied(node[t], r[t])
          /\ quiet'[t] = IF r[t].delay \/ r[t].bw THEN 0 ELSE quiet[t]
      BY <2>2 DEF ApplyBatch
    <3> QED
      BY <2>1, <3>2, <3>3, NodeAssumption DEF ClockWithinQuiet
  <2>3. CASE t \notin members \cap DOMAIN r
    BY <2>1, <2>3 DEF ApplyBatch
  <2> QED
    BY <2>2, <2>3
<1>2. node' = [t \in Tags |-> node'[t]] /\ quiet' = [t \in Tags |-> quiet'[t]]
  BY DEF ApplyBatch
<1> QED
  BY <1>1, <1>2 DEF ApplyBatch, IInv, TypeOK, SoundNode

LEMMA InitIInv == Init => IInv
  BY NewSound, NodeAssumption DEF Init, IInv, TypeOK, Phases, SoundNode, ClockWithinQuiet

LEMMA StepIInv == IInv /\ [Next]_poolVars => IInv'
<1> SUFFICES ASSUME IInv, [Next]_poolVars
             PROVE  IInv'
  OBVIOUS
<1> USE DEF IInv
<1>1. CASE Plan
  BY <1>1 DEF Plan, TypeOK, Phases
<1>2. CASE MeasureBatch
  <2>0. PICK chunk \in SUBSET todo :
          /\ \E ok \in [chunk -> BOOLEAN] :
               ApplyBatch([t \in chunk |-> DelayResult(ok[t])])
          /\ todo' = todo \ chunk
    BY <1>2 DEF MeasureBatch
  <2>1. PICK ok \in [chunk -> BOOLEAN] :
          ApplyBatch([t \in chunk |-> DelayResult(ok[t])])
    BY <2>0
  <2>2. [t \in chunk |-> DelayResult(ok[t])] \in [chunk -> [delay: BOOLEAN, bw: BOOLEAN]]
    BY DEF DelayResult
  <2>3. chunk \in SUBSET Tags
    BY DEF TypeOK
  <2> QED
    BY <1>2, <2>0, <2>1, <2>2, <2>3, BatchKeeps DEF MeasureBatch, TypeOK, Phases
<1>3. CASE SaveDone
  BY <1>3 DEF SaveDone, TypeOK, Phases
<1>4. CASE SkipBw
  BY <1>4 DEF SkipBw, TypeOK, Phases
<1>5. CASE StartBw
  BY <1>5 DEF StartBw, TypeOK, Phases
<1>6. CASE MeasureBw
  <2>1. PICK ok \in [todo -> BwResults] : ApplyBatch([t \in todo |-> BwResult(ok[t])])
    BY <1>6 DEF MeasureBw
  <2>2. [t \in todo |-> BwResult(ok[t])] \in [todo -> [delay: BOOLEAN, bw: BOOLEAN]]
    BY PoolAssumption DEF BwResult
  <2>3. todo \in SUBSET Tags
    BY DEF TypeOK
  <2> QED
    BY <1>6, <2>1, <2>2, <2>3, BatchKeeps DEF MeasureBw, TypeOK, Phases
<1>7. CASE RetireStale
  <2>1. members' \subseteq members
    BY <1>7 DEF RetireStale
  <2>2. \A t \in Tags : node'[t] \in {node[t], New}
    BY <1>7 DEF RetireStale, TypeOK
  <2>3. node' = [t \in Tags |-> node'[t]] /\ quiet' = quiet /\ todo' = todo
        /\ pc' = "plan"
    BY <1>7 DEF RetireStale, TypeOK
  <2>4. \A t \in Tags : SoundNode(node'[t]) /\ ClockWithinQuiet(node'[t], quiet'[t])
    BY <2>2, <2>3, NewSound DEF ClockWithinQuiet
  <2> QED
    BY <2>1, <2>3, <2>4 DEF TypeOK, Phases, SoundNode
<1>8. ASSUME NEW t \in Tags, NEW ok \in BOOLEAN, AttributeRuntime(t, ok)
      PROVE  IInv'
  <2>1. SoundNode(node'[t]) /\ ClockWithinQuiet(node'[t], quiet'[t])
    <3>1. CASE ok
      BY <1>8, <3>1, TrafficSound DEF AttributeRuntime, TypeOK, ClockWithinQuiet
    <3>2. CASE ~ok
      BY <1>8, <3>2, TrafficSound DEF AttributeRuntime, TypeOK, ClockWithinQuiet
    <3> QED
      BY <3>1, <3>2
  <2>2. \A u \in Tags \ {t} : node'[u] = node[u] /\ quiet'[u] = quiet[u]
    BY <1>8 DEF AttributeRuntime, TypeOK
  <2>3. node' = [u \in Tags |-> node'[u]]
    BY <1>8 DEF AttributeRuntime, TypeOK
  <2>4. quiet' \in [Tags -> 0..KeepAlive]
    <3>1. 0 \in 0..KeepAlive
      BY NodeAssumption
    <3> QED
      BY <1>8, <3>1 DEF AttributeRuntime, TypeOK
  <2> QED
    BY <1>8, <2>1, <2>2, <2>3, <2>4 DEF AttributeRuntime, TypeOK, SoundNode
<1>9. ASSUME NEW listed \in SUBSET Tags, Reload(listed)
      PROVE  IInv'
  <2>1. \A t \in Tags : node'[t] = IF t \in listed \cap members
                                   THEN AdoptScore(node[t]) ELSE New
    BY <1>9 DEF Reload
  <2>2. \A t \in Tags : SoundNode(node'[t]) /\ ClockWithinQuiet(node'[t], quiet'[t])
    BY <1>9, <2>1, AdoptSound, NewSound DEF Reload, ClockWithinQuiet
  <2>3. node' = [t \in Tags |-> node'[t]]
    BY <1>9 DEF Reload
  <2> QED
    BY <1>9, <2>2, <2>3 DEF Reload, TypeOK, SoundNode
<1>10. CASE Tick
  <2>1. \A t \in Tags : /\ SoundNode(node'[t])
                        /\ ClockWithinQuiet(node'[t], quiet'[t])
                        /\ quiet'[t] \in 0..KeepAlive
    <3> SUFFICES ASSUME NEW t \in Tags
                 PROVE  /\ SoundNode(node'[t])
                        /\ ClockWithinQuiet(node'[t], quiet'[t])
                        /\ quiet'[t] \in 0..KeepAlive
      OBVIOUS
    <3>1. /\ node'[t] = Aged(node[t])
          /\ quiet'[t] = CappedAdd(quiet[t], 1, KeepAlive)
      BY <1>10 DEF Tick
    <3>2. /\ SoundNode(Aged(node[t]))
          /\ Aged(node[t]).failing_since =
               IF node[t].failing_since = NONE THEN NONE
               ELSE CappedAdd(node[t].failing_since, 1, KeepAlive)
      BY AgedSound
    <3>3. /\ node[t].failing_since \in (0..KeepAlive) \cup {NONE}
          /\ quiet[t] \in 0..KeepAlive
          /\ ClockWithinQuiet(node[t], quiet[t])
      BY DEF TypeOK, NodeState
    <3> QED
      BY <3>1, <3>2, <3>3, NodeAssumption DEF ClockWithinQuiet, CappedAdd
  <2>2. node' = [t \in Tags |-> node'[t]] /\ quiet' = [t \in Tags |-> quiet'[t]]
    BY <1>10 DEF Tick
  <2> QED
    BY <1>10, <2>1, <2>2 DEF Tick, TypeOK, SoundNode
<1>11. CASE UNCHANGED poolVars
  BY <1>11 DEF poolVars, TypeOK, Phases
<1> QED
  BY <1>1, <1>2, <1>3, <1>4, <1>5, <1>6, <1>7, <1>8, <1>9, <1>10, <1>11
  DEF Next, Scheduler

THEOREM Invariance == Spec => []IInv
  BY InitIInv, StepIInv, PTL DEF Spec

(* Every reachable state is typed: in particular hp stays within 0..HP_MAX. *)
THEOREM Typing == Spec => []TypeOK
<1>1. IInv => TypeOK
  BY DEF IInv
<1> QED
  BY <1>1, Invariance, PTL

(* A node is failing exactly when its failure clock runs, and the two tests for
   "ever measured" always agree. *)
THEOREM MarksAlwaysAgree == Spec => []MarksAgree
<1>1. IInv => MarksAgree
  BY DEF IInv, MarksAgree, SoundNode
<1> QED
  BY <1>1, Invariance, PTL

-----------------------------------------------------------------------------
(* Retirement. *)

(* Only retire_stale takes a node out of the pool as a round ends. *)
LEMMA OnlyRetireStaleRetires ==
  ASSUME [Next]_poolVars, NEW t \in Tags, Retiring(t)
  PROVE  RetireStale
<1>1. pc = "retire" /\ pc' = "plan"
  BY DEF Retiring
<1> QED
  BY <1>1
  DEF Next, Scheduler, poolVars, Plan, MeasureBatch, SaveDone, SkipBw, StartBw,
      MeasureBw, AttributeRuntime, Reload, Tick

(* Whoever is retired was stale. *)
LEMMA RetiredIsStale ==
  ASSUME [Next]_poolVars, NEW t \in Tags, Retiring(t)
  PROVE  Stale(t)
  BY OnlyRetireStaleRetires DEF RetireStale, Retiring

(* The step behind AliveKeepsItsPlace. *)
LEMMA RetiredWasSilent ==
  ASSUME IInv, [Next]_poolVars, NEW t \in Tags, Retiring(t), HasEvidence(node[t])
  PROVE  quiet[t] = KeepAlive
<1>1. node[t].failing_since # NONE /\ node[t].failing_since >= KeepAlive
  BY RetiredIsStale DEF Stale
<1>2. node[t].failing_since <= quiet[t] /\ quiet[t] \in 0..KeepAlive
  BY <1>1 DEF IInv, TypeOK, ClockWithinQuiet
<1>3. node[t].failing_since \in 0..KeepAlive
  BY <1>1, Fields DEF IInv
<1> QED
  BY <1>1, <1>2, <1>3, NodeAssumption

(* A node with evidence of life is retired only after a whole keep-alive in
   which nothing was heard from it. *)
THEOREM AliveStays == Spec => AliveKeepsItsPlace
<1>1. IInv /\ [Next]_poolVars =>
        [\A t \in Tags : Retiring(t) /\ HasEvidence(node[t])
                           => quiet[t] = KeepAlive]_poolVars
  BY RetiredWasSilent
<1> QED
  BY <1>1, Invariance, PTL DEF Spec, AliveKeepsItsPlace

(* The step behind RetirementFloor: a node left, so not all of the condemned
   were taken back, and then the floor is reached. *)
LEMMA FloorIsReached ==
  ASSUME IInv, [Next]_poolVars, NEW t \in Tags, Retiring(t)
  PROVE  Cardinality(members') >= MinPool
<1> DEFINE stale == {u \in members : Stale(u)}
           kept == members \ stale
<1>1. RetireStale /\ MaxFailures # 0
  BY OnlyRetireStaleRetires DEF RetireStale, Retiring
<1>2. PICK back \in Backfill(stale) : members' = members \ (stale \ back)
  BY <1>1 DEF RetireStale
<1>3. back \in SUBSET stale
  BY <1>2 DEF Backfill
<1>4. IsFiniteSet(members)
  BY PoolAssumption, FS_Subset DEF IInv, TypeOK
<1>5. IsFiniteSet(stale) /\ IsFiniteSet(kept) /\ IsFiniteSet(back)
  BY <1>3, <1>4, FS_Subset
<1>6. Cardinality(members') = Cardinality(kept) + Cardinality(back)
  <2>1. members' = kept \cup back /\ kept \cap back = {}
    BY <1>2, <1>3
  <2>2. Cardinality(kept \cup back) =
          Cardinality(kept) + Cardinality(back) - Cardinality(kept \cap back)
    BY <1>5, FS_Union
  <2>3. Cardinality(kept \cap back) = 0
    <3> HIDE DEF stale, kept
    <3> QED
      BY <2>1, FS_EmptySet
  <2>4. Cardinality(kept) \in Nat /\ Cardinality(back) \in Nat
    BY <1>5, FS_CardinalityType
  <2>5. Cardinality(kept \cup back) = Cardinality(kept) + Cardinality(back)
    <3> HIDE DEF stale, kept
    <3> QED
      BY <2>2, <2>3, <2>4
  <2> QED
    BY <2>1, <2>5, Zenon
<1>7. Cardinality(back) < Cardinality(stale)
  <2>1. back # stale
    <3>1. t \in members /\ t \notin members'
      BY DEF Retiring
    <3> HIDE DEF stale
    <3> QED
      BY <1>2, <3>1
  <2>2. /\ Cardinality(back) <= Cardinality(stale)
        /\ Cardinality(stale) = Cardinality(back) => stale = back
    BY <1>3, <1>5, FS_Subset
  <2>3. Cardinality(stale) \in Nat /\ Cardinality(back) \in Nat
    BY <1>5, FS_CardinalityType
  <2> HIDE DEF stale
  <2> QED
    BY <2>1, <2>2, <2>3
<1>8. Cardinality(back) =
        IF Cardinality(kept) >= MinPool THEN 0
        ELSE IF MinPool - Cardinality(kept) > Cardinality(stale)
             THEN Cardinality(stale)
        ELSE MinPool - Cardinality(kept)
  BY <1>2 DEF Backfill
<1> QED
  <2>1. Cardinality(kept) \in Nat /\ Cardinality(back) \in Nat
        /\ Cardinality(stale) \in Nat /\ MinPool \in Nat
    BY <1>5, FS_CardinalityType, PoolAssumption
  <2> HIDE DEF stale, kept
  <2> QED
    BY <1>6, <1>7, <1>8, <2>1

(* Retirement stops at the floor. *)
THEOREM FloorHolds == Spec => RetirementFloor
<1>1. IInv /\ [Next]_poolVars =>
        [(\E t \in Tags : Retiring(t)) => Cardinality(members') >= MinPool]_poolVars
  BY FloorIsReached
<1> QED
  BY <1>1, Invariance, PTL DEF Spec, RetirementFloor
-----------------------------------------------------------------------------
(* Silence. *)

(* m is at least as far on the way out of the pool as n. *)
Further(n, m) ==
  /\ m.consecutive_failures >= n.consecutive_failures
  /\ n.failing_since # NONE => m.failing_since # NONE /\ m.failing_since >= n.failing_since
  /\ HasEvidence(m) = HasEvidence(n)

(* As long as a node stays in the pool and gives no sign of life, nothing brings
   it back: not a reload, not the traffic that fails over it, not the failures
   themselves, each of which might start its clock anew.  Its failures and its
   clock only grow, and once it is stale it is stale until it answers: it can
   not slip out of the rounds in which retire_stale looks. *)
SilenceCounts ==
  [][\A t \in members \cap members' :
       quiet'[t] > 0 => /\ Further(node[t], node'[t])
                        /\ Stale(t) => Stale(t)']_poolVars

LEMMA OperationsOnTheDead ==
  ASSUME NEW n, SoundNode(n)
  PROVE  /\ \A m \in [delay: {FALSE}, bw: {FALSE}] : Further(n, Applied(n, m))
         /\ Further(n, n) /\ Further(n, NoteProxyFailure(n))
         /\ Further(n, AdoptScore(n)) /\ Further(n, Aged(n))
<1>1. n \in NodeState /\ New \in NodeState
  BY NewSound DEF SoundNode
<1>2. /\ n.consecutive_failures \in 0..FailCap /\ FailCap \in Nat \ {0}
      /\ n.failing_since # NONE => n.failing_since \in 0..KeepAlive
      /\ KeepAlive \in Nat /\ \A k \in Nat : k # NONE
  BY Fields
<1>3. Further(n, n)
  BY <1>2 DEF Further
<1>4. ASSUME NEW k, k.consecutive_failures = n.consecutive_failures,
             k.failing_since = n.failing_since,
             k.samples = n.samples, k.ever_responded = n.ever_responded
      PROVE  Further(n, k)
  <2>1. HasEvidence(k) = HasEvidence(n)
    BY <1>4, Zenon DEF HasEvidence
  <2> QED BY <1>2, <1>4, <2>1 DEF Further
<1>5. Further(n, NoteProxyFailure(n)) /\ Further(n, AdoptScore(n))
  <2> DEFINE f == NoteProxyFailure(n)
             a == AdoptScore(n)
  <2>1. /\ f.consecutive_failures = n.consecutive_failures
        /\ f.failing_since = n.failing_since
        /\ f.samples = n.samples /\ f.ever_responded = n.ever_responded
    BY <1>1 DEF NodeState, NoteProxyFailure
  <2>2. /\ a.consecutive_failures = n.consecutive_failures
        /\ a.failing_since = n.failing_since
        /\ a.samples = n.samples /\ a.ever_responded = n.ever_responded
    BY <1>1 DEF NodeState, AdoptScore
  <2> HIDE DEF f, a
  <2>3. Further(n, f) /\ Further(n, a)
    BY <1>4, <2>1, <2>2
  <2> QED BY <2>3 DEF f, a
<1>6. Further(n, Aged(n))
  <2>1. /\ Aged(n).consecutive_failures = n.consecutive_failures
        /\ Aged(n).samples = n.samples /\ Aged(n).ever_responded = n.ever_responded
        /\ Aged(n).failing_since = IF n.failing_since = NONE THEN NONE
                                   ELSE CappedAdd(n.failing_since, 1, KeepAlive)
    BY <1>1 DEF NodeState, Aged
  <2>2. HasEvidence(Aged(n)) = HasEvidence(n)
    BY <2>1, Zenon DEF HasEvidence
  <2>3. n.failing_since # NONE
          => /\ CappedAdd(n.failing_since, 1, KeepAlive) \in Nat
             /\ CappedAdd(n.failing_since, 1, KeepAlive) >= n.failing_since
    BY <1>2 DEF CappedAdd
  <2> QED BY <1>2, <2>1, <2>2, <2>3 DEF Further
<1>7. Further(n, NoteProbeFailure(Penalize(n)))
  <2> DEFINE k == NoteProbeFailure(Penalize(n))
  <2>1. /\ k.consecutive_failures = CappedAdd(n.consecutive_failures, 1, FailCap)
        /\ k.samples = n.samples /\ k.ever_responded = n.ever_responded
        /\ k.failing_since = IF n.failing_since = NONE THEN 0 ELSE n.failing_since
    BY <1>1 DEF NodeState, Penalize, NoteProbeFailure
  <2> HIDE DEF k
  <2>2. HasEvidence(k) = HasEvidence(n)
    BY <2>1, Zenon DEF HasEvidence
  <2>3. CappedAdd(n.consecutive_failures, 1, FailCap) >= n.consecutive_failures
    BY <1>2 DEF CappedAdd
  <2>4. Further(n, k)
    BY <1>2, <2>1, <2>2, <2>3 DEF Further
  <2> QED BY <2>4 DEF k
<1>8. \A m \in [delay: {FALSE}, bw: {FALSE}] : Further(n, Applied(n, m))
  BY <1>7 DEF Applied
<1> QED BY <1>3, <1>5, <1>6, <1>8

LEMMA SilentBatch ==
  ASSUME IInv, NEW chunk \in SUBSET Tags,
         NEW r \in [chunk -> [delay: BOOLEAN, bw: BOOLEAN]],
         ApplyBatch(r), NEW t \in members, quiet'[t] > 0
  PROVE  Further(node[t], node'[t])
<1>1. t \in Tags /\ SoundNode(node[t])
  BY DEF IInv, TypeOK
<1>2. CASE t \in chunk
  <2>1. r[t] \in [delay: BOOLEAN, bw: BOOLEAN]
    BY <1>2
  <2>2. /\ node'[t] = Applied(node[t], r[t])
        /\ quiet'[t] = IF r[t].delay \/ r[t].bw THEN 0 ELSE quiet[t]
    BY <1>1, <1>2 DEF ApplyBatch
  <2>3. r[t] \in [delay: {FALSE}, bw: {FALSE}]
    <3>1. ~(r[t].delay \/ r[t].bw)
      BY <2>2
    <3>2. r[t].delay = FALSE /\ r[t].bw = FALSE
      BY <2>1, <3>1, Zenon
    <3>3. r[t] = [delay |-> r[t].delay, bw |-> r[t].bw]
      BY <2>1
    <3> QED BY <3>2, <3>3
  <2> QED BY <1>1, <2>2, <2>3, OperationsOnTheDead
<1>3. CASE t \notin chunk
  <2>1. node'[t] = node[t]
    BY <1>1, <1>3 DEF ApplyBatch
  <2> QED BY <1>1, <2>1, OperationsOnTheDead
<1> QED BY <1>2, <1>3

LEMMA SilentStep ==
  ASSUME IInv, [Next]_poolVars, NEW t \in members \cap members', quiet'[t] > 0
  PROVE  Further(node[t], node'[t])
<1>1. t \in Tags /\ SoundNode(node[t]) /\ todo \subseteq Tags
  BY DEF IInv, TypeOK
<1>2. CASE node'[t] = node[t]
  BY <1>1, <1>2, OperationsOnTheDead
<1>3. CASE Plan \/ SaveDone \/ SkipBw \/ StartBw \/ UNCHANGED poolVars
  BY <1>2, <1>3 DEF Plan, SaveDone, SkipBw, StartBw, poolVars
<1>4. CASE MeasureBatch
  <2>1. PICK chunk \in SUBSET todo :
          \E ok \in [chunk -> BOOLEAN] : ApplyBatch([u \in chunk |-> DelayResult(ok[u])])
    BY <1>4 DEF MeasureBatch
  <2>2. PICK ok \in [chunk -> BOOLEAN] : ApplyBatch([u \in chunk |-> DelayResult(ok[u])])
    BY <2>1
  <2>3. [u \in chunk |-> DelayResult(ok[u])] \in [chunk -> [delay: BOOLEAN, bw: BOOLEAN]]
    BY DEF DelayResult
  <2>4. chunk \in SUBSET Tags
    BY <1>1
  <2> QED BY <2>2, <2>3, <2>4, SilentBatch
<1>5. CASE MeasureBw
  <2>1. PICK ok \in [todo -> BwResults] : ApplyBatch([u \in todo |-> BwResult(ok[u])])
    BY <1>5 DEF MeasureBw
  <2>2. [u \in todo |-> BwResult(ok[u])] \in [todo -> [delay: BOOLEAN, bw: BOOLEAN]]
    BY PoolAssumption DEF BwResult
  <2> QED BY <1>1, <2>1, <2>2, SilentBatch
<1>6. CASE RetireStale
  <2>1. node'[t] = node[t]
    BY <1>1, <1>6 DEF RetireStale
  <2> QED BY <1>2, <2>1
<1>7. ASSUME NEW u \in Tags, NEW ok \in BOOLEAN, AttributeRuntime(u, ok)
      PROVE  Further(node[t], node'[t])
  <2>1. CASE u = t
    <3>1. ~ok
      BY <1>1, <1>7, <2>1 DEF AttributeRuntime, IInv, TypeOK
    <3>2. node'[t] = NoteProxyFailure(node[t])
      BY <1>1, <1>7, <2>1, <3>1 DEF AttributeRuntime, IInv, TypeOK
    <3> QED BY <1>1, <3>2, OperationsOnTheDead
  <2>2. CASE u # t
    BY <1>1, <1>2, <1>7, <2>2 DEF AttributeRuntime, IInv, TypeOK
  <2> QED BY <2>1, <2>2
<1>8. ASSUME NEW listed \in SUBSET Tags, Reload(listed)
      PROVE  Further(node[t], node'[t])
  <2>1. node'[t] = AdoptScore(node[t])
    BY <1>1, <1>8 DEF Reload
  <2> QED BY <1>1, <2>1, OperationsOnTheDead
<1>9. CASE Tick
  <2>1. node'[t] = Aged(node[t])
    BY <1>1, <1>9 DEF Tick
  <2> QED BY <1>1, <2>1, OperationsOnTheDead
<1> QED
  BY <1>3, <1>4, <1>5, <1>6, <1>7, <1>8, <1>9 DEF Next, Scheduler

(* A node that is silent stays on its way out, whatever else happens to it. *)
THEOREM SilenceAlwaysCounts == Spec => SilenceCounts
<1>1. ASSUME IInv, IInv', [Next]_poolVars, NEW t \in members \cap members', quiet'[t] > 0
      PROVE  Further(node[t], node'[t]) /\ (Stale(t) => Stale(t)')
  <2>1. Further(node[t], node'[t])
    BY <1>1, SilentStep
  <2>2. t \in Tags /\ SoundNode(node[t]) /\ SoundNode(node'[t])
    BY <1>1 DEF IInv, TypeOK
  <2>3. /\ node[t].consecutive_failures \in Nat /\ node'[t].consecutive_failures \in Nat
        /\ node[t].failing_since # NONE => node[t].failing_since \in Nat
        /\ node'[t].failing_since # NONE => node'[t].failing_since \in Nat
    BY <2>2, Fields
  <2>4. Stale(t) => Stale(t)'
    BY <2>1, <2>3, NodeAssumption, PoolAssumption DEF Stale, Further
  <2> QED BY <2>1, <2>4
<1>2. IInv /\ IInv' /\ [Next]_poolVars =>
        [\A t \in members \cap members' :
           quiet'[t] > 0 => /\ Further(node[t], node'[t])
                            /\ Stale(t) => Stale(t)']_poolVars
  BY <1>1
<1> QED BY <1>2, Invariance, PTL DEF Spec, SilenceCounts

-----------------------------------------------------------------------------
(* What the pool is to the selection. *)

View == INSTANCE PoolView
          WITH pool <- members, measured <- {t \in members : node[t].ewma = "finite"}

(* A measured node stays rankable for as long as it stays in the pool, through
   failures, traffic, time, retirement and every reload, and one that enters the
   pool has to be measured first: a reload that dropped what had been measured
   once emptied the selection. *)
ServesTheSelection == View!Spec

(* What no operation on a node takes away, or gives without a measurement. *)
LEMMA EwmaSurvives ==
  ASSUME NEW n, SoundNode(n), NEW m \in [delay: BOOLEAN, bw: BOOLEAN]
  PROVE  /\ n.ewma = "finite" => Applied(n, m).ewma = "finite"
         /\ NoteProxySuccess(n).ewma = n.ewma /\ NoteProxyFailure(n).ewma = n.ewma
         /\ AdoptScore(n).ewma = n.ewma /\ Aged(n).ewma = n.ewma
         /\ New.ewma # "finite"
<1>1. n \in NodeState /\ New \in NodeState
  BY NewSound DEF SoundNode
<1>2. /\ NoteProxySuccess(n).ewma = n.ewma /\ NoteProxyFailure(n).ewma = n.ewma
      /\ AdoptScore(n).ewma = n.ewma /\ Aged(n).ewma = n.ewma
      /\ New.ewma # "finite"
  BY <1>1 DEF NodeState, NoteProxySuccess, NoteProxyFailure, AdoptScore, Aged, New
<1>3. ASSUME NEW k, SoundNode(k), k.ewma = "finite"
      PROVE  /\ Update(k).ewma = "finite" /\ UpdateBw(k).ewma = "finite"
             /\ Penalize(k).ewma = "finite"
             /\ NoteProbeSuccess(k).ewma = "finite" /\ NoteProbeFailure(k).ewma = "finite"
  BY <1>3 DEF SoundNode, NodeState, Update, UpdateBw, Penalize, NoteProbeSuccess,
              NoteProbeFailure
<1>4. n.ewma = "finite" => Applied(n, m).ewma = "finite"
  BY <1>3, UpdateSound, UpdateBwSound, PenalizeSound DEF Applied
<1> QED BY <1>2, <1>4

(* A batch only adds to the measured nodes of a pool that stays. *)
LEMMA BatchIsMeasure ==
  ASSUME IInv, NEW chunk \in SUBSET Tags,
         NEW r \in [chunk -> [delay: BOOLEAN, bw: BOOLEAN]],
         ApplyBatch(r)
  PROVE  View!Measure
<1>1. \A t \in Tags : node[t].ewma = "finite" => node'[t].ewma = "finite"
  <2> SUFFICES ASSUME NEW t \in Tags, node[t].ewma = "finite"
               PROVE  node'[t].ewma = "finite"
    OBVIOUS
  <2>1. node'[t] = IF t \in members \cap DOMAIN r THEN Applied(node[t], r[t]) ELSE node[t]
    BY DEF ApplyBatch
  <2>2. SoundNode(node[t])
    BY DEF IInv
  <2> QED BY <2>1, <2>2, EwmaSurvives
<1>2. members' = members /\ members \subseteq Tags
  BY DEF ApplyBatch, IInv, TypeOK
<1> QED BY <1>1, <1>2 DEF View!Measure

LEMMA ViewStep == IInv /\ [Next]_poolVars => [View!Next]_(View!view)
<1> SUFFICES ASSUME IInv, [Next]_poolVars PROVE View!Next \/ UNCHANGED View!view
  OBVIOUS
<1>1. members \subseteq Tags /\ todo \subseteq Tags /\ \A t \in Tags : SoundNode(node[t])
  BY DEF IInv, TypeOK
<1>2. UNCHANGED <<members, node>> => UNCHANGED View!view
  BY DEF View!view
<1>3. CASE Plan \/ SaveDone \/ SkipBw \/ StartBw \/ UNCHANGED poolVars
  BY <1>2, <1>3 DEF Plan, SaveDone, SkipBw, StartBw, poolVars
<1>4. CASE MeasureBatch
  <2>1. PICK chunk \in SUBSET todo :
          \E ok \in [chunk -> BOOLEAN] : ApplyBatch([t \in chunk |-> DelayResult(ok[t])])
    BY <1>4 DEF MeasureBatch
  <2>2. PICK ok \in [chunk -> BOOLEAN] : ApplyBatch([t \in chunk |-> DelayResult(ok[t])])
    BY <2>1
  <2>3. [t \in chunk |-> DelayResult(ok[t])] \in [chunk -> [delay: BOOLEAN, bw: BOOLEAN]]
    BY DEF DelayResult
  <2>4. chunk \in SUBSET Tags
    BY <1>1
  <2> QED BY <2>2, <2>3, <2>4, BatchIsMeasure DEF View!Next
<1>5. CASE MeasureBw
  <2>1. PICK ok \in [todo -> BwResults] : ApplyBatch([t \in todo |-> BwResult(ok[t])])
    BY <1>5 DEF MeasureBw
  <2>2. [t \in todo |-> BwResult(ok[t])] \in [todo -> [delay: BOOLEAN, bw: BOOLEAN]]
    BY PoolAssumption DEF BwResult
  <2> QED BY <1>1, <2>1, <2>2, BatchIsMeasure DEF View!Next
<1>6. ASSUME members' \subseteq Tags,
             \A t \in members' : (node'[t].ewma = "finite")
                                   <=> (t \in members /\ node[t].ewma = "finite")
      PROVE  View!Next
  BY <1>6 DEF View!Next, View!Rebuild
<1>7. CASE RetireStale
  <2>1. CASE MaxFailures = 0
    BY <1>2, <1>7, <2>1 DEF RetireStale
  <2>2. CASE MaxFailures # 0
    <3>1. members' \subseteq members
      BY <1>7, <2>2 DEF RetireStale
    <3>2. \A t \in members' : node'[t] = node[t]
      BY <1>1, <1>7, <2>2, <3>1 DEF RetireStale
    <3> QED BY <1>1, <1>6, <3>1, <3>2
  <2> QED BY <2>1, <2>2
<1>8. ASSUME NEW t \in Tags, NEW ok \in BOOLEAN, AttributeRuntime(t, ok)
      PROVE  View!Next
  <2>1. node'[t] = IF ok THEN NoteProxySuccess(node[t]) ELSE NoteProxyFailure(node[t])
    BY <1>8 DEF AttributeRuntime, IInv, TypeOK
  <2>2. \A u \in Tags \ {t} : node'[u] = node[u]
    BY <1>8 DEF AttributeRuntime, IInv, TypeOK
  <2>3. node'[t].ewma = node[t].ewma
    <3>1. [delay |-> ok, bw |-> ok] \in [delay: BOOLEAN, bw: BOOLEAN]
      OBVIOUS
    <3> QED BY <1>1, <2>1, <3>1, EwmaSurvives
  <2>4. members' = members
    BY <1>8 DEF AttributeRuntime
  <2> QED BY <1>1, <1>6, <2>2, <2>3, <2>4
<1>9. ASSUME NEW listed \in SUBSET Tags, Reload(listed)
      PROVE  View!Next
  <2>1. members' = listed
    BY <1>9 DEF Reload
  <2>2. \A t \in Tags : node'[t] = IF t \in listed \cap members
                                   THEN AdoptScore(node[t]) ELSE New
    BY <1>9 DEF Reload
  <2>3. \A t \in Tags : AdoptScore(node[t]).ewma = node[t].ewma /\ New.ewma # "finite"
    <3>1. [delay |-> TRUE, bw |-> TRUE] \in [delay: BOOLEAN, bw: BOOLEAN]
      OBVIOUS
    <3> QED BY <1>1, <3>1, EwmaSurvives
  <2>4. \A t \in members' : (node'[t].ewma = "finite")
                              <=> (t \in members /\ node[t].ewma = "finite")
    BY <2>1, <2>2, <2>3
  <2> QED BY <1>6, <2>1, <2>4
<1>10. CASE Tick
  <2>1. \A t \in Tags : node'[t] = Aged(node[t])
    BY <1>10 DEF Tick
  <2>2. \A t \in Tags : Aged(node[t]).ewma = node[t].ewma
    <3>1. [delay |-> TRUE, bw |-> TRUE] \in [delay: BOOLEAN, bw: BOOLEAN]
      OBVIOUS
    <3> QED BY <1>1, <3>1, EwmaSurvives
  <2>3. members' = members
    BY <1>10 DEF Tick
  <2>4. \A t \in members' : (node'[t].ewma = "finite")
                              <=> (t \in members /\ node[t].ewma = "finite")
    BY <1>1, <2>1, <2>2, <2>3
  <2> QED BY <1>1, <1>6, <2>3, <2>4
<1> QED
  BY <1>3, <1>4, <1>5, <1>7, <1>8, <1>9, <1>10 DEF Next, Scheduler

(* The node pool implements PoolView, for every set of tags and every tuning. *)
THEOREM PoolServesTheSelection == Spec => ServesTheSelection
<1>1. Init => View!Init
  BY DEF Init, View!Init
<1> QED BY <1>1, ViewStep, Invariance, PTL DEF Spec, ServesTheSelection, View!Spec

-----------------------------------------------------------------------------
(* The snapshot and crashes (PoolPersistence). *)

DiskTyped ==
  /\ DOMAIN disk = Files
  /\ \A f \in Files : disk[f] # NONE => IsSnapshot(disk[f])

(* What the file says of a tag: its HP, and whether there is evidence of life.
   Of a tag in neither table it says what is true of a new node. *)
Told(d, t) ==
  IF t \in DOMAIN d.scores THEN [hp |-> d.scores[t].hp, evidence |-> TRUE]
  ELSE IF t \in DOMAIN d.hp_extra
       THEN [hp |-> d.hp_extra[t].hp, evidence |-> d.hp_extra[t].ever_responded]
  ELSE [hp |-> HP_INITIAL, evidence |-> FALSE]

DiskTells ==
  \A f \in Files : disk[f] # NONE =>
    \A t \in Tags : lastSaved[f][t] # NONE => lastSaved[f][t] = Told(disk[f], t)

PInv ==
  /\ IInv
  /\ up \in BOOLEAN
  /\ paths \in [load: Files, save: Files]
  /\ ~up => members = {}
  /\ DiskTyped
  /\ lastSaved \in [Files -> [Tags -> SavedMark \cup {NONE}]]
  /\ DiskTells

LEMMA PathsTyped == AnyPaths \subseteq [load: Files, save: Files]
  BY PersistAssumption DEF AnyPaths, PathsOf, EffState, StatePath

(* The file is taken to be sound, restored nodes are: restoring brings back
   what the file tells of a tag. *)
LEMMA ScoreRestored ==
  ASSUME NEW s \in Score
  PROVE  /\ SoundNode(RestoreScore(New, s)) /\ RestoreScore(New, s).failing_since = NONE
         /\ RestoreScore(New, s).hp = s.hp
         /\ HasEvidence(RestoreScore(New, s)) = TRUE
<1> DEFINE n == RestoreScore(New, s)
<1>1. /\ s.ewma = "finite" /\ s.samples \in 1..SampleCap /\ s.hp \in 0..HP_MAX
      /\ s.bw \in BOOLEAN
  BY DEF Score
<1>2. New \in NodeState /\ SampleCap \in Nat /\ HP_MAX \in Nat
  BY NewSound, NodeAssumption DEF SoundNode
<1>3. n \in NodeState
  <2> DEFINE b == IF s.bw THEN TRUE ELSE New.bw
  <2>1. b \in BOOLEAN
    BY <1>1, <1>2 DEF NodeState
  <2>2. n = [New EXCEPT !.ewma = s.ewma, !.samples = s.samples, !.hp = s.hp, !.bw = b]
    BY DEF RestoreScore
  <2>3. s.samples \in 0..SampleCap
    BY <1>1, <1>2
  <2> HIDE DEF b, n
  <2> QED
    BY <1>1, <1>2, <2>1, <2>2, <2>3 DEF NodeState
<1>4. /\ n.consecutive_failures = 0 /\ n.failing_since = NONE
      /\ n.samples = s.samples /\ n.ewma = "finite" /\ n.hp = s.hp
  BY <1>1 DEF New, RestoreScore
<1>5. n.samples > 0
  BY <1>1, <1>2, <1>4
<1>6. HasEvidence(n)
  BY <1>5 DEF HasEvidence
<1> HIDE DEF n
<1>7. SoundNode(n)
  BY <1>3, <1>4, <1>5 DEF SoundNode
<1>8. HasEvidence(n) = TRUE
  BY <1>6, Zenon DEF HasEvidence
<1> QED
  BY <1>4, <1>7, <1>8, Zenon DEF n

LEMMA HpExtraRestored ==
  ASSUME NEW x \in HpExtra
  PROVE  LET n == RestoreHpExtra(New, x)
         IN /\ SoundNode(n) /\ n.failing_since = NONE
            /\ n.hp = x.hp /\ HasEvidence(n) = x.ever_responded
<1> DEFINE n == RestoreHpExtra(New, x)
<1>1. x.hp \in 0..HP_MAX /\ x.ever_responded \in BOOLEAN
  BY DEF HpExtra
<1>2. New \in NodeState /\ SampleCap \in Nat /\ HP_MAX \in Nat
  BY NewSound, NodeAssumption DEF SoundNode
<1>3. n \in NodeState
  BY <1>1, <1>2 DEF NodeState, RestoreHpExtra
<1>4. /\ n.consecutive_failures = 0 /\ n.failing_since = NONE
      /\ n.samples = 0 /\ n.ewma = "INFINITY" /\ n.hp = x.hp
      /\ n.ever_responded = x.ever_responded
  BY DEF New, RestoreHpExtra
<1> HIDE DEF n
<1>5. ~(n.samples > 0)
  BY <1>4
<1>6. HasEvidence(n) = x.ever_responded
  BY <1>1, <1>4, <1>5, Zenon DEF HasEvidence
<1>7. SoundNode(n)
  BY <1>3, <1>4, <1>5 DEF SoundNode
<1> QED
  BY <1>4, <1>6, <1>7, Zenon DEF n

LEMMA NewHasNoEvidence == HasEvidence(New) = FALSE /\ New.hp = HP_INITIAL
<1>1. New.samples = 0 /\ New.ever_responded = FALSE /\ New.hp = HP_INITIAL
  BY DEF New
<1>2. ~(New.samples > 0)
  BY <1>1
<1>3. HasEvidence(New) = FALSE
  BY <1>1, <1>2, Zenon DEF HasEvidence
<1> QED
  BY <1>1, <1>3

(* What a new node becomes at a restart: sound, its clock not running, and what
   the file tells of it. *)
LEMMA Loaded ==
  ASSUME NEW d, d # NONE => IsSnapshot(d), NEW t
  PROVE  /\ SoundNode(LoadFrom(d, t)) /\ LoadFrom(d, t).failing_since = NONE
         /\ ~Fresh(d) => LoadFrom(d, t) = New
         /\ Fresh(d) => /\ LoadFrom(d, t).hp = Told(d, t).hp
                     /\ HasEvidence(LoadFrom(d, t)) = Told(d, t).evidence
<1>1. CASE ~Fresh(d)
  BY <1>1, NewSound DEF LoadFrom
<1>2. CASE Fresh(d) /\ t \in DOMAIN d.scores
  <2>1. t \notin DOMAIN d.hp_extra /\ d.scores[t] \in Score
    BY <1>2 DEF Fresh, IsSnapshot
  <2>2. LoadFrom(d, t) = RestoreScore(New, d.scores[t])
    BY <1>2, <2>1 DEF LoadFrom
  <2>3. Told(d, t) = [hp |-> d.scores[t].hp, evidence |-> TRUE]
    BY <1>2 DEF Told
  <2>4. Told(d, t).hp = d.scores[t].hp /\ Told(d, t).evidence = TRUE
    BY <2>3
  <2> QED
    BY <1>2, <2>1, <2>2, <2>4, ScoreRestored, Zenon
<1>3. CASE Fresh(d) /\ t \notin DOMAIN d.scores /\ t \in DOMAIN d.hp_extra
  <2>1. d.hp_extra[t] \in HpExtra
    BY <1>3 DEF Fresh, IsSnapshot
  <2>2. LoadFrom(d, t) = RestoreHpExtra(New, d.hp_extra[t])
    BY <1>3 DEF LoadFrom
  <2>3. Told(d, t) =
          [hp |-> d.hp_extra[t].hp, evidence |-> d.hp_extra[t].ever_responded]
    BY <1>3 DEF Told
  <2>4. /\ Told(d, t).hp = d.hp_extra[t].hp
        /\ Told(d, t).evidence = d.hp_extra[t].ever_responded
    BY <2>3
  <2> QED
    BY <1>3, <2>1, <2>2, <2>4, HpExtraRestored, Zenon
<1>4. CASE Fresh(d) /\ t \notin DOMAIN d.scores /\ t \notin DOMAIN d.hp_extra
  <2>1. LoadFrom(d, t) = New
    BY <1>4 DEF LoadFrom
  <2>2. Told(d, t).hp = HP_INITIAL /\ Told(d, t).evidence = FALSE
    BY <1>4 DEF Told
  <2> QED
    BY <1>4, <2>1, <2>2, NewSound, NewHasNoEvidence, Zenon
<1> QED
  BY <1>1, <1>2, <1>3, <1>4

(* The two tables together tell of every member what it is, also of those that
   are in neither. *)
LEMMA SnapshotTells ==
  ASSUME IInv
  PROVE  /\ DOMAIN Snapshot = {"scores", "hp_extra", "age"} /\ Snapshot.age = 0
         /\ DOMAIN Snapshot.scores \cap DOMAIN Snapshot.hp_extra = {}
         /\ \A t \in DOMAIN Snapshot.scores : Snapshot.scores[t] \in Score
         /\ \A t \in DOMAIN Snapshot.hp_extra : Snapshot.hp_extra[t] \in HpExtra
         /\ \A t \in members :
              [hp |-> node[t].hp, evidence |-> HasEvidence(node[t])] = Told(Snapshot, t)
<1> DEFINE scores == [t \in Scored |->
                        [ewma |-> node[t].ewma, samples |-> node[t].samples,
                         bw |-> node[t].bw, hp |-> node[t].hp]]
           extra == [t \in Extra |->
                       [hp |-> node[t].hp, ever_responded |-> node[t].ever_responded]]
<1>1. /\ Snapshot.scores = scores /\ Snapshot.hp_extra = extra /\ Snapshot.age = 0
      /\ DOMAIN Snapshot = {"scores", "hp_extra", "age"}
  BY DEF Snapshot
<1>2. /\ DOMAIN Snapshot.scores = Scored
      /\ DOMAIN Snapshot.hp_extra = Extra
  BY <1>1
<1>3. \A t \in members : SoundNode(node[t]) /\ node[t] \in NodeState
  BY DEF IInv, TypeOK
<1>4. Scored \cap Extra = {}
  <2> SUFFICES ASSUME NEW t \in Scored, t \in Extra PROVE FALSE
    OBVIOUS
  <2>1. node[t].samples > 0 /\ node[t].samples = 0
    BY DEF Scored, Extra
  <2> QED
    BY <2>1
<1>5. ASSUME NEW t \in Scored
      PROVE  /\ Snapshot.scores[t] \in Score
             /\ Snapshot.scores[t].hp = node[t].hp
             /\ HasEvidence(node[t]) = TRUE
  <2>1. /\ node[t] \in NodeState /\ node[t].samples > 0 /\ node[t].ewma = "finite"
    BY <1>3 DEF Scored
  <2>2. node[t].samples \in 1..SampleCap
    BY <2>1, NodeAssumption DEF NodeState
  <2>3. Snapshot.scores[t] = [ewma |-> node[t].ewma, samples |-> node[t].samples,
                              bw |-> node[t].bw, hp |-> node[t].hp]
    BY <1>1
  <2>4. Snapshot.scores[t] \in Score
    BY <2>1, <2>2, <2>3 DEF NodeState, Score
  <2>5. HasEvidence(node[t]) = TRUE
    BY <2>1, Zenon DEF HasEvidence
  <2> QED
    BY <2>3, <2>4, <2>5
<1>6. ASSUME NEW t \in Extra
      PROVE  /\ Snapshot.hp_extra[t] \in HpExtra
             /\ Snapshot.hp_extra[t].hp = node[t].hp
             /\ HasEvidence(node[t]) = Snapshot.hp_extra[t].ever_responded
  <2>1. node[t] \in NodeState /\ node[t].samples = 0
    BY <1>3 DEF Extra
  <2>2. Snapshot.hp_extra[t] =
          [hp |-> node[t].hp, ever_responded |-> node[t].ever_responded]
    BY <1>1
  <2>3. /\ Snapshot.hp_extra[t].hp = node[t].hp
        /\ Snapshot.hp_extra[t].ever_responded = node[t].ever_responded
    BY <2>2
  <2>4. Snapshot.hp_extra[t] \in HpExtra
    BY <2>1, <2>2 DEF NodeState, HpExtra
  <2>5. ~(node[t].samples > 0) /\ node[t].ever_responded \in BOOLEAN
    BY <2>1 DEF NodeState
  <2>6. HasEvidence(node[t]) = node[t].ever_responded
    BY <2>5, Zenon DEF HasEvidence
  <2> QED
    BY <2>3, <2>4, <2>6, Zenon
<1>7. ASSUME NEW t \in members, t \notin Scored, t \notin Extra
      PROVE  node[t].hp = HP_INITIAL /\ HasEvidence(node[t]) = FALSE
  <2>1. SoundNode(node[t]) /\ node[t] \in NodeState
    BY <1>3
  <2>2. ~(node[t].samples > 0) /\ node[t].samples = 0
    <3>1. ~(node[t].samples > 0)
      BY <1>7, <2>1 DEF Scored, SoundNode
    <3>2. node[t].samples \in Nat
      BY <2>1, NodeAssumption DEF NodeState
    <3> QED
      BY <3>1, <3>2
  <2>3. node[t].hp = HP_INITIAL /\ ~node[t].ever_responded
    BY <1>7, <2>2 DEF Extra
  <2>4. HasEvidence(node[t]) = FALSE
    BY <2>2, <2>3, Zenon DEF HasEvidence
  <2> QED
    BY <2>3, <2>4
<1> HIDE DEF scores, extra
<1>8. ASSUME NEW t \in members
      PROVE  [hp |-> node[t].hp, evidence |-> HasEvidence(node[t])] = Told(Snapshot, t)
  <2>1. CASE t \in Scored
    <3>1. Told(Snapshot, t) = [hp |-> Snapshot.scores[t].hp, evidence |-> TRUE]
      BY <1>2, <2>1, Zenon DEF Told
    <3> QED
      BY <1>5, <2>1, <3>1, Zenon
  <2>2. CASE t \notin Scored /\ t \in Extra
    <3>1. Told(Snapshot, t) = [hp |-> Snapshot.hp_extra[t].hp,
                               evidence |-> Snapshot.hp_extra[t].ever_responded]
      BY <1>2, <2>2, Zenon DEF Told
    <3> QED
      BY <1>6, <2>2, <3>1, Zenon
  <2>3. CASE t \notin Scored /\ t \notin Extra
    <3>1. Told(Snapshot, t) = [hp |-> HP_INITIAL, evidence |-> FALSE]
      BY <1>2, <2>3, Zenon DEF Told
    <3> QED
      BY <1>7, <2>3, <3>1, Zenon
  <2> QED
    BY <2>1, <2>2, <2>3, Zenon
<1> QED
  BY <1>1, <1>2, <1>4, <1>5, <1>6, <1>8

(* A step that leaves the files and what is known of them alone. *)
LEMMA FilesStay ==
  ASSUME DiskTyped, DiskTells, UNCHANGED <<disk, lastSaved>>
  PROVE  DiskTyped' /\ DiskTells'
  BY DEF DiskTyped, DiskTells

LEMMA PInitially == PersistInit => PInv
<1> SUFFICES ASSUME PersistInit PROVE PInv
  OBVIOUS
<1>1. IInv
  BY InitIInv DEF PersistInit
<1>2. paths \in [load: Files, save: Files]
  BY PathsTyped DEF PersistInit
<1> QED
  BY <1>1, <1>2 DEF PersistInit, PInv, DiskTyped, DiskTells, NothingSaved

(* A step of the pool while the daemon is up. *)
LEMMA PoolStepKeeps ==
  ASSUME PInv, [Next]_poolVars, up', UNCHANGED <<paths, disk, lastSaved>>
  PROVE  PInv'
<1>1. IInv'
  BY StepIInv DEF PInv
<1> QED
  BY <1>1, FilesStay DEF PInv

LEMMA SaveKeeps == PInv /\ Save => PInv'
<1> SUFFICES ASSUME PInv, Save PROVE PInv'
  OBVIOUS
<1>1. Next /\ up' = TRUE /\ up' \in BOOLEAN /\ paths' = paths
  BY DEF Save, Next, Scheduler, PInv
<1>2. CASE UNCHANGED <<disk, lastSaved>>
  BY <1>1, <1>2, PoolStepKeeps
<1>3. CASE /\ disk' = [disk EXCEPT ![paths.save] = Snapshot]
           /\ lastSaved' = [lastSaved EXCEPT ![paths.save] = [t \in Tags |-> Mark(t)]]
  <2> DEFINE marks == [t \in Tags |-> Mark(t)]
  <2>0. IInv /\ IInv' /\ paths.save \in Files
    BY <1>1, StepIInv DEF PInv
  <2>1. IsSnapshot(Snapshot)
    BY <2>0, SnapshotTells, PersistAssumption DEF IsSnapshot
  <2>2. /\ DOMAIN disk' = Files
        /\ \A f \in Files : disk'[f] = IF f = paths.save THEN Snapshot ELSE disk[f]
    BY <1>3, <2>0 DEF PInv, DiskTyped
  <2>3. DiskTyped'
    BY <2>1, <2>2 DEF PInv, DiskTyped
  <2>4. \A f \in Files : lastSaved'[f] = IF f = paths.save THEN marks ELSE lastSaved[f]
    BY <1>3, <2>0 DEF PInv
  <2>5. ASSUME NEW t \in Tags, Mark(t) # NONE
        PROVE  Mark(t) = Told(Snapshot, t)
    BY <2>0, <2>5, SnapshotTells, Zenon DEF Mark
  <2>6. DiskTells'
    <3> SUFFICES ASSUME NEW f \in Files, disk'[f] # NONE, NEW t \in Tags,
                        lastSaved'[f][t] # NONE
                 PROVE  lastSaved'[f][t] = Told(disk'[f], t)
      BY DEF DiskTells
    <3>1. CASE f = paths.save
      <4>1. lastSaved'[f][t] = Mark(t) /\ disk'[f] = Snapshot
        BY <2>2, <2>4, <3>1
      <4> QED BY <2>5, <4>1
    <3>2. CASE f # paths.save
      <4>1. lastSaved'[f] = lastSaved[f] /\ disk'[f] = disk[f]
        BY <2>2, <2>4, <3>2
      <4>2. lastSaved[f][t] # NONE /\ disk[f] # NONE
        BY <4>1
      <4> QED BY <4>1, <4>2 DEF PInv, DiskTells
    <3> QED BY <3>1, <3>2
  <2>7. marks \in [Tags -> SavedMark \cup {NONE}]
    <3>1. ASSUME NEW t \in members
          PROVE  node[t].hp \in 0..HP_MAX /\ HasEvidence(node[t]) \in BOOLEAN
      BY <2>0 DEF IInv, TypeOK, NodeState, HasEvidence
    <3>2. ASSUME NEW t \in Tags PROVE Mark(t) \in SavedMark \cup {NONE}
      BY <3>1 DEF Mark, SavedMark
    <3> QED
      BY <3>2
  <2>8. lastSaved' \in [Files -> [Tags -> SavedMark \cup {NONE}]]
    <3> HIDE DEF marks
    <3>1. lastSaved' = [lastSaved EXCEPT ![paths.save] = marks]
      BY <1>3 DEF marks
    <3> QED BY <2>7, <3>1 DEF PInv
  <2> QED
    BY <1>1, <2>0, <2>3, <2>6, <2>8 DEF PInv
<1> QED
  BY <1>2, <1>3 DEF Save

(* Growing older a snapshot stays one and tells the same. *)
LEMMA OlderTells ==
  ASSUME NEW d, d # NONE, IsSnapshot(d)
  PROVE  /\ OneTickOlder(d) # NONE => IsSnapshot(OneTickOlder(d))
         /\ \A t : Told(OneTickOlder(d), t) = Told(d, t)
<1>1. OneTickOlder(d) = [d EXCEPT !.age = CappedAdd(d.age, 1, MaxAge + 1)]
  BY DEF OneTickOlder
<1>2. "age" \in DOMAIN d /\ d.age \in 0..(MaxAge + 1)
  BY DEF IsSnapshot
<1>3. CappedAdd(d.age, 1, MaxAge + 1) \in 0..(MaxAge + 1)
  BY <1>2, PersistAssumption DEF CappedAdd
<1>4. /\ DOMAIN OneTickOlder(d) = DOMAIN d /\ OneTickOlder(d).age \in 0..(MaxAge + 1)
      /\ OneTickOlder(d).scores = d.scores /\ OneTickOlder(d).hp_extra = d.hp_extra
  BY <1>1, <1>2, <1>3
<1> QED
  BY <1>4 DEF IsSnapshot, Told

LEMMA TimeKeeps == PInv /\ TimePasses => PInv'
<1> SUFFICES ASSUME PInv, TimePasses PROVE PInv'
  OBVIOUS
<1>1. IInv'
  BY StepIInv DEF PInv, TimePasses, Next
<1>2. /\ DOMAIN disk' = Files /\ lastSaved' = lastSaved
      /\ \A f \in Files : disk'[f] = OneTickOlder(disk[f])
  BY DEF TimePasses
<1>3. ASSUME NEW f \in Files, disk'[f] # NONE
      PROVE  /\ disk[f] # NONE /\ IsSnapshot(disk'[f])
             /\ \A t : Told(disk'[f], t) = Told(disk[f], t)
  <2>1. disk[f] # NONE /\ IsSnapshot(disk[f])
    BY <1>2, <1>3 DEF PInv, DiskTyped, OneTickOlder
  <2> QED BY <1>2, <1>3, <2>1, OlderTells
<1>4. DiskTyped' /\ DiskTells'
  BY <1>2, <1>3 DEF PInv, DiskTyped, DiskTells
<1> QED
  BY <1>1, <1>4 DEF PInv, TimePasses, Tick

LEMMA CrashKeeps == PInv /\ Crash => PInv'
<1> SUFFICES ASSUME PInv, Crash PROVE PInv'
  OBVIOUS
<1>1. IInv'
  BY NewSound DEF PInv, IInv, Crash, TypeOK, SoundNode, ClockWithinQuiet
<1> QED
  BY <1>1, FilesStay DEF PInv, Crash

LEMMA RestartKeeps == PInv /\ Restart => PInv'
<1> SUFFICES ASSUME PInv, Restart PROVE PInv'
  OBVIOUS
<1>1. paths' \in [load: Files, save: Files]
  BY PathsTyped DEF Restart
<1>2. disk[paths'.load] # NONE => IsSnapshot(disk[paths'.load])
  BY <1>1 DEF PInv, DiskTyped
<1>3. \A t \in Tags : SoundNode(node'[t]) /\ node'[t].failing_since = NONE
  BY <1>2, Loaded, NewSound DEF Restart
<1>4. IInv'
  BY <1>3 DEF PInv, IInv, Restart, TypeOK, Phases, SoundNode, ClockWithinQuiet
<1> QED
  BY <1>1, <1>4, FilesStay DEF PInv, Restart

LEMMA LossKeeps ==
  ASSUME PInv, NEW f \in Files, LoseFile(f)
  PROVE  PInv'
<1>1. IInv'
  BY StepIInv DEF PInv, LoseFile
<1>2. /\ DOMAIN disk' = Files
      /\ \A g \in Files : disk'[g] = IF g = f THEN NONE ELSE disk[g]
      /\ \A g \in Files \ {f} : lastSaved'[g] = lastSaved[g]
  BY DEF LoseFile, PInv, DiskTyped
<1>3. DiskTyped'
  BY <1>2 DEF PInv, DiskTyped
<1>4. DiskTells'
  BY <1>2 DEF PInv, DiskTells
<1>5. NothingSaved \in [Tags -> SavedMark \cup {NONE}]
  BY DEF NothingSaved
<1>6. lastSaved' \in [Files -> [Tags -> SavedMark \cup {NONE}]]
  BY <1>5 DEF LoseFile, PInv
<1> QED
  BY <1>1, <1>3, <1>4, <1>6 DEF PInv, LoseFile, poolVars

LEMMA PInductive == PInv /\ [PersistNext]_vars => PInv'
<1> SUFFICES ASSUME PInv, [PersistNext]_vars PROVE PInv'
  OBVIOUS
<1>1. CASE InMemory
  BY <1>1, PoolStepKeeps DEF InMemory, Next, Scheduler, persistVars
<1>2. CASE UNCHANGED vars
  <2>1. IInv'
    BY <1>2, StepIInv DEF PInv, vars
  <2> QED
    BY <1>2, <2>1, FilesStay DEF vars, persistVars, poolVars, PInv
<1> QED
  BY <1>1, <1>2, SaveKeeps, TimeKeeps, CrashKeeps, RestartKeeps, LossKeeps DEF PersistNext

LEMMA PInvariance == PersistSpec => []PInv
  BY PInitially, PInductive, PTL DEF PersistSpec

(* With crashes anywhere and whatever becomes of the files, memory, files and
   the record of the saves stay typed; no tag is in both tables of a file. *)
THEOREM PersistTyping == PersistSpec => []PersistTypeOK
<1>1. PInv => PersistTypeOK
  BY DEF PInv, IInv, DiskTyped, PersistTypeOK
<1> QED
  BY <1>1, PInvariance, PTL

(* A restart gives back what the last save to the file it loads wrote, or
   nothing: for every way in which SILVERQ_STATE and [paths].state may name, and
   between two runs rename, the file. *)
THEOREM RestartIsRight == PersistSpec => RestartRestores
<1>1. ASSUME PInv, [PersistNext]_vars, up', ~up, NEW t \in members'
      PROVE  LET d == disk[paths'.load]
                 saved == lastSaved[paths'.load]
             IN IF d = NONE \/ d.age = MaxAge + 1 THEN node'[t] = New
                ELSE saved[t] # NONE =>
                       /\ node'[t].hp = saved[t].hp
                       /\ HasEvidence(node'[t]) = saved[t].evidence
  <2> DEFINE d == disk[paths'.load]
             saved == lastSaved[paths'.load]
  <2>1. Restart
    BY <1>1 DEF PersistNext, Save, InMemory, TimePasses, Crash, LoseFile, vars, persistVars
  <2>2. t \in Tags /\ node'[t] = LoadFrom(d, t)
    BY <1>1, <2>1 DEF Restart
  <2>3. paths'.load \in Files
    BY <2>1, PathsTyped DEF Restart
  <2>4. d # NONE => IsSnapshot(d)
    BY <1>1, <2>3 DEF PInv, DiskTyped
  <2>5. d # NONE /\ saved[t] # NONE => saved[t] = Told(d, t)
    BY <1>1, <2>2, <2>3 DEF PInv, DiskTells
  <2> HIDE DEF d, saved
  <2>6. Fresh(d) <=> ~(d = NONE \/ d.age = MaxAge + 1)
    BY <2>4, PersistAssumption DEF Fresh, IsSnapshot
  <2>7. IF d = NONE \/ d.age = MaxAge + 1 THEN node'[t] = New
        ELSE saved[t] # NONE =>
               /\ node'[t].hp = saved[t].hp
               /\ HasEvidence(node'[t]) = saved[t].evidence
    <3>1. CASE ~Fresh(d)
      BY <2>2, <2>4, <2>6, <3>1, Loaded
    <3>2. CASE Fresh(d)
      <4>1. d # NONE
        BY <3>2 DEF Fresh
      <4> QED
        BY <2>2, <2>4, <2>5, <2>6, <3>2, <4>1, Loaded, Zenon
    <3> QED
      BY <3>1, <3>2
  <2> QED
    BY <2>7 DEF d, saved
<1>2. PInv /\ [PersistNext]_vars =>
        [up' /\ ~up =>
           LET d == disk[paths'.load]
               saved == lastSaved[paths'.load]
           IN \A t \in members' :
                IF d = NONE \/ d.age = MaxAge + 1 THEN node'[t] = New
                ELSE saved[t] # NONE =>
                       /\ node'[t].hp = saved[t].hp
                       /\ HasEvidence(node'[t]) = saved[t].evidence]_vars
  BY <1>1
<1> QED
  BY <1>2, PInvariance, PTL DEF PersistSpec, RestartRestores

(* The pool's own guarantees hold across crashes: a crash and a restart retire
   nobody, and what they leave is again a state of IInv. *)
LEMMA OutageRetiresNobody ==
  ASSUME PInv, [PersistNext]_vars, NEW t \in Tags, Retiring(t)
  PROVE  [Next]_poolVars
<1>1. ~Crash
  BY DEF Crash, Retiring
<1>2. ~Restart
  BY DEF Restart, Retiring, PInv
<1>3. CASE Save \/ InMemory \/ TimePasses
  BY <1>3 DEF Save, InMemory, TimePasses, Next, Scheduler
<1>4. CASE (\E f \in Files : LoseFile(f)) \/ UNCHANGED vars
  BY <1>4 DEF LoseFile, vars
<1> QED
  BY <1>1, <1>2, <1>3, <1>4 DEF PersistNext

(* What the file brings back is as sound as what was in memory. *)
THEOREM MarksAgreeAcrossCrashes == PersistSpec => []MarksAgree
<1>1. PInv => MarksAgree
  BY DEF PInv, IInv, MarksAgree, SoundNode
<1> QED
  BY <1>1, PInvariance, PTL

(* A node with evidence of life, be it evidence read from the file, is retired
   only after a whole keep-alive in which nothing was heard from it. *)
THEOREM AliveStaysAcrossCrashes == PersistSpec => AliveKeepsItsPlace
<1>1. PInv /\ [PersistNext]_vars =>
        [\A t \in Tags : Retiring(t) /\ HasEvidence(node[t])
                           => quiet[t] = KeepAlive]_poolVars
  BY OutageRetiresNobody, RetiredWasSilent DEF PInv
<1> QED
  BY <1>1, PInvariance, PTL DEF PersistSpec, AliveKeepsItsPlace

(* Retirement stops at the floor, also in a pool rebuilt after a crash. *)
THEOREM FloorHoldsAcrossCrashes == PersistSpec => RetirementFloor
<1>1. PInv /\ [PersistNext]_vars =>
        [(\E t \in Tags : Retiring(t)) => Cardinality(members') >= MinPool]_poolVars
  BY OutageRetiresNobody, FloorIsReached DEF PInv
<1> QED
  BY <1>1, PInvariance, PTL DEF PersistSpec, RetirementFloor
=============================================================================
