--------------------------- MODULE PoolPersistence ---------------------------
(***************************************************************************)
(* The node pool with its snapshot on disk (scheduler/persist.rs) and      *)
(* process crashes.  The scheduler saves after every batch; traffic,       *)
(* reloads and retirement change the pool without saving.  The file is     *)
(* replaced by a rename, so a crash leaves the old or the new snapshot.    *)
(* Saves and the load at startup look up the path of the file each in its  *)
(* own way, and the two ways may name two files.                           *)
(***************************************************************************)
EXTENDS NodePool

CONSTANTS
  MaxAge,      \* MAX_AGE_SECS, in ticks
  Files,       \* the files that SILVERQ_STATE and [paths].state may name
  DefaultFile  \* $HOME/.local/state/silverq/scores.json

ASSUME PersistAssumption ==
  /\ MaxAge \in Nat
  /\ DefaultFile \in Files /\ NONE \notin Files

VARIABLES
  up,        \* the daemon runs
  paths,     \* the file this run of it loaded from, and the one it saves to
  disk,      \* the snapshot in each file, or NONE (missing, corrupt, old version)
  lastSaved  \* history: of each file and tag, hp and evidence at the last save, or NONE

persistVars == <<up, paths, disk, lastSaved>>
vars == <<poolVars, persistVars>>

Score == [ewma: {"finite"}, samples: 1..SampleCap, bw: BOOLEAN, hp: 0..HP_MAX]
HpExtra == [hp: 0..HP_MAX, ever_responded: BOOLEAN]
SavedMark == [hp: 0..HP_MAX, evidence: BOOLEAN]

IsSnapshot(d) ==
  /\ DOMAIN d = {"scores", "hp_extra", "age"}
  /\ d.age \in 0..(MaxAge + 1)
  /\ DOMAIN d.scores \cap DOMAIN d.hp_extra = {}
  /\ \A t \in DOMAIN d.scores : d.scores[t] \in Score
  /\ \A t \in DOMAIN d.hp_extra : d.hp_extra[t] \in HpExtra

PersistTypeOK ==
  /\ TypeOK
  /\ up \in BOOLEAN
  /\ paths \in [load: Files, save: Files]
  /\ DOMAIN disk = Files
  /\ \A f \in Files : disk[f] # NONE => IsSnapshot(disk[f])
  /\ lastSaved \in [Files -> [Tags -> SavedMark \cup {NONE}]]

(* persist::state_path knows SILVERQ_STATE and the default; Effective::load
   knows SILVERQ_STATE and the [paths].state of silverq.toml. *)
StatePath(env) == IF env # NONE THEN env ELSE DefaultFile
EffState(env, toml) == IF env # NONE THEN env ELSE toml

PathsOf(env, toml) == [load |-> EffState(env, toml), save |-> StatePath(env)]

AnyPaths == {PathsOf(env, toml) : env \in Files \cup {NONE}, toml \in Files}

NothingSaved == [t \in Tags |-> NONE]

PersistInit ==
  /\ Init
  /\ up = TRUE
  /\ paths \in AnyPaths
  /\ disk = [f \in Files |-> NONE]
  /\ lastSaved = [f \in Files |-> NothingSaved]

-----------------------------------------------------------------------------
(* save_to: measured nodes go to scores; of the others, those that differ
   from a new node go to hp_extra. *)
Scored == {t \in members : node[t].samples > 0 /\ node[t].ewma = "finite"}

(* Mutation: nodes that only traffic has seen are forgotten if their HP is
   back at its initial value. *)
Extra_HpOnly == {t \in members : node[t].samples = 0 /\ node[t].hp # HP_INITIAL}

(* Mutation: measured nodes go to both tables. *)
Extra_Overlaps == {t \in members : node[t].hp # HP_INITIAL \/ node[t].ever_responded}

Extra ==
  {t \in members : /\ node[t].samples = 0
                   /\ node[t].hp # HP_INITIAL \/ node[t].ever_responded}

Snapshot ==
  [scores |-> [t \in Scored |->
                 [ewma |-> node[t].ewma, samples |-> node[t].samples,
                  bw |-> node[t].bw, hp |-> node[t].hp]],
   hp_extra |-> [t \in Extra |->
                   [hp |-> node[t].hp, ever_responded |-> node[t].ever_responded]],
   age |-> 0]

RestoreScore(n, s) ==
  [n EXCEPT !.ewma = s.ewma, !.samples = s.samples, !.hp = s.hp,
            !.bw = IF s.bw THEN TRUE ELSE @]

RestoreHpExtra(n, x) ==
  [n EXCEPT !.hp = x.hp, !.ever_responded = x.ever_responded]

Fresh(d) == d # NONE /\ d.age <= MaxAge

(* load_from: what a new node tagged t becomes by what the file d says. *)
LoadFrom(d, t) ==
  IF ~Fresh(d) THEN New
  ELSE LET scored == IF t \in DOMAIN d.scores
                     THEN RestoreScore(New, d.scores[t]) ELSE New
       IN IF t \in DOMAIN d.hp_extra
          THEN RestoreHpExtra(scored, d.hp_extra[t]) ELSE scored

-----------------------------------------------------------------------------
Mark(t) ==
  IF t \in members THEN [hp |-> node[t].hp, evidence |-> HasEvidence(node[t])] ELSE NONE

Save ==
  /\ up /\ SaveDone
  /\ \/ /\ disk' = [disk EXCEPT ![paths.save] = Snapshot]
        /\ lastSaved' = [lastSaved EXCEPT ![paths.save] = [t \in Tags |-> Mark(t)]]
     \/ UNCHANGED <<disk, lastSaved>>  \* an I/O error is only logged
  /\ UNCHANGED <<up, paths>>

InMemory ==
  /\ up
  /\ \/ Plan \/ MeasureBatch \/ SkipBw \/ StartBw \/ MeasureBw \/ RetireStale
     \/ \E t \in Tags, ok \in BOOLEAN : AttributeRuntime(t, ok)
     \/ \E listed \in SUBSET Tags : Reload(listed)
  /\ UNCHANGED persistVars

OneTickOlder(d) ==
  IF d = NONE THEN NONE ELSE [d EXCEPT !.age = CappedAdd(@, 1, MaxAge + 1)]

TimePasses ==
  /\ Tick
  /\ disk' = [f \in Files |-> OneTickOlder(disk[f])]
  /\ UNCHANGED <<up, paths, lastSaved>>

Crash ==
  /\ up
  /\ up' = FALSE
  /\ members' = {} /\ todo' = {}
  /\ node' = [t \in Tags |-> New]
  /\ UNCHANGED <<pc, quiet, paths, disk, lastSaved>>

(* main: a pool of new nodes for the tags listed by now, then load_from.  The
   environment and silverq.toml may have changed since the last run. *)
Restart ==
  /\ ~up
  /\ up' = TRUE
  /\ paths' \in AnyPaths
  /\ members' \in SUBSET Tags
  /\ node' = [t \in Tags |-> IF t \in members' THEN LoadFrom(disk[paths'.load], t) ELSE New]
  /\ pc' = "plan"
  /\ UNCHANGED <<todo, quiet, disk, lastSaved>>

(* A file is removed, damaged, or written by another format version. *)
LoseFile(f) ==
  /\ disk[f] # NONE
  /\ disk' = [disk EXCEPT ![f] = NONE]
  /\ lastSaved' = [lastSaved EXCEPT ![f] = NothingSaved]
  /\ UNCHANGED <<poolVars, up, paths>>

PersistNext == Save \/ InMemory \/ TimePasses \/ Crash \/ Restart \/ \E f \in Files : LoseFile(f)

PersistSpec == PersistInit /\ [][PersistNext]_vars

-----------------------------------------------------------------------------
(* A restart brings back what the file it loads was told, and nothing else: of
   a file saved to within MaxAge every listed node gets the HP and the evidence
   of life it had in memory at the last save there, though the file spreads
   them over two tables and leaves most nodes out; an older file, or one that
   nothing was saved to, gives nothing, whatever was saved elsewhere: every node
   is measured first. *)
RestartRestores ==
  [][up' /\ ~up =>
       LET d == disk[paths'.load]
           saved == lastSaved[paths'.load]
       IN \A t \in members' :
            IF d = NONE \/ d.age = MaxAge + 1 THEN node'[t] = New
            ELSE saved[t] # NONE =>
                   /\ node'[t].hp = saved[t].hp
                   /\ HasEvidence(node'[t]) = saved[t].evidence]_vars
=============================================================================
