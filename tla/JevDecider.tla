---------------------------- MODULE JevDecider ----------------------------
(***************************************************************************)
(* The jev decider, with the scheduler loop that feeds it and obeys it.    *)
(* At the end of a round the loop hands the best candidates to a task that *)
(* asks the endpoint; the answer comes whenever it comes, rounds later     *)
(* perhaps, and names the head that later reselects put first.  A reselect  *)
(* ranks, applies the head and writes in three steps: answers, commands and *)
(* traffic come in between.                                                *)
(* Rounds are counted from the present: a round number of the code is an   *)
(* age here.                                                               *)
(***************************************************************************)
EXTENDS Integers, Sequences, FiniteSets, Functions

CONSTANTS
  Tags,
  Capacity,         \* capacity of the tuning
  CandidateCount,   \* candidate_count, clamped by JevDecider::new
  Hatches,          \* ESCAPE_HATCHES
  Scale,            \* probability 1, in the steps they are given in
  Tolerance,        \* PROBABILITY_SUM_TOLERANCE
  MinProbability,   \* min_probability
  TtlRounds, FailThreshold, CooldownRounds,
  NONE              \* the None of an Option

ASSUME JevAssumption ==
  /\ NONE \notin Tags
  /\ Capacity \in Nat \ {0}
  /\ CandidateCount \in 2..6 /\ Scale \in Nat \ {0} /\ Tolerance \in Nat
  /\ MinProbability \in 0..Scale
  /\ TtlRounds \in Nat /\ CooldownRounds \in Nat
  /\ FailThreshold \in Nat \ {0}

VARIABLES
  ranked,     \* what select_top returns
  pin,        \* the pinned node, or NONE
  selection,
  phase,      \* of the scheduler loop: its batches, a reselect, or the end of a round
  desired,    \* the list the reselect is making
  head,       \* JevHead, with the age of its round, or NONE
  failures,   \* consecutive_failures, counted up to the threshold
  cooldown,   \* rounds to go until cooldown_until_round
  inFlight,   \* in_flight
  tasks,      \* decision tasks: step, candidates, age of the round
  verdict,    \* history: whom the last answer speaks for, and its age, or NONE
  grounds     \* history: the verdict on which desired departs from the ranking, or NONE

jev == <<head, failures, cooldown, verdict>>
loop == <<phase, desired, grounds>>
vars == <<ranked, pin, selection, loop, jev, inFlight, tasks>>

-----------------------------------------------------------------------------
Lists == {s \in UNION {[1..n -> Tags] : n \in 0..Capacity} : IsInjective(s)}

Take(s, n) == SubSeq(s, 1, IF Len(s) < n THEN Len(s) ELSE n)

(* Ages beyond these make no difference. *)
Oldest == IF TtlRounds < CooldownRounds THEN CooldownRounds ELSE TtlRounds + 1
Older(age) == IF age < Oldest THEN age + 1 ELSE age

Verdicts == [likeliest: SUBSET Tags, age: 0..Oldest]

Heads == [tag: Tags, age: 0..Oldest]
Tasks == [step: {"asking", "done"}, cands: Seq(Tags), age: 0..Oldest]

TypeOK ==
  /\ ranked \in Lists /\ selection \in Lists
  /\ pin \in Tags \cup {NONE}
  /\ phase \in {"batches", "head", "write", "end"}
  /\ desired \in Lists
  /\ head \in Heads \cup {NONE}
  /\ failures \in 0..FailThreshold
  /\ cooldown \in 0..CooldownRounds
  /\ inFlight \in BOOLEAN
  /\ tasks \subseteq Tasks
  /\ {verdict, grounds} \subseteq Verdicts \cup {NONE}

-----------------------------------------------------------------------------
(* validate_choice_answer and classify. *)

(* The answers that name exactly the keys asked for, candidates 1..n and the
   hatches, some with a probability out of range. *)
Answers(n) == [choice: 1..n \cup Hatches, probs: [1..n \cup Hatches -> 0..Scale + 1]]

SumsToOne(a) == FoldFunction(+, 0, a.probs) - Scale \in -Tolerance..Tolerance

Valid(a) ==
  /\ \A k \in DOMAIN a.probs : a.probs[k] \in 0..Scale
  /\ SumsToOne(a)
  /\ \A k \in DOMAIN a.probs : a.probs[k] <= a.probs[a.choice]

(* The kinds of failure are told apart only by the statistics. *)
Classified(a, n) ==
  CASE ~Valid(a) -> [kind |-> "invalid"]
    [] Valid(a) /\ a.choice \in Hatches -> [kind |-> "escaped"]
    [] OTHER -> [kind |-> "selected", choice |-> a.choice,
                 probs |-> [k \in 1..n |-> a.probs[k]]]

Answered == [n \in 2..CandidateCount |-> {Classified(a, n) : a \in Answers(n)}]

(* No response, a status that is no success, or a body that is no answer. *)
NotAnswered == {[kind |-> "transport"], [kind |-> "invalid"]}

-----------------------------------------------------------------------------
Init ==
  /\ ranked \in Lists
  /\ pin = NONE /\ selection = <<>>
  /\ phase = "batches" /\ desired = <<>> /\ grounds = NONE
  /\ head = NONE /\ failures = 0 /\ cooldown = 0 /\ verdict = NONE
  /\ inFlight = FALSE /\ tasks = {}

(* Probes and traffic change the order; nodes come and go. *)
Rerank ==
  /\ ranked' \in Lists \ {ranked}
  /\ UNCHANGED <<pin, selection, loop, jev, inFlight, tasks>>

Pin(t) ==
  /\ pin' = t /\ selection' = <<t>>
  /\ UNCHANGED <<ranked, loop, jev, inFlight, tasks>>

Unpin ==
  /\ pin' = NONE /\ selection' = ranked
  /\ UNCHANGED <<ranked, loop, jev, inFlight, tasks>>

-----------------------------------------------------------------------------
(* The scheduler loop. *)

(* Mutation: the head has no end. *)
Leads_Forever(list) == head # NONE /\ head.tag \in Range(list)

Leads(list) ==
  /\ head # NONE
  /\ head.age <= TtlRounds
  /\ head.tag \in Range(list)

(* Mutation: the tag is inserted, but not removed from its place. *)
Promoted_Twice(list) == IF Leads(list) THEN <<head.tag>> \o list ELSE list

(* apply_head_to *)
Promoted(list) ==
  IF Leads(list)
  THEN LET pos == CHOOSE i \in DOMAIN list : list[i] = head.tag
           from(i) == IF i = 1 THEN pos ELSE IF i <= pos THEN i - 1 ELSE i
       IN [i \in DOMAIN list |-> list[from(i)]]
  ELSE list

(* reselect, after a batch of probes or the throughput batch: the pin, or the
   ranking with the head applied to it, is written when the lock on the selection
   is had.  (How pin and ranking are read is in module Selection.) *)
RankPool ==
  /\ phase = "batches"
  /\ IF pin # NONE THEN desired' = <<pin>> /\ phase' = "write"
                   ELSE desired' = ranked /\ phase' = "head"
  /\ UNCHANGED <<ranked, pin, selection, grounds, jev, inFlight, tasks>>

ApplyHead ==
  /\ phase = "head"
  /\ desired' = Promoted(desired)
  /\ phase' = IF desired' = <<>> THEN "batches" ELSE "write"
  /\ grounds' = IF desired' = desired THEN NONE ELSE verdict
  /\ UNCHANGED <<ranked, pin, selection, jev, inFlight, tasks>>

WriteSelection ==
  /\ phase = "write" /\ phase' = "batches"
  /\ selection' = desired
  /\ desired' = <<>> /\ grounds' = NONE
  /\ UNCHANGED <<ranked, pin, jev, inFlight, tasks>>

(* round_no goes up: everything is a round older. *)
EndBatches ==
  /\ phase = "batches" /\ phase' = "end"
  /\ head' = IF head = NONE THEN NONE ELSE [head EXCEPT !.age = Older(@)]
  /\ cooldown' = IF cooldown = 0 THEN 0 ELSE cooldown - 1
  /\ tasks' = {[t EXCEPT !.age = Older(@)] : t \in tasks}
  /\ verdict' = IF head = NONE THEN NONE ELSE [verdict EXCEPT !.age = Older(@)]
  /\ UNCHANGED <<ranked, pin, selection, desired, grounds, failures, inFlight>>

Judged == Take(ranked, CandidateCount)

(* Mutation: a task is spawned whether or not another is under way. *)
MayAsk_Always == pin = NONE /\ Len(Judged) >= 2 /\ cooldown = 0

(* The guards of spawn_round and of decide_round, which runs on at once. *)
MayAsk == pin = NONE /\ ~inFlight /\ Len(Judged) >= 2 /\ cooldown = 0

Ask ==
  /\ phase = "end" /\ phase' = "batches"
  /\ MayAsk
  /\ inFlight' = TRUE
  /\ tasks' = tasks \cup {[step |-> "asking", cands |-> Judged, age |-> 0]}
  /\ UNCHANGED <<ranked, pin, selection, desired, grounds, jev>>

SkipAsk ==
  /\ phase = "end" /\ phase' = "batches"
  /\ ~MayAsk
  /\ UNCHANGED <<ranked, pin, selection, desired, grounds, jev, inFlight, tasks>>

-----------------------------------------------------------------------------
(* The decision task: record, then the drop of its guard. *)

Recorded(t) == tasks' = (tasks \ {t}) \cup {[t EXCEPT !.step = "done"]}

(* Mutation: the candidate is looked up in the present ranking. *)
Adopt_Present(t, outcome) ==
  /\ head' = [tag |-> IF outcome.choice <= Len(ranked) THEN ranked[outcome.choice]
                      ELSE t.cands[outcome.choice],
              age |-> t.age]
  /\ failures' = 0
  /\ UNCHANGED cooldown

Adopt(t, outcome) ==
  /\ head' = [tag |-> t.cands[outcome.choice], age |-> t.age]
  /\ failures' = 0
  /\ UNCHANGED cooldown

(* From the threshold on every failure starts a cooldown anew, counted from
   the round the question was asked in. *)
Fail(t) ==
  /\ head' = NONE
  /\ failures' = IF failures < FailThreshold THEN failures + 1 ELSE failures
  /\ cooldown' = IF failures' = FailThreshold /\ CooldownRounds > t.age
                 THEN CooldownRounds - t.age ELSE cooldown

Trusted(outcome) ==
  outcome.kind = "selected" /\ outcome.probs[outcome.choice] >= MinProbability

(* For the history: the candidates of the question no other one outdoes. *)
Likeliest(t, probs) ==
  {t.cands[i] : i \in {j \in DOMAIN probs :
                         /\ probs[j] >= MinProbability
                         /\ \A k \in DOMAIN probs : probs[k] <= probs[j]}}

Record(t, outcome) ==
  /\ t.step = "asking"
  /\ IF Trusted(outcome)
     THEN /\ Adopt(t, outcome)
          /\ verdict' = [likeliest |-> Likeliest(t, outcome.probs), age |-> t.age]
     ELSE Fail(t) /\ verdict' = NONE
  /\ Recorded(t)
  /\ UNCHANGED <<ranked, pin, selection, loop, inFlight>>

RecordAnswer(t) == \E outcome \in Answered[Len(t.cands)] : Record(t, outcome)

(* The HTTP client gives up by itself, after its timeout at the latest. *)
RecordNone(t) == \E outcome \in NotAnswered : Record(t, outcome)

(* Mutation: only the normal end of a task resets the flag. *)
Panic_LeavesFlag(t) ==
  /\ t.step = "asking" /\ tasks' = tasks \ {t}
  /\ UNCHANGED <<ranked, pin, selection, loop, jev, inFlight>>

(* A panic skips record; the guard is dropped all the same. *)
Panic(t) ==
  /\ t.step = "asking" /\ Recorded(t)
  /\ UNCHANGED <<ranked, pin, selection, loop, jev, inFlight>>

DropGuard(t) ==
  /\ t.step = "done"
  /\ inFlight' = FALSE /\ tasks' = tasks \ {t}
  /\ UNCHANGED <<ranked, pin, selection, loop, jev>>

Task ==
  \E t \in tasks : RecordAnswer(t) \/ RecordNone(t) \/ Panic(t) \/ DropGuard(t)

-----------------------------------------------------------------------------
Next ==
  \/ Rerank \/ (\E t \in Tags : Pin(t)) \/ Unpin
  \/ RankPool \/ ApplyHead \/ WriteSelection
  \/ EndBatches \/ Ask \/ SkipAsk
  \/ Task

Spec == Init /\ [][Next]_vars

(* The loop goes on and a round has finitely many batches; requests time out,
   and a task's end drops its guard. *)
FairSpec ==
  /\ Spec
  /\ WF_vars(ApplyHead \/ WriteSelection)
  /\ SF_vars(EndBatches) /\ WF_vars(Ask \/ SkipAsk)
  /\ WF_vars(\E t \in tasks : RecordNone(t))
  /\ WF_vars(\E t \in tasks : DropGuard(t))

-----------------------------------------------------------------------------
(* One question at a time is out, and while it is, the flag is up; with two,
   an old answer could take the place of a newer one. *)
OneQuestion == Cardinality(tasks) <= 1 /\ (inFlight <=> tasks # {})

(* Whom the loop writes before better ranked nodes has earned it, and not too
   long ago: when the head was applied, the last answer there was had been given
   for a question at most TtlRounds old, and the node was the likeliest of the
   candidates of that question, and likely enough.  This is so whenever answers
   came, what became of the ranking since they were asked for, and what was
   recorded, pinned and ranked while the write waited for its lock. *)
PromotionEarned ==
  [][phase = "write" /\ phase' # phase /\ grounds # NONE
     => selection'[1] \in grounds.likeliest /\ grounds.age <= TtlRounds]_vars

(* When answers are taken no more, for whatever reason, the scores alone decide
   again in the end. *)
JudgementExpires ==
  <>[][\A t \in tasks : ~RecordAnswer(t)]_vars => <>[]~Leads(ranked)

(* Neither a lost answer, nor a panic, nor a cooldown stops the questions for
   good, as long as there is something to ask. *)
NeverStalls ==
  <>[](pin = NONE /\ Len(ranked) >= 2) => []<>(\E t \in tasks : t.age = 0)
=============================================================================
