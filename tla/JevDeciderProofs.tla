-------------------------- MODULE JevDeciderProofs --------------------------
(* Theorems of the jev decider: one question at a time, and no node promoted
   but on the last answer, whatever the nodes, the limits and the tolerance;
   and none asked while the decider cools down. *)
EXTENDS JevDecider, FiniteSetTheorems, TLAPS

(* What a task is asked about: at least two candidates, not too many. *)
Questions == {t \in Tasks : Len(t.cands) \in 2..CandidateCount}

(* The flag is the sign of the one task there may be. *)
OneTask == tasks = {} \/ \E t \in Questions : tasks = {t}
FlagUp == inFlight <=> tasks # {}

(* The head is the node the last answer spoke for, and as old as the answer. *)
HeadJudged ==
  /\ head \in Heads \cup {NONE}
  /\ verdict \in Verdicts \cup {NONE}
  /\ head # NONE => /\ verdict \in Verdicts
                    /\ head.tag \in verdict.likeliest /\ head.age = verdict.age

(* A head once applied stays first until the list is written, and what spoke for
   it then does not grow old meanwhile: the round does not end in a reselect. *)
Grounded ==
  /\ grounds \in Verdicts \cup {NONE}
  /\ grounds # NONE => /\ phase = "write"
                       /\ desired[1] \in grounds.likeliest /\ grounds.age <= TtlRounds

Listed == ranked \in Lists /\ desired \in Lists /\ pin \in Tags \cup {NONE}

Inv ==
  Listed /\ inFlight \in BOOLEAN /\ OneTask /\ FlagUp /\ HeadJudged /\ Grounded

-----------------------------------------------------------------------------
(* Ages. *)

LEMMA OldestNat == Oldest \in Nat /\ 0 \in 0..Oldest
BY JevAssumption DEF Oldest

LEMMA OlderAge == ASSUME NEW age \in 0..Oldest PROVE Older(age) \in 0..Oldest
BY OldestNat DEF Older

LEMMA OlderTask ==
  ASSUME NEW t \in Questions
  PROVE  [t EXCEPT !.age = Older(@)] \in Questions
<1> DEFINE u == [t EXCEPT !.age = Older(@)]
<1>1. t \in Tasks /\ Len(t.cands) \in 2..CandidateCount
  BY DEF Questions
<1>2. Older(t.age) \in 0..Oldest
  BY <1>1, OlderAge DEF Tasks
<1>3. u \in Tasks /\ u.cands = t.cands
  BY <1>1, <1>2 DEF Tasks
<1> QED BY <1>1, <1>3 DEF Questions

LEMMA DoneTask ==
  ASSUME NEW t \in Questions
  PROVE  [t EXCEPT !.step = "done"] \in Questions
<1> DEFINE u == [t EXCEPT !.step = "done"]
<1>1. t \in Tasks /\ Len(t.cands) \in 2..CandidateCount
  BY DEF Questions
<1>2. u \in Tasks /\ u.cands = t.cands
  BY <1>1 DEF Tasks
<1> QED BY <1>1, <1>2 DEF Questions

LEMMA JudgedQuestion ==
  ASSUME ranked \in Lists, Len(Judged) >= 2
  PROVE  [step |-> "asking", cands |-> Judged, age |-> 0] \in Questions
<1>1. PICK n \in 0..Capacity : ranked \in [1..n -> Tags]
  BY DEF Lists
<1>2. n \in Nat /\ CandidateCount \in Nat
  BY <1>1, JevAssumption
<1>3. ranked \in Seq(Tags) /\ Len(ranked) = n
  BY <1>1, <1>2
<1> DEFINE k == IF n < CandidateCount THEN n ELSE CandidateCount
<1>4. k \in Nat /\ k <= n /\ k <= CandidateCount
  BY <1>2
<1>5. Judged = SubSeq(ranked, 1, k)
  BY <1>3 DEF Judged, Take
<1>6. Judged \in Seq(Tags) /\ Len(Judged) = k
  BY <1>3, <1>4, <1>5
<1>7. k \in 2..CandidateCount
  BY <1>2, <1>4, <1>6
<1> HIDE DEF k
<1>8. [step |-> "asking", cands |-> Judged, age |-> 0] \in Tasks
  BY <1>6, OldestNat DEF Tasks
<1> QED BY <1>6, <1>7, <1>8 DEF Questions

-----------------------------------------------------------------------------
(* An answer that is trusted names a likeliest candidate of its question. *)

LEMMA TrustedIsLikeliest ==
  ASSUME NEW t \in Questions,
         NEW outcome \in Answered[Len(t.cands)] \cup NotAnswered,
         Trusted(outcome)
  PROVE  /\ t.cands[outcome.choice] \in Likeliest(t, outcome.probs)
         /\ Likeliest(t, outcome.probs) \subseteq Tags
         /\ t.cands[outcome.choice] \in Tags
<1> DEFINE n == Len(t.cands)
<1>1. t.cands \in Seq(Tags) /\ n \in 2..CandidateCount
  BY DEF Questions, Tasks
<1>2. outcome.kind = "selected"
  BY DEF Trusted
<1>3. outcome \notin NotAnswered
  BY <1>2 DEF NotAnswered
<1>4. outcome \in Answered[n]
  BY <1>3
<1>5. PICK a \in Answers(n) : outcome = Classified(a, n)
  BY <1>1, <1>4 DEF Answered
<1>6. ~(~Valid(a)) /\ ~(Valid(a) /\ a.choice \in Hatches)
  BY <1>2, <1>5 DEF Classified
<1>7. outcome = [kind |-> "selected", choice |-> a.choice,
                 probs |-> [k \in 1..n |-> a.probs[k]]]
  BY <1>5, <1>6 DEF Classified
<1>8. /\ a.choice \in 1..n \cup Hatches
      /\ a.probs \in [1..n \cup Hatches -> 0..Scale + 1]
  BY DEF Answers
<1>9. a.choice \in 1..n
  BY <1>6, <1>8
<1>10. \A k \in 1..n : a.probs[k] <= a.probs[a.choice]
  BY <1>6, <1>8 DEF Valid
<1> DEFINE probs == outcome.probs
<1>11. /\ outcome.choice = a.choice
       /\ DOMAIN probs = 1..n
       /\ \A k \in 1..n : probs[k] = a.probs[k]
  BY <1>7
<1>12. probs[outcome.choice] >= MinProbability
  BY DEF Trusted
<1>13. \A k \in DOMAIN probs : probs[k] <= probs[outcome.choice]
  BY <1>9, <1>10, <1>11
<1>14. outcome.choice \in DOMAIN probs
  BY <1>9, <1>11
<1>15. t.cands[outcome.choice] \in Likeliest(t, outcome.probs)
  BY <1>12, <1>13, <1>14 DEF Likeliest
<1>16. \A i \in DOMAIN probs : t.cands[i] \in Tags
  BY <1>1, <1>11
<1>17. Likeliest(t, outcome.probs) \subseteq Tags
  BY <1>16 DEF Likeliest
<1> QED BY <1>14, <1>15, <1>16, <1>17

-----------------------------------------------------------------------------
(* Lists.  Promotion permutes the places of a list. *)

LEMMA EmptyList == <<>> \in Lists
<1>1. <<>> \in [1..0 -> Tags] /\ 0 \in 0..Capacity
  BY JevAssumption
<1>2. IsInjective(<<>>)
  BY DEF IsInjective
<1> QED BY <1>1, <1>2 DEF Lists

LEMMA PromotedList == ASSUME NEW list \in Lists PROVE Promoted(list) \in Lists
<1>1. PICK n \in 0..Capacity : list \in [1..n -> Tags]
  BY DEF Lists
<1>2. n \in Nat /\ DOMAIN list = 1..n /\ \A i, j \in 1..n : list[i] = list[j] => i = j
  BY <1>1, JevAssumption DEF Lists, IsInjective
<1>3. CASE ~Leads(list)
  BY <1>3 DEF Promoted
<1>4. CASE Leads(list)
  <2> DEFINE pos == CHOOSE i \in DOMAIN list : list[i] = head.tag
  <2>1. \E i \in DOMAIN list : list[i] = head.tag
    BY <1>4 DEF Leads, Range
  <2>2. pos \in 1..n /\ list[pos] = head.tag
    BY <1>2, <2>1
  <2> DEFINE from(i) == IF i = 1 THEN pos ELSE IF i <= pos THEN i - 1 ELSE i
             moved == [i \in 1..n |-> list[from(i)]]
  <2>3. Promoted(list) = moved
    BY <1>2, <1>4 DEF Promoted
  <2> HIDE DEF pos
  <2>4. \A i \in 1..n : from(i) \in 1..n
    BY <1>2, <2>2
  <2>5. \A i, j \in 1..n : from(i) = from(j) => i = j
    BY <1>2, <2>2
  <2> HIDE DEF from
  <2>6. moved \in [1..n -> Tags]
    BY <1>1, <2>4
  <2>7. IsInjective(moved)
    BY <1>2, <2>4, <2>5 DEF IsInjective
  <2> HIDE DEF moved
  <2> QED BY <2>3, <2>6, <2>7 DEF Lists
<1> QED BY <1>3, <1>4

LEMMA PinnedList == ASSUME NEW t \in Tags PROVE <<t>> \in Lists
<1>1. <<t>> \in [1..1 -> Tags] /\ 1 \in 0..Capacity
  BY JevAssumption
<1>2. IsInjective(<<t>>)
  BY DEF IsInjective
<1> QED BY <1>1, <1>2 DEF Lists

(* A list that promotion changes has the head first. *)
LEMMA PromotedHead ==
  ASSUME NEW list \in Lists, Promoted(list) # list
  PROVE  Leads(list) /\ Promoted(list) # <<>> /\ Promoted(list)[1] = head.tag
<1>1. Leads(list)
  BY DEF Promoted
<1>2. PICK n \in 0..Capacity : list \in [1..n -> Tags]
  BY DEF Lists
<1> DEFINE pos == CHOOSE i \in DOMAIN list : list[i] = head.tag
<1>3. pos \in DOMAIN list /\ list[pos] = head.tag
  BY <1>1 DEF Leads, Range
<1>4. 1 \in DOMAIN list
  BY <1>2, <1>3, JevAssumption
<1>5. DOMAIN Promoted(list) = DOMAIN list /\ Promoted(list)[1] = head.tag
  BY <1>1, <1>3, <1>4 DEF Promoted
<1>6. Promoted(list) # <<>>
  BY <1>4, <1>5
<1> QED BY <1>1, <1>5, <1>6

-----------------------------------------------------------------------------
LEMMA InitInv == Init => Inv
<1> SUFFICES ASSUME Init PROVE Inv
  OBVIOUS
<1> QED BY EmptyList DEF Init, Inv, Listed, OneTask, FlagUp, HeadJudged, Grounded

LEMMA EndBatchesInv == Inv /\ EndBatches => Inv'
<1> SUFFICES ASSUME Inv, EndBatches PROVE Inv'
  OBVIOUS
<1>1. Listed' /\ inFlight' \in BOOLEAN /\ inFlight' = inFlight
  BY DEF Inv, Listed, EndBatches
<1>2. OneTask' /\ FlagUp'
  <2>1. CASE tasks = {}
    <3>1. tasks' = {}
      BY <2>1 DEF EndBatches
    <3> QED BY <1>1, <2>1, <3>1 DEF Inv, OneTask, FlagUp
  <2>2. CASE tasks # {}
    <3>1. PICK t \in Questions : tasks = {t}
      BY <2>2 DEF Inv, OneTask
    <3> DEFINE u == [t EXCEPT !.age = Older(@)]
    <3>2. tasks' = {u}
      BY <3>1 DEF EndBatches
    <3>3. u \in Questions
      BY OlderTask
    <3> HIDE DEF u
    <3> QED BY <1>1, <2>2, <3>2, <3>3 DEF Inv, OneTask, FlagUp
  <2> QED BY <2>1, <2>2
<1>3. HeadJudged'
  <2>1. CASE head = NONE
    <3>1. head' = NONE /\ verdict' = NONE
      BY <2>1 DEF EndBatches
    <3> QED BY <3>1 DEF HeadJudged
  <2>2. CASE head # NONE
    <3>1. /\ head \in Heads /\ verdict \in Verdicts
          /\ head.tag \in verdict.likeliest /\ head.age = verdict.age
      BY <2>2 DEF Inv, HeadJudged
    <3>2. /\ head' = [head EXCEPT !.age = Older(@)]
          /\ verdict' = [verdict EXCEPT !.age = Older(@)]
      BY <2>2 DEF EndBatches
    <3>3. Older(head.age) \in 0..Oldest /\ Older(verdict.age) \in 0..Oldest
      BY <3>1, OlderAge DEF Heads, Verdicts
    <3>4. /\ head' \in Heads /\ head'.tag = head.tag
          /\ head'.age = Older(head.age)
      BY <3>1, <3>2, <3>3 DEF Heads
    <3>5. /\ verdict' \in Verdicts /\ verdict'.likeliest = verdict.likeliest
          /\ verdict'.age = Older(verdict.age)
      BY <3>1, <3>2, <3>3 DEF Verdicts
    <3> QED BY <3>1, <3>4, <3>5 DEF HeadJudged
  <2> QED BY <2>1, <2>2
<1>4. Grounded'
  BY DEF Inv, Grounded, EndBatches
<1> QED BY <1>1, <1>2, <1>3, <1>4 DEF Inv

LEMMA AskInv == Inv /\ Ask => Inv'
<1> SUFFICES ASSUME Inv, Ask PROVE Inv'
  OBVIOUS
<1> DEFINE q == [step |-> "asking", cands |-> Judged, age |-> 0]
<1>1. ~inFlight /\ Len(Judged) >= 2 /\ ranked \in Lists
  BY DEF Inv, Listed, Ask, MayAsk
<1>2. tasks = {}
  BY <1>1 DEF Inv, FlagUp
<1>3. q \in Questions
  BY <1>1, JudgedQuestion
<1>4. tasks' = {q} /\ inFlight' = TRUE
  BY <1>2 DEF Ask
<1> HIDE DEF q
<1>5. OneTask' /\ FlagUp'
  BY <1>3, <1>4 DEF OneTask, FlagUp
<1>6. UNCHANGED <<ranked, pin, desired, grounds, head, verdict>> /\ phase = "end"
  BY DEF Ask, jev
<1> QED BY <1>4, <1>5, <1>6 DEF Inv, Listed, HeadJudged, Grounded

(* What the end of a task leaves: itself, done. *)
LEMMA RecordedInv ==
  ASSUME Inv, NEW t \in tasks, Recorded(t), UNCHANGED inFlight
  PROVE  OneTask' /\ FlagUp'
<1>1. PICK q \in Questions : tasks = {q}
  BY DEF Inv, OneTask
<1>2. t = q
  BY <1>1
<1> DEFINE u == [t EXCEPT !.step = "done"]
<1>3. u \in Questions
  BY <1>2, DoneTask
<1>4. tasks' = {u}
  BY <1>1, <1>2 DEF Recorded
<1> HIDE DEF u
<1> QED BY <1>1, <1>3, <1>4 DEF Inv, OneTask, FlagUp

LEMMA RecordInv ==
  ASSUME Inv, NEW t \in tasks,
         NEW outcome \in Answered[Len(t.cands)] \cup NotAnswered,
         Record(t, outcome)
  PROVE  Inv'
<1>1. t \in Questions
  BY DEF Inv, OneTask
<1>2. UNCHANGED <<ranked, pin, loop, inFlight>>
  BY DEF Record
<1>3. OneTask' /\ FlagUp'
  BY <1>2, RecordedInv DEF Record
<1>4. t.age \in 0..Oldest
  BY <1>1 DEF Questions, Tasks
<1>5. HeadJudged'
  <2>1. CASE Trusted(outcome)
    <3> DEFINE best == Likeliest(t, outcome.probs)
               tag == t.cands[outcome.choice]
    <3>1. tag \in best /\ best \subseteq Tags /\ tag \in Tags
      BY <1>1, <2>1, TrustedIsLikeliest
    <3>2. head' = [tag |-> tag, age |-> t.age] /\ verdict' = [likeliest |-> best, age |-> t.age]
      BY <2>1 DEF Record, Adopt
    <3> HIDE DEF best, tag
    <3> QED BY <1>4, <3>1, <3>2 DEF HeadJudged, Heads, Verdicts
  <2>2. CASE ~Trusted(outcome)
    <3>1. head' = NONE /\ verdict' = NONE
      BY <2>2 DEF Record, Fail
    <3> QED BY <3>1 DEF HeadJudged
  <2> QED BY <2>1, <2>2
<1> QED BY <1>2, <1>3, <1>5 DEF Inv, Listed, Grounded, loop

LEMMA TaskInv == Inv /\ Task => Inv'
<1> SUFFICES ASSUME Inv, NEW t \in tasks,
                    RecordAnswer(t) \/ RecordNone(t) \/ Panic(t) \/ DropGuard(t)
             PROVE  Inv'
  BY DEF Task
<1>1. CASE RecordAnswer(t)
  BY <1>1, RecordInv DEF RecordAnswer
<1>2. CASE RecordNone(t)
  BY <1>2, RecordInv DEF RecordNone
<1>3. CASE Panic(t)
  <2>1. UNCHANGED <<ranked, pin, loop, head, verdict, inFlight>>
    BY <1>3 DEF Panic, jev
  <2>2. OneTask' /\ FlagUp'
    BY <1>3, <2>1, RecordedInv DEF Panic
  <2> QED BY <2>1, <2>2 DEF Inv, Listed, HeadJudged, Grounded, loop
<1>4. CASE DropGuard(t)
  <2>1. /\ UNCHANGED <<ranked, pin, loop, head, verdict>>
        /\ inFlight' = FALSE /\ tasks' = tasks \ {t}
    BY <1>4 DEF DropGuard, jev
  <2>2. tasks' = {}
    BY <2>1 DEF Inv, OneTask
  <2> QED BY <2>1, <2>2 DEF Inv, Listed, HeadJudged, Grounded, OneTask, FlagUp, loop
<1> QED BY <1>1, <1>2, <1>3, <1>4

(* The reselect: it keeps Listed and Grounded, and the rest it does not touch. *)
LEMMA ReselectInv ==
  ASSUME Inv, RankPool \/ ApplyHead \/ WriteSelection
  PROVE  Inv'
<1>1. UNCHANGED <<ranked, pin, head, verdict, inFlight, tasks>>
  BY DEF RankPool, ApplyHead, WriteSelection, jev
<1>2. inFlight' \in BOOLEAN /\ OneTask' /\ FlagUp' /\ HeadJudged'
  BY <1>1 DEF Inv, OneTask, FlagUp, HeadJudged
<1>3. CASE RankPool
  <2>1. pin # NONE => <<pin>> \in Lists
    BY PinnedList DEF Inv, Listed
  <2>2. Listed'
    BY <1>1, <1>3, <2>1 DEF RankPool, Inv, Listed
  <2>3. Grounded'
    BY <1>3 DEF RankPool, Inv, Grounded
  <2> QED BY <1>2, <2>2, <2>3 DEF Inv
<1>4. CASE ApplyHead
  <2>1. desired \in Lists /\ desired' = Promoted(desired)
    BY <1>4 DEF ApplyHead, Inv, Listed
  <2>2. Listed'
    BY <1>1, <2>1, PromotedList DEF Inv, Listed
  <2>3. desired' = desired => Grounded'
    BY <1>4 DEF ApplyHead, Grounded
  <2>4. ASSUME desired' # desired PROVE Grounded'
    <3>1. Leads(desired) /\ desired' # <<>> /\ desired'[1] = head.tag
      BY <2>1, <2>4, PromotedHead
    <3>2. phase' = "write" /\ grounds' = verdict
      BY <1>4, <2>4, <3>1 DEF ApplyHead
    <3>3. /\ verdict \in Verdicts /\ head.age <= TtlRounds
          /\ head.tag \in verdict.likeliest /\ head.age = verdict.age
      BY <3>1 DEF Leads, Inv, HeadJudged
    <3> QED BY <3>1, <3>2, <3>3 DEF Grounded
  <2> QED BY <1>2, <2>2, <2>3, <2>4 DEF Inv
<1>5. CASE WriteSelection
  <2>1. desired' \in Lists /\ grounds' = NONE
    BY <1>5, EmptyList DEF WriteSelection
  <2> QED BY <1>1, <1>2, <2>1 DEF Inv, Listed, Grounded
<1> QED BY <1>3, <1>4, <1>5

LEMMA StepInv == Inv /\ [Next]_vars => Inv'
<1> SUFFICES ASSUME Inv, [Next]_vars PROVE Inv'
  OBVIOUS
<1>1. CASE UNCHANGED <<loop, head, verdict, inFlight, tasks>> /\ ranked' \in Lists
           /\ pin' \in Tags \cup {NONE}
  BY <1>1 DEF Inv, Listed, HeadJudged, Grounded, OneTask, FlagUp, loop
<1>2. CASE Rerank
  BY <1>1, <1>2 DEF Rerank, jev, Inv, Listed
<1>3. ASSUME NEW t \in Tags, Pin(t) PROVE Inv'
  BY <1>1, <1>3 DEF Pin, jev, Inv, Listed
<1>4. CASE Unpin
  BY <1>1, <1>4 DEF Unpin, jev, Inv, Listed
<1>5. CASE RankPool \/ ApplyHead \/ WriteSelection
  BY <1>5, ReselectInv
<1>6. CASE EndBatches
  BY <1>6, EndBatchesInv
<1>7. CASE Ask
  BY <1>7, AskInv
<1>8. CASE SkipAsk
  <2>1. UNCHANGED <<ranked, pin, desired, grounds, head, verdict, inFlight, tasks>>
    BY <1>8 DEF SkipAsk, jev
  <2>2. phase = "end"
    BY <1>8 DEF SkipAsk
  <2> QED BY <2>1, <2>2 DEF Inv, Listed, HeadJudged, Grounded, OneTask, FlagUp
<1>9. CASE Task
  BY <1>9, TaskInv
<1>10. CASE UNCHANGED vars
  BY <1>1, <1>10 DEF vars, jev, Inv, Listed
<1> QED BY <1>2, <1>3, <1>4, <1>5, <1>6, <1>7, <1>8, <1>9, <1>10 DEF Next

LEMMA Invariant == Spec => []Inv
<1> QED BY InitInv, StepInv, PTL DEF Spec

-----------------------------------------------------------------------------
(* Types. *)

LEMMA TypeInit == Init => TypeOK
<1> SUFFICES ASSUME Init PROVE TypeOK
  OBVIOUS
<1>1. ranked \in Lists /\ inFlight \in BOOLEAN
  BY InitInv DEF Inv, Listed
<1>2. /\ pin = NONE /\ selection = <<>> /\ desired = <<>> /\ phase = "batches"
      /\ head = NONE /\ verdict = NONE /\ grounds = NONE
      /\ failures = 0 /\ cooldown = 0 /\ tasks = {}
  BY DEF Init
<1> QED BY <1>1, <1>2, EmptyList, JevAssumption DEF TypeOK

LEMMA TypeStep == Inv /\ Inv' /\ TypeOK /\ [Next]_vars => TypeOK'
<1> SUFFICES ASSUME Inv, Inv', TypeOK, [Next]_vars PROVE TypeOK'
  OBVIOUS
<1>1. /\ ranked' \in Lists /\ desired' \in Lists /\ pin' \in Tags \cup {NONE}
      /\ inFlight' \in BOOLEAN /\ head' \in Heads \cup {NONE}
      /\ {verdict', grounds'} \subseteq Verdicts \cup {NONE}
  BY DEF Inv, Listed, HeadJudged, Grounded
<1>2. tasks' \subseteq Tasks
  BY DEF Inv, OneTask, Questions
<1>3. CASE UNCHANGED <<failures, cooldown>> /\ selection' \in Lists
           /\ phase' \in {"batches", "head", "write", "end"}
  BY <1>1, <1>2, <1>3 DEF TypeOK
<1>4. CASE Rerank
  BY <1>3, <1>4 DEF Rerank, jev, loop, TypeOK
<1>5. ASSUME NEW t \in Tags, Pin(t) PROVE TypeOK'
  BY <1>3, <1>5, PinnedList DEF Pin, jev, loop, TypeOK
<1>6. CASE Unpin
  BY <1>3, <1>6 DEF Unpin, jev, loop, TypeOK
<1>7. CASE RankPool \/ ApplyHead \/ WriteSelection
  BY <1>3, <1>7 DEF RankPool, ApplyHead, WriteSelection, jev, TypeOK
<1>8. CASE EndBatches
  <2>1. cooldown' \in 0..CooldownRounds
    BY <1>8, JevAssumption DEF EndBatches, TypeOK
  <2>2. UNCHANGED <<selection, failures>> /\ phase' = "end"
    BY <1>8 DEF EndBatches
  <2> QED BY <1>1, <1>2, <2>1, <2>2 DEF TypeOK
<1>9. CASE Ask
  BY <1>3, <1>9 DEF Ask, jev, TypeOK
<1>10. CASE SkipAsk
  BY <1>3, <1>10 DEF SkipAsk, jev, TypeOK
<1>11. ASSUME NEW t \in tasks, NEW outcome, Record(t, outcome) PROVE TypeOK'
  <2>1. UNCHANGED <<selection, phase>>
    BY <1>11 DEF Record, loop
  <2>2. t.age \in 0..Oldest /\ Oldest \in Nat
    BY OldestNat DEF TypeOK, Tasks
  <2>3. failures' \in 0..FailThreshold /\ cooldown' \in 0..CooldownRounds
    <3>1. CASE Adopt(t, outcome)
      BY <3>1, JevAssumption DEF Adopt, TypeOK
    <3>2. CASE Fail(t)
      <4>1. t.age \in Nat
        BY <2>2
      <4>2. failures' \in 0..FailThreshold
        BY <3>2, JevAssumption DEF Fail, TypeOK
      <4>3. cooldown' \in 0..CooldownRounds
        BY <3>2, <4>1, JevAssumption DEF Fail, TypeOK
      <4> QED BY <4>2, <4>3
    <3> QED BY <1>11, <3>1, <3>2 DEF Record
  <2> QED BY <1>1, <1>2, <2>1, <2>3 DEF TypeOK
<1>12. ASSUME NEW t \in tasks, Panic(t) \/ DropGuard(t) PROVE TypeOK'
  BY <1>3, <1>12 DEF Panic, DropGuard, jev, loop, TypeOK
<1>13. CASE Task
  BY <1>11, <1>12, <1>13 DEF Task, RecordAnswer, RecordNone
<1>14. CASE UNCHANGED vars
  BY <1>3, <1>14 DEF vars, jev, loop, TypeOK
<1> QED BY <1>4, <1>5, <1>6, <1>7, <1>8, <1>9, <1>10, <1>13, <1>14 DEF Next

(* The decider's state and the lists it reorders have their types; a promoted
   list still names every node once. *)
THEOREM Typing == Spec => []TypeOK
<1>1. Spec => []Inv
  BY Invariant
<1> QED BY <1>1, TypeInit, TypeStep, PTL DEF Spec

(* spawn_round's in_flight flag and the drop of the guard keep the decision tasks
   at one, however late answers come and whatever panics. *)
THEOREM OneQuestionAlways == Spec => []OneQuestion
<1>1. Inv => OneQuestion
  <2> SUFFICES ASSUME Inv PROVE OneQuestion
    OBVIOUS
  <2>1. CASE tasks = {}
    BY <2>1, FS_EmptySet DEF Inv, FlagUp, OneQuestion
  <2>2. CASE tasks # {}
    <3>1. PICK t : tasks = {t}
      BY <2>2 DEF Inv, OneTask
    <3>2. Cardinality(tasks) = 1
      BY <3>1, FS_Singleton
    <3> QED BY <2>2, <3>2 DEF Inv, FlagUp, OneQuestion
  <2> QED BY <2>1, <2>2
<1> QED BY <1>1, Invariant, PTL

(* The list that reselect writes with the head applied to it is led by the head,
   and the head was what record had made of the last answer when apply_head read
   it: the likeliest candidate of a question still fresh.  What is recorded,
   ranked and pinned while the write waits for its lock changes nothing of this. *)
THEOREM PromotionIsEarned == Spec => PromotionEarned
<1> DEFINE Earned ==
      phase = "write" /\ phase' # phase /\ grounds # NONE
      => selection'[1] \in grounds.likeliest /\ grounds.age <= TtlRounds
<1>1. Inv /\ [Next]_vars => [Earned]_vars
  <2> SUFFICES ASSUME Inv, Next, phase = "write", phase' # phase, grounds # NONE
               PROVE  selection'[1] \in grounds.likeliest /\ grounds.age <= TtlRounds
    BY DEF Earned
  <2>1. WriteSelection
    <3>1. ~RankPool /\ ~ApplyHead /\ ~EndBatches /\ ~Ask /\ ~SkipAsk
      BY DEF RankPool, ApplyHead, EndBatches, Ask, SkipAsk
    <3>2. ~Rerank /\ ~Unpin /\ \A t \in Tags : ~Pin(t)
      BY DEF Rerank, Unpin, Pin, loop
    <3>3. ~Task
      BY DEF Task, RecordAnswer, RecordNone, Record, Panic, DropGuard, loop
    <3> QED BY <3>1, <3>2, <3>3 DEF Next
  <2>2. selection' = desired
    BY <2>1 DEF WriteSelection
  <2> QED BY <2>2 DEF Inv, Grounded
<1> QED BY <1>1, Invariant, PTL DEF Spec, PromotionEarned

-----------------------------------------------------------------------------
(* Cooldown. *)

(* A cooldown is what FailThreshold failures in a row have brought on, and as
   long as it lasts jev has no say: no question is out whose answer could end
   the count or name a head, and no head is left over from before.  (An answer
   resets the count but not the cooldown: record may do so because the guard of
   spawn_round lets no question overlap a cooldown.) *)
QuietInCooldown ==
  cooldown > 0
    => /\ failures = FailThreshold /\ head = NONE
       /\ \A t \in tasks : t.step = "done"

LEMMA QuietStep == Inv /\ TypeOK /\ QuietInCooldown /\ [Next]_vars => QuietInCooldown'
<1> SUFFICES ASSUME Inv, TypeOK, QuietInCooldown, [Next]_vars, cooldown' > 0
             PROVE  /\ failures' = FailThreshold /\ head' = NONE
                    /\ \A t \in tasks' : t.step = "done"
  BY DEF QuietInCooldown
<1>1. cooldown \in Nat /\ \A t \in tasks : t \in Tasks
  BY JevAssumption DEF TypeOK
<1>2. ASSUME UNCHANGED <<failures, cooldown, head, tasks>>
      PROVE  /\ failures' = FailThreshold /\ head' = NONE
             /\ \A t \in tasks' : t.step = "done"
  BY <1>2 DEF QuietInCooldown
<1>3. CASE EndBatches
  <2>1. cooldown > 0
    BY <1>1, <1>3 DEF EndBatches
  <2>2. \A t \in tasks : t.step = "done" /\ [t EXCEPT !.age = Older(@)].step = t.step
    BY <1>1, <2>1 DEF QuietInCooldown, Tasks
  <2> QED BY <1>3, <2>1, <2>2 DEF EndBatches, QuietInCooldown
<1>4. CASE Ask
  BY <1>1, <1>4 DEF Ask, MayAsk, jev
<1>5. CASE \/ Rerank \/ (\E t \in Tags : Pin(t)) \/ Unpin
            \/ RankPool \/ ApplyHead \/ WriteSelection \/ SkipAsk
  BY <1>2, <1>5
  DEF Rerank, Pin, Unpin, RankPool, ApplyHead, WriteSelection, SkipAsk, jev
<1>6. ASSUME NEW t \in tasks, Recorded(t)
      PROVE  \A u \in tasks' : u.step = "done"
  <2>1. PICK q \in Questions : tasks = {q}
    BY DEF Inv, OneTask
  <2>2. tasks' = {[t EXCEPT !.step = "done"]}
    BY <1>6, <2>1 DEF Recorded
  <2>3. [t EXCEPT !.step = "done"].step = "done"
    BY <1>1 DEF Tasks
  <2> QED BY <2>2, <2>3
<1>7. ASSUME NEW t \in tasks, NEW outcome, Record(t, outcome)
      PROVE  /\ failures' = FailThreshold /\ head' = NONE
             /\ \A u \in tasks' : u.step = "done"
  <2>1. t.step # "done" /\ ~(cooldown > 0)
    BY <1>7 DEF Record, QuietInCooldown
  <2>2. ~Adopt(t, outcome)
    BY <1>1, <2>1 DEF Adopt
  <2>3. Fail(t)
    BY <1>7, <2>2 DEF Record
  <2>4. failures' = FailThreshold /\ head' = NONE
    BY <2>1, <2>3 DEF Fail
  <2> QED BY <1>6, <1>7, <2>4 DEF Record
<1>8. ASSUME NEW t \in tasks, Panic(t) \/ DropGuard(t)
      PROVE  /\ failures' = FailThreshold /\ head' = NONE
             /\ \A u \in tasks' : u.step = "done"
  <2>1. UNCHANGED <<failures, cooldown, head>>
    BY <1>8 DEF Panic, DropGuard, jev
  <2>2. cooldown > 0 /\ \A u \in tasks : u.step = "done"
    BY <2>1 DEF QuietInCooldown
  <2>3. tasks' \subseteq tasks
    BY <1>8, <2>2 DEF Panic, DropGuard
  <2> QED BY <2>1, <2>2, <2>3 DEF QuietInCooldown
<1>9. CASE Task
  BY <1>7, <1>8, <1>9 DEF Task, RecordAnswer, RecordNone
<1>10. CASE UNCHANGED vars
  BY <1>2, <1>10 DEF vars, jev
<1> QED BY <1>3, <1>4, <1>5, <1>9, <1>10 DEF Next

(* In a cooldown the scores alone decide, whenever late answers come. *)
THEOREM CooldownIsQuiet == Spec => []QuietInCooldown
<1>1. Init => QuietInCooldown
  BY DEF Init, QuietInCooldown
<1>2. Spec => []Inv
  BY Invariant
<1>3. Spec => []TypeOK
  BY Typing
<1> QED BY <1>1, <1>2, <1>3, QuietStep, PTL DEF Spec
=============================================================================
