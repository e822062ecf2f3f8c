--------------------------- MODULE SelectionProofs ---------------------------
(***************************************************************************)
(* Safety of Selection for any tags, clients and capacity.  A list of      *)
(* candidates is Short when it is one of distinct tags no longer than the  *)
(* capacity.  The inductive invariant says of every list that anyone holds *)
(* ready to write that it is Short, of the scheduler's that it is not      *)
(* empty where a write follows, and of a pin under way that it has a tag.  *)
(* It is followed by what a reselect may do to a pin, and to its end, and  *)
(* by what Selection takes for granted of the pool (PoolView).             *)
(***************************************************************************)
EXTENDS Selection, SequenceTheorems, FiniteSetTheorems, TLAPS

Short(s) == IsList(s, Tags) /\ Len(s) <= Capacity

SchedOK(q) ==
  /\ q \in SchedState
  /\ Short(q.desired)
  /\ q.step \in {"seed_write", "write", "publish"} => q.desired # <<>>

CmdOK(k) ==
  /\ k \in CmdState
  /\ Short(k.top)
  /\ k.step \in {"pin_target", "pin_flag", "pin_write"} => k.tag \in Tags

PoolOK ==
  /\ registry \subseteq Tags /\ pool \subseteq Tags
  /\ IsList(ranking, Tags)
  /\ head \in Tags \cup {NONE}
  /\ pinned \in BOOLEAN /\ pinTarget \in Tags \cup {NONE}
  /\ store \in Tags \cup {NONE}

IInv ==
  /\ PoolOK
  /\ Short(selection)
  /\ SchedOK(sched)
  /\ cmd \in [Clients -> CmdState]
  /\ \A c \in Clients : CmdOK(cmd[c])

-----------------------------------------------------------------------------
(* Lists. *)

(* Every enumerated list of members of S is a list over any larger set. *)
LEMMA ListsAreLists ==
  ASSUME NEW S, NEW T, S \subseteq T, NEW s \in Lists(S)
  PROVE  IsList(s, T)
<1>1. PICK n \in 0..Cardinality(S) : s \in [1..n -> S]
  BY DEF Lists
<1>2. s \in Seq(S)
  BY <1>1
<1>3. s \in Seq(T)
  BY <1>2, SeqMonotonic
<1> QED BY <1>3 DEF Lists, IsList

(* It holds members of S only. *)
LEMMA RangeOfList ==
  ASSUME NEW S, NEW s \in Lists(S)
  PROVE  Range(s) \subseteq S
  BY DEF Lists, Range

(* A prefix of a list is a list; it is no longer than asked for. *)
LEMMA TakeIsList ==
  ASSUME NEW S, NEW s, IsList(s, S), NEW n \in Nat
  PROVE  IsList(Take(s, n), S) /\ Len(Take(s, n)) <= n
<1>1. s \in Seq(S) /\ Len(s) \in Nat /\ \A i \in 1..Len(s) : s[i] \in S
  BY LenProperties, ElementOfSeq DEF IsList
<1> DEFINE m == IF Len(s) < n THEN Len(s) ELSE n
           t == SubSeq(s, 1, m)
<1>2. m \in Nat /\ m <= n /\ m <= Len(s)
  BY <1>1
<1> HIDE DEF m
<1>3. \A i \in 1..m : s[i] \in S
  BY <1>1, <1>2
<1>4. t \in Seq(S) /\ Len(t) = m /\ \A i \in 1..m : t[i] = s[i]
  <2>1. /\ t \in Seq(S)
        /\ Len(t) = IF 1 <= m THEN m - 1 + 1 ELSE 0
        /\ \A i \in 1..(m - 1 + 1) : t[i] = s[1 + i - 1]
    BY <1>2, <1>3, SubSeqProperties
  <2> QED BY <2>1, <1>2
<1>5. IsInjective(t)
  <2>1. DOMAIN t = 1..m /\ DOMAIN s = 1..Len(s)
    BY <1>1, <1>4, LenProperties
  <2> QED BY <2>1, <1>2, <1>4 DEF IsInjective, IsList
<1>6. Take(s, n) = t
  BY DEF Take, m
<1> QED BY <1>2, <1>4, <1>5, <1>6 DEF IsList

(* Promotion permutes: the promoted list takes its entries from the list at
   the places f, and f is one-to-one. *)
LEMMA ApplyHeadIsList ==
  ASSUME NEW S, NEW s, IsList(s, S), NEW h
  PROVE  IsList(ApplyHead(s, h), S) /\ Len(ApplyHead(s, h)) = Len(s)
<1>1. CASE h \notin Range(s)
  BY <1>1 DEF ApplyHead
<1>2. CASE h \in Range(s)
  <2> DEFINE n == Len(s)
             pos == CHOOSE i \in DOMAIN s : s[i] = h
             f == [i \in 1..n |-> IF i = 1 THEN pos ELSE IF i <= pos THEN i - 1 ELSE i]
             t == [i \in DOMAIN s |-> IF i = 1 THEN h ELSE IF i <= pos THEN s[i - 1] ELSE s[i]]
  <2>1. n \in Nat /\ s \in Seq(S) /\ DOMAIN s = 1..n /\ \A i \in 1..n : s[i] \in S
    BY LenProperties, ElementOfSeq DEF IsList
  <2>2. pos \in 1..n /\ s[pos] = h
    <3>1. \E i \in DOMAIN s : s[i] = h
      BY <1>2 DEF Range
    <3> QED BY <3>1, <2>1
  <2>3. ApplyHead(s, h) = t
    BY <1>2 DEF ApplyHead
  <2> HIDE DEF n, pos
  <2>4. \A i \in 1..n : f[i] \in 1..n
    BY <2>1, <2>2
  <2>5. \A i, j \in 1..n : f[i] = f[j] => i = j
    BY <2>1, <2>2
  <2>6. \A i \in 1..n : t[i] = s[f[i]]
    BY <2>1, <2>2
  <2>7. t \in [1..n -> S]
    <3>1. \A i \in 1..n : t[i] \in S
      BY <2>1, <2>4, <2>6
    <3> QED BY <3>1, <2>1
  <2>8. t \in Seq(S) /\ Len(t) = n /\ DOMAIN t = 1..n
    BY <2>1, <2>7
  <2>9. IsInjective(t)
    <3> SUFFICES ASSUME NEW i \in 1..n, NEW j \in 1..n, t[i] = t[j]
                 PROVE  i = j
      BY <2>8 DEF IsInjective
    <3>1. f[i] = f[j]
      <4>1. s[f[i]] = s[f[j]]
        BY <2>6
      <4> QED BY <4>1, <2>1, <2>4 DEF IsList, IsInjective
    <3> QED BY <3>1, <2>5
  <2>10. n = Len(s)
    BY DEF n
  <2> QED BY <2>3, <2>8, <2>9, <2>10 DEF IsList
<1> QED BY <1>1, <1>2

LEMMA TopIsShort ==
  ASSUME NEW r, IsList(r, Tags)
  PROVE  Short(SelectTop(r))
  BY TakeIsList, SelectionAssumption DEF SelectTop, Short

(* The capacity is at least one: the top of a list that has members has some. *)
LEMMA TopOfSome ==
  ASSUME NEW r, IsList(r, Tags), r # <<>>
  PROVE  SelectTop(r) # <<>>
<1> DEFINE m == IF Len(r) < Capacity THEN Len(r) ELSE Capacity
<1>1. r \in Seq(Tags) /\ Len(r) \in Nat /\ Len(r) # 0 /\ \A i \in 1..Len(r) : r[i] \in Tags
  BY LenProperties, ElementOfSeq, EmptySeq DEF IsList
<1>2. m \in Nat /\ m >= 1 /\ m <= Len(r)
  BY <1>1, SelectionAssumption
<1> HIDE DEF m
<1>3. \A i \in 1..m : r[i] \in Tags
  BY <1>1, <1>2
<1>4. /\ SubSeq(r, 1, m) \in Seq(Tags)
      /\ Len(SubSeq(r, 1, m)) = IF 1 <= m THEN m - 1 + 1 ELSE 0
  BY <1>2, <1>3, SubSeqProperties
<1>5. SubSeq(r, 1, m) # <<>>
  BY <1>2, <1>4, EmptySeq
<1> QED BY <1>5 DEF SelectTop, Take, m

LEMMA PromotedIsShort ==
  ASSUME NEW r, IsList(r, Tags), NEW h
  PROVE  Short(ApplyHead(SelectTop(r), h))
  BY TopIsShort, ApplyHeadIsList DEF Short

LEMMA EmptyIsShort == Short(<<>>)
<1>1. <<>> \in Seq(Tags) /\ Len(<<>>) = 0
  BY EmptySeq
<1>2. IsInjective(<<>>)
  BY DEF IsInjective
<1> QED BY <1>1, <1>2, SelectionAssumption DEF Short, IsList

LEMMA SingletonIsShort ==
  ASSUME NEW t \in Tags
  PROVE  Short(<<t>>) /\ <<t>> # <<>>
<1>1. <<t>> \in Seq(Tags) /\ Len(<<t>>) = 1 /\ <<t>> # <<>>
  OBVIOUS
<1>2. IsInjective(<<t>>)
  BY DEF IsInjective
<1> QED BY <1>1, <1>2, SelectionAssumption DEF Short, IsList

LEMMA ShortIsSeq ==
  ASSUME NEW s, Short(s)
  PROVE  s \in Seq(Tags)
  BY DEF Short, IsList

-----------------------------------------------------------------------------
(* What the two control records may become. *)

LEMMA SchedMoves ==
  ASSUME SchedOK(sched), NEW step \in SchedSteps,
         step \in {"seed_write", "write", "publish"} => sched.desired # <<>>
  PROVE  SchedOK([sched EXCEPT !.step = step])
  BY DEF SchedOK, SchedState

LEMMA SchedPlans ==
  ASSUME SchedOK(sched), NEW step \in SchedSteps, NEW s, Short(s),
         step \in {"seed_write", "write", "publish"} => s # <<>>
  PROVE  SchedOK([sched EXCEPT !.step = step, !.desired = s])
  BY ShortIsSeq DEF SchedOK, SchedState

LEMMA SchedReturns ==
  ASSUME NEW step \in SchedSteps \ {"seed_write", "write", "publish"}, Return(step)
  PROVE  SchedOK(sched') /\ sched'.step = step
  BY EmptyIsShort, ShortIsSeq DEF Return, SchedOK, SchedState

LEMMA CmdBecomes ==
  ASSUME IInv, NEW c \in Clients, NEW k, CmdOK(k), cmd' = [cmd EXCEPT ![c] = k]
  PROVE  /\ cmd' \in [Clients -> CmdState]
         /\ \A d \in Clients : CmdOK(cmd'[d])
<1>1. \A d \in Clients : cmd'[d] = IF d = c THEN k ELSE cmd[d]
  BY DEF IInv
<1>2. k \in CmdState
  BY DEF CmdOK, CmdState
<1> QED BY <1>1, <1>2 DEF IInv

LEMMA IdleOK == CmdOK(Idle)
<1>1. Idle \in CmdState
  BY EmptySeq DEF Idle, CmdState, CmdSteps
<1> QED BY <1>1, EmptyIsShort DEF CmdOK, CmdState, Idle

LEMMA CmdMoves ==
  ASSUME NEW k, CmdOK(k), NEW step \in CmdSteps,
         step \in {"pin_target", "pin_flag", "pin_write"} => k.tag \in Tags
  PROVE  CmdOK([k EXCEPT !.step = step])
  BY DEF CmdOK, CmdState

LEMMA CmdPlans ==
  ASSUME NEW k, CmdOK(k), NEW step \in {"auto_write", "reload_flag"}, NEW s, Short(s)
  PROVE  CmdOK([k EXCEPT !.step = step, !.top = s])
  BY ShortIsSeq DEF CmdOK, CmdState, CmdSteps

-----------------------------------------------------------------------------
(* The invariant. *)

LEMMA Initially == Init => IInv
<1> SUFFICES ASSUME Init PROVE IInv
  OBVIOUS
<1>1. IsList(ranking, Tags)
  BY ListsAreLists DEF Init
<1>2. PoolOK
  BY <1>1 DEF Init, PoolOK
<1>3. SchedOK(sched)
  BY EmptyIsShort, ShortIsSeq DEF Init, SchedOK, SchedState, SchedSteps
<1>4. \A c \in Clients : cmd[c] = Idle
  BY DEF Init
<1>5. cmd \in [Clients -> CmdState]
  BY IdleOK DEF Init, CmdOK, CmdState
<1> QED BY <1>2, <1>3, <1>4, <1>5, IdleOK, EmptyIsShort DEF IInv, Init

(* A step of the scheduler that ends with its record in order and touches no
   command, with what the pool then holds and the selection then is. *)
LEMMA SchedStep ==
  ASSUME IInv, PoolOK', Short(selection'), SchedOK(sched'), UNCHANGED cmd
  PROVE  IInv'
  BY DEF IInv

(* Likewise of a client. *)
LEMMA CmdStep ==
  ASSUME IInv, PoolOK', Short(selection'), UNCHANGED sched,
         NEW c \in Clients, NEW k, CmdOK(k), cmd' = [cmd EXCEPT ![c] = k]
  PROVE  IInv'
<1>1. SchedOK(sched)'
  BY DEF IInv
<1> QED BY <1>1, CmdBecomes DEF IInv

LEMMA SchedulerKeeps == IInv /\ Scheduler => IInv'
<1> SUFFICES ASSUME IInv, Scheduler PROVE IInv'
  OBVIOUS
<1>1. PoolOK /\ Short(selection) /\ SchedOK(sched) /\ Short(sched.desired)
  BY DEF IInv, SchedOK, SchedState
<1>2. UNCHANGED <<registry, pool, ranking, head, pinned, pinTarget, store>> => PoolOK'
  BY <1>1 DEF PoolOK
<1>3. \A S \in SUBSET Tags : ranking' \in Lists(S) => IsList(ranking', Tags)
  BY ListsAreLists
<1>4. CASE CheckSeed
  <2>1. SchedOK(sched')
    BY <1>1, <1>4, SchedMoves DEF CheckSeed, GoTo, SchedSteps
  <2> QED BY <1>1, <1>2, <1>4, <2>1, SchedStep DEF CheckSeed
<1>5. CASE PickSeed
  <2>1. PICK order \in Lists(pool) :
          sched' = [sched EXCEPT !.desired = SelectTop(order),
                                 !.step = IF order = <<>> THEN "plan" ELSE "seed_write"]
    BY <1>5 DEF PickSeed
  <2>2. IsList(order, Tags) /\ Short(SelectTop(order))
    BY <1>1, ListsAreLists, TopIsShort DEF PoolOK
  <2>3. order # <<>> => SelectTop(order) # <<>>
    BY <2>2, TopOfSome
  <2>4. SchedOK(sched')
    BY <1>1, <2>1, <2>2, <2>3, ShortIsSeq DEF SchedOK, SchedState, SchedSteps
  <2> QED BY <1>1, <1>2, <1>5, <2>4, SchedStep DEF PickSeed
<1>6. CASE WriteSeed
  <2>1. SchedOK(sched')
    BY <1>6, SchedReturns DEF WriteSeed, SchedSteps
  <2> QED BY <1>1, <1>2, <1>6, <2>1, SchedStep DEF WriteSeed
<1>7. CASE MeasureBatch
  <2>1. SchedOK(sched')
    BY <1>1, <1>7, SchedMoves DEF MeasureBatch, GoTo, SchedSteps
  <2>2. PoolOK'
    BY <1>1, <1>3, <1>7 DEF MeasureBatch, PoolOK
  <2> QED BY <1>1, <1>7, <2>1, <2>2, SchedStep DEF MeasureBatch
<1>8. CASE ReadTarget
  <2>1. SchedOK(sched')
    BY <1>1, <1>8 DEF ReadTarget, SchedOK, SchedState, SchedSteps, PoolOK
  <2> QED BY <1>1, <1>2, <1>8, <2>1, SchedStep DEF ReadTarget
<1>9. CASE ReadFlag
  <2>1. SchedOK(sched')
    <3>1. CASE sched.want # NONE /\ pinned
      <4>1. sched.want \in Tags
        BY <1>1, <3>1 DEF SchedOK, SchedState
      <4>2. Short(<<sched.want>>) /\ <<sched.want>> # <<>>
        BY <4>1, SingletonIsShort
      <4> QED BY <1>1, <1>9, <3>1, <4>2, SchedPlans DEF ReadFlag, SchedSteps
    <3>2. CASE ~(sched.want # NONE /\ pinned)
      BY <1>1, <1>9, <3>2, SchedMoves DEF ReadFlag, GoTo, SchedSteps
    <3> QED BY <3>1, <3>2
  <2> QED BY <1>1, <1>2, <1>9, <2>1, SchedStep DEF ReadFlag
<1>10. CASE RankPool
  <2> DEFINE desired == ApplyHead(SelectTop(ranking), head)
  <2>1. Short(desired)
    BY <1>1, PromotedIsShort DEF PoolOK
  <2>2. IF desired = <<>> THEN Return("next")
        ELSE sched' = [sched EXCEPT !.desired = desired, !.step = "write"]
    BY <1>10 DEF RankPool
  <2> HIDE DEF desired
  <2>3. SchedOK(sched')
    <3>1. CASE desired = <<>>
      BY <2>2, <3>1, SchedReturns DEF SchedSteps
    <3>2. CASE desired # <<>>
      BY <1>1, <2>1, <2>2, <3>2, ShortIsSeq DEF SchedOK, SchedState, SchedSteps
    <3> QED BY <3>1, <3>2
  <2> QED BY <1>1, <1>2, <1>10, <2>3, SchedStep DEF RankPool
<1>11. CASE WriteSelection
  <2>1. SchedOK(sched')
    <3>1. sched.desired # <<>>
      BY <1>1, <1>11 DEF WriteSelection, At, SchedOK, SchedState
    <3> QED BY <1>1, <1>11, <3>1, SchedMoves, SchedReturns
            DEF WriteSelection, GoTo, SchedSteps
  <2> QED BY <1>1, <1>2, <1>11, <2>1, SchedStep DEF WriteSelection
<1>12. CASE Publish
  <2>1. SchedOK(sched')
    BY <1>12, SchedReturns DEF Publish, SchedSteps
  <2>2. store' \in Tags
    <3>1. sched.desired \in Seq(Tags) /\ sched.desired # <<>>
      BY <1>1, <1>12 DEF Publish, At, SchedOK, SchedState
    <3> QED BY <1>12, <3>1, HeadTailProperties DEF Publish
  <2>3. PoolOK'
    BY <1>1, <1>12, <2>2 DEF Publish, PoolOK
  <2> QED BY <1>1, <1>12, <2>1, <2>3, SchedStep DEF Publish
<1>13. CASE Retire
  <2>1. SchedOK(sched')
    BY <1>1, <1>13, SchedMoves DEF Retire, GoTo, SchedSteps
  <2>2. PoolOK'
    <3>1. pool' \subseteq Tags
      BY <1>1, <1>13 DEF Retire, PoolOK
    <3>2. IsList(ranking', Tags)
      BY <1>3, <1>13, <3>1 DEF Retire
    <3> QED BY <1>1, <1>13, <3>1, <3>2 DEF Retire, PoolOK
  <2> QED BY <1>1, <1>13, <2>1, <2>2, SchedStep DEF Retire
<1>14. CASE PlanRound
  <2>1. SchedOK(sched')
    BY <1>1, <1>14, SchedMoves DEF PlanRound, GoTo, SchedSteps
  <2> QED BY <1>1, <1>2, <1>14, <2>1, SchedStep DEF PlanRound
<1>15. CASE NextBatch
  <2>1. SchedOK(sched')
    BY <1>1, <1>15, SchedMoves DEF NextBatch, GoTo, SchedSteps
  <2> QED BY <1>1, <1>2, <1>15, <2>1, SchedStep DEF NextBatch
<1>16. CASE EndBatches
  <2>1. SchedOK(sched')
    BY <1>1, <1>16, SchedMoves DEF EndBatches, GoTo, SchedSteps
  <2> QED BY <1>1, <1>2, <1>16, <2>1, SchedStep DEF EndBatches
<1>17. CASE ThroughputBatch
  <2>1. SchedOK(sched')
    BY <1>1, <1>17, SchedMoves DEF ThroughputBatch, GoTo, SchedSteps
  <2> QED BY <1>1, <1>2, <1>17, <2>1, SchedStep DEF ThroughputBatch
<1> QED
  BY <1>4, <1>5, <1>6, <1>7, <1>8, <1>9, <1>10, <1>11, <1>12, <1>13, <1>14, <1>15, <1>16,
     <1>17
  DEF Scheduler

LEMMA CommandKeeps ==
  ASSUME IInv, NEW c \in Clients, Command(c)
  PROVE  IInv'
<1>1. PoolOK /\ Short(selection) /\ CmdOK(cmd[c]) /\ Short(cmd[c].top)
  BY DEF IInv, CmdOK, CmdState
<1>2. UNCHANGED <<registry, pool, ranking, head, pinned, pinTarget, store>> => PoolOK'
  BY <1>1 DEF PoolOK
<1>3. \A step \in CmdSteps :
        /\ Then(c, step)
        /\ step \in {"pin_target", "pin_flag", "pin_write"} => cmd[c].tag \in Tags
        => /\ CmdOK([cmd[c] EXCEPT !.step = step])
           /\ cmd' = [cmd EXCEPT ![c] = [cmd[c] EXCEPT !.step = step]]
  BY <1>1, CmdMoves DEF Then
<1>4. ASSUME NEW t \in Tags, StartPin(c, t)
      PROVE  IInv'
  <2> DEFINE k == [Idle EXCEPT !.step = "pin_target", !.tag = t]
  <2>1. CmdOK(k)
    BY EmptyIsShort, ShortIsSeq DEF CmdOK, CmdState, CmdSteps, Idle
  <2> QED BY <1>1, <1>2, <1>4, <2>1, CmdStep DEF StartPin
<1>5. CASE PinTarget(c)
  <2>1. cmd[c].tag \in Tags
    BY <1>1, <1>5 DEF PinTarget, Doing, CmdOK, CmdState
  <2>2. PoolOK'
    BY <1>1, <1>5, <2>1 DEF PinTarget, PoolOK
  <2> QED BY <1>1, <1>3, <1>5, <2>1, <2>2, CmdStep DEF PinTarget, CmdSteps
<1>6. CASE PinFlag(c)
  <2>1. cmd[c].tag \in Tags
    BY <1>1, <1>6 DEF PinFlag, Doing, CmdOK, CmdState
  <2>2. PoolOK'
    BY <1>1, <1>6 DEF PinFlag, PoolOK
  <2> QED BY <1>1, <1>3, <1>6, <2>1, <2>2, CmdStep DEF PinFlag, CmdSteps
<1>7. CASE PinWrite(c)
  <2>1. cmd[c].tag \in Tags
    BY <1>1, <1>7 DEF PinWrite, Doing, CmdOK, CmdState
  <2>2. Short(selection')
    BY <1>7, <2>1, SingletonIsShort DEF PinWrite
  <2> QED BY <1>2, <1>7, <2>2, IdleOK, CmdStep DEF PinWrite, Done
<1>8. CASE StartAuto(c)
  BY <1>1, <1>2, <1>3, <1>8, CmdStep DEF StartAuto, CmdSteps
<1>9. CASE AutoTarget(c)
  <2>1. PoolOK'
    BY <1>1, <1>9 DEF AutoTarget, PoolOK
  <2> QED BY <1>1, <1>3, <1>9, <2>1, CmdStep DEF AutoTarget, CmdSteps
<1>10. CASE AutoFlag(c)
  <2>1. PoolOK'
    BY <1>1, <1>10 DEF AutoFlag, PoolOK
  <2> QED BY <1>1, <1>3, <1>10, <2>1, CmdStep DEF AutoFlag, CmdSteps
<1>11. CASE AutoTop(c)
  <2> DEFINE k == [cmd[c] EXCEPT !.step = "auto_write", !.top = SelectTop(ranking)]
  <2>1. CmdOK(k)
    BY <1>1, TopIsShort, CmdPlans DEF PoolOK
  <2>2. cmd' = [cmd EXCEPT ![c] = k]
    BY <1>11 DEF AutoTop
  <2> QED BY <1>1, <1>2, <1>11, <2>1, <2>2, CmdStep DEF AutoTop
<1>12. CASE AutoWrite(c)
  BY <1>1, <1>2, <1>12, IdleOK, CmdStep DEF AutoWrite, Done
<1>13. ASSUME NEW listed \in SUBSET Tags, StartReload(c, listed)
       PROVE  IInv'
  <2> DEFINE k == [Idle EXCEPT !.step = "reload_pool", !.listed = listed]
  <2>1. PoolOK'
    BY <1>1, <1>13 DEF StartReload, PoolOK
  <2>2. CmdOK(k)
    BY EmptyIsShort, ShortIsSeq DEF CmdOK, CmdState, CmdSteps, Idle
  <2> QED BY <1>1, <1>13, <2>1, <2>2, CmdStep DEF StartReload
<1>14. CASE ReloadPool(c)
  <2> DEFINE top == SelectTop(ranking')
             k == [Idle EXCEPT !.step = "reload_flag", !.top = top]
  <2>1. cmd[c].listed \subseteq Tags
    BY <1>1 DEF CmdOK, CmdState
  <2>2. IsList(ranking', Tags)
    BY <1>14, <2>1, ListsAreLists DEF ReloadPool
  <2>3. PoolOK'
    BY <1>1, <1>14, <2>1, <2>2 DEF ReloadPool, PoolOK
  <2>4. cmd' = [cmd EXCEPT ![c] = k]
    BY <1>14 DEF ReloadPool
  <2>5. Short(top)
    BY <2>2, TopIsShort
  <2> HIDE DEF top
  <2>6. CmdOK(k)
    BY <2>5, ShortIsSeq DEF CmdOK, CmdState, CmdSteps, Idle
  <2> QED BY <1>1, <1>14, <2>3, <2>4, <2>6, CmdStep DEF ReloadPool
<1>15. CASE ReloadFlag(c)
  <2>1. CASE pinned
    BY <1>1, <1>2, <1>15, <2>1, IdleOK, CmdStep DEF ReloadFlag, Done
  <2>2. CASE ~pinned
    BY <1>1, <1>2, <1>3, <1>15, <2>2, CmdStep DEF ReloadFlag, CmdSteps
  <2> QED BY <2>1, <2>2
<1>16. CASE ReloadWrite(c)
  BY <1>1, <1>2, <1>16, IdleOK, CmdStep DEF ReloadWrite, Done
<1> QED
  BY <1>4, <1>5, <1>6, <1>7, <1>8, <1>9, <1>10, <1>11, <1>12, <1>13, <1>14, <1>15, <1>16
  DEF Command, Continue

LEMMA Inductive == IInv /\ [Next]_vars => IInv'
<1> SUFFICES ASSUME IInv, [Next]_vars PROVE IInv'
  OBVIOUS
<1>1. CASE Reorder
  <2>1. IsList(ranking', Tags)
    BY <1>1, ListsAreLists DEF Reorder, IInv, PoolOK
  <2> QED BY <1>1, <2>1 DEF Reorder, IInv, PoolOK
<1>2. CASE JevDecides
  BY <1>2 DEF JevDecides, IInv, PoolOK
<1>3. CASE UNCHANGED vars
  BY <1>3 DEF vars, IInv, PoolOK
<1> QED BY <1>1, <1>2, <1>3, SchedulerKeeps, CommandKeeps DEF Next

-----------------------------------------------------------------------------
(* The inductive invariant holds of every behaviour. *)
THEOREM Invariance == Spec => []IInv
  BY Initially, Inductive, PTL DEF Spec

(* Type correctness. *)
THEOREM Typing == Spec => []TypeOK
<1>1. IInv => TypeOK
  BY DEF IInv, PoolOK, Short, SchedOK, SchedState, TypeOK
<1> QED BY <1>1, Invariance, PTL

(* No writer of the selection, and no interleaving of them, ever makes the data
   plane's fallback chain name a node twice or exceed the capacity. *)
THEOREM NoWasted == Spec => []NoWastedCandidate
<1>1. IInv => NoWastedCandidate
  BY DEF IInv, SchedOK, SchedState, Short, IsList, NoWastedCandidate
<1> QED BY <1>1, Invariance, PTL

(* No step of the scheduler leaves the data plane without a candidate it had:
   the two writes are of lists the invariant says are not empty. *)
THEOREM NeverEmpties == Spec => SchedulerNeverEmpties
<1>1. IInv /\ [Next]_vars
        => [sched' # sched => (selection # <<>> => selection' # <<>>)]_vars
  <2> SUFFICES ASSUME IInv, Next, sched' # sched, selection # <<>>
               PROVE  selection' # <<>>
    BY DEF vars
  <2>1. SchedOK(sched)
    BY DEF IInv
  <2>2. Scheduler
    BY DEF Next, Command, Continue, StartPin, PinTarget, PinFlag, PinWrite, StartAuto,
           AutoTarget, AutoFlag, AutoTop, AutoWrite, StartReload, ReloadPool, ReloadFlag,
           ReloadWrite, Reorder, JevDecides
  <2>3. CASE WriteSeed
    BY <2>1, <2>3 DEF WriteSeed, At, SchedOK, SchedState
  <2>4. CASE WriteSelection
    BY <2>1, <2>4 DEF WriteSelection, At, SchedOK, SchedState
  <2>5. CASE UNCHANGED selection
    BY <2>5
  <2> QED
    BY <2>2, <2>3, <2>4, <2>5
    DEF Scheduler, CheckSeed, PickSeed, PlanRound, MeasureBatch, ReadTarget, ReadFlag,
        RankPool, Publish, NextBatch, EndBatches, ThroughputBatch, Retire
<1> QED BY <1>1, Invariance, PTL DEF Spec, SchedulerNeverEmpties
-----------------------------------------------------------------------------
(* Between two settled states only the scheduler, traffic and jev take steps. *)
LEMMA SettledSteps ==
  ASSUME IInv, Next, Settled, Settled'
  PROVE  Scheduler \/ Reorder \/ JevDecides
<1> SUFFICES ASSUME NEW c \in Clients, Command(c) PROVE FALSE
  BY DEF Next
<1>1. cmd[c].step = "idle" /\ cmd'[c].step = "idle"
  BY DEF Settled
<1>2. cmd \in [Clients -> CmdState]
  BY DEF IInv
<1>3. ~Continue(c)
  BY <1>1 DEF Continue, PinTarget, PinFlag, PinWrite, AutoTarget, AutoFlag, AutoTop,
              AutoWrite, ReloadPool, ReloadFlag, ReloadWrite, Doing
<1>4. \A step \in CmdSteps : Then(c, step) => cmd'[c].step = step
  BY <1>2 DEF Then
<1>5. ~StartAuto(c) /\ \A listed \in SUBSET Tags : ~StartReload(c, listed)
  BY <1>1, <1>2, <1>4 DEF StartAuto, StartReload, CmdSteps, Idle
<1>6. \A u \in Tags : ~StartPin(c, u)
  BY <1>1, <1>2 DEF StartPin, Idle
<1> QED BY <1>3, <1>5, <1>6 DEF Command

(* No command is under way, t is pinned, and what the scheduler still carries
   from before is t: it is where it has read nothing it will write, or the
   target it read is t, or the list it is about to write is <<t>>. *)
Obeys(t) ==
  /\ Settled /\ pinned /\ pinTarget = t
  /\ At("flag") => sched.want = t
  /\ At("write") => sched.desired = <<t>>
  /\ sched.step \notin {"top", "seed_pool", "seed_write"}

(* Once the scheduler has been through one read of the target, a pin cannot be
   lost again while no command runs: every list the scheduler then writes is the
   pinned node alone, and nothing else touches the selection, whatever the scores,
   the pool and jev do meanwhile.  (From any state with a settled pin, the next
   arrival at "target" is such a state.) *)
PinTakesHold ==
  [][\A t \in Tags :
       Obeys(t) /\ Settled'
         => /\ Obeys(t)'
            /\ selection' = IF At("write") /\ sched' # sched THEN <<t>> ELSE selection]_vars

LEMMA PinKept ==
  ASSUME IInv, Next, NEW t \in Tags, Obeys(t), Settled'
  PROVE  /\ Obeys(t)'
         /\ selection' = IF At("write") /\ sched' # sched THEN <<t>> ELSE selection
<1>1. SchedOK(sched) /\ t # NONE
  BY SelectionAssumption DEF IInv
<1>2. /\ Settled /\ pinned /\ pinTarget = t
      /\ At("flag") => sched.want = t
      /\ At("write") => sched.desired = <<t>>
      /\ sched.step \notin {"top", "seed_pool", "seed_write"}
  BY DEF Obeys
<1>3. ASSUME UNCHANGED <<sched, pinned, pinTarget, selection>>
      PROVE  /\ Obeys(t)'
             /\ selection' = IF At("write") /\ sched' # sched THEN <<t>> ELSE selection
  BY <1>2, <1>3 DEF Obeys, At
<1>4. ASSUME UNCHANGED <<pinned, pinTarget, selection>>, ~At("write"),
             sched'.step \notin {"flag", "write", "top", "seed_pool", "seed_write"}
      PROVE  /\ Obeys(t)'
             /\ selection' = IF At("write") /\ sched' # sched THEN <<t>> ELSE selection
  BY <1>2, <1>4 DEF Obeys, At
<1>5. \A step \in SchedSteps : GoTo(step) => sched'.step = step
  BY <1>1 DEF GoTo, SchedOK, SchedState
<1>6. CASE CheckSeed
  BY <1>2, <1>4, <1>5, <1>6 DEF CheckSeed, At, SchedSteps
<1>7. CASE PlanRound \/ MeasureBatch \/ NextBatch \/ EndBatches \/ ThroughputBatch
  BY <1>4, <1>5, <1>7
  DEF PlanRound, MeasureBatch, NextBatch, EndBatches, ThroughputBatch, At, SchedSteps
<1>8. CASE ReadTarget
  <2>1. sched'.step = "flag" /\ sched'.want = t
    BY <1>1, <1>2, <1>8 DEF ReadTarget, SchedOK, SchedState
  <2> QED BY <1>2, <1>8, <2>1 DEF ReadTarget, Obeys, At
<1>9. CASE ReadFlag
  <2>1. sched'.step = "write" /\ sched'.desired = <<t>>
    BY <1>1, <1>2, <1>9 DEF ReadFlag, At, SchedOK, SchedState
  <2> QED BY <1>2, <1>9, <2>1 DEF ReadFlag, Obeys, At
<1>10. CASE WriteSelection
  <2>1. sched'.step \in {"next", "publish"} /\ sched' # sched
    BY <1>5, <1>10, SchedReturns DEF WriteSelection, At, SchedSteps
  <2>2. selection' = <<t>> /\ UNCHANGED <<pinned, pinTarget>>
    BY <1>2, <1>10 DEF WriteSelection
  <2> QED BY <1>2, <1>10, <2>1, <2>2 DEF WriteSelection, Obeys, At
<1>11. CASE Publish
  BY <1>4, <1>11, SchedReturns DEF Publish, At, SchedSteps
<1>12. CASE Retire
  BY <1>4, <1>5, <1>12 DEF Retire, At, SchedSteps
<1>13. CASE PickSeed \/ WriteSeed \/ RankPool
  <2>1. At("seed_pool") \/ At("seed_write") \/ At("top")
    BY <1>13, ZenonT(30) DEF PickSeed, WriteSeed, RankPool
  <2> QED BY <1>2, <2>1 DEF At
<1>14. CASE Reorder \/ JevDecides
  BY <1>3, <1>14 DEF Reorder, JevDecides
<1> QED
  BY <1>2, <1>6, <1>7, <1>8, <1>9, <1>10, <1>11, <1>12, <1>13, <1>14, SettledSteps
  DEF Scheduler

(* A settled pin is not lost again, for any tags, clients and capacity. *)
THEOREM PinsTakeHold == Spec => PinTakesHold
<1>1. IInv /\ [Next]_vars
        => [\A t \in Tags :
              Obeys(t) /\ Settled'
                => /\ Obeys(t)'
                   /\ selection' = IF At("write") /\ sched' # sched
                                   THEN <<t>> ELSE selection]_vars
  BY PinKept
<1> QED BY <1>1, Invariance, PTL DEF Spec, PinTakesHold
-----------------------------------------------------------------------------
(* No command is under way, nothing is pinned, the seeding of a cold start is
   over, and what the scheduler may be about to write is measured. *)
Follows ==
  /\ Settled /\ ~pinned
  /\ sched.step \notin {"seed", "seed_pool", "seed_write"}
  /\ At("write") => Range(sched.desired) \subseteq Range(ranking)

(* While no command runs and nothing is pinned, what the scheduler writes are
   measured members of the pool as it is when they are written, some at least,
   whatever batches, scores and jev did since it ranked them; and nothing else
   touches the selection.  (The state is reached at the latest when the
   scheduler next looks at the flag.) *)
AutoTakesHold ==
  [][Follows /\ Settled'
       => /\ Follows'
          /\ IF At("write") /\ sched' # sched
             THEN selection' # <<>> /\ Range(selection') \subseteq Range(ranking')
             ELSE selection' = selection]_vars

(* A prefix and a promotion name nobody new. *)
LEMMA TopRange ==
  ASSUME NEW r, IsList(r, Tags), NEW h
  PROVE  Range(ApplyHead(SelectTop(r), h)) \subseteq Range(r)
<1>1. Range(SelectTop(r)) \subseteq Range(r)
  <2> DEFINE m == IF Len(r) < Capacity THEN Len(r) ELSE Capacity
             s == SubSeq(r, 1, m)
  <2>1. r \in Seq(Tags) /\ Len(r) \in Nat /\ DOMAIN r = 1..Len(r)
        /\ \A i \in 1..Len(r) : r[i] \in Tags
    BY LenProperties, ElementOfSeq DEF IsList
  <2>2. m \in Nat /\ m <= Len(r)
    BY <2>1, SelectionAssumption
  <2> HIDE DEF m
  <2>3. /\ s \in Seq(Tags)
        /\ Len(s) = IF 1 <= m THEN m - 1 + 1 ELSE 0
        /\ \A i \in 1..(m - 1 + 1) : s[i] = r[1 + i - 1]
    BY <2>1, <2>2, SubSeqProperties
  <2>4. DOMAIN s = 1..m /\ \A i \in 1..m : s[i] = r[i]
    BY <2>2, <2>3, LenProperties
  <2>5. SelectTop(r) = s
    BY DEF SelectTop, Take, m
  <2> HIDE DEF s
  <2> QED BY <2>1, <2>2, <2>4, <2>5 DEF Range
<1>2. ASSUME NEW s, IsList(s, Tags)
      PROVE  Range(ApplyHead(s, h)) \subseteq Range(s)
  <2>1. CASE h \notin Range(s)
    BY <2>1 DEF ApplyHead
  <2>2. CASE h \in Range(s)
    <3> DEFINE pos == CHOOSE i \in DOMAIN s : s[i] = h
               t == [i \in DOMAIN s |-> IF i = 1 THEN h ELSE IF i <= pos THEN s[i - 1] ELSE s[i]]
    <3>1. Len(s) \in Nat /\ DOMAIN s = 1..Len(s)
      BY <1>2, LenProperties DEF IsList
    <3>2. ApplyHead(s, h) = t
      BY <2>2 DEF ApplyHead
    <3> HIDE DEF pos
    <3>3. \A i \in DOMAIN s : t[i] \in Range(s)
      <4> SUFFICES ASSUME NEW i \in DOMAIN s PROVE t[i] \in Range(s)
        OBVIOUS
      <4>1. i # 1 => i - 1 \in DOMAIN s
        BY <3>1
      <4> QED BY <2>2, <4>1 DEF Range
    <3> HIDE DEF t
    <3>4. DOMAIN t = DOMAIN s
      BY DEF t
    <3> QED BY <3>2, <3>3, <3>4 DEF Range
  <2> QED BY <2>1, <2>2
<1>3. IsList(SelectTop(r), Tags)
  BY TopIsShort DEF Short
<1> QED BY <1>1, <1>2, <1>3

LEMMA AutoKept ==
  ASSUME IInv, Next, Follows, Settled'
  PROVE  /\ Follows'
         /\ IF At("write") /\ sched' # sched
            THEN selection' # <<>> /\ Range(selection') \subseteq Range(ranking')
            ELSE selection' = selection
<1>1. SchedOK(sched) /\ PoolOK
  BY DEF IInv
<1>2. /\ Settled /\ ~pinned /\ sched.step \notin {"seed", "seed_pool", "seed_write"}
      /\ At("write") => Range(sched.desired) \subseteq Range(ranking)
  BY DEF Follows
<1>3. \A step \in SchedSteps : GoTo(step) => sched'.step = step
  BY <1>1 DEF GoTo, SchedOK, SchedState
<1>4. ASSUME UNCHANGED <<pinned, selection>>, ~At("write"),
             sched'.step \notin {"write", "seed", "seed_pool", "seed_write"}
      PROVE  Follows' /\ ~At("write") /\ selection' = selection
  BY <1>4 DEF Follows, At
<1>5. ASSUME UNCHANGED <<pinned, selection, sched>>, Range(ranking') = Range(ranking)
      PROVE  Follows' /\ sched' = sched /\ selection' = selection
  BY <1>2, <1>5 DEF Follows, At
<1>6. CASE PlanRound \/ MeasureBatch \/ NextBatch \/ EndBatches \/ ThroughputBatch
  BY <1>3, <1>4, <1>6
  DEF PlanRound, MeasureBatch, NextBatch, EndBatches, ThroughputBatch, At, SchedSteps
<1>7. CASE ReadTarget
  <2>1. sched'.step = "flag"
    BY <1>1, <1>7 DEF ReadTarget, SchedOK, SchedState
  <2> QED BY <1>4, <1>7, <2>1 DEF ReadTarget, At
<1>8. CASE ReadFlag
  BY <1>2, <1>3, <1>4, <1>8 DEF ReadFlag, At, SchedSteps
<1>9. CASE RankPool
  <2> DEFINE desired == ApplyHead(SelectTop(ranking), head)
  <2>1. Range(desired) \subseteq Range(ranking)
    BY <1>1, TopRange DEF PoolOK
  <2>2. /\ IF desired = <<>> THEN Return("next")
           ELSE sched' = [sched EXCEPT !.desired = desired, !.step = "write"]
        /\ UNCHANGED <<ranking, pinned, selection>> /\ At("top")
    BY <1>9 DEF RankPool
  <2> HIDE DEF desired
  <2>3. CASE desired = <<>>
    <3>1. sched'.step = "next"
      BY <2>2, <2>3, SchedReturns DEF SchedSteps
    <3> QED BY <1>4, <2>2, <3>1 DEF At
  <2>4. CASE desired # <<>>
    <3>1. sched'.desired = desired /\ sched'.step = "write"
      BY <1>1, <2>2, <2>4 DEF SchedOK, SchedState
    <3> QED BY <1>2, <2>1, <2>2, <3>1 DEF Follows, At
  <2> QED BY <2>3, <2>4
<1>10. CASE WriteSelection
  <2>1. sched'.step \in {"next", "publish"} /\ sched' # sched /\ At("write")
    BY <1>3, <1>10, SchedReturns DEF WriteSelection, At, SchedSteps
  <2>2. selection' = sched.desired /\ UNCHANGED <<pinned, ranking>>
    BY <1>10 DEF WriteSelection
  <2>3. sched.desired # <<>>
    BY <1>1, <2>1 DEF SchedOK, SchedState, At
  <2> QED BY <1>2, <2>1, <2>2, <2>3 DEF Follows, At
<1>11. CASE Publish
  BY <1>4, <1>11, SchedReturns DEF Publish, At, SchedSteps
<1>12. CASE Retire
  BY <1>3, <1>4, <1>12 DEF Retire, At, SchedSteps
<1>13. CASE CheckSeed \/ PickSeed \/ WriteSeed
  <2>1. At("seed") \/ At("seed_pool") \/ At("seed_write")
    BY <1>13, ZenonT(30) DEF CheckSeed, PickSeed, WriteSeed
  <2> QED BY <1>2, <2>1 DEF At
<1>14. CASE Reorder
  BY <1>5, <1>14 DEF Reorder
<1>15. CASE JevDecides
  BY <1>5, <1>15 DEF JevDecides
<1> QED
  BY <1>2, <1>6, <1>7, <1>8, <1>9, <1>10, <1>11, <1>12, <1>13, <1>14, <1>15, SettledSteps
  DEF Scheduler

(* An unpinned selection is refreshed with measured nodes only. *)
THEOREM AutosTakeHold == Spec => AutoTakesHold
<1>1. IInv /\ [Next]_vars
        => [Follows /\ Settled'
              => /\ Follows'
                 /\ IF At("write") /\ sched' # sched
                    THEN selection' # <<>> /\ Range(selection') \subseteq Range(ranking')
                    ELSE selection' = selection]_vars
  BY AutoKept
<1> QED BY <1>1, Invariance, PTL DEF Spec, AutoTakesHold

-----------------------------------------------------------------------------
(* What the pool is to the selection. *)

View == INSTANCE PoolView WITH measured <- Range(ranking)

(* Whatever the scheduler, a reload, traffic and jev do, only measured members
   of the pool are ranked, and a node keeps its place among them for as long as
   it stays in the pool. *)
TakesTheView == View!Spec

LEMMA ViewStep == PoolOK /\ View!Init /\ [Next]_vars => [View!Next]_(View!view) /\ View!Init'
<1> SUFFICES ASSUME PoolOK, View!Init, [Next]_vars
             PROVE  (View!Next \/ UNCHANGED View!view) /\ View!Init'
  OBVIOUS
<1>1. Range(ranking) \subseteq pool /\ pool \subseteq Tags
  BY DEF View!Init, PoolOK
<1>2. \A S : ranking' \in Lists(S) => Range(ranking') \subseteq S
  BY ListsAreLists, RangeOfList
<1>3. CASE UNCHANGED <<pool, ranking>>
  BY <1>1, <1>3 DEF View!view, View!Init
<1>4. ASSUME pool' = pool, ranking' \in Lists(pool), Range(ranking) \subseteq Range(ranking')
      PROVE  View!Next /\ View!Init'
  BY <1>1, <1>2, <1>4 DEF View!Next, View!Measure, View!Init
<1>5. ASSUME ranking' \in Lists(pool'), Range(ranking') = Range(ranking) \cap pool'
      PROVE  View!Next /\ View!Init'
  BY <1>1, <1>2, <1>5 DEF View!Next, View!Rebuild, View!Init
<1>6. CASE MeasureBatch
  BY <1>4, <1>6 DEF MeasureBatch
<1>7. CASE Reorder
  BY <1>4, <1>7 DEF Reorder
<1>8. CASE Retire
  BY <1>5, <1>8 DEF Retire
<1>9. ASSUME NEW c \in Clients, ReloadPool(c)
      PROVE  View!Next /\ View!Init'
  BY <1>5, <1>9 DEF ReloadPool
<1>10. Next => \/ UNCHANGED <<pool, ranking>>
               \/ MeasureBatch \/ Reorder \/ Retire
               \/ \E c \in Clients : ReloadPool(c)
  <2>1. Scheduler => UNCHANGED <<pool, ranking>> \/ MeasureBatch \/ Retire
    BY DEF Scheduler, CheckSeed, PickSeed, WriteSeed, PlanRound, ReadTarget, ReadFlag,
           RankPool, WriteSelection, Publish, NextBatch, EndBatches, ThroughputBatch
  <2>2. ASSUME NEW c \in Clients, Command(c)
        PROVE  UNCHANGED <<pool, ranking>> \/ ReloadPool(c)
    BY <2>2 DEF Command, Continue, StartPin, PinTarget, PinFlag, PinWrite, StartAuto,
                AutoTarget, AutoFlag, AutoTop, AutoWrite, StartReload, ReloadFlag,
                ReloadWrite
  <2>3. JevDecides => UNCHANGED <<pool, ranking>>
    BY DEF JevDecides
  <2> QED BY <2>1, <2>2, <2>3 DEF Next
<1> QED BY <1>3, <1>6, <1>7, <1>8, <1>9, <1>10 DEF vars

(* Selection implements PoolView. *)
THEOREM SelectionTakesTheView == Spec => TakesTheView
<1>1. Init => View!Init
  BY ListsAreLists, RangeOfList DEF Init, View!Init
<1>2. IInv => PoolOK
  BY DEF IInv
<1> QED BY <1>1, <1>2, ViewStep, Invariance, PTL DEF Spec, TakesTheView, View!Spec

(* Nor does it exclude anything of it: whatever set of members is measured,
   there is an order of them, so that its guards on the next ranking hold back
   no batch, retirement or reload. *)
THEOREM EveryViewIsRanked ==
  ASSUME NEW S, IsFiniteSet(S), NEW M \in SUBSET S
  PROVE  \E s \in Lists(S) : Range(s) = M
<1>1. IsFiniteSet(M) /\ Cardinality(M) <= Cardinality(S)
  BY FS_Subset
<1> DEFINE n == Cardinality(M)
<1>2. n \in Nat /\ Cardinality(S) \in Nat
  BY <1>1, FS_CardinalityType
<1>3. PICK s \in Bijection(1..n, M) : TRUE
  BY <1>1, FS_CardinalityType DEF ExistsBijection
<1>4. s \in [1..n -> M] /\ IsInjective(s)
  BY <1>3 DEF Bijection, Injection, IsInjective
<1>5. Range(s) = M
  BY <1>3 DEF Bijection, Surjection, Range
<1>6. s \in Lists(S)
  BY <1>1, <1>2, <1>4 DEF Lists
<1> QED BY <1>5, <1>6
=============================================================================
