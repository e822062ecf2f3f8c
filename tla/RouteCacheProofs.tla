-------------------------- MODULE RouteCacheProofs --------------------------
(***************************************************************************)
(* The invariants of RouteCache, for any hosts, response times and limits. *)
(* What a call does to the entry of its host and to that host's history is *)
(* proved once, of records (the Keeps... lemmas about Good); the state     *)
(* part is that Book touches one host and drops others.                    *)
(***************************************************************************)
EXTENDS RouteCache, FiniteSetTheorems, TLAPS

(* An entry and its history belong together: a failed route has no baseline,
   a failing direct one is due, and the time left of the interval is on one
   of the two clocks. *)
Good(e, p) ==
  /\ e \in Entry /\ p \in Past
  /\ e.route \in p.failed => e.last_fr = 0
  /\ p.answered # NONE => e.route \notin p.failed
  /\ e.route = "Direct" /\ e.direct_fails > 0 => e.last_fr = 0 /\ e.slow
  /\ p.raced + e.recheck >= Interval

IInv ==
  /\ DOMAIN entries \subseteq Hosts
  /\ past \in [Hosts -> Past]
  /\ CacheBounded
  /\ \A h \in DOMAIN entries : Good(entries[h], past[h])
  /\ entries = [h \in DOMAIN entries |-> entries[h]]

-----------------------------------------------------------------------------
(* What each call does to one entry. *)

LEMMA NoPastIsPast == NoPast \in Past
  BY RouteCacheAssumption DEF NoPast, Past, Routes, DirectFailsToSwitch

(* The constant values that entries are given. *)
LEMMA Clocks ==
  /\ TTL \in 0..TTL /\ 0 \in 0..Interval /\ Interval \in 0..Interval
  /\ 0 \in 0..(DirectFailsToSwitch - 1) /\ "Proxy" \in Routes
  BY RouteCacheAssumption DEF DirectFailsToSwitch, Routes

(* An entry about to be inserted, with the empty history it starts with. *)
LEMMA KeepsNew ==
  ASSUME NEW route \in Routes
  PROVE  Good(NewEntry(route), NoPast)
<1>1. NewEntry(route) \in Entry
  BY RouteCacheAssumption DEF NewEntry, Entry, DirectFailsToSwitch
<1> QED
  BY <1>1, NoPastIsPast, RouteCacheAssumption DEF Good, NewEntry, NoPast

(* A failure, booked on an entry in good order. *)
LEMMA KeepsFailed ==
  ASSUME NEW e, NEW p, Good(e, p), NEW route \in Routes
  PROVE  Good(FailedOn(e, route), NoteFailed(p, route))
<1> DEFINE f == FailedOn(e, route)
           q == NoteFailed(p, route)
<1>1. /\ e \in Entry /\ p \in Past
      /\ e.route = "Direct" /\ e.direct_fails > 0 => e.last_fr = 0 /\ e.slow
      /\ e.route \in p.failed => e.last_fr = 0
  BY DEF Good
<1>2. q \in Past
  BY <1>1, RouteCacheAssumption DEF NoteFailed, Past, DirectFailsToSwitch, Routes
<1>3. /\ e.direct_fails \in 0..1 /\ e.last_fr \in FirstResponses \cup {0}
      /\ e.slow \in BOOLEAN /\ e.route \in Routes
  BY <1>1 DEF Entry, DirectFailsToSwitch
<1> DEFINE fr == IF e.route = route THEN 0 ELSE e.last_fr
<1>a. fr \in FirstResponses \cup {0} /\ (e.route = route => fr = 0)
      /\ (e.last_fr = 0 => fr = 0)
  BY <1>3
<1> HIDE DEF fr
<1>4. CASE route = "Direct" /\ e.direct_fails + 1 >= DirectFailsToSwitch
  <2>1. f = [e EXCEPT !.last_fr = fr, !.recheck = 0, !.ttl = TTL, !.route = "Proxy",
                      !.direct_fails = 0, !.slow = FALSE]
    BY <1>4 DEF FailedOn, fr
  <2>2. f \in Entry
    BY <2>1, <1>1, <1>a, Clocks DEF Entry
  <2>3. /\ f.route = "Proxy" /\ f.direct_fails = 0 /\ f.recheck = 0
        /\ f.last_fr = fr
    BY <2>1, <1>1 DEF Entry
  <2>4. f.route \in q.failed => f.last_fr = 0
    BY <2>3, <1>1, <1>3, <1>4, <1>a DEF NoteFailed, Routes
  <2> QED
    BY <1>2, <2>2, <2>3, <2>4, RouteCacheAssumption DEF Good, NoteFailed
<1>5. CASE ~(route = "Direct" /\ e.direct_fails + 1 >= DirectFailsToSwitch)
  <2> DEFINE df == IF route = "Direct" THEN e.direct_fails + 1 ELSE e.direct_fails
  <2>1. f = [e EXCEPT !.last_fr = fr, !.recheck = 0, !.ttl = TTL, !.slow = TRUE,
                      !.direct_fails = df]
    BY <1>5 DEF FailedOn, fr
  <2>2. /\ df \in 0..(DirectFailsToSwitch - 1)
        /\ df > 0 => route = "Direct" \/ e.direct_fails > 0
    BY <1>3, <1>5 DEF DirectFailsToSwitch
  <2> HIDE DEF df
  <2>3. f \in Entry
    BY <2>1, <2>2, <1>1, <1>a, Clocks DEF Entry
  <2>4. /\ f.route = e.route /\ f.direct_fails = df /\ f.recheck = 0 /\ f.slow = TRUE
        /\ f.last_fr = fr
    BY <2>1, <1>1 DEF Entry
  <2>5. f.route \in q.failed => f.last_fr = 0
    BY <2>4, <1>1, <1>a DEF NoteFailed
  <2>6. f.route = "Direct" /\ f.direct_fails > 0 => f.last_fr = 0 /\ f.slow
    BY <2>2, <2>4, <1>1, <1>a
  <2> QED
    BY <1>2, <2>3, <2>4, <2>5, <2>6, RouteCacheAssumption DEF Good, NoteFailed
<1> QED BY <1>4, <1>5

(* A neutral end only extends the entry's life. *)
LEMMA KeepsNeutral ==
  ASSUME NEW e, NEW p, Good(e, p)
  PROVE  Good(NeutralOn(e), p)
<1>1. NeutralOn(e) \in Entry
  BY RouteCacheAssumption DEF NeutralOn, Entry, Good
<1> QED BY <1>1 DEF Good, NeutralOn, Entry

(* A response: on the entry's own route, on the other one without a baseline
   or fast enough, or on the other one and kept out. *)
LEMMA KeepsResponded ==
  ASSUME NEW e, NEW p, Good(e, p), NEW route \in Routes, NEW fr \in FirstResponses
  PROVE  Good(RespondedOn(e, route, fr), NoteResponded(p, route))
<1> DEFINE f == RespondedOn(e, route, fr)
           q == NoteResponded(p, route)
<1>1. /\ e \in Entry /\ p \in Past
      /\ e.route \in p.failed => e.last_fr = 0
      /\ e.route = "Direct" /\ e.direct_fails > 0 => e.last_fr = 0
      /\ p.raced + e.recheck >= Interval
  BY DEF Good
<1>2. q \in Past
  BY <1>1 DEF NoteResponded, Past, Routes, DirectFailsToSwitch
<1>3. /\ e.last_fr \in Nat /\ fr \in Nat /\ e.direct_fails \in 0..1
      /\ p.raced \in 0..Interval /\ e.recheck \in 0..Interval
  <2>1. /\ e.last_fr \in FirstResponses \cup {0} /\ e.recheck \in 0..Interval
        /\ e.direct_fails \in 0..(DirectFailsToSwitch - 1)
    BY <1>1 DEF Entry
  <2>2. p.raced \in 0..Interval
    BY <1>1 DEF Past
  <2>3. e.direct_fails \in 0..1
    BY <2>1 DEF DirectFailsToSwitch
  <2>4. FirstResponses \subseteq Nat
    BY RouteCacheAssumption
  <2>5. e.last_fr \in Nat
    <3>1. CASE e.last_fr \in FirstResponses
      BY ONLY <3>1, <2>4
    <3>2. CASE e.last_fr = 0
      BY <3>2
    <3> QED BY <2>1, <3>1, <3>2
  <2>6. fr \in Nat
    BY ONLY <2>4, fr \in FirstResponses
  <2> QED BY <2>1, <2>2, <2>3, <2>5, <2>6
<1>4. q.raced = p.raced /\ q.failed = p.failed \ {route}
  BY DEF NoteResponded
<1>5. CASE e.route = route \/ e.last_fr = 0 \/ fr * 2 < e.last_fr
  <2>1. f = [e EXCEPT !.route = route, !.last_fr = fr, !.slow = fr > RaceThreshold,
                      !.direct_fails = 0, !.ttl = TTL]
    BY <1>5 DEF RespondedOn
  <2>2. (fr > RaceThreshold) \in BOOLEAN
    OBVIOUS
  <2>3. f \in Entry
    <3> DEFINE s == fr > RaceThreshold
    <3>1. f = [e EXCEPT !.route = route, !.last_fr = fr, !.slow = s,
                        !.direct_fails = 0, !.ttl = TTL] /\ s \in BOOLEAN
      BY <2>1, <2>2
    <3> HIDE DEF s
    <3> QED BY <3>1, <1>1, Clocks DEF Entry
  <2>4. f.route = route /\ f.direct_fails = 0 /\ f.recheck = e.recheck
    BY <2>1, <1>1 DEF Entry
  <2> QED BY <1>1, <1>2, <1>4, <2>3, <2>4 DEF Good
<1>6. CASE ~(e.route = route \/ e.last_fr = 0 \/ fr * 2 < e.last_fr)
  <2>1. f = [e EXCEPT !.slow = e.last_fr > RaceThreshold, !.recheck = Interval, !.ttl = TTL]
    BY <1>6 DEF RespondedOn
  <2>2. (e.last_fr > RaceThreshold) \in BOOLEAN
    OBVIOUS
  <2>3. f \in Entry
    <3> DEFINE s == e.last_fr > RaceThreshold
    <3>1. f = [e EXCEPT !.slow = s, !.recheck = Interval, !.ttl = TTL] /\ s \in BOOLEAN
      BY <2>1, <2>2
    <3> HIDE DEF s
    <3> QED BY <3>1, <1>1, Clocks DEF Entry
  <2>4. /\ f.route = e.route /\ f.direct_fails = e.direct_fails
        /\ f.recheck = Interval /\ f.last_fr = e.last_fr
    BY <2>1, <1>1 DEF Entry
  <2>5. e.route \notin p.failed
    BY <1>1, <1>6
  <2>6. ~(e.route = "Direct" /\ e.direct_fails > 0)
    BY <1>1, <1>6
  <2>7. q.raced + f.recheck >= Interval
    BY <2>4, <1>3, <1>4, RouteCacheAssumption
  <2> QED BY <1>2, <1>4, <2>3, <2>4, <2>5, <2>6, <2>7 DEF Good
<1> QED BY <1>5, <1>6

(* One tick moves what is left of the interval from one clock to the other. *)
LEMMA KeepsAged ==
  ASSUME NEW e, NEW p, Good(e, p)
  PROVE  Good(Aged(e), NoteAged(p))
<1> DEFINE f == Aged(e)
           q == NoteAged(p)
<1>1. e \in Entry /\ p \in Past /\ p.raced + e.recheck >= Interval
  BY DEF Good
<1>2. /\ e.ttl \in 0..TTL /\ e.recheck \in 0..Interval /\ p.raced \in 0..Interval
      /\ TTL \in Nat /\ Interval \in Nat
  BY <1>1, RouteCacheAssumption DEF Entry, Past
<1> DEFINE ttl == IF e.ttl > 0 THEN e.ttl - 1 ELSE 0
           recheck == IF e.recheck > 0 THEN e.recheck - 1 ELSE 0
           raced == IF p.raced < Interval THEN p.raced + 1 ELSE Interval
<1>3. ttl \in 0..TTL /\ recheck \in 0..Interval /\ raced \in 0..Interval
  BY <1>2
<1>4. f = [e EXCEPT !.ttl = ttl, !.recheck = recheck] /\ q = [p EXCEPT !.raced = raced]
  BY DEF Aged, NoteAged
<1>5. f \in Entry /\ q \in Past
  <2> HIDE DEF ttl, recheck, raced
  <2> QED BY <1>1, <1>3, <1>4 DEF Entry, Past
<1>6. raced + recheck >= Interval
  BY <1>1, <1>2
<1>7. /\ f.route = e.route /\ f.last_fr = e.last_fr /\ f.slow = e.slow
      /\ f.direct_fails = e.direct_fails /\ f.recheck = recheck
      /\ q.failed = p.failed /\ q.answered = p.answered /\ q.raced = raced
  BY <1>1, <1>4 DEF Entry, Past
<1> QED BY <1>5, <1>6, <1>7 DEF Good

-----------------------------------------------------------------------------
(* Sweeping and booking. *)

LEMMA SweptLeavesRoom ==
  ASSUME IInv
  PROVE  /\ Swept \subseteq DOMAIN entries
         /\ IsFiniteSet(Swept) /\ Cardinality(Swept) < MaxEntries
<1> DEFINE live == {h \in DOMAIN entries : entries[h].ttl > 0}
<1>1. IsFiniteSet(DOMAIN entries)
  BY RouteCacheAssumption, FS_Subset DEF IInv
<1>2. IsFiniteSet(live) /\ live \subseteq DOMAIN entries
  BY <1>1, FS_Subset
<1>3. IsFiniteSet({}) /\ Cardinality({}) = 0
  BY FS_EmptySet
<1>4. 0 < MaxEntries
  BY RouteCacheAssumption
<1>5. Swept = IF Cardinality(DOMAIN entries) < MaxEntries THEN DOMAIN entries
              ELSE IF Cardinality(live) < MaxEntries THEN live ELSE {}
  BY DEF Swept
<1> QED
  <2> HIDE DEF live
  <2> QED BY <1>1, <1>2, <1>3, <1>4, <1>5

LEMMA BookedIsGood ==
  ASSUME IInv, NEW h \in Hosts, NEW route \in Routes
  PROVE  Good(Booked(h, route), PastOf(h))
<1>1. CASE h \in Swept
  BY <1>1, SweptLeavesRoom DEF Booked, PastOf, IInv
<1>2. CASE h \notin Swept
  BY <1>2, KeepsNew DEF Booked, PastOf
<1> QED BY <1>1, <1>2

LEMMA BookKeeps ==
  ASSUME IInv, NEW h \in Hosts, NEW e, NEW p, Good(e, p), Book(h, e, p)
  PROVE  IInv'
<1>1. /\ entries' = [k \in Swept \cup {h} |-> IF k = h THEN e ELSE entries[k]]
      /\ past' = [k \in Hosts |-> IF k = h THEN p
                                  ELSE IF k \in Swept THEN past[k] ELSE NoPast]
  <2>1. DOMAIN [k \in Swept |-> entries[k]] = Swept
    OBVIOUS
  <2>2. entries' = [k \in Swept \cup {h} |->
                      IF k = h THEN e ELSE [j \in Swept |-> entries[j]][k]]
    BY <2>1 DEF Book, Put
  <2>3. \A k \in Swept \cup {h} : k # h => [j \in Swept |-> entries[j]][k] = entries[k]
    OBVIOUS
  <2> QED BY <2>2, <2>3 DEF Book
<1>2. DOMAIN entries' = Swept \cup {h}
  BY <1>1
<1>3. DOMAIN entries' \subseteq Hosts
  BY <1>2, SweptLeavesRoom DEF IInv
<1>4. past' \in [Hosts -> Past]
  BY <1>1, NoPastIsPast DEF IInv, Good
<1>5. CacheBounded'
  <2>1. /\ IsFiniteSet(Swept) /\ Cardinality(Swept) < MaxEntries
        /\ Cardinality(Swept) \in Nat /\ MaxEntries \in Nat
    BY SweptLeavesRoom, FS_CardinalityType, RouteCacheAssumption
  <2>2. Cardinality(Swept \cup {h}) <= Cardinality(Swept) + 1
    <3>1. CASE h \in Swept
      <4>1. Cardinality(Swept \cup {h}) = Cardinality(Swept)
        <5>1. Swept \cup {h} = Swept
          BY <3>1
        <5> QED BY ONLY <5>1
      <4>2. Cardinality(Swept) <= Cardinality(Swept) + 1
        BY <2>1
      <4> QED BY <4>1, <4>2
    <3>2. CASE h \notin Swept
      BY <3>2, <2>1, FS_AddElement
    <3> QED BY <3>1, <3>2
  <2>3. Cardinality(Swept \cup {h}) \in Nat
    BY <2>1, FS_AddElement, FS_CardinalityType
  <2> QED BY <1>2, <2>1, <2>2, <2>3 DEF CacheBounded
<1>6. \A k \in DOMAIN entries' : Good(entries'[k], past'[k])
  <2> SUFFICES ASSUME NEW k \in DOMAIN entries'
               PROVE  Good(entries'[k], past'[k])
    OBVIOUS
  <2>1. CASE k = h
    BY <2>1, <1>1
  <2>2. CASE k # h
    <3>1. k \in Swept /\ k \in Hosts /\ k \in DOMAIN entries
      BY <2>2, <1>2, SweptLeavesRoom DEF IInv
    <3>2. entries'[k] = entries[k] /\ past'[k] = past[k]
      BY <3>1, <2>2, <1>1
    <3> QED BY <3>1, <3>2 DEF IInv
  <2> QED BY <2>1, <2>2
<1>7. entries' = [k \in DOMAIN entries' |-> entries'[k]]
  BY <1>1
<1> QED
  BY <1>3, <1>4, <1>5, <1>6, <1>7 DEF IInv

-----------------------------------------------------------------------------
LEMMA Initially == Init => IInv
<1> SUFFICES ASSUME Init PROVE IInv
  OBVIOUS
<1>1. DOMAIN entries = {}
  BY DEF Init
<1>2. CacheBounded
  BY <1>1, FS_EmptySet, RouteCacheAssumption DEF CacheBounded
<1>3. entries = [h \in DOMAIN entries |-> entries[h]]
  BY DEF Init
<1> QED BY <1>1, <1>2, <1>3, NoPastIsPast DEF IInv, Init

LEMMA Inductive == IInv /\ [Next]_vars => IInv'
<1> SUFFICES ASSUME IInv, [Next]_vars PROVE IInv'
  OBVIOUS
<1>1. ASSUME UNCHANGED vars PROVE IInv'
  BY <1>1 DEF vars, IInv, CacheBounded
<1>2. ASSUME NEW h \in Hosts, DecideExpired(h) PROVE IInv'
  <2>1. /\ entries' = [k \in DOMAIN entries \ {h} |-> entries[k]]
        /\ past' = [past EXCEPT ![h] = NoPast]
    BY <1>2 DEF DecideExpired, Drop
  <2>2. DOMAIN entries' = DOMAIN entries \ {h}
    BY <2>1
  <2>3. IsFiniteSet(DOMAIN entries)
    BY RouteCacheAssumption, FS_Subset DEF IInv
  <2>4. CacheBounded'
    <3>1. /\ Cardinality(DOMAIN entries') <= Cardinality(DOMAIN entries)
          /\ Cardinality(DOMAIN entries') \in Nat /\ Cardinality(DOMAIN entries) \in Nat
      BY <2>2, <2>3, FS_Subset, FS_CardinalityType
    <3> QED BY <3>1, RouteCacheAssumption DEF IInv, CacheBounded
  <2>5. \A k \in DOMAIN entries' : Good(entries'[k], past'[k])
    BY <2>1, <2>2 DEF IInv
  <2>6. past' \in [Hosts -> Past]
    BY <2>1, NoPastIsPast DEF IInv
  <2> QED BY <2>1, <2>2, <2>4, <2>5, <2>6 DEF IInv
<1>3. ASSUME NEW h \in Hosts, DecideRaceAgain(h) PROVE IInv'
  <2>1. /\ h \in DOMAIN entries
        /\ entries' = [entries EXCEPT ![h] = [entries[h] EXCEPT !.recheck = Interval]]
        /\ past' = [past EXCEPT ![h] = [past[h] EXCEPT !.raced = 0]]
    BY <1>3 DEF DecideRaceAgain
  <2> DEFINE e == [entries[h] EXCEPT !.recheck = Interval]
             p == [past[h] EXCEPT !.raced = 0]
  <2>2. Good(e, p)
    <3>1. Good(entries[h], past[h])
      BY <2>1 DEF IInv
    <3>2. e \in Entry /\ p \in Past
      BY <3>1, RouteCacheAssumption DEF Good, Entry, Past
    <3> QED BY <3>1, <3>2, RouteCacheAssumption DEF Good, Entry, Past
  <2>3. DOMAIN entries' = DOMAIN entries
    BY <2>1
  <2>4. \A k \in DOMAIN entries' : Good(entries'[k], past'[k])
    <3> SUFFICES ASSUME NEW k \in DOMAIN entries PROVE Good(entries'[k], past'[k])
      BY <2>3
    <3>1. CASE k = h
      BY <3>1, <2>1, <2>2 DEF IInv
    <3>2. CASE k # h
      BY <3>2, <2>1 DEF IInv
    <3> QED BY <3>1, <3>2
  <2>5. past' \in [Hosts -> Past]
    BY <2>1, <2>2 DEF IInv, Good
  <2>6. entries' = [k \in DOMAIN entries' |-> entries'[k]]
    BY <2>1
  <2> QED BY <2>3, <2>4, <2>5, <2>6 DEF IInv, CacheBounded
<1>4. ASSUME NEW h \in Hosts, NEW route \in Routes, RecordFailed(h, route) PROVE IInv'
  BY <1>4, BookedIsGood, KeepsFailed, BookKeeps DEF RecordFailed
<1>5. ASSUME NEW h \in Hosts, NEW route \in Routes, RecordNeutral(h, route) PROVE IInv'
  BY <1>5, BookedIsGood, KeepsNeutral, BookKeeps DEF RecordNeutral
<1>6. ASSUME NEW h \in Hosts, NEW route \in Routes, NEW fr \in FirstResponses,
             RecordResponded(h, route, fr)
      PROVE  IInv'
  BY <1>6, BookedIsGood, KeepsResponded, BookKeeps DEF RecordResponded
<1>7. ASSUME Tick PROVE IInv'
  <2>1. /\ DOMAIN entries' = DOMAIN entries
        /\ entries' = [k \in DOMAIN entries' |-> entries'[k]]
        /\ \A k \in DOMAIN entries : entries'[k] = Aged(entries[k])
        /\ past' = [k \in Hosts |-> NoteAged(past[k])]
    BY <1>7 DEF Tick
  <2>2. \A k \in DOMAIN entries' : Good(entries'[k], past'[k])
    BY <2>1, KeepsAged DEF IInv
  <2>3. \A k \in Hosts : NoteAged(past[k]) \in Past
    BY RouteCacheAssumption DEF IInv, NoteAged, Past
  <2>4. past' \in [Hosts -> Past]
    BY <2>1, <2>3
  <2> QED BY <2>1, <2>2, <2>4 DEF IInv, CacheBounded
<1> QED
  BY <1>1, <1>2, <1>3, <1>4, <1>5, <1>6, <1>7 DEF Next, DecideMiss, DecideCached

THEOREM Invariance == Spec => []IInv
<1> QED BY Initially, Inductive, PTL DEF Spec

-----------------------------------------------------------------------------
(* The type invariant. *)
THEOREM Typing == Spec => []TypeOK
<1>1. IInv => TypeOK
  BY DEF IInv, TypeOK, Good
<1> QED BY <1>1, Invariance, PTL

(* The cache is bounded by MAX_ENTRIES for any limit and any set of hosts. *)
THEOREM BoundHolds == Spec => []CacheBounded
<1>1. IInv => CacheBounded
  BY DEF IInv
<1> QED BY <1>1, Invariance, PTL

(* A route that failed never keeps one that answered since out. *)
THEOREM FailedYields == Spec => []FailedRouteYields
<1>1. IInv => FailedRouteYields
  BY DEF IInv, Good, FailedRouteYields
<1> QED BY <1>1, Invariance, PTL

(* A direct route with a failure on its account is always due for comparison
   and has no baseline. *)
THEOREM FailingDirectHolds == Spec => []FailingDirectIsCompared
<1>1. IInv => FailingDirectIsCompared
  BY DEF IInv, Good, FailingDirectIsCompared
<1> QED BY <1>1, Invariance, PTL

(* A slow entry is raced again once per interval at most: an entry that is due
   has no ticks left on its own clock, so by IInv all of them are on the
   other. *)
THEOREM RaceIsRare == Spec => SlowRaceIsRare
<1>1. ASSUME IInv, [Next]_vars
      PROVE  \A h \in Hosts : DecideRaceAgain(h) => past[h].raced = Interval
  <2> SUFFICES ASSUME NEW h \in Hosts, DecideRaceAgain(h)
               PROVE  past[h].raced = Interval
    OBVIOUS
  <2>1. Good(entries[h], past[h]) /\ entries[h].recheck = 0
    BY <1>1 DEF IInv, DecideRaceAgain, Due
  <2>2. past[h].raced \in 0..Interval
    BY <2>1 DEF Good, Past
  <2> QED BY <2>1, <2>2, RouteCacheAssumption DEF Good
<1> QED BY <1>1, Invariance, PTL DEF Spec, SlowRaceIsRare
=============================================================================
