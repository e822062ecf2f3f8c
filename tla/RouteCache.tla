----------------------------- MODULE RouteCache -----------------------------
(***************************************************************************)
(* The route cache of the inbound data plane (proxy/route.rs): for a host, *)
(* the route that last answered.  Every connection task calls decide once  *)
(* and record when it learns how a route did, each under the cache's lock, *)
(* in whatever order the connections run.                                  *)
(* An Instant is the number of ticks left until it; a first-response time  *)
(* is one of a small set; that of a route never measured, or measured and  *)
(* then failed, is 0 (Duration::ZERO).                                     *)
(***************************************************************************)
EXTENDS Naturals, FiniteSets

CONSTANTS
  Hosts,
  FirstResponses,  \* the first-response times that occur
  RaceThreshold,   \* RACE_THRESHOLD
  Interval,        \* SLOW_RECHECK_INTERVAL, in ticks
  TTL,             \* ROUTE_TTL, in ticks
  MaxEntries,      \* MAX_ENTRIES
  NONE

ASSUME RouteCacheAssumption ==
  /\ IsFiniteSet(Hosts)
  /\ FirstResponses \subseteq Nat \ {0} /\ RaceThreshold \in Nat
  /\ Interval \in Nat \ {0} /\ TTL \in Nat \ {0} /\ MaxEntries \in Nat \ {0}
  /\ NONE \notin {"Direct", "Proxy"}

VARIABLES
  entries,  \* the cached hosts
  past      \* history of each host since it was last inserted

vars == <<entries, past>>

Routes == {"Direct", "Proxy"}
DirectFailsToSwitch == 2

Entry ==
  [route: Routes, last_fr: FirstResponses \cup {0}, slow: BOOLEAN,
   recheck: 0..Interval, direct_fails: 0..(DirectFailsToSwitch - 1), ttl: 0..TTL]

(* failed: the routes whose last result was a failure.  answered: the route
   of the last response, NONE after a failure.  raced: ticks since the entry
   was last raced again, Interval at most and after a failure. *)
Past ==
  [failed: SUBSET Routes, answered: Routes \cup {NONE}, raced: 0..Interval]

NoPast == [failed |-> {}, answered |-> NONE, raced |-> Interval]

TypeOK ==
  /\ DOMAIN entries \subseteq Hosts
  /\ \A h \in DOMAIN entries : entries[h] \in Entry
  /\ past \in [Hosts -> Past]

Init ==
  /\ entries = [h \in {} |-> NONE]
  /\ past = [h \in Hosts |-> NoPast]

Put(m, h, e) == [k \in DOMAIN m \cup {h} |-> IF k = h THEN e ELSE m[k]]
Drop(m, h) == [k \in DOMAIN m \ {h} |-> m[k]]

-----------------------------------------------------------------------------
(* decide: what a new connection to h is told. *)

DecideMiss(h) ==
  /\ h \notin DOMAIN entries
  /\ UNCHANGED vars

DecideExpired(h) ==
  /\ h \in DOMAIN entries /\ entries[h].ttl = 0
  /\ entries' = Drop(entries, h)
  /\ past' = [past EXCEPT ![h] = NoPast]

Due(h) == entries[h].slow /\ entries[h].recheck = 0

(* Mutation: racing again does not restart the limit. *)
DecideRaceAgain_NoLimit(h) ==
  /\ h \in DOMAIN entries /\ entries[h].ttl > 0 /\ Due(h)
  /\ past' = [past EXCEPT ![h].raced = 0]
  /\ UNCHANGED entries

DecideRaceAgain(h) ==
  /\ h \in DOMAIN entries /\ entries[h].ttl > 0 /\ Due(h)
  /\ entries' = [entries EXCEPT ![h].recheck = Interval]
  /\ past' = [past EXCEPT ![h].raced = 0]

DecideCached(h, route) ==
  /\ h \in DOMAIN entries /\ entries[h].ttl > 0 /\ ~Due(h)
  /\ route = entries[h].route
  /\ UNCHANGED vars

-----------------------------------------------------------------------------
(* record. *)

(* At the limit the expired entries go; if that is not enough, all of them. *)
(* Mutation: the limit is checked one entry late. *)
Swept_OffByOne ==
  LET live == {h \in DOMAIN entries : entries[h].ttl > 0}
  IN IF Cardinality(DOMAIN entries) <= MaxEntries THEN DOMAIN entries
     ELSE IF Cardinality(live) <= MaxEntries THEN live ELSE {}

Swept ==
  LET live == {h \in DOMAIN entries : entries[h].ttl > 0}
  IN IF Cardinality(DOMAIN entries) < MaxEntries THEN DOMAIN entries
     ELSE IF Cardinality(live) < MaxEntries THEN live ELSE {}

NewEntry(route) ==
  [route |-> route, last_fr |-> 0, slow |-> FALSE, recheck |-> 0,
   direct_fails |-> 0, ttl |-> TTL]

(* Mutation: the failed route keeps its old time as the baseline. *)
FailedOn_KeepsBaseline(e, route) ==
  IF route = "Direct" /\ e.direct_fails + 1 >= DirectFailsToSwitch
  THEN [e EXCEPT !.recheck = 0, !.route = "Proxy", !.direct_fails = 0,
                 !.slow = FALSE, !.ttl = TTL]
  ELSE [e EXCEPT !.recheck = 0, !.slow = TRUE, !.ttl = TTL,
                 !.direct_fails = IF route = "Direct" THEN @ + 1 ELSE @]

(* Mutation: the switch to the proxy leaves the count where it is. *)
FailedOn_KeepsCount(e, route) ==
  LET failed == [e EXCEPT !.last_fr = IF e.route = route THEN 0 ELSE @,
                          !.recheck = 0, !.ttl = TTL]
  IN IF route = "Direct" /\ e.direct_fails + 1 >= DirectFailsToSwitch
     THEN [failed EXCEPT !.route = "Proxy", !.slow = FALSE, !.direct_fails = @ + 1]
     ELSE [failed EXCEPT !.slow = TRUE,
                         !.direct_fails = IF route = "Direct" THEN @ + 1 ELSE @]

FailedOn(e, route) ==
  LET failed == [e EXCEPT !.last_fr = IF e.route = route THEN 0 ELSE @,
                          !.recheck = 0, !.ttl = TTL]
  IN IF route = "Direct" /\ e.direct_fails + 1 >= DirectFailsToSwitch
     THEN [failed EXCEPT !.route = "Proxy", !.direct_fails = 0, !.slow = FALSE]
     ELSE [failed EXCEPT !.slow = TRUE,
                         !.direct_fails = IF route = "Direct" THEN @ + 1 ELSE @]

NeutralOn(e) == [e EXCEPT !.ttl = TTL]

(* A route answered.  Another one than the cached takes over only without a
   baseline to protect or when more than twice as fast. *)
RespondedOn(e, route, fr) ==
  IF e.route = route \/ e.last_fr = 0 \/ fr * 2 < e.last_fr
  THEN [e EXCEPT !.route = route, !.last_fr = fr, !.slow = fr > RaceThreshold,
                 !.direct_fails = 0, !.ttl = TTL]
  ELSE [e EXCEPT !.slow = e.last_fr > RaceThreshold, !.recheck = Interval, !.ttl = TTL]

Booked(h, route) == IF h \in Swept THEN entries[h] ELSE NewEntry(route)
PastOf(h) == IF h \in Swept THEN past[h] ELSE NoPast

Book(h, e, p) ==
  /\ entries' = Put([k \in Swept |-> entries[k]], h, e)
  /\ past' = [k \in Hosts |-> IF k = h THEN p ELSE IF k \in Swept THEN past[k] ELSE NoPast]

NoteFailed(p, route) ==
  [failed |-> p.failed \cup {route}, answered |-> NONE, raced |-> Interval]

NoteResponded(p, route) ==
  [failed |-> p.failed \ {route}, answered |-> route, raced |-> p.raced]

RecordFailed(h, route) ==
  Book(h, FailedOn(Booked(h, route), route), NoteFailed(PastOf(h), route))

RecordNeutral(h, route) == Book(h, NeutralOn(Booked(h, route)), PastOf(h))

RecordResponded(h, route, fr) ==
  Book(h, RespondedOn(Booked(h, route), route, fr), NoteResponded(PastOf(h), route))

Aged(e) ==
  [e EXCEPT !.ttl = IF @ > 0 THEN @ - 1 ELSE 0,
            !.recheck = IF @ > 0 THEN @ - 1 ELSE 0]
NoteAged(p) == [p EXCEPT !.raced = IF @ < Interval THEN @ + 1 ELSE Interval]

Tick ==
  /\ entries' = [h \in DOMAIN entries |-> Aged(entries[h])]
  /\ past' = [h \in Hosts |-> NoteAged(past[h])]

Next ==
  \/ \E h \in Hosts :
       \/ DecideMiss(h) \/ DecideExpired(h) \/ DecideRaceAgain(h)
       \/ \E route \in Routes : \/ DecideCached(h, route)
                                \/ RecordFailed(h, route) \/ RecordNeutral(h, route)
                                \/ \E fr \in FirstResponses : RecordResponded(h, route, fr)
  \/ Tick

Spec == Init /\ [][Next]_vars

-----------------------------------------------------------------------------
(* The cache never holds more than MAX_ENTRIES hosts, however many hosts the
   connections book and however few of the entries have expired. *)
CacheBounded == Cardinality(DOMAIN entries) <= MaxEntries

(* A route that answered is never kept out by one that has failed since it
   last answered: hysteresis protects a measured route only, so the fallback
   that saved a request is the route of the next one. *)
FailedRouteYields ==
  \A h \in DOMAIN entries :
    past[h].answered # NONE => entries[h].route \notin past[h].failed

(* A direct route with a failure on its account has no baseline left and is
   compared at the next chance: nothing keeps a host on it. *)
FailingDirectIsCompared ==
  \A h \in DOMAIN entries :
    entries[h].route = "Direct" /\ entries[h].direct_fails > 0
      => entries[h].last_fr = 0 /\ entries[h].slow

(* A cached host that stays slow is raced again at most once per interval,
   however many connections ask; only a failure lifts the limit. *)
SlowRaceIsRare ==
  [][\A h \in Hosts : DecideRaceAgain(h) => past[h].raced = Interval]_vars
=============================================================================
