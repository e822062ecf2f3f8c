-------------------------- MODULE ConnectionProofs --------------------------
(***************************************************************************)
(* The safety of Connection, for any connections, nodes, targets and number *)
(* of attempts.  What a connection knows of itself (Sound) does not depend  *)
(* on the cache nor on other connections; only the pin is shared.           *)
(***************************************************************************)
EXTENDS Connection, FiniteSetTheorems, SequenceTheorems, TLAPS

(* Nothing is chosen yet. *)
Choosing == {"idle", "policy", "decide", "dial_cached", "dial_policy", "chain",
             "dial_last", "race"}

(* Which upstream is chosen, and that a policy route and a cached route exclude
   each other. *)
Chosen(k) ==
  /\ k.step # "idle" => k.host \in Hosts
  /\ k.step \in Choosing => k.via = NONE
  /\ k.step \in {"relay", "reply", "stream"} => k.via # NONE
  /\ k.direct => k.class # "name"
  /\ k.step = "dial_cached" \/ (k.step = "pick" /\ k.via # NONE) => ~k.direct

(* What was sent to whom. *)
Sent(k) ==
  /\ k.step = "race" => k.racing
  /\ k.racing => RaceSafe(k)
  /\ k.once /\ ~k.tunnel => /\ k.got \subseteq {k.via}
                            /\ k.via = NONE => k.got = {}

(* Whoever may still win has not been debited. *)
Debts(k) ==
  /\ k.step \in {"policy", "decide", "dial_cached", "pick", "dial_policy"} => k.debits = {}
  /\ k.step = "chain" =>
       /\ \A i \in DOMAIN k.cand : k.cand[i] \notin k.debits
       /\ \A i, j \in DOMAIN k.cand : k.cand[i] = k.cand[j] => i = j
  /\ k.step = "race" =>
       \A u \in Upstreams : k.side[u] \in {"waiting", "dialing", "live"} => u \notin k.debits
  /\ k.step \in {"relay", "reply", "stream"} => k.via \notin k.debits

(* What was earned, and what was booked on the route. *)
Earned(k) ==
  /\ k.step # "stream" => k.credits = {}
  /\ k.credits \subseteq {k.via} \ {"direct"}
  /\ k.step \in {"reply", "stream"} /\ k.eligible => k.answered = RouteOf(k.via)
  /\ k.step # "idle" => k.streak <= 1
  /\ k.step \in {"policy", "decide", "dial_cached"} => k.streak = 0

(* What a connection pinned all its life keeps away from. *)
Held(k) ==
  k.step # "idle" /\ ~k.free
    => /\ ~k.direct /\ ~k.racing /\ k.via # "direct"
       /\ k.step \notin {"dial_cached", "dial_policy", "dial_last", "race"}

Sound(k) == Chosen(k) /\ Sent(k) /\ Debts(k) /\ Earned(k) /\ Held(k)

PinSeen(k, p) == k.step # "idle" /\ ~k.free => p

(* All of it, with the pin at p. *)
Good(k, p) == k \in State /\ Sound(k) /\ PinSeen(k, p)

IInv ==
  /\ pinned \in BOOLEAN
  /\ conn \in [Conns -> State]
  /\ \A c \in Conns : Good(conn[c], pinned)

-----------------------------------------------------------------------------
LEMMA Names == "direct" \in Upstreams /\ Tags \subseteq Upstreams /\ NONE \notin Upstreams
  BY ConnectionAssumption DEF Upstreams

(* A task between two requests, with what the last one left. *)
LEMMA IdleIsGood ==
  ASSUME NEW p
  PROVE  /\ Good(Idle, p)
         /\ \A n \in 0..2 : Good([Idle EXCEPT !.streak = n], p)
<1>1. Idle \in State
  <2>1. <<>> \in Seq(Tags)
    OBVIOUS
  <2>2. [u \in Upstreams |-> "none"] \in
          [Upstreams -> {"none", "waiting", "dialing", "live", "out"}]
    OBVIOUS
  <2> QED
    BY <2>1, <2>2 DEF Idle, State, Steps
<1>2. Sound(Idle) /\ PinSeen(Idle, p)
  BY DEF Idle, Sound, Chosen, Sent, Debts, Earned, Held, Choosing, PinSeen
<1>3. ASSUME NEW n \in 0..2
      PROVE  [Idle EXCEPT !.streak = n] \in State
  BY <1>1 DEF State
<1>4. ASSUME NEW n \in 0..2
      PROVE  Sound([Idle EXCEPT !.streak = n]) /\ PinSeen([Idle EXCEPT !.streak = n], p)
  BY DEF Idle, Sound, Chosen, Sent, Debts, Earned, Held, Choosing, PinSeen
<1> QED
  BY <1>1, <1>2, <1>3, <1>4 DEF Good

(* One connection moves, the pin stays. *)
LEMMA Moves ==
  ASSUME IInv, NEW c \in Conns, NEW k, Good(k, pinned), Becomes(c, k), UNCHANGED pinned
  PROVE  IInv'
  BY DEF IInv, Good, Becomes

LEMMA Initially == Init => IInv
  BY IdleIsGood DEF Init, IInv, Good

-----------------------------------------------------------------------------
(* What each action makes of a connection, from policy to the candidates. *)

LEMMA Accepts ==
  ASSUME NEW class \in Classes, NEW host \in Hosts, NEW tunnel \in BOOLEAN,
         NEW once \in BOOLEAN, pinned \in BOOLEAN
  PROVE  Good(Request(class, host, tunnel, once), pinned)
<1> DEFINE K(s, f) ==
             [Idle EXCEPT !.step = "policy", !.class = class, !.host = host,
                          !.tunnel = tunnel, !.once = once, !.sent = s, !.free = f]
           k == K(~tunnel, ~pinned)
<1>1. ASSUME NEW s \in BOOLEAN, NEW f \in BOOLEAN
      PROVE  K(s, f) \in State
  BY IdleIsGood DEF Good, State, Steps
<1>a. k \in State
  <2> HIDE DEF K
  <2> QED BY <1>1
<1>2. /\ k.step = "policy" /\ ~k.direct /\ ~k.racing /\ k.via = NONE
      /\ k.got = {} /\ k.debits = {} /\ k.credits = {} /\ k.streak = 0
      /\ k.host = host
  BY DEF Idle
<1>3. Sound(k)
  BY <1>2, ConnectionAssumption DEF Sound, Chosen, Sent, Debts, Earned, Held, Choosing
<1>4. k.free = ~pinned
  BY DEF Idle
<1>5. PinSeen(k, pinned)
  BY <1>4 DEF PinSeen
<1> QED
  BY <1>a, <1>3, <1>5 DEF Good, Request

(* The bookings keep the types. *)
LEMMA FailedTyped ==
  ASSUME NEW k \in State, k.streak <= 1, NEW route
  PROVE  Failed(k, route) \in State
<1> DEFINE s == IF k.eligible /\ route = "Direct" THEN k.streak + 1 ELSE k.streak
<1>1. s \in 0..2
  BY DEF State
<1>2. Failed(k, route) = [k EXCEPT !.streak = s]
  BY DEF Failed
<1> HIDE DEF s
<1>3. [k EXCEPT !.streak = s] \in State
  BY <1>1 DEF State
<1> QED
  BY <1>2, <1>3

LEMMA AnsweredTyped ==
  ASSUME NEW k \in State, NEW route \in {"Direct", "Proxy"}
  PROVE  Answered(k, route) \in State
<1> DEFINE s == IF route = "Direct" THEN 0 ELSE k.streak
<1>1. s \in 0..2
  BY DEF State
<1>2. Answered(k, route) = [k EXCEPT !.answered = route, !.streak = s]
  BY DEF Answered
<1> HIDE DEF s
<1>3. [k EXCEPT !.answered = route, !.streak = s] \in State
  BY <1>1 DEF State
<1> QED
  BY <1>2, <1>3

LEMMA LedgersTyped ==
  ASSUME NEW k \in State, NEW u \in Upstreams
  PROVE  Debit(k, u) \in State /\ Credit(k, u) \in State
<1>1. CASE u = "direct"
  BY <1>1 DEF Debit, Credit
<1>2. CASE u # "direct"
  BY <1>2 DEF Debit, Credit, Upstreams, State
<1> QED
  BY <1>1, <1>2

LEMMA Judges ==
  ASSUME NEW p \in BOOLEAN, NEW k, Good(k, p),
         k.step = "policy", NEW direct \in BOOLEAN,
         direct => ~p /\ k.class \in {"local", "china"}
  PROVE  Good([k EXCEPT !.step = "decide", !.direct = direct], p)
<1> DEFINE n == [k EXCEPT !.step = "decide", !.direct = direct]
<1>1. n \in State
  BY DEF Good, State, Steps
<1>2. Sound(n) /\ PinSeen(n, p)
  BY ConnectionAssumption
  DEF Good, State, Sound, Chosen, Sent, Debts, Earned, Held, Choosing, PinSeen, RaceSafe
<1> QED
  BY <1>1, <1>2 DEF Good

LEMMA Bypasses ==
  ASSUME NEW p \in BOOLEAN, NEW k, Good(k, p),
         k.step = "decide"
  PROVE  Good([k EXCEPT !.step = "pick"], p)
<1> DEFINE n == [k EXCEPT !.step = "pick"]
<1>1. n \in State
  BY DEF Good, State, Steps
<1>2. Sound(n) /\ PinSeen(n, p)
  BY ConnectionAssumption
  DEF Good, State, Sound, Chosen, Sent, Debts, Earned, Held, Choosing, PinSeen, RaceSafe
<1> QED
  BY <1>1, <1>2 DEF Good

LEMMA DecidesRace ==
  ASSUME NEW p \in BOOLEAN, NEW k, Good(k, p),
         k.step = "decide", ~p
  PROVE  Good([k EXCEPT !.eligible = TRUE, !.step = "pick", !.racing = RaceSafe(k)], p)
<1> DEFINE n == [k EXCEPT !.eligible = TRUE, !.step = "pick", !.racing = RaceSafe(k)]
<1>1. n \in State
  BY DEF Good, State, Steps, RaceSafe
<1>2. Sound(n) /\ PinSeen(n, p)
  BY ConnectionAssumption
  DEF Good, State, Sound, Chosen, Sent, Debts, Earned, Held, Choosing, PinSeen, RaceSafe
<1> QED
  BY <1>1, <1>2 DEF Good

LEMMA DecidesProxy ==
  ASSUME NEW p \in BOOLEAN, NEW k, Good(k, p),
         k.step = "decide"
  PROVE  Good([k EXCEPT !.eligible = TRUE, !.step = "pick"], p)
<1> DEFINE n == [k EXCEPT !.eligible = TRUE, !.step = "pick"]
<1>1. n \in State
  BY DEF Good, State, Steps
<1>2. Sound(n) /\ PinSeen(n, p)
  BY ConnectionAssumption
  DEF Good, State, Sound, Chosen, Sent, Debts, Earned, Held, Choosing, PinSeen, RaceSafe
<1> QED
  BY <1>1, <1>2 DEF Good

LEMMA DecidesDirect ==
  ASSUME NEW p \in BOOLEAN, NEW k, Good(k, p),
         k.step = "decide", ~p, k.class = "name"
  PROVE  Good([k EXCEPT !.eligible = TRUE, !.step = "dial_cached"], p)
<1> DEFINE n == [k EXCEPT !.eligible = TRUE, !.step = "dial_cached"]
<1>1. n \in State
  BY DEF Good, State, Steps
<1>2. Sound(n) /\ PinSeen(n, p)
  BY ConnectionAssumption
  DEF Good, State, Sound, Chosen, Sent, Debts, Earned, Held, Choosing, PinSeen, RaceSafe
<1> QED
  BY <1>1, <1>2 DEF Good

(* The request goes to its upstream. *)
LEMMA Uses ==
  ASSUME NEW p \in BOOLEAN, NEW k, Good(k, p),
         k.via = NONE, k.step \in {"dial_policy", "chain", "dial_last"},
         NEW u \in Upstreams, u \notin k.debits, u = "direct" => k.free
  PROVE  Good(Use(k, u), p)
<1> DEFINE n == Use(k, u)
<1>1. n \in State
  BY Names DEF Good, State, Steps, Use
<1>2. Sound(n) /\ PinSeen(n, p)
  BY Names, ConnectionAssumption
  DEF Good, State, Sound, Chosen, Sent, Debts, Earned, Held, Choosing, PinSeen, RaceSafe, Use, Upstreams
<1> QED
  BY <1>1, <1>2 DEF Good

LEMMA UsesCached ==
  ASSUME NEW p \in BOOLEAN, NEW k, Good(k, p),
         k.step = "dial_cached"
  PROVE  Good([Use(k, "direct") EXCEPT !.step = "pick"], p)
<1> DEFINE n == [Use(k, "direct") EXCEPT !.step = "pick"]
<1>1. n \in State
  BY Names DEF Good, State, Steps, Use
<1>2. Sound(n) /\ PinSeen(n, p)
  BY Names, ConnectionAssumption
  DEF Good, State, Sound, Chosen, Sent, Debts, Earned, Held, Choosing, PinSeen, RaceSafe, Use, Upstreams
<1> QED
  BY <1>1, <1>2 DEF Good

LEMMA CachedFails ==
  ASSUME NEW p \in BOOLEAN, NEW k, Good(k, p),
         k.step = "dial_cached"
  PROVE  Good(Failed([k EXCEPT !.step = "pick"], "Direct"), p)
<1> DEFINE n == Failed([k EXCEPT !.step = "pick"], "Direct")
<1>1. n \in State
  <2>1. [k EXCEPT !.step = "pick"] \in State /\ [k EXCEPT !.step = "pick"].streak <= 1
    BY DEF Good, State, Steps, Sound, Earned
  <2> QED BY <2>1, FailedTyped
<1>2. Sound(n) /\ PinSeen(n, p)
  BY ConnectionAssumption
  DEF Good, State, Sound, Chosen, Sent, Debts, Earned, Held, Choosing, PinSeen, RaceSafe, Failed
<1> QED
  BY <1>1, <1>2 DEF Good

LEMMA FailsLast ==
  ASSUME NEW p \in BOOLEAN, NEW k, Good(k, p),
         k.step = "chain", ~p
  PROVE  Good([Failed(k, "Proxy") EXCEPT !.step = "dial_last"], p)
<1> DEFINE n == [Failed(k, "Proxy") EXCEPT !.step = "dial_last"]
<1>1. n \in State
  BY DEF Good, State, Steps, Failed, Sound, Earned
<1>2. Sound(n) /\ PinSeen(n, p)
  BY ConnectionAssumption
  DEF Good, State, Sound, Chosen, Sent, Debts, Earned, Held, Choosing, PinSeen, RaceSafe, Failed
<1> QED
  BY <1>1, <1>2 DEF Good

(* The candidates are distinct nodes. *)
LEMMA CandidatesDistinct ==
  ASSUME NEW cand \in Candidates
  PROVE  /\ cand \in Seq(Tags)
         /\ \A i, j \in DOMAIN cand : cand[i] = cand[j] => i = j
<1>1. PICK n \in 0..Attempts : cand \in [1..n -> Tags]
  BY DEF Candidates
<1>2. n \in Nat
  BY <1>1, ConnectionAssumption
<1>3. cand \in Seq(Tags)
  BY <1>1, <1>2, SeqDef
<1> QED
  BY <1>3 DEF Candidates

LEMMA PicksPolicy ==
  ASSUME NEW p \in BOOLEAN, NEW k, Good(k, p),
         NEW cand \in Candidates, k.step = "pick", k.direct
  PROVE  Good([k EXCEPT !.cand = cand, !.step = "dial_policy"], p)
<1> DEFINE n == [k EXCEPT !.cand = cand, !.step = "dial_policy"]
<1>1. n \in State
  BY CandidatesDistinct DEF Good, State, Steps
<1>2. Sound(n) /\ PinSeen(n, p)
  BY ConnectionAssumption
  DEF Good, State, Sound, Chosen, Sent, Debts, Earned, Held, Choosing, PinSeen, RaceSafe
<1> QED
  BY <1>1, <1>2 DEF Good

LEMMA PicksCached ==
  ASSUME NEW p \in BOOLEAN, NEW k, Good(k, p),
         NEW cand \in Candidates, k.step = "pick", ~k.direct, k.via # NONE
  PROVE  Good([k EXCEPT !.cand = cand, !.step = "relay"], p)
<1> DEFINE n == [k EXCEPT !.cand = cand, !.step = "relay"]
<1>1. n \in State
  BY CandidatesDistinct DEF Good, State, Steps
<1>2. Sound(n) /\ PinSeen(n, p)
  BY ConnectionAssumption
  DEF Good, State, Sound, Chosen, Sent, Debts, Earned, Held, Choosing, PinSeen, RaceSafe
<1> QED
  BY <1>1, <1>2 DEF Good

LEMMA PicksRace ==
  ASSUME NEW p \in BOOLEAN, NEW k, Good(k, p),
         NEW cand \in Candidates, k.step = "pick", k.racing, k.via = NONE,
         NEW side \in [Upstreams -> {"none", "waiting", "dialing", "live", "out"}]
  PROVE  Good([k EXCEPT !.cand = cand, !.step = "race", !.side = side], p)
<1> DEFINE n == [k EXCEPT !.cand = cand, !.step = "race", !.side = side]
<1>1. n \in State
  BY CandidatesDistinct DEF Good, State, Steps
<1>2. Sound(n) /\ PinSeen(n, p)
  BY ConnectionAssumption
  DEF Good, State, Sound, Chosen, Sent, Debts, Earned, Held, Choosing, PinSeen, RaceSafe
<1> QED
  BY <1>1, <1>2 DEF Good

LEMMA PicksChain ==
  ASSUME NEW p \in BOOLEAN, NEW k, Good(k, p),
         NEW cand \in Candidates, k.step = "pick", k.via = NONE
  PROVE  Good([k EXCEPT !.cand = cand, !.step = "chain"], p)
<1> DEFINE n == [k EXCEPT !.cand = cand, !.step = "chain"]
<1>1. n \in State
  BY CandidatesDistinct DEF Good, State, Steps
<1>2. Sound(n) /\ PinSeen(n, p)
  BY CandidatesDistinct, ConnectionAssumption
  DEF Good, State, Sound, Chosen, Sent, Debts, Earned, Held, Choosing, PinSeen, RaceSafe
<1> QED
  BY <1>1, <1>2 DEF Good

LEMMA FirstBytes ==
  ASSUME NEW p \in BOOLEAN, NEW k, Good(k, p),
         k.step = "relay", ~k.eligible
  PROVE  Good([k EXCEPT !.step = "reply"], p)
<1> DEFINE n == [k EXCEPT !.step = "reply"]
<1>1. n \in State
  BY DEF Good, State, Steps
<1>2. Sound(n) /\ PinSeen(n, p)
  BY ConnectionAssumption
  DEF Good, State, Sound, Chosen, Sent, Debts, Earned, Held, Choosing, PinSeen, RaceSafe
<1> QED
  BY <1>1, <1>2 DEF Good

LEMMA FirstBytesBooked ==
  ASSUME NEW p \in BOOLEAN, NEW k, Good(k, p),
         k.step = "relay", k.eligible
  PROVE  Good(Answered([k EXCEPT !.step = "reply"], RouteOf(k.via)), p)
<1> DEFINE n == Answered([k EXCEPT !.step = "reply"], RouteOf(k.via))
<1>1. n \in State
  <2>1. [k EXCEPT !.step = "reply"] \in State /\ RouteOf(k.via) \in {"Direct", "Proxy"}
    BY DEF Good, State, Steps, RouteOf
  <2> QED BY <2>1, AnsweredTyped
<1>2. Sound(n) /\ PinSeen(n, p)
  BY ConnectionAssumption
  DEF Good, State, Sound, Chosen, Sent, Debts, Earned, Held, Choosing, PinSeen, RaceSafe, Answered
<1> QED
  BY <1>1, <1>2 DEF Good

LEMMA Replies ==
  ASSUME NEW p \in BOOLEAN, NEW k, Good(k, p),
         k.step = "reply"
  PROVE  Good([Credit(k, k.via) EXCEPT !.step = "stream"], p)
<1> DEFINE n == [Credit(k, k.via) EXCEPT !.step = "stream"]
<1>1. n \in State
  BY DEF Good, State, Steps, Credit, Upstreams, Sound, Chosen
<1>2. Sound(n) /\ PinSeen(n, p)
  BY ConnectionAssumption
  DEF Good, State, Sound, Chosen, Sent, Debts, Earned, Held, Choosing, PinSeen, RaceSafe, Credit
<1> QED
  BY <1>1, <1>2 DEF Good

LEMMA Stalls ==
  ASSUME NEW p \in BOOLEAN, NEW k, Good(k, p),
         NEW b \in BOOLEAN
  PROVE  Good([k EXCEPT !.stuck = b], p)
<1> DEFINE n == [k EXCEPT !.stuck = b]
<1>1. n \in State
  BY DEF Good, State, Steps
<1>2. Sound(n) /\ PinSeen(n, p)
  BY ConnectionAssumption
  DEF Good, State, Sound, Chosen, Sent, Debts, Earned, Held, Choosing, PinSeen, RaceSafe, Use
<1> QED
  BY <1>1, <1>2 DEF Good

LEMMA Sends ==
  ASSUME NEW p \in BOOLEAN, NEW k, Good(k, p),
         k.step = "race", NEW us \in SUBSET Upstreams
  PROVE  Good([k EXCEPT !.sent = TRUE, !.got = @ \cup us], p)
<1> DEFINE n == [k EXCEPT !.sent = TRUE, !.got = @ \cup us]
<1>1. n \in State
  BY DEF Good, State, Steps
<1>2. Sound(n) /\ PinSeen(n, p)
  BY ConnectionAssumption
  DEF Good, State, Sound, Chosen, Sent, Debts, Earned, Held, Choosing, PinSeen, RaceSafe
<1> QED
  BY <1>1, <1>2 DEF Good

LEMMA Connects ==
  ASSUME NEW p \in BOOLEAN, NEW k, Good(k, p),
         k.step = "race", NEW u \in Upstreams, k.side[u] = "dialing"
  PROVE  Good([k EXCEPT !.side[u] = "live", !.got = IF k.sent THEN @ \cup {u} ELSE @], p)
<1> DEFINE n == [k EXCEPT !.side[u] = "live", !.got = IF k.sent THEN @ \cup {u} ELSE @]
<1>1. n \in State
  BY DEF Good, State, Steps
<1>2. Sound(n) /\ PinSeen(n, p)
  BY ConnectionAssumption
  DEF Good, State, Sound, Chosen, Sent, Debts, Earned, Held, Choosing, PinSeen, RaceSafe
<1> QED
  BY <1>1, <1>2 DEF Good

LEMMA DialFails ==
  ASSUME NEW p \in BOOLEAN, NEW k, Good(k, p),
         k.step = "race", NEW u \in Upstreams, k.side[u] = "dialing"
  PROVE  Good(Debit([k EXCEPT !.side[u] = "out"], u), p)
<1> DEFINE n == Debit([k EXCEPT !.side[u] = "out"], u)
<1>1. n \in State
  BY DEF Good, State, Steps, Debit, Upstreams
<1>2. Sound(n) /\ PinSeen(n, p)
  BY ConnectionAssumption
  DEF Good, State, Sound, Chosen, Sent, Debts, Earned, Held, Choosing, PinSeen, RaceSafe, Debit, Upstreams
<1> QED
  BY <1>1, <1>2 DEF Good

LEMMA GoesSilent ==
  ASSUME NEW p \in BOOLEAN, NEW k, Good(k, p),
         k.step = "race", NEW u \in Upstreams
  PROVE  Good([k EXCEPT !.side[u] = "out"], p)
<1> DEFINE n == [k EXCEPT !.side[u] = "out"]
<1>1. n \in State
  BY DEF Good, State, Steps
<1>2. Sound(n) /\ PinSeen(n, p)
  BY ConnectionAssumption
  DEF Good, State, Sound, Chosen, Sent, Debts, Earned, Held, Choosing, PinSeen, RaceSafe
<1> QED
  BY <1>1, <1>2 DEF Good

LEMMA Wins ==
  ASSUME NEW p \in BOOLEAN, NEW k, Good(k, p),
         k.step = "race", NEW u \in Upstreams, k.side[u] = "live"
  PROVE  Good(Credit(Answered([k EXCEPT !.step = "stream", !.via = u, !.got = @ \cup {u}],
                         RouteOf(u)), u), p)
<1> DEFINE n == Credit(Answered([k EXCEPT !.step = "stream", !.via = u, !.got = @ \cup {u}],
                         RouteOf(u)), u)
<1>1. n \in State
  <2> DEFINE m == [k EXCEPT !.step = "stream", !.via = u, !.got = @ \cup {u}]
  <2>1. m \in State /\ RouteOf(u) \in {"Direct", "Proxy"}
    BY DEF Good, State, Steps, RouteOf
  <2>2. Answered(m, RouteOf(u)) \in State
    BY <2>1, AnsweredTyped
  <2> QED BY <2>2, LedgersTyped
<1>2. Sound(n) /\ PinSeen(n, p)
  BY ConnectionAssumption
  DEF Good, State, Sound, Chosen, Sent, Debts, Earned, Held, Choosing, PinSeen, RaceSafe, Credit, Answered, RouteOf, Upstreams
<1> QED
  BY <1>1, <1>2 DEF Good

LEMMA SecondWaveStarts ==
  ASSUME NEW p \in BOOLEAN, NEW k, Good(k, p),
         k.step = "race"
  PROVE  Good([k EXCEPT !.side = SecondWave(k)], p)
<1> DEFINE n == [k EXCEPT !.side = SecondWave(k)]
<1>1. n \in State
  BY DEF Good, State, Steps, SecondWave
<1>2. Sound(n) /\ PinSeen(n, p)
  BY ConnectionAssumption
  DEF Good, State, Sound, Chosen, Sent, Debts, Earned, Held, Choosing, PinSeen, RaceSafe, SecondWave
<1> QED
  BY <1>1, <1>2 DEF Good

(* The next candidate, after a failed dial. *)
LEMMA NextCandidate ==
  ASSUME NEW p \in BOOLEAN, NEW k, Good(k, p), k.step = "chain", k.cand # <<>>
  PROVE  Good(Debit([k EXCEPT !.cand = Tail(k.cand)], Head(k.cand)), p)
<1> DEFINE n == [k EXCEPT !.cand = Tail(k.cand), !.debits = @ \cup {Head(k.cand)}]
<1>1. k \in State /\ Head(k.cand) \in Tags /\ Tail(k.cand) \in Seq(Tags)
  BY DEF Good, State
<1>2. Debit([k EXCEPT !.cand = Tail(k.cand)], Head(k.cand)) = n
  BY <1>1, ConnectionAssumption DEF Debit
<1>3. n \in State
  BY <1>1 DEF State
<1>4. /\ \A i \in DOMAIN n.cand : n.cand[i] \notin n.debits
      /\ \A i, j \in DOMAIN n.cand : n.cand[i] = n.cand[j] => i = j
  BY <1>1 DEF Good, State, Sound, Debts
<1>5. Sound(n) /\ PinSeen(n, p)
  BY <1>4, ConnectionAssumption
  DEF Good, State, Sound, Chosen, Sent, Debts, Earned, Held, Choosing, PinSeen, RaceSafe
<1> QED
  BY <1>2, <1>3, <1>5 DEF Good

LEMMA FirstByteFields ==
  ASSUME NEW k \in State
  PROVE  /\ [k EXCEPT !.step = "reply"].eligible = k.eligible
         /\ [k EXCEPT !.step = "reply"].via = k.via
  BY DEF State

(* The last booking leaves an idle task. *)
LEMMA EndsIdle ==
  ASSUME NEW p \in BOOLEAN, NEW k, Good(k, p), k.step # "idle", NEW route
  PROVE  Good([Idle EXCEPT !.streak = Failed(k, route).streak], p)
<1>1. k \in State /\ k.streak <= 1
  BY DEF Good, Sound, Earned
<1>2. Failed(k, route).streak \in 0..2
  BY <1>1, FailedTyped DEF State
<1> QED
  BY <1>2, IdleIsGood

(* The pin is set or lifted while the connection is at work. *)
LEMMA PinMoves ==
  ASSUME NEW p \in BOOLEAN, NEW k, Good(k, p), NEW q \in BOOLEAN
  PROVE  Good([k EXCEPT !.free = k.step # "idle" /\ (k.free \/ ~q)], q)
<1> DEFINE N(f) == [k EXCEPT !.free = f]
           n == N(k.step # "idle" /\ (k.free \/ ~q))
<1>1. \A f \in BOOLEAN : N(f) \in State
  BY DEF Good, State
<1>2. n \in State
  <2> HIDE DEF N
  <2> QED BY <1>1
<1>3. k.step # "idle" /\ ~n.free => q /\ ~k.free
  BY DEF Good, State
<1>4. Sound(n) /\ PinSeen(n, q)
  BY <1>3, ConnectionAssumption
  DEF Good, State, Sound, Chosen, Sent, Debts, Earned, Held, Choosing, PinSeen, RaceSafe
<1> QED
  BY <1>2, <1>4 DEF Good

-----------------------------------------------------------------------------
(* The actions. *)

LEMMA PolicyStep ==
  ASSUME IInv, NEW c \in Conns,
         Accept(c) \/ Policy(c) \/ Bypass(c) \/ Decide(c) \/ DialCached(c) \/ Pick(c)
  PROVE  IInv'
<1> DEFINE k == conn[c]
<1>1. pinned \in BOOLEAN /\ Good(k, pinned)
  BY DEF IInv
<1>2. CASE Accept(c)
  BY <1>2, <1>1, Accepts, Moves DEF Accept
<1>3. CASE Policy(c)
  BY <1>3, <1>1, Judges, Moves DEF Policy, At
<1>4. CASE Bypass(c)
  BY <1>4, <1>1, Bypasses, Moves DEF Bypass, At
<1>5. CASE Decide(c)
  <2> DEFINE e == [k EXCEPT !.eligible = TRUE]
  <2>1. k.step = "decide" /\ ~pinned /\ k.class = "name" /\ UNCHANGED pinned
    BY <1>5 DEF Decide, At
  <2>2. CASE Becomes(c, [e EXCEPT !.step = "pick", !.racing = RaceSafe(e)])
    <3>1. RaceSafe(e) = RaceSafe(k)
      BY <1>1 DEF RaceSafe, Good, State
    <3> QED BY <2>1, <2>2, <3>1, <1>1, DecidesRace, Moves
  <2>3. CASE Becomes(c, [e EXCEPT !.step = "pick"])
    BY <2>1, <2>3, <1>1, DecidesProxy, Moves
  <2>4. CASE Becomes(c, [e EXCEPT !.step = "dial_cached"])
    BY <2>1, <2>4, <1>1, DecidesDirect, Moves
  <2> QED
    BY <1>5, <2>2, <2>3, <2>4 DEF Decide
<1>6. CASE DialCached(c)
  BY <1>6, <1>1, UsesCached, CachedFails, Moves DEF DialCached, At
<1>7. CASE Pick(c)
  <2>1. PICK cand \in Candidates :
          LET n == [k EXCEPT !.cand = cand]
              first == {"direct"} \cup {cand[i] : i \in DOMAIN cand \cap {1}}
              later == {cand[i] : i \in DOMAIN cand \ {1}}
          IN Becomes(c,
               IF n.direct THEN [n EXCEPT !.step = "dial_policy"]
               ELSE IF n.via # NONE THEN [n EXCEPT !.step = "relay"]
               ELSE IF n.racing
               THEN [n EXCEPT !.step = "race",
                              !.side = [u \in Upstreams |-> IF u \in first THEN "dialing"
                                                            ELSE IF u \in later THEN "waiting"
                                                            ELSE "none"]]
               ELSE [n EXCEPT !.step = "chain"])
    BY <1>7 DEF Pick
  <2>2. k.step = "pick" /\ UNCHANGED pinned
    BY <1>7 DEF Pick, At
  <2> DEFINE n == [k EXCEPT !.cand = cand]
             first == {"direct"} \cup {cand[i] : i \in DOMAIN cand \cap {1}}
             later == {cand[i] : i \in DOMAIN cand \ {1}}
             side == [u \in Upstreams |-> IF u \in first THEN "dialing"
                                          ELSE IF u \in later THEN "waiting" ELSE "none"]
  <2>3. k \in State /\ n.direct = k.direct /\ n.via = k.via /\ n.racing = k.racing
    BY <1>1 DEF Good, State
  <2>4. CASE k.direct
    BY <2>1, <2>2, <2>3, <2>4, <1>1, PicksPolicy, Moves
  <2>5. CASE ~k.direct /\ k.via # NONE
    BY <2>1, <2>2, <2>3, <2>5, <1>1, PicksCached, Moves
  <2>6. CASE ~k.direct /\ k.via = NONE /\ k.racing
    <3>1. side \in [Upstreams -> {"none", "waiting", "dialing", "live", "out"}]
      OBVIOUS
    <3>2. Becomes(c, [n EXCEPT !.step = "race", !.side = side])
      BY <2>1, <2>3, <2>6
    <3> HIDE DEF side
    <3> QED BY <2>2, <2>6, <3>1, <3>2, <1>1, PicksRace, Moves
  <2>7. CASE ~k.direct /\ k.via = NONE /\ ~k.racing
    BY <2>1, <2>2, <2>3, <2>7, <1>1, PicksChain, Moves
  <2> QED BY <2>4, <2>5, <2>6, <2>7
<1> QED BY <1>2, <1>3, <1>4, <1>5, <1>6, <1>7

LEMMA SerialStep ==
  ASSUME IInv, NEW c \in Conns,
         DialPolicy(c) \/ DialCandidate(c) \/ LastResort(c) \/ DialLast(c)
  PROVE  IInv'
<1> DEFINE k == conn[c]
<1>1. pinned \in BOOLEAN /\ Good(k, pinned) /\ Good(Idle, pinned)
  BY IdleIsGood DEF IInv
<1>2. k.step \in {"dial_policy", "chain", "dial_last"} => k.via = NONE
  BY <1>1 DEF Good, Sound, Chosen, Choosing
<1>3. /\ k.step \in {"dial_policy", "dial_last"} => k.free
      /\ "direct" \in Upstreams /\ "direct" \notin k.debits
  BY <1>1, Names, ConnectionAssumption DEF Good, State, Sound, Held
<1>4. CASE DialPolicy(c)
  BY <1>4, <1>1, <1>2, <1>3, Uses, Moves DEF DialPolicy, At, Over
<1>5. CASE DialLast(c)
  BY <1>5, <1>1, <1>2, <1>3, Uses, Moves DEF DialLast, At, Over
<1>6. CASE DialCandidate(c)
  <2>1. k.step = "chain" /\ k.cand # <<>> /\ UNCHANGED pinned
    BY <1>6 DEF DialCandidate, At
  <2>2. /\ Head(k.cand) \in Upstreams /\ Head(k.cand) # "direct"
        /\ Head(k.cand) \notin k.debits
    BY <1>1, <2>1, ConnectionAssumption DEF Good, State, Sound, Debts, Upstreams
  <2>3. Good(Use(k, Head(k.cand)), pinned)
    BY <1>1, <1>2, <2>1, <2>2, Uses
  <2>4. Good(Debit([k EXCEPT !.cand = Tail(k.cand)], Head(k.cand)), pinned)
    BY <1>1, <2>1, NextCandidate
  <2> QED
    BY <1>6, <2>1, <2>3, <2>4, Moves DEF DialCandidate
<1>7. CASE LastResort(c)
  BY <1>7, <1>1, FailsLast, Moves DEF LastResort, At, Over
<1> QED BY <1>4, <1>5, <1>6, <1>7

LEMMA RelayStep ==
  ASSUME IInv, NEW c \in Conns,
         \/ NoAnswer(c) \/ EmptyAnswer(c) \/ FirstByte(c) \/ Reply(c)
         \/ StreamDies(c) \/ StreamEnds(c) \/ ClientLeaves(c) \/ Stall(c) \/ Unstall(c)
  PROVE  IInv'
<1> DEFINE k == conn[c]
<1>1. pinned \in BOOLEAN /\ Good(k, pinned) /\ Good(Idle, pinned)
  BY IdleIsGood DEF IInv
<1>2. ASSUME FailOver(c), k.step # "idle", UNCHANGED pinned
      PROVE  IInv'
  BY <1>1, <1>2, EndsIdle, Moves DEF FailOver
<1>3. CASE NoAnswer(c)
  BY <1>3, <1>2 DEF NoAnswer, At
<1>4. CASE EmptyAnswer(c)
  BY <1>4, <1>1, Moves DEF EmptyAnswer, Over
<1>5. CASE FirstByte(c)
  BY <1>5, <1>1, FirstBytes, FirstBytesBooked, FirstByteFields, Moves DEF FirstByte, At
<1>6. CASE Reply(c)
  BY <1>6, <1>1, Replies, Moves DEF Reply, At
<1>7. CASE StreamDies(c)
  BY <1>7, <1>2 DEF StreamDies
<1>8. CASE StreamEnds(c) \/ ClientLeaves(c)
  BY <1>8, <1>1, Moves DEF StreamEnds, ClientLeaves, Over
<1>9. CASE Stall(c) \/ Unstall(c)
  BY <1>9, <1>1, Stalls, Moves DEF Stall, Unstall
<1> QED BY <1>3, <1>4, <1>5, <1>6, <1>7, <1>8, <1>9

LEMMA RaceStep ==
  ASSUME IInv, NEW c \in Conns,
         \/ ClientSends(c) \/ NextWave(c) \/ AllDead(c)
         \/ \E u \in Upstreams : SideDials(c, u) \/ SideSilent(c, u) \/ SideAnswers(c, u)
  PROVE  IInv'
<1> DEFINE k == conn[c]
<1>1. pinned \in BOOLEAN /\ Good(k, pinned) /\ Good(Idle, pinned)
  BY IdleIsGood DEF IInv
<1>2. CASE ClientSends(c)
  <2>1. {u \in Upstreams : conn[c].side[u] = "live"} \in SUBSET Upstreams
    OBVIOUS
  <2> QED
    BY <1>2, <1>1, <2>1, Sends, Moves DEF ClientSends, At
<1>3. CASE NextWave(c)
  BY <1>3, <1>1, SecondWaveStarts, Moves DEF NextWave, At
<1>4. CASE AllDead(c)
  BY <1>4, <1>1, Moves DEF AllDead, Over
<1>5. ASSUME NEW u \in Upstreams, SideDials(c, u)
      PROVE  IInv'
  BY <1>5, <1>1, Connects, DialFails, Moves DEF SideDials, InSide, At
<1>6. ASSUME NEW u \in Upstreams, SideSilent(c, u)
      PROVE  IInv'
  BY <1>6, <1>1, GoesSilent, Moves DEF SideSilent, InSide, At
<1>7. ASSUME NEW u \in Upstreams, SideAnswers(c, u)
      PROVE  IInv'
  BY <1>7, <1>1, Wins, Moves DEF SideAnswers, InSide, At, Over
<1> QED BY <1>2, <1>3, <1>4, <1>5, <1>6, <1>7

LEMMA PinStep == ASSUME IInv, Pin PROVE IInv'
<1>1. pinned \in BOOLEAN /\ pinned' = ~pinned /\ pinned' \in BOOLEAN
  BY DEF IInv, Pin
<1>2. ASSUME NEW c \in Conns
      PROVE  Good(conn'[c], pinned')
  <2>1. Good(conn[c], pinned)
    BY DEF IInv
  <2>2. conn'[c] = [conn[c] EXCEPT !.free = conn[c].step # "idle" /\ (conn[c].free \/ ~pinned')]
    BY DEF Pin
  <2> QED
    BY <1>1, <2>1, <2>2, PinMoves
<1> QED
  BY <1>1, <1>2 DEF IInv, Good, Pin

LEMMA Inductive == IInv /\ [Next]_vars => IInv'
<1> SUFFICES ASSUME IInv, [Next]_vars PROVE IInv'
  OBVIOUS
<1>1. ASSUME NEW c \in Conns, Handler(c) \/ Peers(c)
      PROVE  IInv'
  BY <1>1, PolicyStep, SerialStep, RelayStep, RaceStep DEF Handler, Run, Peers
<1>2. CASE Pin
  BY <1>2, PinStep
<1>3. CASE Tick \/ UNCHANGED vars
  BY <1>3 DEF Tick, vars, IInv
<1> QED
  BY <1>1, <1>2, <1>3 DEF Next

THEOREM Invariance == Spec => []IInv
<1> QED BY Initially, Inductive, PTL DEF Spec

-----------------------------------------------------------------------------
LEMMA AtMostOne == Cardinality({}) <= 1 /\ \A x : Cardinality({x}) <= 1
<1>1. Cardinality({}) = 0
  BY FS_EmptySet
<1>2. ASSUME NEW x PROVE Cardinality({x}) = 1
  BY FS_Singleton
<1> QED BY <1>1, <1>2

(* A connection that was pinned all its life never dials its target directly. *)
THEOREM PinHeld == Spec => []PinHolds
<1>1. IInv => PinHolds
  BY DEF IInv, Good, Sound, Held, PinHolds
<1> QED BY <1>1, Invariance, PTL

(* A plain HTTP request that must not be repeated reaches one upstream at most,
   with any number of candidates, waves and fallbacks. *)
THEOREM OneDelivery == Spec => []SentOnce
<1>1. IInv => SentOnce
  <2> SUFFICES ASSUME IInv, NEW c \in Conns, conn[c].once, ~conn[c].tunnel
               PROVE  Cardinality(conn[c].got) <= 1
    BY DEF SentOnce
  <2>1. conn[c].got = {} \/ conn[c].got = {conn[c].via}
    BY DEF IInv, Good, Sound, Sent
  <2> QED
    BY <2>1, AtMostOne
<1> QED BY <1>1, Invariance, PTL

(* The ledger of the nodes and the ledger of the routes agree. *)
THEOREM LedgersMatch == Spec => []LedgersAgree
<1>1. IInv => LedgersAgree
  <2> SUFFICES ASSUME IInv, NEW c \in Conns
               PROVE  LET k == conn[c]
                      IN /\ k.credits \cap k.debits = {}
                         /\ Cardinality(k.credits) <= 1
                         /\ k.eligible /\ k.credits # {} => k.answered = "Proxy"
    BY DEF LedgersAgree
  <2> DEFINE k == conn[c]
  <2>1. /\ k.credits = {} \/ k.step = "stream"
        /\ k.credits = {} \/ (k.credits = {k.via} /\ k.via # "direct")
        /\ k.step = "stream" => k.via \notin k.debits
        /\ k.step = "stream" /\ k.eligible => k.answered = RouteOf(k.via)
    BY DEF IInv, Good, Sound, Earned, Debts
  <2>2. Cardinality(k.credits) <= 1
    BY <2>1, AtMostOne
  <2> QED
    BY <2>1, <2>2 DEF RouteOf
<1> QED BY <1>1, Invariance, PTL

-----------------------------------------------------------------------------
(* Connections use the cache as RouteCache says: every step of any of them is
   one of its steps, or leaves it alone. *)
THEOREM UsesTheCache == Spec => Cache!Spec
<1>1. Init => Cache!Init
  BY DEF Init
<1>2. ASSUME IInv, [Next]_vars PROVE [Cache!Next]_(Cache!vars)
  <2>1. ASSUME NEW c \in Conns, conn[c].step # "idle"
        PROVE  /\ conn[c].host \in Hosts
               /\ RouteOf(conn[c].via) \in Cache!Routes
    BY <1>2, <2>1 DEF IInv, Good, Sound, Chosen, RouteOf, Cache!Routes
  <2>2. ASSUME NEW h \in Hosts, NEW route \in Cache!Routes,
               \/ Cache!RecordFailed(h, route) \/ Cache!RecordNeutral(h, route)
               \/ \E fr \in FirstResponses : Cache!RecordResponded(h, route, fr)
        PROVE  Cache!Next
    BY <2>2 DEF Cache!Next
  <2>3. "Direct" \in Cache!Routes /\ "Proxy" \in Cache!Routes
    BY DEF Cache!Routes
  <2>4. ASSUME NEW c \in Conns, NEW route \in Cache!Routes, conn[c].step # "idle",
               BookFailed(conn[c], route)
        PROVE  Cache!Next \/ UNCHANGED cache
    BY <2>1, <2>2, <2>4 DEF BookFailed
  <2>5. ASSUME NEW c \in Conns, Decide(c)
        PROVE  Cache!Next
    <3>1. conn[c].host \in Hosts /\ [conn[c] EXCEPT !.eligible = TRUE].host = conn[c].host
      BY <1>2, <2>1, <2>5 DEF Decide, At, IInv, Good, State
    <3> QED
      BY <2>3, <2>5, <3>1 DEF Decide, Cache!Next
  <2>6. ASSUME NEW c \in Conns,
               DialCached(c) \/ LastResort(c) \/ NoAnswer(c) \/ StreamDies(c)
        PROVE  Cache!Next \/ UNCHANGED cache
    BY <2>1, <2>3, <2>4, <2>6 DEF DialCached, LastResort, NoAnswer, StreamDies, FailOver, At
  <2>7. ASSUME NEW c \in Conns, AllDead(c)
        PROVE  Cache!Next
    BY <2>1, <2>2, <2>3, <2>7 DEF AllDead, At
  <2>8. ASSUME NEW c \in Conns, EmptyAnswer(c)
        PROVE  Cache!Next \/ UNCHANGED cache
    BY <2>1, <2>2, <2>8 DEF EmptyAnswer, At
  <2>9. ASSUME NEW c \in Conns, FirstByte(c)
        PROVE  Cache!Next \/ UNCHANGED cache
    <3>1. conn[c].step # "idle"
      BY <2>9 DEF FirstByte, At
    <3> DEFINE k == [conn[c] EXCEPT !.step = "reply"]
    <3>2. k.host = conn[c].host /\ k.via = conn[c].via
      BY <1>2 DEF IInv, Good, State
    <3>3. \/ \E fr \in FirstResponses : Cache!RecordResponded(k.host, RouteOf(k.via), fr)
          \/ UNCHANGED cache
      BY <2>9 DEF FirstByte
    <3> QED BY <2>1, <2>2, <3>1, <3>2, <3>3
  <2>10. ASSUME NEW c \in Conns, NEW u \in Upstreams, SideAnswers(c, u)
         PROVE  Cache!Next \/ UNCHANGED cache
    <3>1. conn[c].host \in Hosts /\ RouteOf(u) \in Cache!Routes
      BY <2>1, <2>10 DEF SideAnswers, InSide, At, RouteOf, Cache!Routes
    <3> QED BY <2>2, <2>10, <3>1 DEF SideAnswers
  <2>11. ASSUME NEW c \in Conns, Handler(c) \/ Peers(c)
         PROVE  Cache!Next \/ UNCHANGED cache
    BY <2>11, <2>5, <2>6, <2>7, <2>8, <2>9, <2>10
    DEF Handler, Run, Peers, Accept, Policy, Bypass, Pick, DialPolicy, DialCandidate,
        DialLast, Reply, StreamEnds, ClientLeaves, Stall, Unstall, ClientSends, SideDials,
        SideSilent, NextWave
  <2>12. Tick => Cache!Next
    BY DEF Tick, Cache!Next
  <2>13. Pin \/ UNCHANGED vars => UNCHANGED cache
    BY DEF Pin, vars, cache
  <2>14. Cache!Next \/ UNCHANGED cache
    BY <1>2, <2>11, <2>12, <2>13 DEF Next
  <2>15. UNCHANGED cache => UNCHANGED Cache!vars
    BY DEF cache, Cache!vars
  <2> QED
    BY <2>14, <2>15
<1> QED BY <1>1, <1>2, Invariance, PTL DEF Spec, Cache!Spec
-----------------------------------------------------------------------------
(* The types of the shared cache, by the steps RouteCache allows. *)

LEMMA CacheClocks ==
  /\ TTL \in 0..TTL /\ 0 \in 0..Interval /\ Interval \in 0..Interval
  /\ 0 \in 0..(Cache!DirectFailsToSwitch - 1) /\ Cache!Routes = {"Direct", "Proxy"}
  /\ Cache!NoPast \in Cache!Past
  BY CacheAssumption
  DEF Cache!RouteCacheAssumption, Cache!DirectFailsToSwitch, Cache!Routes, Cache!NoPast,
      Cache!Past

(* What each call makes of an entry and of its history. *)
LEMMA CacheBookingsTyped ==
  ASSUME NEW e \in Cache!Entry, NEW p \in Cache!Past, NEW route \in Cache!Routes
  PROVE  /\ Cache!NeutralOn(e) \in Cache!Entry
         /\ Cache!FailedOn(e, route) \in Cache!Entry
         /\ \A fr \in FirstResponses : Cache!RespondedOn(e, route, fr) \in Cache!Entry
         /\ Cache!NoteFailed(p, route) \in Cache!Past
         /\ Cache!NoteResponded(p, route) \in Cache!Past
<1>1. /\ e.direct_fails \in 0..1 /\ e.last_fr \in FirstResponses \cup {0}
      /\ e.slow \in BOOLEAN /\ e.route \in Cache!Routes
  BY DEF Cache!Entry, Cache!DirectFailsToSwitch
<1>2. Cache!NeutralOn(e) \in Cache!Entry
  BY CacheClocks DEF Cache!NeutralOn, Cache!Entry
<1>3. Cache!FailedOn(e, route) \in Cache!Entry
  <2> DEFINE fr == IF e.route = route THEN 0 ELSE e.last_fr
             df == IF route = "Direct" THEN e.direct_fails + 1 ELSE e.direct_fails
  <2>1. fr \in FirstResponses \cup {0} /\ "Proxy" \in Cache!Routes
    BY <1>1, CacheClocks
  <2>2. CASE route = "Direct" /\ e.direct_fails + 1 >= Cache!DirectFailsToSwitch
    <3>1. Cache!FailedOn(e, route) =
            [e EXCEPT !.last_fr = fr, !.recheck = 0, !.ttl = TTL, !.route = "Proxy",
                      !.direct_fails = 0, !.slow = FALSE]
      BY <2>2 DEF Cache!FailedOn
    <3> HIDE DEF fr
    <3> QED BY <3>1, <2>1, CacheClocks DEF Cache!Entry
  <2>3. CASE ~(route = "Direct" /\ e.direct_fails + 1 >= Cache!DirectFailsToSwitch)
    <3>1. Cache!FailedOn(e, route) =
            [e EXCEPT !.last_fr = fr, !.recheck = 0, !.ttl = TTL, !.slow = TRUE,
                      !.direct_fails = df]
      BY <2>3 DEF Cache!FailedOn
    <3>2. df \in 0..(Cache!DirectFailsToSwitch - 1)
      BY <1>1, <2>3 DEF Cache!DirectFailsToSwitch
    <3> HIDE DEF fr, df
    <3> QED BY <3>1, <3>2, <2>1, CacheClocks DEF Cache!Entry
  <2> QED BY <2>2, <2>3
<1>4. ASSUME NEW fr \in FirstResponses
      PROVE  Cache!RespondedOn(e, route, fr) \in Cache!Entry
  <2> DEFINE fast == fr > RaceThreshold
             was == e.last_fr > RaceThreshold
  <2>1. fast \in BOOLEAN /\ was \in BOOLEAN
    OBVIOUS
  <2>2. Cache!RespondedOn(e, route, fr) \in
          {[e EXCEPT !.route = route, !.last_fr = fr, !.slow = fast,
                     !.direct_fails = 0, !.ttl = TTL],
           [e EXCEPT !.slow = was, !.recheck = Interval, !.ttl = TTL]}
    BY DEF Cache!RespondedOn
  <2> HIDE DEF fast, was
  <2> QED BY <2>1, <2>2, CacheClocks DEF Cache!Entry
<1>5. Cache!NoteFailed(p, route) \in Cache!Past /\ Cache!NoteResponded(p, route) \in Cache!Past
  BY CacheClocks DEF Cache!NoteFailed, Cache!NoteResponded, Cache!Past
<1> QED BY <1>2, <1>3, <1>4, <1>5

LEMMA CacheBookTyped ==
  ASSUME Cache!TypeOK, NEW h \in Hosts, NEW e \in Cache!Entry, NEW p \in Cache!Past,
         Cache!Book(h, e, p)
  PROVE  Cache!TypeOK'
<1>1. Cache!Swept \subseteq DOMAIN entries
  BY DEF Cache!Swept
<1>2. /\ entries' = [k \in DOMAIN [j \in Cache!Swept |-> entries[j]] \cup {h} |->
                       IF k = h THEN e ELSE [j \in Cache!Swept |-> entries[j]][k]]
      /\ past' = [k \in Hosts |-> IF k = h THEN p
                                  ELSE IF k \in Cache!Swept THEN past[k] ELSE Cache!NoPast]
  BY DEF Cache!Book, Cache!Put
<1>3. DOMAIN entries' = Cache!Swept \cup {h}
  BY <1>2
<1>4. \A k \in DOMAIN entries' : entries'[k] \in Cache!Entry
  BY <1>1, <1>2 DEF Cache!TypeOK
<1>5. past' \in [Hosts -> Cache!Past]
  BY <1>2, CacheClocks DEF Cache!TypeOK
<1> QED
  BY <1>1, <1>3, <1>4, <1>5 DEF Cache!TypeOK

LEMMA CacheRecordTyped ==
  ASSUME Cache!TypeOK, NEW h \in Hosts, NEW route \in Cache!Routes,
         \/ Cache!RecordFailed(h, route) \/ Cache!RecordNeutral(h, route)
         \/ \E fr \in FirstResponses : Cache!RecordResponded(h, route, fr)
  PROVE  Cache!TypeOK'
<1> DEFINE e == Cache!Booked(h, route)
           p == Cache!PastOf(h)
<1>1. Cache!NewEntry(route) \in Cache!Entry
  BY CacheClocks DEF Cache!NewEntry, Cache!Entry
<1>2. e \in Cache!Entry /\ p \in Cache!Past
  BY <1>1, CacheClocks DEF Cache!Booked, Cache!PastOf, Cache!Swept, Cache!TypeOK
<1> HIDE DEF e, p
<1> QED
  BY <1>2, CacheBookingsTyped, CacheBookTyped
  DEF Cache!RecordFailed, Cache!RecordNeutral, Cache!RecordResponded, e, p

LEMMA CacheStepTyped == Cache!TypeOK /\ [Cache!Next]_(Cache!vars) => Cache!TypeOK'
<1> SUFFICES ASSUME Cache!TypeOK, [Cache!Next]_(Cache!vars) PROVE Cache!TypeOK'
  OBVIOUS
<1>1. ASSUME NEW h \in Hosts, Cache!DecideExpired(h) PROVE Cache!TypeOK'
  BY <1>1, CacheClocks DEF Cache!DecideExpired, Cache!Drop, Cache!TypeOK
<1>2. ASSUME NEW h \in Hosts, Cache!DecideRaceAgain(h) PROVE Cache!TypeOK'
  <2>1. /\ [entries[h] EXCEPT !.recheck = Interval] \in Cache!Entry
        /\ [past[h] EXCEPT !.raced = 0] \in Cache!Past
    BY <1>2, CacheClocks DEF Cache!DecideRaceAgain, Cache!TypeOK, Cache!Entry, Cache!Past
  <2>2. /\ entries' = [entries EXCEPT ![h] = [entries[h] EXCEPT !.recheck = Interval]]
        /\ past' = [past EXCEPT ![h] = [past[h] EXCEPT !.raced = 0]]
    BY <1>2 DEF Cache!DecideRaceAgain
  <2> QED BY <2>1, <2>2 DEF Cache!TypeOK
<1>3. CASE Cache!Tick
  <2>1. ASSUME NEW e \in Cache!Entry PROVE Cache!Aged(e) \in Cache!Entry
    <3> DEFINE ttl == IF e.ttl > 0 THEN e.ttl - 1 ELSE 0
               recheck == IF e.recheck > 0 THEN e.recheck - 1 ELSE 0
    <3>1. e.ttl \in 0..TTL /\ e.recheck \in 0..Interval
      BY DEF Cache!Entry
    <3>2. ttl \in 0..TTL /\ recheck \in 0..Interval
      BY <3>1, CacheAssumption DEF Cache!RouteCacheAssumption
    <3>3. Cache!Aged(e) = [e EXCEPT !.ttl = ttl, !.recheck = recheck]
      BY DEF Cache!Aged
    <3> HIDE DEF ttl, recheck
    <3> QED BY <3>2, <3>3 DEF Cache!Entry
  <2>2. ASSUME NEW p \in Cache!Past PROVE Cache!NoteAged(p) \in Cache!Past
    BY CacheAssumption DEF Cache!NoteAged, Cache!Past, Cache!RouteCacheAssumption
  <2> QED BY <1>3, <2>1, <2>2 DEF Cache!Tick, Cache!TypeOK
<1>4. CASE UNCHANGED Cache!vars
  BY <1>4 DEF Cache!vars, Cache!TypeOK
<1> QED
  BY <1>1, <1>2, <1>3, <1>4, CacheRecordTyped
  DEF Cache!Next, Cache!DecideMiss, Cache!DecideCached

(* Connections and the cache they share stay typed. *)
THEOREM Typing == Spec => []TypeOK
<1>1. Cache!Init => Cache!TypeOK
  BY CacheClocks DEF Cache!Init, Cache!TypeOK
<1>2. Spec => []Cache!TypeOK
  BY <1>1, CacheStepTyped, UsesTheCache, PTL DEF Cache!Spec
<1>3. IInv /\ Cache!TypeOK => TypeOK
  BY DEF IInv, TypeOK
<1> QED BY <1>2, <1>3, Invariance, PTL
-----------------------------------------------------------------------------
(* Progress: the safety behind AnsweredOrOver.  That its handler goes on with a
   request, and that every await has an end, TLC checks as liveness; that going
   on leads to an end, whatever the peers, the pin and the other connections do
   meanwhile, is proved. *)

Rank == [policy |-> 9, decide |-> 8, dial_cached |-> 7, pick |-> 6, dial_policy |-> 5,
         chain |-> 5, race |-> 5, dial_last |-> 4, relay |-> 3, reply |-> 2,
         stream |-> 1, idle |-> 0]

SideRank == [waiting |-> 3, dialing |-> 2, live |-> 1, out |-> 0, none |-> 0]

SameProgress(k, n) == n.step = k.step /\ n.cand = k.cand /\ n.side = k.side

(* A request is further on: at a later step, or in the chain with a candidate
   less, or in the race with a side further on and none set back. *)
Advances(k, n) ==
  \/ Rank[n.step] < Rank[k.step]
  \/ n.step = "chain" /\ k.step = "chain" /\ Len(n.cand) < Len(k.cand)
  \/ /\ n.step = "race" /\ k.step = "race"
     /\ \A u \in Upstreams : SideRank[n.side[u]] <= SideRank[k.side[u]]
     /\ \E u \in Upstreams : SideRank[n.side[u]] < SideRank[k.side[u]]

(* Every step of its handler brings a request further, and no step of anybody
   sets one back: no candidate is dialled twice for it, no side of a race
   starts over, no decision is taken again. *)
HandlerAdvances ==
  [][\A c \in Conns :
       conn[c].step # "idle" =>
         /\ Handler(c) => Advances(conn[c], conn'[c])
         /\ Advances(conn[c], conn'[c]) \/ SameProgress(conn[c], conn'[c])]_vars

LEMMA BecomesThis ==
  ASSUME IInv, NEW c \in Conns, NEW k, Becomes(c, k)
  PROVE  conn'[c] = k /\ \A d \in Conns \ {c} : conn'[d] = conn[d]
  BY DEF IInv, Becomes

(* The step of a record decides, when it falls in rank. *)
LEMMA Falls ==
  ASSUME NEW k \in State, NEW n, k.step # "idle",
         \/ n.step = "idle"
         \/ k.step # "stream" /\ n.step = "stream"
         \/ k.step = "policy" /\ n.step = "decide"
         \/ k.step = "decide" /\ n.step \in {"dial_cached", "pick"}
         \/ k.step = "dial_cached" /\ n.step = "pick"
         \/ k.step = "pick" /\ n.step \in {"dial_policy", "chain", "race", "relay"}
         \/ k.step \in {"dial_policy", "chain", "dial_last"} /\ n.step = "relay"
         \/ k.step = "chain" /\ n.step = "dial_last"
         \/ k.step = "relay" /\ n.step = "reply"
  PROVE  Advances(k, n)
  BY DEF State, Steps, Advances, Rank

LEMMA IdleFields ==
  /\ Idle.step = "idle"
  /\ \A s : [Idle EXCEPT !.streak = s].step = "idle"
  BY DEF Idle

LEMMA BookingsKeepStep ==
  ASSUME NEW k \in State, NEW route, NEW u
  PROVE  Answered(k, route).step = k.step /\ Credit(k, u).step = k.step
  BY DEF Answered, Credit, State

LEMMA SerialAdvances ==
  ASSUME IInv, NEW c \in Conns,
         \/ Policy(c) \/ Bypass(c) \/ Decide(c) \/ DialCached(c) \/ Pick(c)
         \/ DialPolicy(c) \/ DialCandidate(c) \/ LastResort(c) \/ DialLast(c)
         \/ NoAnswer(c) \/ EmptyAnswer(c) \/ FirstByte(c) \/ Reply(c)
  PROVE  Advances(conn[c], conn'[c])
<1> DEFINE k == conn[c]
           n == conn'[c]
<1>1. k \in State
  BY DEF IInv, Good
<1>2. ASSUME NEW m, Becomes(c, m) PROVE n = m
  BY <1>2, BecomesThis
<1>3. CASE Policy(c)
  <2>1. k.step = "policy" /\ n.step = "decide"
    BY <1>1, <1>2, <1>3 DEF Policy, At, State
  <2> QED BY <1>1, <2>1, Falls
<1>4. CASE Bypass(c) \/ Decide(c)
  <2>1. k.step = "decide" /\ n.step \in {"dial_cached", "pick"}
    BY <1>1, <1>2, <1>4 DEF Bypass, Decide, At, State
  <2> QED BY <1>1, <2>1, Falls
<1>5. CASE DialCached(c)
  <2>1. k.step = "dial_cached" /\ n.step = "pick"
    BY <1>1, <1>2, <1>5 DEF DialCached, At, State, Use, Failed
  <2> QED BY <1>1, <2>1, Falls
<1>6. CASE Pick(c)
  <2>1. k.step = "pick" /\ n.step \in {"dial_policy", "chain", "race", "relay"}
    BY <1>1, <1>2, <1>6 DEF Pick, At, State
  <2> QED BY <1>1, <2>1, Falls
<1>7. CASE DialPolicy(c) \/ DialLast(c)
  <2>1. /\ k.step \in {"dial_policy", "dial_last"}
        /\ n.step \in {"relay", "idle"}
    BY <1>1, <1>2, <1>7, IdleFields DEF DialPolicy, DialLast, At, State, Use, Over
  <2> QED BY <1>1, <2>1, Falls
<1>8. CASE DialCandidate(c)
  <2>1. k.step = "chain" /\ k.cand # <<>> /\ k.cand \in Seq(Tags)
    BY <1>1, <1>8 DEF DialCandidate, At, State
  <2>2. CASE Becomes(c, Use(k, Head(k.cand)))
    <3>1. n.step = "relay"
      BY <1>1, <1>2, <2>2 DEF State, Use
    <3> QED BY <1>1, <2>1, <3>1, Falls
  <2>3. CASE Becomes(c, Debit([k EXCEPT !.cand = Tail(k.cand)], Head(k.cand)))
    <3>1. n.step = "chain" /\ n.cand = Tail(k.cand)
      BY <1>1, <1>2, <2>1, <2>3 DEF State, Debit
    <3>2. Len(Tail(k.cand)) = Len(k.cand) - 1 /\ Len(k.cand) \in Nat
      BY <2>1
    <3>3. Len(n.cand) < Len(k.cand)
      BY <3>1, <3>2
    <3> QED BY <2>1, <3>1, <3>3 DEF Advances
  <2> QED BY <1>8, <2>2, <2>3 DEF DialCandidate
<1>9. CASE LastResort(c)
  <2>1. k.step = "chain" /\ n.step \in {"idle", "dial_last"}
    BY <1>1, <1>2, <1>9, IdleFields DEF LastResort, At, State, Over, Failed
  <2> QED BY <1>1, <2>1, Falls
<1>10. CASE NoAnswer(c) \/ EmptyAnswer(c)
  <2>1. k.step = "relay" /\ n.step = "idle"
    BY <1>1, <1>2, <1>10, IdleFields DEF NoAnswer, EmptyAnswer, FailOver, At, Over
  <2> QED BY <1>1, <2>1, Falls
<1>11. CASE FirstByte(c)
  <2>1. k.step = "relay" /\ n.step = "reply"
    BY <1>1, <1>2, <1>11 DEF FirstByte, At, State, Answered
  <2> QED BY <1>1, <2>1, Falls
<1>12. CASE Reply(c)
  <2>1. k.step = "reply" /\ n.step = "stream"
    BY <1>1, <1>2, <1>12 DEF Reply, At, State, Credit
  <2> QED BY <1>1, <2>1, Falls
<1> QED
  BY <1>3, <1>4, <1>5, <1>6, <1>7, <1>8, <1>9, <1>10, <1>11, <1>12

LEMMA RaceAdvances ==
  ASSUME IInv, NEW c \in Conns,
         \/ NextWave(c) \/ AllDead(c)
         \/ \E u \in Upstreams : SideDials(c, u) \/ SideSilent(c, u) \/ SideAnswers(c, u)
  PROVE  Advances(conn[c], conn'[c])
<1> DEFINE k == conn[c]
           n == conn'[c]
<1>1. k \in State /\ k.side \in [Upstreams -> {"none", "waiting", "dialing", "live", "out"}]
  BY DEF IInv, Good, State
<1>2. ASSUME NEW m, Becomes(c, m) PROVE n = m
  BY <1>2, BecomesThis
<1>3. k.step = "race"
  BY DEF NextWave, AllDead, SideDials, SideSilent, SideAnswers, InSide, At
<1>4. ASSUME NEW u \in Upstreams, NEW s \in {"live", "out"}, n.step = "race",
             n.side = [k.side EXCEPT ![u] = s], SideRank[s] < SideRank[k.side[u]]
      PROVE  Advances(k, n)
  <2>1. \A v \in Upstreams : SideRank[k.side[v]] \in Int
    BY <1>1 DEF SideRank
  <2>2. \A v \in Upstreams : n.side[v] = IF v = u THEN s ELSE k.side[v]
    BY <1>1, <1>4
  <2>3. \A v \in Upstreams : SideRank[n.side[v]] <= SideRank[k.side[v]]
    <3> SUFFICES ASSUME NEW v \in Upstreams
                 PROVE  SideRank[n.side[v]] <= SideRank[k.side[v]]
      OBVIOUS
    <3>1. CASE v = u
      <4>1. SideRank[k.side[u]] \in Int /\ SideRank[s] \in Int
        BY <2>1 DEF SideRank
      <4>2. SideRank[s] <= SideRank[k.side[u]]
        BY <1>4, <4>1
      <4> QED BY <2>2, <3>1, <4>2
    <3>2. CASE v # u
      <4>1. n.side[v] = k.side[v] /\ SideRank[k.side[v]] \in Int
        BY <2>1, <2>2, <3>2
      <4> QED BY <4>1
    <3> QED BY <3>1, <3>2
  <2>4. SideRank[n.side[u]] < SideRank[k.side[u]]
    BY <1>4, <2>2
  <2> QED BY <1>3, <1>4, <2>3, <2>4 DEF Advances
<1>5. CASE NextWave(c)
  <2>1. n.step = "race" /\ n.side = SecondWave(k)
    BY <1>1, <1>2, <1>3, <1>5 DEF NextWave, State
  <2>2. \A u \in Upstreams : n.side[u] = IF k.side[u] = "waiting" THEN "dialing" ELSE k.side[u]
    BY <2>1 DEF SecondWave
  <2>3. \A u \in Upstreams : SideRank[n.side[u]] <= SideRank[k.side[u]]
    BY <1>1, <2>2 DEF SideRank
  <2>4. \E u \in Upstreams : SideRank[n.side[u]] < SideRank[k.side[u]]
    BY <1>5, <2>2 DEF NextWave, SideRank
  <2> QED BY <1>3, <2>1, <2>3, <2>4 DEF Advances
<1>6. CASE AllDead(c)
  <2>1. n.step = "idle"
    BY <1>2, <1>6, IdleFields DEF AllDead, Over
  <2> QED BY <1>1, <1>3, <2>1, Falls
<1>7. ASSUME NEW u \in Upstreams, SideDials(c, u) PROVE Advances(k, n)
  <2>1. k.side[u] = "dialing"
    BY <1>7 DEF SideDials, InSide
  <2>2. /\ n.step = "race"
        /\ n.side = [k.side EXCEPT ![u] = "live"] \/ n.side = [k.side EXCEPT ![u] = "out"]
    BY <1>1, <1>2, <1>3, <1>7 DEF SideDials, State, Debit
  <2> QED BY <1>4, <2>1, <2>2 DEF SideRank
<1>8. ASSUME NEW u \in Upstreams, SideSilent(c, u) PROVE Advances(k, n)
  <2>1. k.side[u] = "live"
    BY <1>8 DEF SideSilent, InSide
  <2>2. n.step = "race" /\ n.side = [k.side EXCEPT ![u] = "out"]
    BY <1>1, <1>2, <1>3, <1>8 DEF SideSilent, State
  <2>3. SideRank["out"] < SideRank[k.side[u]]
    BY <2>1 DEF SideRank
  <2> QED BY <1>4, <2>2, <2>3
<1>9. ASSUME NEW u \in Upstreams, SideAnswers(c, u) PROVE Advances(k, n)
  <2>1. CASE Over(c)
    BY <1>2, <2>1, IdleFields, <1>1, <1>3, Falls DEF Over
  <2>2. CASE ~Over(c)
    <3> DEFINE m == [k EXCEPT !.step = "stream", !.via = u, !.got = @ \cup {u}]
    <3>1. Becomes(c, Credit(Answered(m, RouteOf(u)), u))
      BY <1>9, <2>2 DEF SideAnswers
    <3>2. m \in State /\ m.step = "stream" /\ RouteOf(u) \in {"Direct", "Proxy"}
      BY <1>1 DEF State, Steps, RouteOf
    <3> HIDE DEF m
    <3>3. Answered(m, RouteOf(u)) \in State /\ Answered(m, RouteOf(u)).step = "stream"
      BY <3>2, AnsweredTyped, BookingsKeepStep
    <3>4. n.step = "stream"
      BY <1>2, <3>1, <3>3, BookingsKeepStep
    <3> QED BY <1>1, <1>3, <3>4, Falls
  <2> QED BY <2>1, <2>2
<1> QED BY <1>5, <1>6, <1>7, <1>8, <1>9

LEMMA PeersHarmless ==
  ASSUME IInv, NEW c \in Conns, Peers(c), conn[c].step # "idle"
  PROVE  Advances(conn[c], conn'[c]) \/ SameProgress(conn[c], conn'[c])
<1> DEFINE k == conn[c]
           n == conn'[c]
<1>1. k \in State
  BY DEF IInv, Good
<1>2. ASSUME NEW m, Becomes(c, m) PROVE n = m
  BY <1>2, BecomesThis
<1>3. CASE ClientSends(c) \/ Stall(c) \/ Unstall(c)
  BY <1>1, <1>2, <1>3 DEF ClientSends, Stall, Unstall, State, SameProgress
<1>4. CASE ClientLeaves(c) \/ StreamDies(c) \/ StreamEnds(c)
  <2>1. n.step = "idle"
    BY <1>2, <1>4, IdleFields DEF ClientLeaves, StreamDies, StreamEnds, FailOver, Over
  <2> QED BY <1>1, <2>1, Falls
<1> QED BY <1>3, <1>4 DEF Peers, Accept, At

(* A handler brings its request further with every step, and nobody ever sets a
   request back. *)
THEOREM HandlersAdvance == Spec => HandlerAdvances
<1>1. ASSUME IInv, [Next]_vars, NEW c \in Conns, conn[c].step # "idle"
      PROVE  /\ Handler(c) => Advances(conn[c], conn'[c])
             /\ Advances(conn[c], conn'[c]) \/ SameProgress(conn[c], conn'[c])
  <2>1. Handler(c) => Advances(conn[c], conn'[c])
    BY <1>1, SerialAdvances, RaceAdvances DEF Handler, Run
  <2>2. ASSUME NEW d \in Conns \ {c}, Handler(d) \/ Peers(d)
        PROVE  conn'[c] = conn[c]
    <3>1. \E m : Becomes(d, m)
      BY <2>2
      DEF Handler, Run, Peers, Policy, Bypass, Decide, DialCached, Pick, DialPolicy,
          DialCandidate, LastResort, DialLast, NoAnswer, EmptyAnswer, FirstByte, Reply,
          SideDials, SideSilent, SideAnswers, NextWave, AllDead, Accept, ClientSends,
          ClientLeaves, StreamDies, StreamEnds, Stall, Unstall, Over, FailOver
    <3> QED BY <1>1, <3>1, BecomesThis
  <2>3. Pin => SameProgress(conn[c], conn'[c])
    BY <1>1 DEF Pin, IInv, Good, State, SameProgress
  <2>4. Tick \/ UNCHANGED vars => SameProgress(conn[c], conn'[c])
    BY DEF Tick, vars, SameProgress
  <2> QED
    BY <1>1, <2>1, <2>2, <2>3, <2>4, PeersHarmless DEF Next, SameProgress
<1>2. IInv /\ [Next]_vars =>
        [\A c \in Conns :
           conn[c].step # "idle" =>
             /\ Handler(c) => Advances(conn[c], conn'[c])
             /\ Advances(conn[c], conn'[c]) \/ SameProgress(conn[c], conn'[c])]_vars
  BY <1>1
<1> QED BY <1>2, Invariance, PTL DEF Spec, HandlerAdvances
=============================================================================
