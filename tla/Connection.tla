----------------------------- MODULE Connection -----------------------------
(***************************************************************************)
(* The connections of the SOCKS5/HTTP data plane (handle_one, race_relay,  *)
(* relay), each a task of its own, over the one RouteCache they share.     *)
(* What the network does is chosen freely at each await.  Of the node pool *)
(* only the bookings are kept: whom a connection debits for a failed dial  *)
(* and credits for a first byte.  Selection may hold any list of nodes.    *)
(***************************************************************************)
EXTENDS Naturals, Sequences, FiniteSets

CONSTANTS
  Conns,     \* connection tasks; each serves one request after another
  Tags,      \* nodes
  Attempts,  \* fallback_attempts, clamped to 1..10
  Classes,   \* the targets the policy tells apart
  Hosts, FirstResponses, RaceThreshold, Interval, TTL, MaxEntries,  \* of RouteCache
  NONE

ASSUME ConnectionAssumption ==
  /\ IsFiniteSet(Tags) /\ "direct" \notin Tags /\ NONE \notin Tags \cup {"direct"}
  /\ Attempts \in Nat \ {0}
  /\ Classes \subseteq {"local", "china", "chain", "name"} /\ NONE \notin Classes

VARIABLES
  entries, past,  \* the route cache
  pinned,
  conn            \* the state of each task

vars == <<entries, past, pinned, conn>>
cache == <<entries, past>>

Cache == INSTANCE RouteCache

ASSUME CacheAssumption == Cache!RouteCacheAssumption

-----------------------------------------------------------------------------
Upstreams == Tags \cup {"direct"}
RouteOf(u) == IF u = "direct" THEN "Direct" ELSE "Proxy"

(* pick_candidates of any selection: distinct nodes, Attempts at most. *)
Candidates ==
  {s \in UNION {[1..n -> Tags] : n \in 0..Attempts} :
     \A i, j \in DOMAIN s : s[i] = s[j] => i = j}

Steps == {"idle", "policy", "decide", "dial_cached", "pick", "dial_policy",
          "chain", "dial_last", "race", "relay", "reply", "stream"}

(* The request (class, host, tunnel: no bytes read ahead, as with SOCKS5 and
   CONNECT; once: a plain HTTP request that must not be repeated), what the
   handler has decided, the upstreams, stuck: a write without a timeout waits
   for a peer that does not read, and the history: got, the upstreams the
   request went to; debits and credits; answered, the route booked as such;
   streak, direct failures booked since, kept until the next request; free,
   not pinned at some time. *)
Idle ==
  [step |-> "idle", class |-> NONE, host |-> NONE, tunnel |-> FALSE, once |-> FALSE,
   direct |-> FALSE, eligible |-> FALSE, racing |-> FALSE, sent |-> FALSE, stuck |-> FALSE,
   cand |-> <<>>, side |-> [u \in Upstreams |-> "none"], via |-> NONE,
   got |-> {}, debits |-> {}, credits |-> {}, answered |-> NONE, streak |-> 0,
   free |-> FALSE]

State ==
  [step: Steps, class: Classes \cup {NONE}, host: Hosts \cup {NONE},
   tunnel: BOOLEAN, once: BOOLEAN,
   direct: BOOLEAN, eligible: BOOLEAN, racing: BOOLEAN, sent: BOOLEAN, stuck: BOOLEAN,
   cand: Seq(Tags), side: [Upstreams -> {"none", "waiting", "dialing", "live", "out"}],
   via: Upstreams \cup {NONE},
   got: SUBSET Upstreams, debits: SUBSET Tags, credits: SUBSET Tags,
   answered: {"Direct", "Proxy", NONE}, streak: 0..2, free: BOOLEAN]

TypeOK ==
  /\ Cache!TypeOK
  /\ pinned \in BOOLEAN
  /\ conn \in [Conns -> State]

Init ==
  /\ Cache!Init
  /\ pinned \in BOOLEAN
  /\ conn = [c \in Conns |-> Idle]

-----------------------------------------------------------------------------
At(c, step) == conn[c].step = step
Becomes(c, k) == conn' = [conn EXCEPT ![c] = k]
Over(c) == Becomes(c, Idle)

(* The upstream the request goes to, for better or worse. *)
Use(k, u) == [k EXCEPT !.step = "relay", !.via = u, !.got = @ \cup {u}]

(* Bookings.  A connection outside the cache's competence makes none. *)
Failed(k, route) ==
  [k EXCEPT !.streak = IF k.eligible /\ route = "Direct" THEN @ + 1 ELSE @]
Answered(k, route) ==
  [k EXCEPT !.answered = route, !.streak = IF route = "Direct" THEN 0 ELSE @]
(* Mutation: the direct side of a race is booked like a node. *)
Debit_Direct(k, u) == [k EXCEPT !.debits = @ \cup {u}]

Debit(k, u) == IF u = "direct" THEN k ELSE [k EXCEPT !.debits = @ \cup {u}]
Credit(k, u) == IF u = "direct" THEN k ELSE [k EXCEPT !.credits = @ \cup {u}]

BookFailed(k, route) ==
  IF k.eligible THEN Cache!RecordFailed(k.host, route) ELSE UNCHANGED cache

(* The last booking of a connection. *)
FailOver(c) ==
  LET route == RouteOf(conn[c].via)
  IN /\ BookFailed(conn[c], route)
     /\ Becomes(c, [Idle EXCEPT !.streak = Failed(conn[c], route).streak])

-----------------------------------------------------------------------------
(* Policy and decision. *)

Request(class, host, tunnel, once) ==
  [Idle EXCEPT !.step = "policy", !.class = class, !.host = host,
               !.tunnel = tunnel, !.once = once, !.sent = ~tunnel, !.free = ~pinned]

Accept(c) ==
  /\ At(c, "idle")
  /\ \E class \in Classes, host \in Hosts, tunnel, once \in BOOLEAN :
       Becomes(c, Request(class, host, tunnel, once))
  /\ UNCHANGED <<cache, pinned>>

(* The class of a target: of this host or its network; in the table of Chinese
   names; "chain", in the table of forced names or a public address; any other
   name.  A local target goes direct; so does a Chinese one whose name the real DNS
   resolves.  A pin comes before both. *)
Policy(c) ==
  /\ At(c, "policy")
  /\ \E direct \in BOOLEAN :
       /\ direct => ~pinned /\ conn[c].class \in {"local", "china"}
       /\ ~direct => pinned \/ conn[c].class # "local"
       /\ Becomes(c, [conn[c] EXCEPT !.step = "decide", !.direct = direct])
  /\ UNCHANGED <<cache, pinned>>

Bypass(c) ==
  /\ At(c, "decide")
  /\ pinned \/ conn[c].class # "name"
  /\ Becomes(c, [conn[c] EXCEPT !.step = "pick"])
  /\ UNCHANGED <<cache, pinned>>

(* Mutation: any request may race. *)
RaceSafe_Any(k) == TRUE

(* replay_race_safe: nothing read ahead, or a method that may be repeated. *)
RaceSafe(k) == k.tunnel \/ ~k.once

Decide(c) ==
  LET k == [conn[c] EXCEPT !.eligible = TRUE]
  IN /\ At(c, "decide")
     /\ ~pinned /\ k.class = "name"
     /\ \/ /\ \/ Cache!DecideMiss(k.host) \/ Cache!DecideExpired(k.host)
              \/ Cache!DecideRaceAgain(k.host)
           /\ Becomes(c, [k EXCEPT !.step = "pick", !.racing = RaceSafe(k)])
        \/ /\ Cache!DecideCached(k.host, "Proxy")
           /\ Becomes(c, [k EXCEPT !.step = "pick"])
        \/ /\ Cache!DecideCached(k.host, "Direct")
           /\ Becomes(c, [k EXCEPT !.step = "dial_cached"])
     /\ UNCHANGED pinned

(* The cached direct route: name resolution and dial within one budget. *)
DialCached(c) ==
  /\ At(c, "dial_cached")
  /\ \/ /\ Becomes(c, [Use(conn[c], "direct") EXCEPT !.step = "pick"])
        /\ UNCHANGED cache
     \/ /\ BookFailed(conn[c], "Direct")
        /\ Becomes(c, Failed([conn[c] EXCEPT !.step = "pick"], "Direct"))
  /\ UNCHANGED pinned

(* The candidates, in selection order with recently failed ones put back. *)
Pick(c) ==
  /\ At(c, "pick")
  /\ \E cand \in Candidates :
       LET k == [conn[c] EXCEPT !.cand = cand]
           first == {"direct"} \cup {cand[i] : i \in DOMAIN cand \cap {1}}
           later == {cand[i] : i \in DOMAIN cand \ {1}}
       IN Becomes(c,
            IF k.direct THEN [k EXCEPT !.step = "dial_policy"]
            ELSE IF k.via # NONE THEN [k EXCEPT !.step = "relay"]
            ELSE IF k.racing
            THEN [k EXCEPT !.step = "race",
                           !.side = [u \in Upstreams |-> IF u \in first THEN "dialing"
                                                         ELSE IF u \in later THEN "waiting"
                                                         ELSE "none"]]
            ELSE [k EXCEPT !.step = "chain"])
  /\ UNCHANGED <<cache, pinned>>

-----------------------------------------------------------------------------
(* One upstream after the other. *)

DialPolicy(c) ==
  /\ At(c, "dial_policy")
  /\ Becomes(c, Use(conn[c], "direct")) \/ Over(c)
  /\ UNCHANGED <<cache, pinned>>

DialCandidate(c) ==
  /\ At(c, "chain") /\ conn[c].cand # <<>>
  /\ LET u == Head(conn[c].cand)
     IN \/ Becomes(c, Use(conn[c], u))
        \/ Becomes(c, Debit([conn[c] EXCEPT !.cand = Tail(@)], u))
  /\ UNCHANGED <<cache, pinned>>

(* Mutation: the pin is not looked at once all candidates have failed. *)
LastResort_IgnoresPin(c) ==
  /\ At(c, "chain") /\ conn[c].cand = <<>>
  /\ BookFailed(conn[c], "Proxy")
  /\ Becomes(c, [Failed(conn[c], "Proxy") EXCEPT !.step = "dial_last"])
  /\ UNCHANGED pinned

(* All candidates failed: a pin fails with them, otherwise the target is
   dialled directly. *)
LastResort(c) ==
  /\ At(c, "chain") /\ conn[c].cand = <<>>
  /\ \/ /\ pinned
        /\ Over(c) /\ UNCHANGED cache
     \/ /\ ~pinned
        /\ BookFailed(conn[c], "Proxy")
        /\ Becomes(c, [Failed(conn[c], "Proxy") EXCEPT !.step = "dial_last"])
  /\ UNCHANGED pinned

DialLast(c) ==
  /\ At(c, "dial_last")
  /\ Becomes(c, Use(conn[c], "direct")) \/ Over(c)
  /\ UNCHANGED <<cache, pinned>>

-----------------------------------------------------------------------------
(* relay. *)

(* No first byte in time, or an error before it. *)
NoAnswer(c) ==
  /\ At(c, "relay")
  /\ FailOver(c)
  /\ UNCHANGED pinned

(* Closed in order without a byte. *)
EmptyAnswer(c) ==
  /\ At(c, "relay")
  /\ IF conn[c].eligible THEN Cache!RecordNeutral(conn[c].host, RouteOf(conn[c].via))
                         ELSE UNCHANGED cache
  /\ Over(c)
  /\ UNCHANGED pinned

FirstByte(c) ==
  LET k == [conn[c] EXCEPT !.step = "reply"]
      route == RouteOf(k.via)
  IN /\ At(c, "relay")
     /\ IF k.eligible
        THEN /\ \E fr \in FirstResponses : Cache!RecordResponded(k.host, route, fr)
             /\ Becomes(c, Answered(k, route))
        ELSE Becomes(c, k) /\ UNCHANGED cache
     /\ UNCHANGED pinned

(* The first bytes reach the client, and the node has its credit. *)
Reply(c) ==
  /\ At(c, "reply")
  /\ Becomes(c, [Credit(conn[c], conn[c].via) EXCEPT !.step = "stream"])
  /\ UNCHANGED <<cache, pinned>>

(* After the first byte: writing to the client or copying fails. *)
StreamDies(c) ==
  /\ conn[c].step \in {"reply", "stream"}
  /\ FailOver(c)
  /\ UNCHANGED pinned

StreamEnds(c) ==
  /\ At(c, "stream")
  /\ Over(c)
  /\ UNCHANGED <<cache, pinned>>

(* The client closes; whatever the other side was doing is dropped.  Nobody
   reads the client while its bytes are being written to an upstream. *)
ClientLeaves(c) ==
  /\ conn[c].step \in {"race", "relay", "reply", "stream"}
  /\ conn[c].stuck => At(c, "reply")
  /\ Over(c)
  /\ UNCHANGED <<cache, pinned>>

-----------------------------------------------------------------------------
(* race_relay: the sides of a wave dial at once; what the client has sent goes
   to every side that is live; the first byte wins. *)

InSide(c, u, s) == At(c, "race") /\ conn[c].side[u] = s

ClientSends(c) ==
  /\ At(c, "race") /\ ~conn[c].sent /\ ~conn[c].stuck
  /\ Becomes(c, [conn[c] EXCEPT !.sent = TRUE,
                                !.got = @ \cup {u \in Upstreams : conn[c].side[u] = "live"}])
  /\ UNCHANGED <<cache, pinned>>

SideDials(c, u) ==
  /\ InSide(c, u, "dialing")
  /\ \/ Becomes(c, [conn[c] EXCEPT !.side[u] = "live",
                                   !.got = IF conn[c].sent THEN @ \cup {u} ELSE @])
     \/ Becomes(c, Debit([conn[c] EXCEPT !.side[u] = "out"], u))
  /\ UNCHANGED <<cache, pinned>>

(* Connected, but no byte within the budget: out, and nobody is blamed. *)
SideSilent(c, u) ==
  /\ InSide(c, u, "live")
  /\ Becomes(c, [conn[c] EXCEPT !.side[u] = "out"])
  /\ UNCHANGED <<cache, pinned>>

(* The winner takes the client over, unless the client is gone by then. *)
SideAnswers(c, u) ==
  /\ InSide(c, u, "live")
  /\ \/ Over(c) /\ UNCHANGED cache
     \/ /\ \E fr \in FirstResponses :
             Cache!RecordResponded(conn[c].host, RouteOf(u), fr)
        /\ Becomes(c, Credit(Answered([conn[c] EXCEPT !.step = "stream", !.via = u,
                                                      !.got = @ \cup {u}], RouteOf(u)), u))
  /\ UNCHANGED pinned

(* Mutation: the slot of a failed dial is not cleared away. *)
WaveOver_KeepsSlots(k) == \A u \in Upstreams : k.side[u] \in {"none", "waiting"}

WaveOver(k) == \A u \in Upstreams : k.side[u] \notin {"dialing", "live"}

(* Mutation: the second wave starts from the first candidate again. *)
SecondWave_AllCandidates(k) ==
  [u \in Upstreams |-> IF u # "direct" /\ k.side[u] # "none" THEN "dialing" ELSE k.side[u]]

SecondWave(k) == [u \in Upstreams |-> IF k.side[u] = "waiting" THEN "dialing" ELSE k.side[u]]

NextWave(c) ==
  /\ At(c, "race") /\ WaveOver(conn[c])
  /\ \E u \in Upstreams : conn[c].side[u] = "waiting"
  /\ Becomes(c, [conn[c] EXCEPT !.side = SecondWave(conn[c])])
  /\ UNCHANGED <<cache, pinned>>

AllDead(c) ==
  /\ At(c, "race") /\ WaveOver(conn[c])
  /\ \A u \in Upstreams : conn[c].side[u] # "waiting"
  /\ Cache!RecordFailed(conn[c].host, "Proxy")
  /\ Over(c)
  /\ UNCHANGED pinned

-----------------------------------------------------------------------------
(* The writes that have no timeout: the replay of relay, what the client sent
   to the sides of a race, the first bytes to the client. *)
Stall(c) ==
  /\ ~conn[c].stuck
  /\ \/ At(c, "reply")
     \/ At(c, "relay") /\ ~conn[c].tunnel
     \/ conn[c].sent /\ \E u \in Upstreams : InSide(c, u, "live")
  /\ Becomes(c, [conn[c] EXCEPT !.stuck = TRUE])
  /\ UNCHANGED <<cache, pinned>>

Unstall(c) ==
  /\ conn[c].stuck
  /\ Becomes(c, [conn[c] EXCEPT !.stuck = FALSE])
  /\ UNCHANGED <<cache, pinned>>

(* What the handler does by itself: every other await has a timeout. *)
Run(c) ==
  \/ Policy(c) \/ Bypass(c) \/ Decide(c) \/ DialCached(c) \/ Pick(c)
  \/ DialPolicy(c) \/ DialCandidate(c) \/ LastResort(c) \/ DialLast(c)
  \/ NoAnswer(c) \/ EmptyAnswer(c) \/ FirstByte(c) \/ Reply(c)
  \/ \E u \in Upstreams : SideDials(c, u) \/ SideSilent(c, u) \/ SideAnswers(c, u)
  \/ NextWave(c) \/ AllDead(c)

Handler(c) == ~conn[c].stuck /\ Run(c)

(* What its two peers do when they like. *)
Peers(c) ==
  \/ Accept(c) \/ ClientSends(c) \/ ClientLeaves(c) \/ StreamDies(c) \/ StreamEnds(c)
  \/ Stall(c) \/ Unstall(c)

Pin ==
  /\ pinned' = ~pinned
  /\ conn' = [c \in Conns |-> [conn[c] EXCEPT !.free = conn[c].step # "idle" /\ (@ \/ ~pinned')]]
  /\ UNCHANGED cache

Tick == Cache!Tick /\ UNCHANGED <<pinned, conn>>

Next == (\E c \in Conns : Handler(c) \/ Peers(c)) \/ Pin \/ Tick

Spec == Init /\ [][Next]_vars

FairSpec == Spec /\ \A c \in Conns : WF_vars(Handler(c))

-----------------------------------------------------------------------------
(* A connection that was pinned all its life never dials its target directly,
   neither by policy, nor from the cache, nor in a race, nor as a last resort,
   though each of the three reads of the flag is a read of its own. *)
PinHolds ==
  \A c \in Conns :
    conn[c].step # "idle" /\ ~conn[c].free
      => /\ conn[c].step \notin {"dial_cached", "dial_policy", "dial_last", "race"}
         /\ conn[c].via # "direct"

(* A plain HTTP request that must not be repeated, sent to the proxy as such,
   reaches one upstream at most, whatever raced or failed before. *)
SentOnce ==
  \A c \in Conns : conn[c].once /\ ~conn[c].tunnel => Cardinality(conn[c].got) <= 1

(* The two ledgers agree: no connection credits a node it debited, nor two
   nodes, and where it keeps the route ledger it credits a node only together
   with an answer of the proxy route. *)
LedgersAgree ==
  \A c \in Conns :
    LET k == conn[c]
    IN /\ k.credits \cap k.debits = {}
       /\ Cardinality(k.credits) <= 1
       /\ k.eligible /\ k.credits # {} => k.answered = "Proxy"

(* No request waits for ever: it is answered or over, whatever sides stay
   silent and whatever dials hang, unless a peer does not take what is being
   written to it. *)
AnsweredOrOver ==
  \A c \in Conns :
    conn[c].step # "idle" ~> conn[c].step \in {"idle", "stream"} \/ conn[c].stuck

(* race.rs says that a request that must not be repeated (POST, PUT ...) takes
   no part in double sending, and that a tunnel has no problem of repeated
   delivery. *)
NeverSentTwice == \A c \in Conns : conn[c].once => Cardinality(conn[c].got) <= 1
=============================================================================
