-------------------------------- MODULE Dns --------------------------------
(***************************************************************************)
(* resolve_dial_addrs: before a node table is used, the names of its       *)
(* servers are looked up at the real upstream servers, one task per name   *)
(* and a limited number of them at once.  A query has a socket of its own; *)
(* the system gives its port to a later one, and the answer to the former  *)
(* may still be under way.                                                 *)
(***************************************************************************)
EXTENDS Naturals, Sequences, FiniteSets, Functions

CONSTANTS
  Tags,            \* nodes of the table
  Hosts,           \* names of servers
  Upstreams,       \* the upstream servers, a sequence
  Ports,           \* local ports of queries
  Ids,             \* what QUERY_ID counts: a reply does not outlive a wrap
  MaxConcurrency,  \* MAX_CONCURRENCY
  LITERAL,         \* a server that is an address already
  GIVEN,           \* a dial_addr that the table itself gives
  NONE             \* the None of an Option

ASSUME DnsAssumption ==
  /\ Len(Upstreams) \in Nat \ {0} /\ DOMAIN Upstreams = 1..Len(Upstreams)
  /\ MaxConcurrency \in Nat \ {0}
  /\ LITERAL \notin Hosts

VARIABLES
  phase,   \* of the reload: "idle", "resolving"
  server,  \* of each node
  dial,    \* dial_addr of each node
  look,    \* the task of each name: step, place in the plan, its query, its result
  net,     \* replies under way; they may be lost, late or delivered twice
  tried    \* history: the queries made for each name in this batch, with those
           \* that could not be sent

vars == <<phase, server, dial, look, net, tried>>

-----------------------------------------------------------------------------
(* Mutation: each upstream is asked for both types before the next one. *)
Plan_ByUpstream ==
  [i \in 1..2 * Len(Upstreams) |->
     [type |-> IF i % 2 = 1 THEN "A" ELSE "AAAA", up |-> Upstreams[(i + 1) \div 2]]]

(* A of every upstream, then AAAA of every upstream. *)
Plan ==
  [i \in 1..2 * Len(Upstreams) |->
     IF i <= Len(Upstreams) THEN [type |-> "A", up |-> Upstreams[i]]
     ELSE [type |-> "AAAA", up |-> Upstreams[i - Len(Upstreams)]]]

Queries == [type: {"A", "AAAA"}, up: Range(Upstreams)]

Addresses == [host: Hosts, type: {"A", "AAAA"}]

Replies == [id: Ids, port: Ports, up: Range(Upstreams), ip: Addresses \cup {NONE}]

Task(step) == [step |-> step, at |-> 1, id |-> NONE, port |-> NONE, ip |-> NONE]

TypeOK ==
  /\ phase \in {"idle", "resolving"}
  /\ server \in [Tags -> Hosts \cup {LITERAL}]
  /\ dial \in [Tags -> Addresses \cup {GIVEN, NONE}]
  /\ look \in [Hosts -> [step: {"none", "waiting", "ready", "asking", "done"},
                         at: 1..2 * Len(Upstreams), id: Ids \cup {NONE},
                         port: Ports \cup {NONE}, ip: Addresses \cup {NONE}]]
  /\ net \subseteq Replies
  /\ tried \in [Hosts -> SUBSET Queries]

Init ==
  /\ phase = "idle"
  /\ server \in [Tags -> {LITERAL}] /\ dial = [t \in Tags |-> NONE]
  /\ look = [h \in Hosts |-> Task("none")]
  /\ net = {}
  /\ tried = [h \in Hosts |-> {}]

-----------------------------------------------------------------------------
(* Names are looked up once, however many nodes bear them; addresses are not,
   nor is the server of a node that has its dial_addr from the table. *)
Reload(table, given) ==
  /\ phase = "idle" /\ phase' = "resolving"
  /\ server' = table
  /\ dial' = [t \in Tags |-> IF t \in given THEN GIVEN ELSE NONE]
  /\ LET names == {table[t] : t \in Tags \ given}
     IN look' = [h \in Hosts |-> Task(IF h \in names THEN "waiting" ELSE "none")]
  /\ tried' = [h \in Hosts |-> {}]
  /\ UNCHANGED net

Asking == {h \in Hosts : look[h].step = "asking"}

(* Whoever has a permit of the semaphore. *)
Permits == {h \in Hosts : look[h].step \in {"ready", "asking"}}

Acquire(h) ==
  /\ look[h].step = "waiting"
  /\ Cardinality(Permits) < MaxConcurrency
  /\ look' = [look EXCEPT ![h].step = "ready"]
  /\ UNCHANGED <<phase, server, dial, net, tried>>

(* Mutation: the end of the plan is noticed one query too late. *)
Continue_OffByOne(h, ip) ==
  LET at == look[h].at
      task == IF ip # NONE \/ at > Len(Plan)
              THEN [Task("done") EXCEPT !.at = at, !.ip = ip]
              ELSE [Task("ready") EXCEPT !.at = at + 1]
  IN look' = [look EXCEPT ![h] = task]

(* Mutation: the same query is made until it has an answer. *)
Continue_Retries(h, ip) ==
  LET task == IF ip # NONE THEN [Task("done") EXCEPT !.at = look[h].at, !.ip = ip]
              ELSE [Task("ready") EXCEPT !.at = look[h].at]
  IN look' = [look EXCEPT ![h] = task]

(* The next query of the plan, or the end of the task with what there is. *)
Continue(h, ip) ==
  LET at == look[h].at
      task == IF ip # NONE \/ at = Len(Plan)
              THEN [Task("done") EXCEPT !.at = at, !.ip = ip]
              ELSE [Task("ready") EXCEPT !.at = at + 1]
  IN look' = [look EXCEPT ![h] = task]

(* A name no query can be made of, or no socket, or no route: on to the next. *)
NotSent(h) ==
  /\ look[h].step = "ready"
  /\ Continue(h, NONE)
  /\ tried' = [tried EXCEPT ![h] = @ \cup {Plan[look[h].at]}]
  /\ UNCHANGED <<phase, server, dial, net>>

(* A new socket, and a new id.  The upstream's reply says what it knows of the
   name, if the query reaches it. *)
Ask(h, id, port) ==
  /\ look[h].step = "ready"
  /\ \A g \in Asking : look[g].id # id /\ look[g].port # port
  /\ look' = [look EXCEPT ![h].step = "asking", ![h].id = id, ![h].port = port]
  /\ LET q == Plan[look[h].at]
         reply(ip) == [id |-> id, port |-> port, up |-> q.up, ip |-> ip]
     IN /\ \E new \in {{}, {reply(NONE)}, {reply([host |-> h, type |-> q.type])}} :
             net' = {r \in net : r.id # id} \cup new
        /\ tried' = [tried EXCEPT ![h] = @ \cup {q}]
  /\ UNCHANGED <<phase, server, dial>>

(* A record of the type that was asked for. *)
Fits(r, h) == r.ip # NONE /\ r.ip.type = Plan[look[h].at].type

(* Mutation: the first such record is taken, whatever the id. *)
Parsed_AnyId(r, h) == IF Fits(r, h) THEN r.ip ELSE NONE

(* parse_answers: a reply with another id has no answer. *)
Parsed(r, h) == IF r.id = look[h].id /\ Fits(r, h) THEN r.ip ELSE NONE

(* The first datagram from the upstream ends the query, be it the answer or a
   late one to the query that had the port before. *)
Receive(h, r) ==
  /\ look[h].step = "asking"
  /\ r.port = look[h].port /\ r.up = Plan[look[h].at].up
  /\ Continue(h, Parsed(r, h))
  /\ UNCHANGED <<phase, server, dial, net, tried>>

(* No answer in time, or an error in its place. *)
NoAnswer(h) ==
  /\ look[h].step = "asking"
  /\ Continue(h, NONE)
  /\ UNCHANGED <<phase, server, dial, net, tried>>

Query(h) == NotSent(h) \/ \E id \in Ids, port \in Ports : Ask(h, id, port)

Step(h) ==
  \/ Acquire(h) \/ Query(h)
  \/ (\E r \in net : Receive(h, r)) \/ NoAnswer(h)

(* All tasks are joined; a node whose server was not found keeps its name, and
   one with a dial_addr keeps that. *)
Apply ==
  /\ phase = "resolving" /\ phase' = "idle"
  /\ \A h \in Hosts : look[h].step \in {"none", "done"}
  /\ dial' = [t \in Tags |-> IF dial[t] # NONE \/ server[t] = LITERAL THEN dial[t]
                             ELSE look[server[t]].ip]
  /\ UNCHANGED <<server, look, net, tried>>

Next ==
  \/ \E table \in [Tags -> Hosts \cup {LITERAL}], given \in SUBSET Tags :
       Reload(table, given)
  \/ \E h \in Hosts : Step(h)
  \/ Apply

Spec == Init /\ [][Next]_vars

(* A query ends with its timeout at the latest, and permits are given in turn. *)
FairSpec ==
  /\ Spec /\ WF_vars(Apply)
  /\ \A h \in Hosts :
       WF_vars(Acquire(h)) /\ WF_vars(Query(h)) /\ WF_vars(NoAnswer(h))

-----------------------------------------------------------------------------
(* A node without a dial_addr in the table is dialled at an address of its own
   server: no late or repeated reply, to another query from the same port, gives
   it that of another. *)
AddressOfItsServer ==
  \A t \in Tags : dial[t] \notin {GIVEN, NONE} => dial[t].host = server[t]

(* A name is given up only when every upstream has been tried for both types, and
   gets a v6 address, which this machine can seldom reach, only when every
   upstream has been tried for a v4 one. *)
UpstreamsExhausted ==
  \A h \in Hosts : look[h].step = "done" =>
    \A q \in Queries :
      look[h].ip = NONE \/ (look[h].ip.type = "AAAA" /\ q.type = "A") => q \in tried[h]

(* A reload does not wait for ever for its names, whatever upstreams do. *)
ReloadEnds == phase = "resolving" ~> phase = "idle"
=============================================================================
