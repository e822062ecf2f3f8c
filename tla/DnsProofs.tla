----------------------------- MODULE DnsProofs -----------------------------
(* Theorems of the look-up of server names, for any table, any upstreams, any
   number of queries at once, and replies that are lost, late or repeated: what
   is found, what has been tried, and how much is left to do. *)
EXTENDS Dns, TLAPS

(* A reply that bears the id of a query is the reply to that query: a new id
   is borne by no reply yet. *)
RepliesTied ==
  \A r \in net, h \in Hosts :
    look[h].step = "asking" /\ look[h].id = r.id => r.ip = NONE \/ r.ip.host = h

(* What a task has found is an address of its name. *)
FoundOwn == \A h \in Hosts : look[h].ip # NONE => look[h].ip.host = h

(* How far in the plan the queries for a name have come. *)
Made(h) == IF look[h].step \in {"asking", "done"} THEN look[h].at ELSE look[h].at - 1

InOrder == \A h \in Hosts : \A i \in 1..Made(h) : Plan[i] \in tried[h]

(* A task ends at the end of the plan, or with an answer to its last query. *)
EndsWell ==
  \A h \in Hosts : look[h].step = "done" =>
    IF look[h].ip = NONE THEN look[h].at = 2 * Len(Upstreams)
    ELSE look[h].ip.type = Plan[look[h].at].type

Inv ==
  TypeOK /\ RepliesTied /\ FoundOwn /\ InOrder /\ EndsWell /\ AddressOfItsServer

(* The type of the task of one name. *)
Looks == [step: {"none", "waiting", "ready", "asking", "done"},
          at: 1..2 * Len(Upstreams), id: Ids \cup {NONE},
          port: Ports \cup {NONE}, ip: Addresses \cup {NONE}]

(* What the invariant says of one name: its task, the replies, its queries. *)
Good(h, l, replies, done) ==
  /\ l \in Looks
  /\ \A r \in replies : l.step = "asking" /\ l.id = r.id => r.ip = NONE \/ r.ip.host = h
  /\ l.ip # NONE => l.ip.host = h
  /\ \A i \in 1..(IF l.step \in {"asking", "done"} THEN l.at ELSE l.at - 1) :
       Plan[i] \in done
  /\ l.step = "done" => IF l.ip = NONE THEN l.at = 2 * Len(Upstreams)
                        ELSE l.ip.type = Plan[l.at].type

(* The rest of it. *)
Shared ==
  /\ phase \in {"idle", "resolving"}
  /\ server \in [Tags -> Hosts \cup {LITERAL}]
  /\ dial \in [Tags -> Addresses \cup {GIVEN, NONE}]
  /\ net \subseteq Replies
  /\ tried \in [Hosts -> SUBSET Queries]
  /\ AddressOfItsServer

AllGood == look \in [Hosts -> Looks] /\ \A h \in Hosts : Good(h, look[h], net, tried[h])

LEMMA InvByName == Inv <=> Shared /\ AllGood
<1>1. ASSUME NEW h \in Hosts
      PROVE  Made(h) = (IF look[h].step \in {"asking", "done"} THEN look[h].at
                        ELSE look[h].at - 1)
  BY DEF Made
<1>2. Inv => Shared /\ AllGood
  BY <1>1 DEF Inv, TypeOK, RepliesTied, FoundOwn, InOrder, EndsWell, Shared, AllGood, Good, Looks
<1>3. Shared /\ AllGood => Inv
  BY <1>1 DEF Inv, TypeOK, RepliesTied, FoundOwn, InOrder, EndsWell, Shared, AllGood, Good, Looks
<1> QED BY <1>2, <1>3

LEMMA NextInvByName == Shared' /\ AllGood' => Inv'
BY InvByName, PTL

-----------------------------------------------------------------------------
(* The plan. *)

LEMMA PlanShape ==
  /\ DOMAIN Plan = 1..2 * Len(Upstreams) /\ Len(Plan) = 2 * Len(Upstreams)
  /\ \A i \in 1..2 * Len(Upstreams) : Plan[i] \in Queries
  /\ \A i \in 1..Len(Upstreams) : Plan[i] = [type |-> "A", up |-> Upstreams[i]]
  /\ \A i \in 1..2 * Len(Upstreams) :
       i > Len(Upstreams) => Plan[i] = [type |-> "AAAA", up |-> Upstreams[i - Len(Upstreams)]]
<1> DEFINE n == Len(Upstreams)
<1>1. n \in Nat \ {0} /\ DOMAIN Upstreams = 1..n
  BY DnsAssumption
<1>2. \A i \in 1..n : Upstreams[i] \in Range(Upstreams)
  BY <1>1 DEF Range
<1> HIDE DEF n
<1> DEFINE query(i) == IF i <= n THEN [type |-> "A", up |-> Upstreams[i]]
                       ELSE [type |-> "AAAA", up |-> Upstreams[i - n]]
<1>3. Plan = [i \in 1..2 * n |-> query(i)]
  BY DEF Plan, n
<1>4. \A i \in 1..n : Plan[i] = [type |-> "A", up |-> Upstreams[i]]
  <2> TAKE i \in 1..n
  <2>1. i \in 1..2 * n /\ i <= n
    BY <1>1
  <2>2. Plan[i] = query(i)
    BY <1>3, <2>1
  <2> QED BY <2>1, <2>2
<1>5. \A i \in 1..2 * n : i > n => Plan[i] = [type |-> "AAAA", up |-> Upstreams[i - n]]
  <2> SUFFICES ASSUME NEW i \in 1..2 * n, i > n
               PROVE  Plan[i] = [type |-> "AAAA", up |-> Upstreams[i - n]]
    OBVIOUS
  <2>1. ~(i <= n)
    BY <1>1
  <2>2. Plan[i] = query(i)
    BY <1>3
  <2> QED BY <2>1, <2>2
<1>6. \A i \in 1..2 * n : Plan[i] \in Queries
  <2> SUFFICES ASSUME NEW i \in 1..2 * n PROVE Plan[i] \in Queries
    OBVIOUS
  <2>1. CASE i <= n
    <3>1. i \in 1..n
      BY <1>1, <2>1
    <3>2. Plan[i] = [type |-> "A", up |-> Upstreams[i]] /\ Upstreams[i] \in Range(Upstreams)
      BY <3>1, <1>2, <1>4
    <3> QED BY <3>2 DEF Queries
  <2>2. CASE i > n
    <3>1. i - n \in 1..n
      BY <1>1, <2>2
    <3>2. /\ Plan[i] = [type |-> "AAAA", up |-> Upstreams[i - n]]
          /\ Upstreams[i - n] \in Range(Upstreams)
      BY <2>2, <3>1, <1>2, <1>5
    <3> QED BY <3>2 DEF Queries
  <2> QED BY <1>1, <2>1, <2>2
<1>7. DOMAIN Plan = 1..2 * n
  BY <1>3
<1>8. Plan \in Seq(Queries)
  <2> HIDE DEF query
  <2>1. Plan \in [1..2 * n -> Queries]
    BY <1>3, <1>6
  <2> QED BY <1>1, <2>1
<1>9. Len(Plan) = 2 * n
  BY <1>1, <1>7, <1>8
<1> QED BY <1>4, <1>5, <1>6, <1>7, <1>9 DEF n

(* Every query is somewhere in the plan, those for a v4 address before the
   others. *)
LEMMA PlanCovers ==
  ASSUME NEW q \in Queries
  PROVE  \E i \in 1..2 * Len(Upstreams) :
           Plan[i] = q /\ (q.type = "A" => i \in 1..Len(Upstreams))
<1> DEFINE n == Len(Upstreams)
<1>1. n \in Nat \ {0} /\ DOMAIN Upstreams = 1..n
  BY DnsAssumption
<1>2. PICK j \in 1..n : q.up = Upstreams[j]
  BY <1>1 DEF Queries, Range
<1>3. CASE q.type = "A"
  <2>1. Plan[j] = [type |-> "A", up |-> Upstreams[j]]
    BY <1>2, PlanShape
  <2>2. Plan[j] = q /\ j \in 1..2 * n
    BY <1>1, <1>2, <1>3, <2>1 DEF Queries
  <2> QED BY <1>2, <2>2
<1>4. CASE q.type = "AAAA"
  <2>1. n + j \in 1..2 * n /\ n + j > n /\ n + j - n = j
    BY <1>1, <1>2
  <2>2. Plan[n + j] = [type |-> "AAAA", up |-> Upstreams[j]]
    BY <2>1, PlanShape
  <2>3. Plan[n + j] = q
    BY <1>2, <1>4, <2>2 DEF Queries
  <2> QED BY <1>4, <2>1, <2>3
<1> QED BY <1>3, <1>4 DEF Queries

-----------------------------------------------------------------------------
LEMMA NewTask ==
  ASSUME NEW h \in Hosts, NEW step \in {"none", "waiting"}, NEW replies, NEW done
  PROVE  Good(h, Task(step), replies, done)
<1>1. 1 \in 1..2 * Len(Upstreams)
  BY DnsAssumption
<1>2. Task(step) \in Looks
  BY <1>1 DEF Task, Looks
<1> QED BY <1>2 DEF Good, Task

LEMMA InitInv == Init => Inv
<1> SUFFICES ASSUME Init PROVE Shared /\ AllGood
  BY InvByName
<1>1. Shared
  BY DEF Init, Shared, AddressOfItsServer
<1>2. \A h \in Hosts : Good(h, look[h], net, tried[h])
  BY NewTask DEF Init
<1>3. look \in [Hosts -> Looks]
  BY <1>2 DEF Init, Good
<1> QED BY <1>1, <1>2, <1>3 DEF AllGood

LEMMA ReloadInv ==
  ASSUME Inv, NEW table \in [Tags -> Hosts \cup {LITERAL}], NEW given \in SUBSET Tags,
         Reload(table, given)
  PROVE  Inv'
<1>1. Shared /\ AllGood
  BY InvByName
<1>2. Shared'
  BY <1>1 DEF Reload, Shared, AddressOfItsServer
<1>3. \A h \in Hosts : Good(h, look'[h], net', tried'[h])
  BY NewTask DEF Reload
<1>4. look' \in [Hosts -> Looks]
  BY <1>3 DEF Reload, Good
<1>5. AllGood'
  BY <1>3, <1>4 DEF AllGood
<1> QED BY <1>2, <1>5, NextInvByName

(* A step that concerns the task of one name only. *)
LEMMA OneTask ==
  ASSUME Inv, NEW h \in Hosts, NEW l, NEW done \in SUBSET Queries,
         look' = [look EXCEPT ![h] = l], tried' = [tried EXCEPT ![h] = done],
         Good(h, l, net, done), UNCHANGED <<phase, server, dial, net>>
  PROVE  Inv'
<1>1. Shared /\ AllGood
  BY InvByName
<1>2. Shared'
  BY <1>1 DEF Shared, AddressOfItsServer
<1>3. l \in Looks
  BY DEF Good
<1>4. look' \in [Hosts -> Looks]
  BY <1>1, <1>3 DEF AllGood
<1>5. ASSUME NEW g \in Hosts PROVE Good(g, look'[g], net', tried'[g])
  <2>1. CASE g = h
    BY <1>1, <2>1 DEF AllGood, Shared
  <2>2. CASE g # h
    BY <1>1, <2>2 DEF AllGood, Shared
  <2> QED BY <2>1, <2>2
<1>6. AllGood'
  BY <1>4, <1>5 DEF AllGood
<1> QED BY <1>2, <1>6, NextInvByName

(* A step without a query. *)
LEMMA SameTried ==
  ASSUME Inv, NEW h \in Hosts, UNCHANGED tried
  PROVE  tried[h] \in SUBSET Queries /\ tried' = [tried EXCEPT ![h] = tried[h]]
BY DEF Inv, TypeOK

LEMMA AcquireInv ==
  ASSUME Inv, NEW h \in Hosts, Acquire(h)
  PROVE  Inv'
<1> DEFINE l == [look[h] EXCEPT !.step = "ready"]
<1>1. look \in [Hosts -> Looks] /\ Good(h, look[h], net, tried[h])
  BY InvByName DEF AllGood
<1>2. look' = [look EXCEPT ![h] = l]
  BY DEF Acquire
<1>3. l \in Looks /\ l.at = look[h].at /\ l.ip = look[h].ip /\ l.step = "ready"
  BY <1>1 DEF Looks
<1> HIDE DEF l
<1>4. Good(h, l, net, tried[h])
  BY <1>1, <1>3 DEF Good, Acquire
<1>5. UNCHANGED <<phase, server, dial, net, tried>>
  BY DEF Acquire
<1> QED BY <1>2, <1>4, <1>5, SameTried, OneTask

LEMMA ContinueInv ==
  ASSUME Inv, NEW h \in Hosts,
         NEW done \in SUBSET Queries, \A i \in 1..look[h].at : Plan[i] \in done,
         NEW ip \in Addresses \cup {NONE},
         ip # NONE => ip.host = h /\ ip.type = Plan[look[h].at].type,
         Continue(h, ip), tried' = [tried EXCEPT ![h] = done],
         UNCHANGED <<phase, server, dial, net>>
  PROVE  Inv'
<1> DEFINE at == look[h].at
           n == 2 * Len(Upstreams)
<1>1. look \in [Hosts -> Looks] /\ Good(h, look[h], net, tried[h])
  BY InvByName DEF AllGood
<1>2. at \in 1..n /\ n \in Nat /\ Len(Plan) = n
  BY <1>1, PlanShape, DnsAssumption DEF Looks
<1>3. \A i \in 1..at : Plan[i] \in done
  OBVIOUS
<1>4. CASE ip # NONE \/ at = n
  <2> DEFINE l == [Task("done") EXCEPT !.at = at, !.ip = ip]
  <2>1. look' = [look EXCEPT ![h] = l]
    BY <1>2, <1>4 DEF Continue
  <2>2. l \in Looks /\ l.step = "done" /\ l.at = at /\ l.ip = ip
    BY <1>2 DEF Task, Looks
  <2> HIDE DEF l
  <2>3. Good(h, l, net, done)
    BY <1>3, <1>4, <2>2 DEF Good
  <2> QED BY <2>1, <2>3, OneTask
<1>5. CASE ~(ip # NONE \/ at = n)
  <2> DEFINE l == [Task("ready") EXCEPT !.at = at + 1]
  <2>1. look' = [look EXCEPT ![h] = l]
    BY <1>2, <1>5 DEF Continue
  <2>2. at + 1 \in 1..n /\ at + 1 - 1 = at
    BY <1>2, <1>5
  <2>3. l \in Looks /\ l.step = "ready" /\ l.at = at + 1 /\ l.ip = NONE
    BY <2>2 DEF Task, Looks
  <2> HIDE DEF l
  <2>4. (IF l.step \in {"asking", "done"} THEN l.at ELSE l.at - 1) = at
    <3>1. l.at - 1 = at
      BY <1>2, <2>3
    <3>2. l.step \notin {"asking", "done"}
      BY <2>3
    <3> QED BY <3>1, <3>2
  <2>5. Good(h, l, net, done)
    BY <1>3, <2>3, <2>4 DEF Good
  <2> QED BY <2>1, <2>5, OneTask
<1> QED BY <1>4, <1>5

LEMMA ReceiveInv ==
  ASSUME Inv, NEW h \in Hosts, NEW r \in net, Receive(h, r)
  PROVE  Inv'
<1>1. look[h].step = "asking" /\ r \in Replies
  BY DEF Inv, TypeOK, Receive
<1>2. Parsed(r, h) \in Addresses \cup {NONE}
  BY <1>1 DEF Parsed, Replies
<1>3. Parsed(r, h) # NONE => Parsed(r, h).host = h /\ Parsed(r, h).type = Plan[look[h].at].type
  BY <1>1 DEF Parsed, Fits, Inv, RepliesTied
<1>4. \A i \in 1..look[h].at : Plan[i] \in tried[h]
  BY <1>1 DEF Inv, InOrder, Made
<1>5. Continue(h, Parsed(r, h)) /\ UNCHANGED <<phase, server, dial, net, tried>>
  BY DEF Receive
<1> QED BY <1>2, <1>3, <1>4, <1>5, SameTried, ContinueInv

LEMMA NoAnswerInv ==
  ASSUME Inv, NEW h \in Hosts, NoAnswer(h)
  PROVE  Inv'
<1>1. \A i \in 1..look[h].at : Plan[i] \in tried[h]
  BY DEF NoAnswer, Inv, InOrder, Made
<1>2. Continue(h, NONE) /\ UNCHANGED <<phase, server, dial, net, tried>>
  BY DEF NoAnswer
<1> QED BY <1>1, <1>2, SameTried, ContinueInv

LEMMA NotSentInv ==
  ASSUME Inv, NEW h \in Hosts, NotSent(h)
  PROVE  Inv'
<1> DEFINE q == Plan[look[h].at]
           done == tried[h] \cup {q}
<1>1. look[h] \in Looks /\ look[h].step = "ready" /\ tried[h] \in SUBSET Queries
  BY InvByName DEF Shared, AllGood, NotSent
<1>2. /\ look[h].at \in 1..2 * Len(Upstreams) /\ Len(Upstreams) \in Nat
      /\ q \in Queries
  BY <1>1, PlanShape, DnsAssumption DEF Looks
<1>3. \A i \in 1..look[h].at - 1 : Plan[i] \in tried[h]
  BY <1>1 DEF Inv, InOrder, Made
<1>4. \A i \in 1..look[h].at : Plan[i] \in done
  BY <1>2, <1>3
<1>5. /\ Continue(h, NONE) /\ tried' = [tried EXCEPT ![h] = done]
      /\ UNCHANGED <<phase, server, dial, net>> /\ done \in SUBSET Queries
  BY <1>1, <1>2 DEF NotSent
<1> HIDE DEF done
<1> QED BY <1>4, <1>5, ContinueInv

LEMMA AskInv ==
  ASSUME Inv, NEW h \in Hosts, NEW id \in Ids, NEW port \in Ports, Ask(h, id, port)
  PROVE  Inv'
<1> DEFINE q == Plan[look[h].at]
           reply(ip) == [id |-> id, port |-> port, up |-> q.up, ip |-> ip]
           l == [look[h] EXCEPT !.step = "asking", !.id = id, !.port = port]
<1>1. Shared /\ AllGood
  BY InvByName
<1>2. look[h] \in Looks /\ look[h].step = "ready" /\ look \in [Hosts -> Looks]
  BY <1>1 DEF AllGood, Ask
<1>3. q \in Queries
  BY <1>2, PlanShape DEF Looks
<1>4. PICK new \in {{}, {reply(NONE)}, {reply([host |-> h, type |-> q.type])}} :
        net' = {r \in net : r.id # id} \cup new
  BY DEF Ask
<1>5. [host |-> h, type |-> q.type] \in Addresses
  BY <1>3 DEF Addresses, Queries
<1>6. \A r \in new : r \in Replies /\ r.id = id /\ (r.ip = NONE \/ r.ip.host = h)
  <2>1. reply(NONE) \in Replies /\ reply([host |-> h, type |-> q.type]) \in Replies
    BY <1>3, <1>5 DEF Replies, Queries
  <2> QED BY <2>1
<1>7. tried' = [tried EXCEPT ![h] = @ \cup {q}]
  BY DEF Ask
<1>8. l \in Looks /\ l.step = "asking" /\ l.id = id /\ l.at = look[h].at /\ l.ip = look[h].ip
  BY <1>2 DEF Looks
<1>9. look' = [look EXCEPT ![h] = l]
  BY DEF Ask
<1> HIDE DEF reply, l, q
<1>10. Shared'
  <2>1. net' \subseteq Replies
    BY <1>1, <1>4, <1>6 DEF Shared
  <2>2. tried' \in [Hosts -> SUBSET Queries]
    BY <1>1, <1>3, <1>7 DEF Shared
  <2> QED BY <1>1, <2>1, <2>2 DEF Shared, AddressOfItsServer, Ask
<1>11. look' \in [Hosts -> Looks]
  BY <1>2, <1>8, <1>9
<1>12. Good(h, l, net', tried'[h])
  <2>1. \A i \in 1..look[h].at - 1 : Plan[i] \in tried[h]
    BY <1>1, <1>2 DEF AllGood, Good
  <2>2. tried'[h] = tried[h] \cup {q}
    BY <1>1, <1>7 DEF Shared
  <2>3. look[h].at \in 1..2 * Len(Upstreams) /\ Len(Upstreams) \in Nat
    BY <1>2, DnsAssumption DEF Looks
  <2>4. \A i \in 1..look[h].at : Plan[i] \in tried'[h]
    BY <2>1, <2>2, <2>3 DEF q
  <2>5. \A r \in net' : r.id = id => r.ip = NONE \/ r.ip.host = h
    BY <1>4, <1>6
  <2>6. l.ip # NONE => l.ip.host = h
    BY <1>1, <1>8 DEF AllGood, Good
  <2> QED BY <1>8, <2>4, <2>5, <2>6 DEF Good
<1>13. ASSUME NEW g \in Hosts, g # h PROVE Good(g, look[g], net', tried[g])
  <2>1. Good(g, look[g], net, tried[g])
    BY <1>1 DEF AllGood
  <2>2. look[g].step = "asking" => look[g].id # id
    BY DEF Ask, Asking
  <2>3. \A r \in net' : r.id # id => r \in net
    BY <1>4, <1>6
  <2>4. \A r \in net' : look[g].step = "asking" /\ look[g].id = r.id
                          => r.ip = NONE \/ r.ip.host = g
    BY <2>1, <2>2, <2>3 DEF Good
  <2> QED BY <2>1, <2>4 DEF Good
<1>14. ASSUME NEW g \in Hosts PROVE Good(g, look'[g], net', tried'[g])
  <2>1. CASE g = h
    <3>1. look'[h] = l
      BY <1>2, <1>9
    <3> QED BY <1>12, <2>1, <3>1
  <2>2. CASE g # h
    <3>1. look'[g] = look[g] /\ tried'[g] = tried[g]
      BY <1>1, <1>2, <1>7, <1>9, <2>2 DEF Shared
    <3> QED BY <1>13, <2>2, <3>1
  <2> QED BY <2>1, <2>2
<1>15. AllGood'
  BY <1>11, <1>14 DEF AllGood
<1> QED BY <1>10, <1>15, NextInvByName

LEMMA ApplyInv ==
  ASSUME Inv, Apply
  PROVE  Inv'
<1>1. Shared /\ AllGood
  BY InvByName
<1>2. ASSUME NEW t \in Tags
      PROVE  /\ dial'[t] \in Addresses \cup {GIVEN, NONE}
             /\ dial'[t] \notin {GIVEN, NONE} => dial'[t].host = server[t]
  <2>1. dial'[t] = IF dial[t] # NONE \/ server[t] = LITERAL THEN dial[t]
                   ELSE look[server[t]].ip
    BY DEF Apply
  <2>2. CASE dial[t] # NONE \/ server[t] = LITERAL
    BY <1>1, <2>1, <2>2 DEF Shared, AddressOfItsServer
  <2>3. CASE ~(dial[t] # NONE \/ server[t] = LITERAL)
    <3>1. server[t] \in Hosts
      BY <1>1, <2>3 DEF Shared
    <3>2. Good(server[t], look[server[t]], net, tried[server[t]])
      BY <1>1, <3>1 DEF AllGood
    <3> QED BY <2>1, <2>3, <3>2 DEF Good, Looks
  <2> QED BY <2>2, <2>3
<1>3. dial' \in [Tags -> Addresses \cup {GIVEN, NONE}]
  <2>1. dial' = [t \in Tags |-> dial'[t]]
    BY DEF Apply
  <2> QED BY <1>2, <2>1
<1>4. Shared'
  BY <1>1, <1>2, <1>3 DEF Shared, AddressOfItsServer, Apply
<1>5. AllGood'
  BY <1>1 DEF AllGood, Apply
<1> QED BY <1>4, <1>5, NextInvByName

LEMMA StepInv == Inv /\ [Next]_vars => Inv'
<1> SUFFICES ASSUME Inv, [Next]_vars PROVE Inv'
  OBVIOUS
<1>1. ASSUME NEW table \in [Tags -> Hosts \cup {LITERAL}], NEW given \in SUBSET Tags,
             Reload(table, given)
      PROVE  Inv'
  BY <1>1, ReloadInv
<1>2. ASSUME NEW h \in Hosts, Step(h) PROVE Inv'
  BY <1>2, AcquireInv, NotSentInv, AskInv, ReceiveInv, NoAnswerInv DEF Step, Query
<1>3. CASE Apply
  BY <1>3, ApplyInv
<1>4. CASE UNCHANGED vars
  <2>1. Shared /\ AllGood
    BY InvByName
  <2>2. Shared' /\ AllGood'
    BY <1>4, <2>1 DEF vars, Shared, AllGood, AddressOfItsServer
  <2> QED BY <2>2, NextInvByName
<1> QED BY <1>1, <1>2, <1>3, <1>4 DEF Next

LEMMA Invariant == Spec => []Inv
<1> QED BY InitInv, StepInv, PTL DEF Spec

-----------------------------------------------------------------------------
(* The tasks of the names, their queries and the replies have their types. *)
THEOREM Typing == Spec => []TypeOK
<1>1. Inv => TypeOK
  BY DEF Inv
<1> QED BY <1>1, Invariant, PTL

(* Late and repeated replies are told from the answer by the id, so no node is
   dialled at another one's address. *)
THEOREM AddressesRight == Spec => []AddressOfItsServer
<1>1. Inv => AddressOfItsServer
  BY DEF Inv
<1> QED BY <1>1, Invariant, PTL

(* resolve_host gives up, or settles for a v6 address, only after it has tried
   every upstream there is. *)
THEOREM AllAreAsked == Spec => []UpstreamsExhausted
<1>1. Inv => UpstreamsExhausted
  <2> SUFFICES ASSUME Inv, NEW h \in Hosts, look[h].step = "done", NEW q \in Queries,
                      look[h].ip = NONE \/ (look[h].ip.type = "AAAA" /\ q.type = "A")
               PROVE  q \in tried[h]
    BY DEF UpstreamsExhausted
  <2> DEFINE at == look[h].at
             n == Len(Upstreams)
  <2>1. Good(h, look[h], net, tried[h])
    BY InvByName DEF AllGood
  <2>2. at \in 1..2 * n /\ n \in Nat
    BY <2>1, DnsAssumption DEF Good, Looks
  <2>3. \A i \in 1..at : Plan[i] \in tried[h]
    BY <2>1 DEF Good
  <2>4. PICK i \in 1..2 * n : Plan[i] = q /\ (q.type = "A" => i \in 1..n)
    BY PlanCovers
  <2>5. CASE look[h].ip = NONE
    <3>1. at = 2 * n
      BY <2>1, <2>5 DEF Good
    <3> QED BY <2>3, <2>4, <3>1
  <2>6. CASE look[h].ip # NONE
    <3>1. look[h].ip.type = "AAAA" /\ q.type = "A"
      BY <2>6
    <3>2. Plan[at].type = "AAAA"
      BY <2>1, <2>6, <3>1 DEF Good
    <3>3. ~(at \in 1..n)
      <4>1. SUFFICES ASSUME at \in 1..n PROVE FALSE
        OBVIOUS
      <4>2. Plan[at] = [type |-> "A", up |-> Upstreams[at]]
        BY <4>1, PlanShape
      <4> QED BY <3>2, <4>2
    <3>4. i \in 1..at
      BY <2>2, <2>4, <3>1, <3>3
    <3> QED BY <2>3, <2>4, <3>4
  <2> QED BY <2>5, <2>6
<1> QED BY <1>1, Invariant, PTL
-----------------------------------------------------------------------------
(* What a reload waits for. *)

(* What a name has still to do: queries, each with a wait for a socket and one
   for the answer, and the wait for a permit before the first. *)
Left(l) ==
  IF l.step \in {"none", "done"} THEN 0
  ELSE 3 * (2 * Len(Upstreams) - l.at)
         + CASE l.step = "waiting" -> 3 [] l.step = "ready" -> 2 [] l.step = "asking" -> 1

(* Whatever upstreams answer or do not, every step of a name's task leaves it
   less to do, and no step of the others gives it more before the reload is
   over: resolve_host goes once through its plan. *)
LookupsAdvance ==
  [][\A h \in Hosts :
       /\ Step(h) => Left(look'[h]) < Left(look[h])
       /\ phase = "resolving" => Left(look'[h]) <= Left(look[h])]_vars

LEMMA LeftIs ==
  ASSUME NEW l \in Looks
  PROVE  /\ Left(l) \in Nat
         /\ l.step = "done" => Left(l) = 0
         /\ l.step = "waiting" => Left(l) = 3 * (2 * Len(Upstreams) - l.at) + 3
         /\ l.step = "ready" => Left(l) = 3 * (2 * Len(Upstreams) - l.at) + 2
         /\ l.step = "asking" => Left(l) = 3 * (2 * Len(Upstreams) - l.at) + 1
         /\ 2 * Len(Upstreams) \in Nat /\ l.at \in 1..2 * Len(Upstreams)
<1>1. 2 * Len(Upstreams) \in Nat /\ l.at \in 1..2 * Len(Upstreams)
  BY DnsAssumption DEF Looks
<1>2. CASE l.step \in {"none", "done"}
  BY <1>1, <1>2 DEF Left
<1>3. CASE l.step = "waiting"
  BY <1>1, <1>3 DEF Left
<1>4. CASE l.step = "ready"
  BY <1>1, <1>4 DEF Left
<1>5. CASE l.step = "asking"
  BY <1>1, <1>5 DEF Left
<1> QED BY <1>2, <1>3, <1>4, <1>5 DEF Looks

LEMMA NextAllGood == Inv' => AllGood'
BY InvByName, PTL

(* The end of a query, or its failure to be sent, is the end of the task or the
   next query. *)
LEMMA ContinueAdvances ==
  ASSUME Inv, NEW h \in Hosts, look[h].step \in {"ready", "asking"}, NEW ip, Continue(h, ip)
  PROVE  /\ Left(look'[h]) < Left(look[h])
         /\ \A g \in Hosts \ {h} : look'[g] = look[g]
<1> DEFINE at == look[h].at
           n == 2 * Len(Upstreams)
<1>1. look \in [Hosts -> Looks] /\ look[h] \in Looks
  BY InvByName DEF AllGood
<1>2. at \in 1..n /\ n \in Nat /\ Len(Plan) = n
  BY <1>1, PlanShape, LeftIs
<1>3. Left(look[h]) \in {3 * (n - at) + 1, 3 * (n - at) + 2}
  BY <1>1, LeftIs
<1>4. CASE ip # NONE \/ at = n
  <2>1. /\ look'[h] = [Task("done") EXCEPT !.at = at, !.ip = ip]
        /\ \A g \in Hosts \ {h} : look'[g] = look[g]
    BY <1>1, <1>2, <1>4 DEF Continue
  <2>2. look'[h].step = "done"
    BY <2>1 DEF Task
  <2>3. Left(look'[h]) = 0
    BY <2>2 DEF Left
  <2> QED BY <1>2, <1>3, <2>1, <2>3
<1>5. CASE ~(ip # NONE \/ at = n)
  <2>1. /\ look'[h] = [Task("ready") EXCEPT !.at = at + 1]
        /\ \A g \in Hosts \ {h} : look'[g] = look[g]
    BY <1>1, <1>2, <1>5 DEF Continue
  <2>2. at + 1 \in 1..n
    BY <1>2, <1>5
  <2>3. look'[h].step = "ready" /\ look'[h].at = at + 1 /\ look'[h] \in Looks
    BY <2>1, <2>2 DEF Task, Looks
  <2>4. Left(look'[h]) = 3 * (n - (at + 1)) + 2
    BY <2>3, LeftIs
  <2>5. 3 * (n - (at + 1)) + 2 = 3 * (n - at) - 1
    BY <1>2
  <2>6. Left(look'[h]) < Left(look[h])
    BY <1>2, <1>3, <2>4, <2>5
  <2> QED BY <2>1, <2>6
<1> QED BY <1>4, <1>5

LEMMA TaskAdvances ==
  ASSUME Inv, NEW h \in Hosts, Step(h)
  PROVE  /\ Left(look'[h]) < Left(look[h])
         /\ \A g \in Hosts \ {h} : look'[g] = look[g]
<1> DEFINE at == look[h].at
           n == 2 * Len(Upstreams)
<1>1. look \in [Hosts -> Looks] /\ look[h] \in Looks
  BY InvByName DEF AllGood
<1>2. CASE Acquire(h)
  <2>1. look[h].step = "waiting" /\ look'[h] = [look[h] EXCEPT !.step = "ready"]
    BY <1>1, <1>2 DEF Acquire
  <2>2. look'[h] \in Looks /\ look'[h].step = "ready" /\ look'[h].at = look[h].at
    BY <1>1, <2>1 DEF Looks
  <2>3. \A g \in Hosts \ {h} : look'[g] = look[g]
    BY <1>1, <1>2 DEF Acquire
  <2>4. /\ Left(look[h]) = 3 * (n - at) + 3 /\ Left(look'[h]) = 3 * (n - at) + 2
        /\ n \in Nat /\ at \in 1..n
    BY <1>1, <2>1, <2>2, LeftIs
  <2>5. Left(look'[h]) < Left(look[h])
    BY <2>4
  <2> QED BY <2>3, <2>5
<1>3. ASSUME NEW id \in Ids, NEW port \in Ports, Ask(h, id, port)
      PROVE  /\ Left(look'[h]) < Left(look[h])
             /\ \A g \in Hosts \ {h} : look'[g] = look[g]
  <2>1. /\ look[h].step = "ready"
        /\ look'[h] = [look[h] EXCEPT !.step = "asking", !.id = id, !.port = port]
    BY <1>1, <1>3 DEF Ask
  <2>2. look'[h] \in Looks /\ look'[h].step = "asking" /\ look'[h].at = look[h].at
    BY <1>1, <2>1 DEF Looks
  <2>3. \A g \in Hosts \ {h} : look'[g] = look[g]
    BY <1>1, <1>3 DEF Ask
  <2>4. /\ Left(look[h]) = 3 * (n - at) + 2 /\ Left(look'[h]) = 3 * (n - at) + 1
        /\ n \in Nat /\ at \in 1..n
    BY <1>1, <2>1, <2>2, LeftIs
  <2>5. Left(look'[h]) < Left(look[h])
    BY <2>4
  <2> QED BY <2>3, <2>5
<1>4. ASSUME NEW r \in net, Receive(h, r)
      PROVE  /\ Left(look'[h]) < Left(look[h])
             /\ \A g \in Hosts \ {h} : look'[g] = look[g]
  BY <1>4, ContinueAdvances DEF Receive
<1>5. CASE NoAnswer(h)
  BY <1>5, ContinueAdvances DEF NoAnswer
<1>6. CASE NotSent(h)
  BY <1>6, ContinueAdvances DEF NotSent
<1> QED BY <1>2, <1>3, <1>4, <1>5, <1>6 DEF Step, Query

(* resolve_host asks every upstream once for each type, so a name is looked up
   in a bounded number of queries, whatever comes back. *)
THEOREM LookupsAreBounded == Spec => LookupsAdvance
<1>1. ASSUME Inv, [Next]_vars, NEW h \in Hosts
      PROVE  /\ Step(h) => Left(look'[h]) < Left(look[h])
             /\ phase = "resolving" => Left(look'[h]) <= Left(look[h])
  <2>1. Left(look[h]) \in Nat
    BY <1>1, InvByName, LeftIs DEF AllGood
  <2>2. Step(h) => Left(look'[h]) < Left(look[h])
    BY <1>1, TaskAdvances
  <2>3. Left(look'[h]) \in Nat
    <3>1. AllGood'
      BY <1>1, StepInv, NextAllGood
    <3> QED BY <3>1, LeftIs DEF AllGood
  <2>4. ASSUME NEW g \in Hosts, Step(g) PROVE Left(look'[h]) <= Left(look[h])
    BY <1>1, <2>1, <2>3, <2>4, TaskAdvances
  <2>5. Apply \/ UNCHANGED vars => look' = look
    BY DEF Apply, vars
  <2>6. ASSUME NEW table \in [Tags -> Hosts \cup {LITERAL}], NEW given \in SUBSET Tags,
               Reload(table, given)
        PROVE  phase # "resolving"
    BY <2>6 DEF Reload
  <2> QED BY <1>1, <2>1, <2>2, <2>4, <2>5, <2>6 DEF Next
<1>2. Inv /\ [Next]_vars =>
        [\A h \in Hosts :
           /\ Step(h) => Left(look'[h]) < Left(look[h])
           /\ phase = "resolving" => Left(look'[h]) <= Left(look[h])]_vars
  BY <1>1
<1> QED BY <1>2, Invariant, PTL DEF Spec, LookupsAdvance
=============================================================================
