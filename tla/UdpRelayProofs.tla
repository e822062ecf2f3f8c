--------------------------- MODULE UdpRelayProofs ---------------------------
(***************************************************************************)
(* For any numbers of clients, targets, nodes and sessions: the types,     *)
(* that a session in the table has its pump, and that a datagram goes into *)
(* a session of its own flow.  The invariant says of the table what the    *)
(* code says nowhere: a session stands under the flow its pump was started *)
(* for, hence under one flow only.  It is what lets a pump remove by flow  *)
(* without leaving another flow with a dead session.                       *)
(***************************************************************************)
EXTENDS UdpRelay, TLAPS

(* The loop holds a flow wherever it is going to use it. *)
HoldsFlow == relay.step \in {"dial", "write", "forget"} => relay.flow \in Flows

PumpHasFlow == \A i \in Sessions : pump[i].step # "none" => pump[i].flow \in Flows

Inv == TypeOK /\ HoldsFlow /\ PumpHasFlow /\ SessionHasReader

LEMMA TakeType ==
  ASSUME NEW S, NEW s \in Seq(S), NEW n \in Nat
  PROVE  Take(s, n) \in Seq(S)
BY DEF Take

LEMMA ListsType ==
  ASSUME NEW S, NEW s \in Lists(S)
  PROVE  s \in Seq(S)
BY DEF Lists

LEMMA InitInv == Init => Inv
BY UdpRelayAssumption
   DEF Init, Inv, TypeOK, HoldsFlow, PumpHasFlow, SessionHasReader, Waiting, Ended,
       RelaySteps, PumpSteps

(* Steps of the loop that leave the table and the pumps alone. *)
LEMMA RelayOnly ==
  ASSUME Inv, UNCHANGED <<control, table, pump>>,
         relay' \in [step: RelaySteps, flow: Flows \cup {NONE}, todo: Seq(Nodes),
                     session: Sessions \cup {NONE}],
         relay'.step \in {"dial", "write", "forget"} => relay'.flow \in Flows
  PROVE  Inv'
BY DEF Inv, TypeOK, HoldsFlow, PumpHasFlow, SessionHasReader

LEMMA ReceiveInv == ASSUME Inv, NEW d \in Datagrams, Receive(d) PROVE Inv'
<1>1. d.flow \in Flows
  BY DEF Datagrams
<1>2. CASE table[d.flow] # NONE
  <2>1. relay' = [step |-> "write", flow |-> d.flow, todo |-> <<>>,
                  session |-> table[d.flow]]
    BY <1>2 DEF Receive, WriteTo
  <2>2. table[d.flow] \in Sessions \cup {NONE}
    BY <1>1 DEF Inv, TypeOK
  <2> QED BY <1>1, <2>1, <2>2, RelayOnly DEF Receive, RelaySteps
<1>3. CASE table[d.flow] = NONE
  <2>1. PICK order \in Lists(Nodes) :
          relay' = [step |-> "dial", flow |-> d.flow, todo |-> Take(order, Attempts),
                    session |-> NONE]
    BY <1>3 DEF Receive
  <2>2. Take(order, Attempts) \in Seq(Nodes)
    BY TakeType, ListsType, UdpRelayAssumption
  <2> QED BY <1>1, <2>1, <2>2, RelayOnly DEF Receive, RelaySteps
<1> QED BY <1>2, <1>3

LEMMA NextCandidateInv == ASSUME Inv, Locked, relay.todo # <<>>, NextCandidate PROVE Inv'
<1>1. Tail(relay.todo) \in Seq(Nodes)
  BY DEF Inv, TypeOK
<1> QED BY <1>1, RelayOnly DEF NextCandidate, Inv, TypeOK, HoldsFlow, RelaySteps

LEMMA DialOkInv == ASSUME Inv, NEW i \in Sessions, DialOk(i) PROVE Inv'
<1>1. relay.flow \in Flows
  BY DEF DialOk, Inv, HoldsFlow
<1>2. /\ table' = [table EXCEPT ![relay.flow] = i]
      /\ pump' = [pump EXCEPT ![i] = [step |-> "reading", flow |-> relay.flow, idle |-> 0]]
      /\ relay' = [step |-> "write", flow |-> relay.flow, todo |-> <<>>, session |-> i]
      /\ control' = control
  BY DEF DialOk, Flow, WriteTo
<1>3. \A f \in Flows : table[f] # i
  BY DEF DialOk, Unused, Inv, TypeOK, Range
<1>4. TypeOK'
  BY <1>1, <1>2, UdpRelayAssumption DEF Inv, TypeOK, RelaySteps, PumpSteps
<1>5. HoldsFlow' /\ PumpHasFlow'
  BY <1>1, <1>2 DEF Inv, TypeOK, HoldsFlow, PumpHasFlow
<1>6. SessionHasReader'
  <2> SUFFICES ASSUME NEW f \in Flows, table'[f] # NONE
               PROVE  pump'[table'[f]].step # "none" /\ pump'[table'[f]].flow = f
    BY DEF SessionHasReader
  <2>1. CASE f = relay.flow
    BY <1>1, <1>2, <2>1 DEF Inv, TypeOK
  <2>2. CASE f # relay.flow
    BY <1>1, <1>2, <1>3, <2>2 DEF Inv, TypeOK, SessionHasReader
  <2> QED BY <2>1, <2>2
<1> QED BY <1>4, <1>5, <1>6 DEF Inv

LEMMA ForgetInv == ASSUME Inv, Forget PROVE Inv'
<1>1. relay.flow \in Flows
  BY DEF Forget, Inv, HoldsFlow
<1>2. /\ table' = [table EXCEPT ![relay.flow] = NONE]
      /\ relay' = Waiting("recv") /\ pump' = pump /\ control' = control
  BY DEF Forget, Flow
<1>3. TypeOK' /\ HoldsFlow' /\ PumpHasFlow'
  BY <1>1, <1>2 DEF Inv, TypeOK, HoldsFlow, PumpHasFlow, Waiting, RelaySteps
<1>4. SessionHasReader'
  BY <1>1, <1>2 DEF Inv, TypeOK, SessionHasReader
<1> QED BY <1>3, <1>4 DEF Inv

LEMMA IdleReset ==
  ASSUME NEW q \in [step: PumpSteps, flow: Flows \cup {NONE}, idle: 0..IdleLimit]
  PROVE  \A r \in {[q EXCEPT !.idle = 0], [q EXCEPT !.step = "removing", !.idle = 0]} :
           /\ r \in [step: PumpSteps, flow: Flows \cup {NONE}, idle: 0..IdleLimit]
           /\ r.flow = q.flow /\ r.step \in {q.step, "removing"}
<1>1. 0 \in 0..IdleLimit
  BY UdpRelayAssumption
<1> QED BY <1>1 DEF PumpSteps

(* A pump that stays in its flow, reading or removing, keeps the invariant. *)
LEMMA PumpStays ==
  ASSUME Inv, NEW i \in Sessions, pump[i].step # "none",
         NEW p \in [step: PumpSteps, flow: Flows \cup {NONE}, idle: 0..IdleLimit],
         p.step # "none", p.flow = pump[i].flow,
         pump' = [pump EXCEPT ![i] = p], UNCHANGED <<control, relay, table>>
  PROVE  Inv'
<1>1. TypeOK' /\ HoldsFlow' /\ PumpHasFlow'
  BY DEF Inv, TypeOK, HoldsFlow, PumpHasFlow
<1>2. SessionHasReader'
  BY DEF Inv, TypeOK, SessionHasReader
<1> QED BY <1>1, <1>2 DEF Inv

LEMMA PumpRemoveInv == ASSUME Inv, NEW i \in Sessions, PumpRemove(i) PROVE Inv'
<1>1. pump[i].flow \in Flows
  BY DEF PumpRemove, Inv, PumpHasFlow
<1>2. /\ table' = [table EXCEPT ![pump[i].flow] = NONE]
      /\ pump' = [pump EXCEPT ![i] = Ended]
      /\ UNCHANGED <<control, relay>>
  BY DEF PumpRemove
<1>3. TypeOK' /\ HoldsFlow' /\ PumpHasFlow'
  BY <1>1, <1>2, UdpRelayAssumption
     DEF Inv, TypeOK, HoldsFlow, PumpHasFlow, Ended, PumpSteps
<1>4. ASSUME NEW f \in Flows, table'[f] # NONE
      PROVE  pump'[table'[f]].step # "none" /\ pump'[table'[f]].flow = f
  <2>1. f # pump[i].flow /\ table'[f] = table[f]
    BY <1>1, <1>2, <1>4 DEF Inv, TypeOK
  <2>2. table[f] # i
    BY <1>4, <2>1, UdpRelayAssumption DEF Inv, SessionHasReader
  <2> QED BY <1>2, <1>4, <2>1, <2>2 DEF Inv, TypeOK, SessionHasReader
<1> QED BY <1>3, <1>4 DEF Inv, SessionHasReader

LEMMA TickInv == ASSUME Inv, Tick PROVE Inv'
<1>1. \A i \in Sessions : pump[i].idle \in 0..IdleLimit
  BY DEF Inv, TypeOK
<1>2. \A i \in Sessions :
        pump'[i] = IF Reading(i) THEN [pump[i] EXCEPT !.idle = @ + 1] ELSE pump[i]
  BY DEF Tick
<1>3. \A i \in Sessions :
        /\ pump'[i] \in [step: PumpSteps, flow: Flows \cup {NONE}, idle: 0..IdleLimit]
        /\ pump'[i].step = pump[i].step /\ pump'[i].flow = pump[i].flow
  <2> SUFFICES ASSUME NEW i \in Sessions
               PROVE  /\ pump'[i] \in [step: PumpSteps, flow: Flows \cup {NONE},
                                       idle: 0..IdleLimit]
                      /\ pump'[i].step = pump[i].step /\ pump'[i].flow = pump[i].flow
    OBVIOUS
  <2>1. pump[i] \in [step: PumpSteps, flow: Flows \cup {NONE}, idle: 0..IdleLimit]
    BY DEF Inv, TypeOK
  <2>2. CASE Reading(i)
    <3>1. pump[i].idle < IdleLimit
      BY <2>2 DEF Tick
    <3>2. pump[i].idle + 1 \in 0..IdleLimit
      BY <1>1, <3>1, UdpRelayAssumption
    <3>3. pump'[i] = [pump[i] EXCEPT !.idle = pump[i].idle + 1]
      BY <1>2, <2>2
    <3> QED BY <2>1, <3>2, <3>3
  <2>3. CASE ~Reading(i)
    BY <1>2, <2>1, <2>3
  <2> QED BY <2>2, <2>3
<1>4. pump' = [i \in Sessions |-> pump'[i]] /\ UNCHANGED <<control, relay, table>>
  BY DEF Tick
<1>5. TypeOK'
  BY <1>3, <1>4 DEF Inv, TypeOK
<1>6. HoldsFlow' /\ PumpHasFlow'
  BY <1>3, <1>4 DEF Inv, HoldsFlow, PumpHasFlow
<1>7. SessionHasReader'
  <2> SUFFICES ASSUME NEW f \in Flows, table'[f] # NONE
               PROVE  pump'[table'[f]].step # "none" /\ pump'[table'[f]].flow = f
    BY DEF SessionHasReader
  <2>1. table'[f] = table[f] /\ table[f] \in Sessions
    BY <1>4 DEF Inv, TypeOK
  <2> QED BY <1>3, <2>1 DEF Inv, SessionHasReader
<1> QED BY <1>5, <1>6, <1>7 DEF Inv

LEMMA NextInv == Inv /\ [Next]_vars => Inv'
<1> SUFFICES ASSUME Inv, [Next]_vars PROVE Inv'
  OBVIOUS
<1>1. ASSUME NEW d \in Datagrams, Receive(d) PROVE Inv'
  BY <1>1, ReceiveInv
<1>2. CASE Skip \/ DialFails
  BY <1>2, NextCandidateInv DEF Skip, DialFails
<1>3. ASSUME NEW i \in Sessions, DialOk(i) PROVE Inv'
  BY <1>3, DialOkInv
<1>4. CASE NoNode \/ WriteOk \/ Shutdown
  <2>1. PICK step \in {"recv", "done"} :
          relay' = [step |-> step, flow |-> NONE, todo |-> <<>>, session |-> NONE]
    BY <1>4 DEF NoNode, WriteOk, Shutdown, Waiting
  <2>2. UNCHANGED <<control, table, pump>>
    BY <1>4 DEF NoNode, WriteOk, Shutdown
  <2>3. <<>> \in Seq(Nodes)
    OBVIOUS
  <2> QED BY <2>1, <2>2, <2>3, RelayOnly DEF RelaySteps
<1>5. CASE WriteFails
  <2>1. relay' = [relay EXCEPT !.step = "forget", !.session = NONE]
    BY <1>5 DEF WriteFails
  <2> QED BY <1>5, <2>1, RelayOnly DEF WriteFails, Inv, TypeOK, HoldsFlow, RelaySteps
<1>6. CASE Forget
  BY <1>6, ForgetInv
<1>7. CASE CloseControl
  BY <1>7 DEF CloseControl, Inv, TypeOK, HoldsFlow, PumpHasFlow, SessionHasReader
<1>8. ASSUME NEW i \in Sessions, PumpReply(i) PROVE Inv'
  <2> DEFINE p == [pump[i] EXCEPT !.idle = 0]
  <2>1. pump' = [pump EXCEPT ![i] = p] /\ UNCHANGED <<control, relay, table>>
    BY <1>8 DEF PumpReply, Inv, TypeOK
  <2>2. pump[i].step = "reading"
    BY <1>8 DEF PumpReply, Reading
  <2>3. /\ p \in [step: PumpSteps, flow: Flows \cup {NONE}, idle: 0..IdleLimit]
        /\ p.step # "none" /\ p.flow = pump[i].flow
    BY <2>2, IdleReset DEF Inv, TypeOK
  <2> HIDE DEF p
  <2> QED BY <2>1, <2>2, <2>3, PumpStays
<1>9. ASSUME NEW i \in Sessions, PumpFails(i) \/ IdleTimeout(i) PROVE Inv'
  <2> DEFINE p == [pump[i] EXCEPT !.step = "removing", !.idle = 0]
  <2>1. pump' = [pump EXCEPT ![i] = p] /\ UNCHANGED <<control, relay, table>>
    BY <1>9 DEF PumpFails, IdleTimeout, Inv, TypeOK
  <2>2. pump[i].step = "reading"
    BY <1>9 DEF PumpFails, IdleTimeout, Reading
  <2>3. /\ p \in [step: PumpSteps, flow: Flows \cup {NONE}, idle: 0..IdleLimit]
        /\ p.step # "none" /\ p.flow = pump[i].flow
    BY <2>2, IdleReset DEF Inv, TypeOK
  <2> HIDE DEF p
  <2> QED BY <2>1, <2>2, <2>3, PumpStays
<1>10. ASSUME NEW i \in Sessions, PumpRemove(i) PROVE Inv'
  BY <1>10, PumpRemoveInv
<1>11. CASE Tick
  BY <1>11, TickInv
<1>12. CASE UNCHANGED vars
  BY <1>12 DEF vars, Inv, TypeOK, HoldsFlow, PumpHasFlow, SessionHasReader
<1> QED BY <1>1, <1>2, <1>3, <1>4, <1>5, <1>6, <1>7, <1>8, <1>9, <1>10, <1>11, <1>12
        DEF Next, Relay, Pump

(* Types: among other things, no pump reads in silence for longer than
   SESSION_IDLE_SECS. *)
THEOREM TypeCorrect == Spec => []TypeOK
BY InitInv, NextInv, PTL DEF Spec, Inv

(* Every session in the table is read by its own pump, or about to leave. *)
THEOREM SessionsAreRead == Spec => []SessionHasReader
BY InitInv, NextInv, PTL DEF Spec, Inv
-----------------------------------------------------------------------------
(* What the loop writes to. *)

(* The loop copies a session out of the table and writes to it with the table
   unlocked, while pumps end and remove.  However that comes out, the session it
   writes to is never one whose replies go to another flow, that is to another
   client or under another target's name: it is still read for the flow in hand,
   or read no more. *)
WritesToItsOwn ==
  relay.step = "write"
    => /\ relay.session \in Sessions
       /\ pump[relay.session].step # "none" => pump[relay.session].flow = relay.flow

LEMMA OwnStep == Inv /\ WritesToItsOwn /\ [Next]_vars => WritesToItsOwn'
<1> SUFFICES ASSUME Inv, WritesToItsOwn, [Next]_vars, relay'.step = "write"
             PROVE  /\ relay'.session \in Sessions
                    /\ pump'[relay'.session].step # "none"
                         => pump'[relay'.session].flow = relay'.flow
  BY DEF WritesToItsOwn
<1>1. /\ relay \in [step: RelaySteps, flow: Flows \cup {NONE}, todo: Seq(Nodes),
                    session: Sessions \cup {NONE}]
      /\ pump \in [Sessions -> [step: PumpSteps, flow: Flows \cup {NONE}, idle: 0..IdleLimit]]
  BY DEF Inv, TypeOK
<1>2. ASSUME UNCHANGED relay,
             \A i \in Sessions : \/ pump'[i].step = "none"
                                 \/ pump[i].step # "none" /\ pump'[i].flow = pump[i].flow
      PROVE  /\ relay'.session \in Sessions
             /\ pump'[relay'.session].step # "none"
                  => pump'[relay'.session].flow = relay'.flow
  BY <1>2 DEF WritesToItsOwn
<1>3. ASSUME NEW d \in Datagrams, Receive(d)
      PROVE  /\ relay'.session \in Sessions
             /\ pump'[relay'.session].step # "none"
                  => pump'[relay'.session].flow = relay'.flow
  <2>1. table[d.flow] # NONE
    BY <1>3 DEF Receive
  <2>2. d.flow \in Flows /\ table[d.flow] \in Sessions
    BY <2>1 DEF Datagrams, Inv, TypeOK
  <2>3. relay'.session = table[d.flow] /\ relay'.flow = d.flow /\ pump' = pump
    BY <1>3, <2>1 DEF Receive, WriteTo
  <2> QED BY <2>1, <2>2, <2>3 DEF Inv, SessionHasReader
<1>4. ASSUME NEW i \in Sessions, DialOk(i)
      PROVE  /\ relay'.session \in Sessions
             /\ pump'[relay'.session].step # "none"
                  => pump'[relay'.session].flow = relay'.flow
  BY <1>1, <1>4 DEF DialOk, WriteTo, Flow
<1>5. ~NextCandidate \/ relay.step # "dial"
  BY <1>1 DEF NextCandidate
<1>6. ~NoNode /\ ~WriteOk /\ ~WriteFails /\ ~Forget /\ ~Shutdown
  <2>1. relay' # Waiting("recv") /\ relay' # Waiting("done")
    BY DEF Waiting
  <2>2. relay' # [relay EXCEPT !.step = "forget", !.session = NONE]
    BY <1>1
  <2> QED BY <2>1, <2>2 DEF NoNode, WriteOk, WriteFails, Forget, Shutdown
<1>7. ASSUME NEW i \in Sessions, Pump(i)
      PROVE  /\ UNCHANGED relay
             /\ \A j \in Sessions : \/ pump'[j].step = "none"
                                    \/ pump[j].step # "none" /\ pump'[j].flow = pump[j].flow
  <2>1. UNCHANGED relay
    BY <1>7 DEF Pump, PumpReply, PumpFails, IdleTimeout, PumpRemove
  <2>2. \A j \in Sessions \ {i} : pump'[j] = pump[j]
    BY <1>1, <1>7 DEF Pump, PumpReply, PumpFails, IdleTimeout, PumpRemove
  <2>3. PumpReply(i) \/ PumpFails(i) \/ IdleTimeout(i)
          => pump[i].step # "none" /\ pump'[i].flow = pump[i].flow
    BY <1>1 DEF PumpReply, PumpFails, IdleTimeout, Reading
  <2>4. PumpRemove(i) => pump'[i].step = "none"
    BY <1>1 DEF PumpRemove, Ended
  <2> QED BY <1>7, <2>1, <2>2, <2>3, <2>4 DEF Pump
<1>8. CASE Tick
  <2>1. UNCHANGED relay
    BY <1>8 DEF Tick
  <2>2. \A i \in Sessions :
          pump'[i] = IF Reading(i) THEN [pump[i] EXCEPT !.idle = @ + 1] ELSE pump[i]
    BY <1>8 DEF Tick
  <2>3. \A i \in Sessions : pump'[i].step = pump[i].step /\ pump'[i].flow = pump[i].flow
    BY <1>1, <2>2
  <2> QED BY <1>2, <2>1, <2>3
<1>9. CASE CloseControl \/ UNCHANGED vars
  BY <1>2, <1>9 DEF CloseControl, vars
<1> QED
  BY <1>2, <1>3, <1>4, <1>5, <1>6, <1>7, <1>8, <1>9
  DEF Next, Relay, Skip, DialFails, Locked

(* No datagram goes out by a session that answers to another flow. *)
THEOREM WritesToItsOwnFlow == Spec => []WritesToItsOwn
<1>1. Init => WritesToItsOwn
  BY DEF Init, WritesToItsOwn, Waiting
<1> QED BY <1>1, OwnStep, InitInv, NextInv, PTL DEF Spec
=============================================================================
