------------------------------ MODULE UdpRelay ------------------------------
(***************************************************************************)
(* One SOCKS5 UDP association: run_relay, the loop that takes datagrams    *)
(* from the client and writes them to a session per flow, and one reply    *)
(* pump per session.  They share the table of sessions behind one mutex,   *)
(* which the loop keeps for as long as it dials; every other hold of it    *)
(* has no await in it and is part of one action.                           *)
(***************************************************************************)
EXTENDS Naturals, Sequences, FiniteSets, Functions

CONSTANTS
  Clients,    \* source addresses of datagrams
  Targets,    \* their destinations, addresses or names
  Nodes,      \* adapters of the registry
  UdpNodes,   \* those of them that support UDP
  Attempts,   \* fallback_attempts, at least 1
  Sessions,   \* packet connections that may exist at once: a bound
  IdleLimit,  \* SESSION_IDLE_SECS, in ticks
  NONE        \* the None of an Option

ASSUME UdpRelayAssumption ==
  /\ UdpNodes \subseteq Nodes /\ IsFiniteSet(Nodes)
  /\ Attempts \in Nat \ {0} /\ IdleLimit \in Nat \ {0}
  /\ NONE \notin Sessions

VARIABLES
  control,  \* whether the TCP control connection is open
  relay,    \* run_relay: step, flow in hand, candidates left, session to write to
  table,    \* the session of each flow, or NONE
  pump      \* the reply pump of each session: step, flow, ticks since a reply

vars == <<control, relay, table, pump>>

-----------------------------------------------------------------------------
Flows == Clients \X Targets  \* SessionKey

Lists(S) == {s \in UNION {[1..n -> S] : n \in 0..Cardinality(S)} : IsInjective(s)}

Take(s, n) == SubSeq(s, 1, IF Len(s) < n THEN Len(s) ELSE n)

RelaySteps == {"recv", "dial", "write", "forget", "done"}
PumpSteps == {"none", "reading", "removing"}

(* What parse_udp_header and the test of FRAG let pass. *)
Datagrams == [wellFormed: BOOLEAN, frag: 0..1, flow: Flows]
Relayed(d) == d.wellFormed /\ d.frag = 0

(* Mutation: the guard of the mutex lives to the end of the loop's body. *)
Locked_ToTheEnd == relay.step \in {"dial", "write", "forget"}

(* Who wants the table has to wait: the loop is dialling. *)
Locked == relay.step = "dial"

Flow == relay.flow

Waiting(step) == [step |-> step, flow |-> NONE, todo |-> <<>>, session |-> NONE]

Ended == [step |-> "none", flow |-> NONE, idle |-> 0]

WriteTo(flow, i) == relay' = [step |-> "write", flow |-> flow, todo |-> <<>>, session |-> i]

(* A connection nobody holds any more. *)
Unused(i) ==
  pump[i].step = "none" /\ i \notin Range(table) /\ relay.session # i

TypeOK ==
  /\ control \in BOOLEAN
  /\ relay \in [step: RelaySteps, flow: Flows \cup {NONE}, todo: Seq(Nodes),
                session: Sessions \cup {NONE}]
  /\ table \in [Flows -> Sessions \cup {NONE}]
  /\ pump \in [Sessions -> [step: PumpSteps, flow: Flows \cup {NONE}, idle: 0..IdleLimit]]

Init ==
  /\ control = TRUE
  /\ relay = Waiting("recv")
  /\ table = [f \in Flows |-> NONE]
  /\ pump = [i \in Sessions |-> Ended]

-----------------------------------------------------------------------------
(* run_relay. *)

(* A datagram of a known flow goes to its session; for a new one the loop
   reads the selection and starts to dial, the table locked. *)
Receive(d) ==
  /\ relay.step = "recv" /\ Relayed(d)
  /\ IF table[d.flow] # NONE
     THEN WriteTo(d.flow, table[d.flow])
     ELSE \E order \in Lists(Nodes) :
            relay' = [step |-> "dial", flow |-> d.flow, todo |-> Take(order, Attempts),
                      session |-> NONE]
  /\ UNCHANGED <<control, table, pump>>

NextCandidate ==
  /\ relay' = [relay EXCEPT !.todo = Tail(@)]
  /\ UNCHANGED <<control, table, pump>>

Skip == Locked /\ relay.todo # <<>> /\ Head(relay.todo) \notin UdpNodes /\ NextCandidate

DialFails == Locked /\ relay.todo # <<>> /\ Head(relay.todo) \in UdpNodes /\ NextCandidate

(* Mutation: the pump is spawned only after the first write. *)
DialOk_NoPump(i) ==
  /\ relay.step = "dial" /\ relay.todo # <<>> /\ Head(relay.todo) \in UdpNodes
  /\ Unused(i)
  /\ table' = [table EXCEPT ![Flow] = i]
  /\ pump' = [pump EXCEPT ![i] = Ended]
  /\ WriteTo(Flow, i)
  /\ UNCHANGED control

DialOk(i) ==
  /\ relay.step = "dial" /\ relay.todo # <<>> /\ Head(relay.todo) \in UdpNodes
  /\ Unused(i)
  /\ table' = [table EXCEPT ![Flow] = i]
  /\ pump' = [pump EXCEPT ![i] = [step |-> "reading", flow |-> Flow, idle |-> 0]]
  /\ WriteTo(Flow, i)
  /\ UNCHANGED control

(* No candidate is left: the datagram is dropped. *)
NoNode ==
  /\ relay.step = "dial" /\ relay.todo = <<>>
  /\ relay' = Waiting("recv")
  /\ UNCHANGED <<control, table, pump>>

WriteOk ==
  /\ relay.step = "write" /\ relay' = Waiting("recv")
  /\ UNCHANGED <<control, table, pump>>

WriteFails ==
  /\ relay.step = "write"
  /\ relay' = [relay EXCEPT !.step = "forget", !.session = NONE]
  /\ UNCHANGED <<control, table, pump>>

(* The flow is taken out of the table, whichever session it has by now. *)
Forget ==
  /\ relay.step = "forget" /\ ~Locked
  /\ table' = [table EXCEPT ![Flow] = NONE]
  /\ relay' = Waiting("recv")
  /\ UNCHANGED <<control, pump>>

(* handle_udp_associate reads the end of the control connection. *)
CloseControl ==
  /\ control /\ control' = FALSE
  /\ UNCHANGED <<relay, table, pump>>

(* Mutation: the end is noticed only when no flow is left. *)
Shutdown_WhenIdle ==
  /\ relay.step = "recv" /\ ~control /\ Range(table) = {NONE}
  /\ relay' = Waiting("done")
  /\ UNCHANGED <<control, table, pump>>

(* The loop returns; the pumps keep the table alive. *)
Shutdown ==
  /\ relay.step = "recv" /\ ~control
  /\ relay' = Waiting("done")
  /\ UNCHANGED <<control, table, pump>>

-----------------------------------------------------------------------------
(* spawn_reply_pump. *)

Reading(i) == pump[i].step = "reading"

PumpReply(i) ==
  /\ Reading(i)
  /\ pump' = [pump EXCEPT ![i].idle = 0]
  /\ UNCHANGED <<control, relay, table>>

(* The session cannot be read, or the client not be sent to. *)
PumpFails(i) ==
  /\ Reading(i)
  /\ pump' = [pump EXCEPT ![i].step = "removing", ![i].idle = 0]
  /\ UNCHANGED <<control, relay, table>>

IdleTimeout(i) ==
  /\ Reading(i) /\ pump[i].idle = IdleLimit
  /\ pump' = [pump EXCEPT ![i].step = "removing", ![i].idle = 0]
  /\ UNCHANGED <<control, relay, table>>

(* Mutation: the pump ends and leaves its session in the table. *)
PumpRemove_Forgets(i) ==
  /\ pump[i].step = "removing" /\ ~Locked
  /\ pump' = [pump EXCEPT ![i] = Ended]
  /\ UNCHANGED <<control, relay, table>>

(* The pump clears its flow and ends; a newer session of the flow goes too. *)
PumpRemove(i) ==
  /\ pump[i].step = "removing" /\ ~Locked
  /\ table' = [table EXCEPT ![pump[i].flow] = NONE]
  /\ pump' = [pump EXCEPT ![i] = Ended]
  /\ UNCHANGED <<control, relay>>

(* Mutation: the timer is asked only between two replies. *)
Tick_NoTimer ==
  /\ \E i \in Sessions : Reading(i)
  /\ pump' = [i \in Sessions |->
                IF Reading(i) THEN [pump[i] EXCEPT !.idle = @ + 1] ELSE pump[i]]
  /\ UNCHANGED <<control, relay, table>>

(* A timer that has run out fires before time goes on. *)
Tick ==
  /\ \E i \in Sessions : Reading(i)
  /\ \A i \in Sessions : Reading(i) => pump[i].idle < IdleLimit
  /\ pump' = [i \in Sessions |->
                IF Reading(i) THEN [pump[i] EXCEPT !.idle = @ + 1] ELSE pump[i]]
  /\ UNCHANGED <<control, relay, table>>

-----------------------------------------------------------------------------
Relay ==
  \/ \E d \in Datagrams : Receive(d)
  \/ Skip \/ DialFails \/ (\E i \in Sessions : DialOk(i)) \/ NoNode
  \/ WriteOk \/ WriteFails \/ Forget \/ Shutdown

Pump(i) == PumpReply(i) \/ PumpFails(i) \/ IdleTimeout(i) \/ PumpRemove(i)

Next == Relay \/ CloseControl \/ (\E i \in Sessions : Pump(i)) \/ Tick

Spec == Init /\ [][Next]_vars

(* The loop's own steps are taken, a timer that is due fires, and select!
   picks among ready branches at random, so the end of the control connection
   wins in the end; the mutex serves its waiters in their order, so each gets
   it in the end.  Neither a dial nor a write has a timeout: both may hang. *)
FairSpec ==
  /\ Spec
  /\ WF_vars(Skip) /\ WF_vars(NoNode) /\ WF_vars(Forget) /\ SF_vars(Shutdown)
  /\ WF_vars(Tick)
  /\ \A i \in Sessions : WF_vars(IdleTimeout(i)) /\ SF_vars(PumpRemove(i))

-----------------------------------------------------------------------------
(* A session in the table has a pump that reads it, or is about to take it
   out: otherwise the flow's datagrams would go out and no reply ever come
   back, for as long as the association lives. *)
SessionHasReader ==
  \A f \in Flows :
    LET i == table[f] IN i # NONE => pump[i].step # "none" /\ pump[i].flow = f

(* The loop and the pumps never wait for one another for ever: the loop comes
   back for the next datagram unless a dial or a write of it hangs. *)
RelayServes ==
  \/ []<>(relay.step \in {"recv", "done"})
  \/ <>[](relay.step = "dial")
  \/ <>[](relay.step = "write")

(* A session whose node has gone silent is given up, unless the loop hangs in
   a dial, the table locked. *)
SilentSessionEnds ==
  \A i \in Sessions :
    <>[][~PumpReply(i)]_vars
      => []<>(pump[i].step = "none") \/ <>[](relay.step = "dial")

(* The loop ends after the control connection, however many datagrams still
   come, unless a dial or a write hangs. *)
RelayReturns ==
  ~control ~> \/ relay.step = "done"
              \/ [](relay.step = "dial") \/ [](relay.step = "write")
=============================================================================
