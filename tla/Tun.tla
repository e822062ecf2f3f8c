-------------------------------- MODULE Tun --------------------------------
(***************************************************************************)
(* The TUN data plane: the task that every five seconds brings the proxies *)
(* of the tunnel engine in line with the selection and the registry, and   *)
(* the connections that dial through them.  A sync holds the selection and *)
(* the registry for as long as it lasts, so it is one step.  The engine    *)
(* keeps the chain it was given; a connection keeps the chain it found.    *)
(***************************************************************************)
EXTENDS Naturals, Sequences, FiniteSets, Functions

CONSTANTS
  Tags,         \* nodes of the nodes file, by tag
  DirectTags,   \* those of them whose protocol is direct
  Gens,         \* a build of the registry; all its adapters are new
  MaxAttempts,  \* the largest fallback_attempts: a bound
  Conns,        \* connections through the device at one time: a bound
  NONE          \* no adapter

ASSUME TunAssumption ==
  /\ DirectTags \subseteq Tags
  /\ MaxAttempts \in Nat \ {0}
  /\ IsFiniteSet(Tags)

VARIABLES
  selection,  \* SharedSelection
  registry,   \* which build it holds, and the tags it could be built for
  attempts,   \* fallback_attempts of the tuning
  current,  \* current_auto: names of the chain, and its first adapter
  proxies,  \* of the engine: whether it has DIRECT, and the candidates of
            \* silverq-auto, none when it is not there
  conn,     \* a connection: its step, and the candidates it has not tried, or
            \* the one it got through
  fresh     \* history: nothing has changed since the last sync

vars == <<selection, registry, attempts, current, proxies, conn, fresh>>

-----------------------------------------------------------------------------
Lists == {s \in UNION {[1..n -> Tags] : n \in 0..Cardinality(Tags)} : IsInjective(s)}

Registries == [gen: Gens, tags: SUBSET Tags]

Adapters == [tag: Tags, gen: Gens]

(* build_proxy names every adapter after its node, but a direct one DIRECT.
   Nothing keeps another node from being tagged so. *)
Name(a) == IF a.tag \in DirectTags THEN "DIRECT" ELSE a.tag

Names(chain) == [i \in DOMAIN chain |-> Name(chain[i])]

(* The one DirectAdapter that every wrapper of the runtime shares. *)
SharedDirect == [tag |-> "DIRECT", gen |-> NONE]

Chains == UNION {[1..n -> Adapters] : n \in 0..MaxAttempts}

Unset == [names |-> <<>>, first |-> NONE]

Idle == [step |-> "idle", todo |-> <<>>]

TypeOK ==
  /\ selection \in Lists
  /\ registry \in Registries
  /\ attempts \in 1..MaxAttempts
  /\ current = Unset \/ current.first \in Adapters
  /\ proxies.direct \in BOOLEAN
  /\ proxies.auto \in Chains
  /\ fresh \in BOOLEAN
  /\ \A c \in Conns : /\ conn[c].step \in {"idle", "dial", "stream", "resolve", "direct"}
                      /\ conn[c].todo \in Chains \cup {<<SharedDirect>>}

Init ==
  /\ selection = <<>>
  /\ registry \in Registries
  /\ attempts \in 1..MaxAttempts
  /\ current = Unset
  /\ proxies = [direct |-> FALSE, auto |-> <<>>]
  /\ conn = [c \in Conns |-> Idle]
  /\ fresh = FALSE

-----------------------------------------------------------------------------
(* What other tasks do. *)

(* reselect, and the commands that write the selection. *)
Select(list) ==
  /\ selection' = list /\ fresh' = FALSE
  /\ UNCHANGED <<registry, attempts, current, proxies, conn>>

GensOf(chain) == {chain[i].gen : i \in DOMAIN chain}

(* The builds of the adapters the engine holds, or would have a connection dial. *)
GensDialled ==
  (IF current = Unset THEN {} ELSE {current.first.gen})
    \cup GensOf(proxies.auto)
    \cup UNION {GensOf(conn[c].todo) : c \in {k \in Conns : conn[k].step = "dial"}}

(* Adapters somebody still holds: only those cannot be where new ones are. *)
GensHeld ==
  {registry.gen} \cup GensDialled \cup UNION {GensOf(conn[c].todo) : c \in Conns}

(* do_reload builds every adapter anew and replaces the registry as a whole;
   a node that cannot be built is left out. *)
Reload(g, tags) ==
  /\ g \notin GensHeld
  /\ registry' = [gen |-> g, tags |-> tags] /\ fresh' = FALSE
  /\ UNCHANGED <<selection, attempts, current, proxies, conn>>

(* The panel, or config-reload, sets fallback_attempts. *)
Tune(n) ==
  /\ attempts' = n /\ fresh' = FALSE
  /\ UNCHANGED <<selection, registry, current, proxies, conn>>

-----------------------------------------------------------------------------
(* sync_proxies. *)

(* The k-th smallest of a set of numbers. *)
Place(S, k) == CHOOSE i \in S : Cardinality({j \in S : j <= i}) = k

(* The adapters of the selected nodes the registry holds, in order, cut off
   at n. *)
Chain(sel, reg, n) ==
  LET held == {i \in DOMAIN sel : sel[i] \in reg.tags}
      count == Cardinality(held)
  IN [k \in 1..(IF count < n THEN count ELSE n) |->
        [tag |-> sel[Place(held, k)], gen |-> reg.gen]]

(* Mutation: the whole selection, as before the cut was added. *)
Candidates_All == Chain(selection, registry, Len(selection))

Candidates == Chain(selection, registry, attempts)

(* Mutation: only the tag of the first candidate is compared. *)
UpToDate_HeadTag ==
  current # Unset /\ current.names[1] = Name(Candidates[1])

(* Mutation: the names are compared, but not the adapter. *)
UpToDate_NamesOnly ==
  current # Unset /\ current.names = Names(Candidates)

(* The negation of needs_update, when there are candidates. *)
UpToDate ==
  /\ current # Unset
  /\ current.names = Names(Candidates)
  /\ current.first = Candidates[1]

SyncUpdate ==
  /\ Candidates # <<>> /\ ~UpToDate
  /\ proxies' = [direct |-> TRUE, auto |-> Candidates]
  /\ current' = [names |-> Names(Candidates), first |-> Candidates[1]]

(* No candidate: silverq-auto goes. *)
SyncClear ==
  /\ Candidates = <<>> /\ current # Unset
  /\ proxies' = [direct |-> TRUE, auto |-> <<>>]
  /\ current' = Unset

(* No update is needed. *)
SyncSkip ==
  /\ IF Candidates = <<>> THEN current = Unset ELSE UpToDate
  /\ UNCHANGED <<proxies, current>>

Sync ==
  /\ SyncUpdate \/ SyncClear \/ SyncSkip
  /\ fresh' = TRUE
  /\ UNCHANGED <<selection, registry, attempts, conn>>

-----------------------------------------------------------------------------
(* ProxyWrapper. *)

OpenWith(c, chain) ==
  /\ conn[c] = Idle
  /\ conn' = [conn EXCEPT ![c] = [step |-> "dial", todo |-> chain]]
  /\ UNCHANGED <<selection, registry, attempts, current, proxies, fresh>>

(* init_rules: private networks and excluded ranges go to DIRECT, the rest to
   silverq-auto.  A connection for a name the engine does not have is none of
   this code's. *)
OpenLocal(c) == proxies.direct /\ OpenWith(c, <<SharedDirect>>)
OpenAuto(c) == proxies.auto # <<>> /\ OpenWith(c, proxies.auto)

Finish(c) == conn' = [conn EXCEPT ![c] = Idle]

Tried(c) ==
  conn' = [conn EXCEPT ![c] = IF Len(@.todo) = 1 THEN [step |-> "resolve", todo |-> <<>>]
                              ELSE [step |-> "dial", todo |-> Tail(@.todo)]]

NodesUntouched == UNCHANGED <<selection, registry, attempts, current, proxies, fresh>>

(* The stream goes to the engine, which relays through it. *)
Through(c, adapter) ==
  conn' = [conn EXCEPT ![c] = [step |-> "stream", todo |-> <<adapter>>]]

DialOk(c) ==
  conn[c].step = "dial" /\ Through(c, Head(conn[c].todo)) /\ NodesUntouched

(* The engine ends a stream when an end closes it; no timeout of this code does. *)
Close(c) == conn[c].step = "stream" /\ Finish(c) /\ NodesUntouched

DialFails(c) == conn[c].step = "dial" /\ Tried(c) /\ NodesUntouched

(* Mutation: the candidates are awaited without a timeout. *)
TimedOut_DirectOnly(c) == conn[c].step = "direct" /\ Finish(c) /\ NodesUntouched

(* The timeout of a candidate goes on to the next one and in the end to
   DIRECT; that of DIRECT ends the connection. *)
TimedOut(c) ==
  /\ \/ conn[c].step = "dial" /\ Tried(c)
     \/ conn[c].step = "direct" /\ Finish(c)
  /\ NodesUntouched

(* The name behind the fake address is looked up and asked of the upstream
   servers, each query with a timeout of its own; an unknown name, or one of
   the local network, leaves the address as it is. *)
Resolve(c) ==
  /\ conn[c].step = "resolve"
  /\ conn' = [conn EXCEPT ![c].step = "direct"]
  /\ NodesUntouched

(* DIRECT connects or is refused. *)
DirectEnds(c) ==
  /\ conn[c].step = "direct"
  /\ Through(c, SharedDirect) \/ Finish(c)
  /\ NodesUntouched

Dial(c) ==
  \/ OpenLocal(c) \/ OpenAuto(c)
  \/ DialOk(c) \/ DialFails(c) \/ TimedOut(c) \/ Resolve(c) \/ DirectEnds(c)
  \/ Close(c)

-----------------------------------------------------------------------------
Next ==
  \/ \E list \in Lists : Select(list)
  \/ \E g \in Gens, tags \in SUBSET Tags : Reload(g, tags)
  \/ \E n \in 1..MaxAttempts : Tune(n)
  \/ Sync
  \/ \E c \in Conns : Dial(c)

Spec == Init /\ [][Next]_vars

(* The interval of the sync task and the timeouts of dials and queries do
   run out. *)
FairSpec ==
  /\ Spec
  /\ WF_vars(Sync)
  /\ \A c \in Conns : WF_vars(TimedOut(c)) /\ WF_vars(Resolve(c))

-----------------------------------------------------------------------------
(* Where an adapter leads, as far as its name and its build tell: two nodes of
   one build with the same name count as one.  (That is right for direct ones,
   which have no state and no server.) *)
Outlet(a) == [name |-> Name(a), gen |-> a.gen]

Outlets(chain) == [i \in DOMAIN chain |-> Outlet(chain[i])]

(* Where it does lead: a direct one to the target itself, another to its server.
   Names tell this unless there are direct nodes and another one tagged DIRECT. *)
Reach(a) == IF a.tag \in DirectTags THEN SharedDirect ELSE a

Reaches(chain) == [i \in DOMAIN chain |-> Reach(chain[i])]

NamesTell == "DIRECT" \in Tags \ DirectTags => DirectTags = {}

Exit == INSTANCE TunExit WITH due <- Outlets(Candidates), exit <- Outlets(proxies.auto)

(* A sync that skips its update may do so: the engine has after every sync the
   chain of the present selection, registry and fallback_attempts, whole and of
   the present build, as far as names tell nodes apart. *)
ImplementsExit == Exit!Spec

(* Once nothing changes, new connections use what is called for. *)
FollowsSelection ==
  <>[][UNCHANGED <<selection, registry, attempts>>]_vars 
    => <>[](Outlets(proxies.auto) = Outlets(Candidates))

(* Once reloads stop, no new connection is made through an adapter of an earlier
   build for ever: the engine lets go of it, and every connection that found it
   in its chain is past dialling.  (A stream that got through it stays as long as
   its ends do.) *)
OldNodesLetGo ==
  <>[][UNCHANGED registry]_vars => <>[](GensDialled \subseteq {registry.gen, NONE})
=============================================================================
