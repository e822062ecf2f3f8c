----------------------------- MODULE TunProofs -----------------------------
(***************************************************************************)
(* For any nodes, builds of the registry and connections: the task that    *)
(* skips needless updates does what TunExit promises.  The point is that   *)
(* names and one adapter are enough to compare.  They are because all      *)
(* adapters of a chain come from one build of the registry, which the      *)
(* first one betrays; that is the invariant.                               *)
(***************************************************************************)
EXTENDS Tun, FiniteSetTheorems, SequenceTheorems, NaturalsInduction,
        WellFoundedInduction, TLAPS

(* The names noted are those of the engine's chain, which is of one build. *)
Noted ==
  /\ proxies.auto = [i \in DOMAIN proxies.auto |-> proxies.auto[i]]
  /\ current.names = Names(proxies.auto)
  /\ proxies.auto # <<>> => current.first = proxies.auto[1]
  /\ \A i \in DOMAIN proxies.auto : proxies.auto[i].gen = current.first.gen

Typed ==
  /\ selection \in Lists
  /\ registry \in Registries
  /\ attempts \in 1..MaxAttempts

Inv == Typed /\ Noted

(* Every nonempty set of naturals has a least element: what stands in for
   induction here. *)
LEMMA LeastNatural ==
  ASSUME NEW T \in SUBSET Nat, T # {}
  PROVE  \E x \in T : \A y \in T : x <= y
<1> DEFINE R == OpToRel(<, Nat)
<1>1. \A x, y \in Nat : y < x => <<y, x>> \in R
  BY DEF OpToRel
<1>2. IsWellFoundedOn(R, Nat)
  BY NatLessThanWellFounded
<1> HIDE DEF R
<1>3. PICK x \in T : \A y \in T : ~(<<y, x>> \in R)
  BY <1>2, WFMin
<1>4. \A y \in T : ~(y < x)
  BY <1>1, <1>3, Zenon
<1> QED BY <1>4

(* A finite set of positive numbers has a k-th smallest. *)
LEMMA PlaceExists ==
  ASSUME NEW m \in Nat, NEW S \in SUBSET (1..m), NEW k \in 1..Cardinality(S)
  PROVE  Place(S, k) \in S
<1> DEFINE upTo(i) == {j \in S : j <= i}
           T == {i \in Nat : Cardinality(upTo(i)) >= k}
<1>0. \A j \in S : j \in Int /\ 1 <= j /\ j <= m
  OBVIOUS
<1>1. IsFiniteSet(S) /\ Cardinality(S) \in Nat
  <2>1. IsFiniteSet(1..m)
    BY FS_Interval
  <2> QED BY <2>1, FS_Subset, FS_CardinalityType
<1>2. ASSUME NEW i \in Nat
      PROVE  IsFiniteSet(upTo(i)) /\ Cardinality(upTo(i)) \in Nat
  BY <1>1, FS_Subset, FS_CardinalityType
<1>3. upTo(m) = S /\ m \in T
  <2>1. upTo(m) = S
    BY <1>0
  <2>2. Cardinality(S) >= k
    BY <1>1
  <2> HIDE DEF upTo
  <2> QED BY <2>1, <2>2
<1>4. PICK i \in T : \A j \in T : i <= j
  <2>1. T \in SUBSET Nat /\ T # {}
    BY <1>3
  <2> HIDE DEF T
  <2> QED BY <2>1, LeastNatural
<1>5. i \in Nat /\ Cardinality(upTo(i)) >= k
  OBVIOUS
<1>6. i # 0
  <2>1. upTo(0) = {}
    <3>1. \A j \in S : ~(j <= 0)
      BY <1>0
    <3> QED BY <3>1
  <2>2. Cardinality(upTo(0)) = 0
    BY <2>1, FS_EmptySet
  <2> HIDE DEF upTo
  <2> QED BY <1>1, <1>5, <2>2
<1>7. i - 1 \in Nat /\ Cardinality(upTo(i - 1)) < k
  <2>1. i - 1 \in Nat /\ ~(i <= i - 1)
    BY <1>5, <1>6
  <2>2. i - 1 \notin T
    BY <1>4, <2>1, Zenon
  <2>3. ~(Cardinality(upTo(i - 1)) >= k)
    BY <2>1, <2>2
  <2>4. Cardinality(upTo(i - 1)) \in Nat
    BY <1>2, <2>1
  <2> HIDE DEF upTo
  <2> QED BY <2>1, <2>3, <2>4
<1>8. i \in S
  <2> SUFFICES ASSUME i \notin S PROVE FALSE
    OBVIOUS
  <2>1. upTo(i) = upTo(i - 1)
    <3>1. \A j \in S : j <= i <=> j <= i - 1
      BY <1>0, <1>5
    <3> QED BY <3>1
  <2>2. Cardinality(upTo(i)) \in Nat
    BY <1>2, <1>5
  <2> HIDE DEF upTo
  <2> QED BY <1>5, <1>7, <2>1, <2>2
<1>9. Cardinality(upTo(i)) = k
  <2>1. upTo(i) = upTo(i - 1) \cup {i} /\ i \notin upTo(i - 1)
    <3>1. \A j \in S : j <= i <=> j <= i - 1 \/ j = i
      BY <1>0, <1>5
    <3>2. ~(i <= i - 1)
      BY <1>5
    <3> QED BY <1>8, <3>1, <3>2
  <2>2. IsFiniteSet(upTo(i - 1)) /\ Cardinality(upTo(i - 1)) \in Nat
    BY <1>2, <1>7
  <2> HIDE DEF upTo
  <2>3. Cardinality(upTo(i)) = Cardinality(upTo(i - 1)) + 1
    BY <2>1, <2>2, FS_AddElement
  <2> QED BY <1>5, <1>7, <2>2, <2>3
<1> QED BY <1>8, <1>9 DEF Place

(* Chain, of adapters of one build. *)
LEMMA ChainTyped ==
  ASSUME NEW sel \in Lists, NEW reg \in Registries, NEW n \in 1..MaxAttempts
  PROVE  /\ Chain(sel, reg, n) \in Chains
         /\ \A i \in DOMAIN Chain(sel, reg, n) : Chain(sel, reg, n)[i].gen = reg.gen
<1> DEFINE held == {i \in DOMAIN sel : sel[i] \in reg.tags}
           count == Cardinality(held)
           k == IF count < n THEN count ELSE n
<1>1. PICK m \in 0..Cardinality(Tags) : sel \in [1..m -> Tags]
  BY DEF Lists
<1>2. m \in Nat /\ held \in SUBSET (1..m)
  <2>1. Cardinality(Tags) \in Nat
    BY FS_CardinalityType, TunAssumption
  <2> QED BY <1>1, <2>1
<1>3. count \in Nat
  <2>1. IsFiniteSet(1..m)
    BY <1>2, FS_Interval
  <2> HIDE DEF held
  <2> QED BY <1>2, <2>1, FS_Subset, FS_CardinalityType
<1>4. k \in 0..MaxAttempts /\ k <= count
  BY <1>3, TunAssumption
<1>5. Chain(sel, reg, n) =
        [i \in 1..k |-> [tag |-> sel[Place(held, i)], gen |-> reg.gen]]
  BY DEF Chain
<1>6. ASSUME NEW i \in 1..k
      PROVE  [tag |-> sel[Place(held, i)], gen |-> reg.gen] \in Adapters
  <2>1. i \in 1..count
    BY <1>3, <1>4
  <2> HIDE DEF held
  <2>2. Place(held, i) \in held
    BY <1>2, <2>1, PlaceExists
  <2> USE DEF held
  <2>3. sel[Place(held, i)] \in Tags
    BY <1>1, <2>2
  <2> QED BY <2>3 DEF Registries, Adapters
<1> HIDE DEF k
<1> QED BY <1>4, <1>5, <1>6 DEF Chains

LEMMA CandidatesShape ==
  ASSUME Typed
  PROVE  /\ Candidates \in Chains
         /\ \A i \in DOMAIN Candidates : Candidates[i].gen = registry.gen
  BY ChainTyped DEF Typed, Candidates

(* A chain, as the sequence it is. *)
LEMMA ChainsAreSequences ==
  ASSUME NEW s
  PROVE  s \in Chains <=> s \in Seq(Adapters) /\ Len(s) \in 0..MaxAttempts
<1>1. ASSUME s \in Chains PROVE s \in Seq(Adapters) /\ Len(s) \in 0..MaxAttempts
  <2>1. PICK n \in 0..MaxAttempts : s \in [1..n -> Adapters]
    BY <1>1 DEF Chains
  <2>2. n \in Nat
    BY TunAssumption
  <2> QED BY <2>1, <2>2, SeqDef
<1>2. ASSUME s \in Seq(Adapters), Len(s) \in 0..MaxAttempts PROVE s \in Chains
  <2>1. s \in [1..Len(s) -> Adapters]
    BY <1>2
  <2> QED BY <1>2, <2>1 DEF Chains
<1> QED BY <1>1, <1>2

LEMMA ChainHead ==
  ASSUME NEW s \in Chains, s # <<>>
  PROVE  1 \in DOMAIN s /\ s[1] \in Adapters
  BY ChainsAreSequences

LEMMA InitInv == Init => Inv
<1> SUFFICES ASSUME Init PROVE Inv
  OBVIOUS
<1>1. selection \in Lists
  <2>1. 0 \in 0..Cardinality(Tags)
    BY FS_CardinalityType, TunAssumption
  <2>2. <<>> \in [1..0 -> Tags]
    OBVIOUS
  <2>3. IsInjective(<<>>)
    BY DEF IsInjective
  <2> QED BY <2>1, <2>2, <2>3 DEF Init, Lists
<1> QED BY <1>1 DEF Init, Inv, Typed, Noted, Unset, Names

LEMMA SyncNoted == ASSUME Inv, Sync PROVE Noted'
<1>1. /\ Candidates \in Chains
      /\ \A i \in DOMAIN Candidates : Candidates[i].gen = registry.gen
      /\ Candidates # <<>> => 1 \in DOMAIN Candidates
      /\ Candidates = [i \in DOMAIN Candidates |-> Candidates[i]]
  <2>1. Candidates \in Chains
    BY CandidatesShape DEF Inv
  <2> QED BY <2>1, CandidatesShape, ChainHead DEF Inv, Chains
<1>2. CASE SyncUpdate
  <2>1. /\ proxies'.auto = Candidates /\ current'.names = Names(Candidates)
        /\ current'.first = Candidates[1]
    BY <1>2 DEF SyncUpdate
  <2>2. \A i \in DOMAIN Candidates : Candidates[i].gen = registry.gen
    BY <1>1
  <2>3. 1 \in DOMAIN Candidates
    BY <1>1, <1>2 DEF SyncUpdate
  <2> QED BY <1>1, <2>1, <2>2, <2>3 DEF Noted, Names, Name
<1>3. CASE SyncClear
  BY <1>3 DEF SyncClear, Unset, Noted, Names
<1>4. CASE SyncSkip
  BY <1>4 DEF SyncSkip, Inv, Noted, Names, Name
<1> QED BY <1>2, <1>3, <1>4 DEF Sync

(* Connections, and what other tasks do, leave the engine alone. *)
LEMMA Others ==
  ASSUME [Next]_vars, ~Sync
  PROVE  UNCHANGED <<current, proxies>>
BY DEF Next, Select, Reload, Tune, Dial, OpenLocal, OpenAuto, OpenWith,
   DialOk, Close, DialFails, TimedOut, Resolve, DirectEnds, NodesUntouched, vars

LEMMA NextInv == Inv /\ [Next]_vars => Inv'
<1> SUFFICES ASSUME Inv, [Next]_vars PROVE Inv'
  OBVIOUS
<1>1. Typed'
  <2>1. CASE UNCHANGED <<selection, registry, attempts>>
    BY <2>1 DEF Inv, Typed
  <2>2. ASSUME NEW list \in Lists, Select(list) PROVE Typed'
    BY <2>2 DEF Select, Inv, Typed
  <2>3. ASSUME NEW g \in Gens, NEW tags \in SUBSET Tags, Reload(g, tags) PROVE Typed'
    BY <2>3 DEF Reload, Inv, Typed, Registries
  <2>4. ASSUME NEW n \in 1..MaxAttempts, Tune(n) PROVE Typed'
    BY <2>4 DEF Tune, Inv, Typed
  <2> QED BY <2>1, <2>2, <2>3, <2>4
          DEF Next, Sync, Dial, OpenLocal, OpenAuto, OpenWith, DialOk, Close, DialFails,
              TimedOut, Resolve, DirectEnds, NodesUntouched, vars
<1>2. CASE Sync
  BY <1>1, <1>2, SyncNoted DEF Inv
<1>3. CASE ~Sync
  <2>1. UNCHANGED <<current, proxies>>
    BY <1>3, Others
  <2> QED BY <1>1, <2>1 DEF Inv, Noted, Names, Name
<1> QED BY <1>2, <1>3

LEMMA SpecInv == Spec => []Inv
BY InitInv, NextInv, PTL DEF Spec

-----------------------------------------------------------------------------
(* The refinement. *)

LEMMA InitExit == Init => Exit!Init
<1> SUFFICES ASSUME Init PROVE Exit!Init
  OBVIOUS
<1>1. Outlets(proxies.auto) = <<>>
  BY DEF Init, Outlets
<1> QED BY <1>1 DEF Init, Exit!Init

(* The chain that is compared as equal leads where the engine's chain does. *)
LEMMA SkipIsRight ==
  ASSUME Inv, SyncSkip
  PROVE  Outlets(proxies.auto) = Outlets(Candidates)
<1>1. /\ Candidates \in Chains
      /\ \A i \in DOMAIN Candidates : Candidates[i].gen = registry.gen
      /\ Candidates # <<>> => 1 \in DOMAIN Candidates
      /\ Candidates = [i \in DOMAIN Candidates |-> Candidates[i]]
  <2>1. Candidates \in Chains
    BY CandidatesShape DEF Inv
  <2> QED BY <2>1, CandidatesShape, ChainHead DEF Inv, Chains
<1>2. CASE Candidates = <<>>
  <2>1. current = Unset
    BY <1>2 DEF SyncSkip
  <2>2. DOMAIN proxies.auto = {}
    BY <2>1 DEF Unset, Inv, Noted, Names
  <2> QED BY <1>2, <2>2 DEF Outlets
<1>3. CASE Candidates # <<>>
  <2>1. Names(proxies.auto) = Names(Candidates) /\ current.first = Candidates[1]
    BY <1>3 DEF SyncSkip, UpToDate, Inv, Noted
  <2>2. DOMAIN proxies.auto = DOMAIN Candidates
    BY <2>1 DEF Names
  <2>3. 1 \in DOMAIN Candidates
    BY <1>1, <1>3
  <2>4. \A i \in DOMAIN Candidates : Candidates[i].gen = current.first.gen
    BY <1>1, <2>1, <2>3
  <2>5. \A i \in DOMAIN Candidates :
          /\ Name(proxies.auto[i]) = Name(Candidates[i])
          /\ proxies.auto[i].gen = Candidates[i].gen
    BY <2>1, <2>2, <2>4 DEF Names, Inv, Noted
  <2>6. ASSUME NEW i \in DOMAIN Candidates
        PROVE  Outlet(proxies.auto[i]) = Outlet(Candidates[i])
    BY <2>5, <2>6 DEF Outlet
  <2> QED BY <2>2, <2>6 DEF Outlets
<1> QED BY <1>2, <1>3

(* Sync does what is due; anything else may change what is due, but leaves the
   exit as it is. *)
LEMMA StepExit == Inv /\ [Next]_vars => [Exit!Next]_Exit!tvars
<1> SUFFICES ASSUME Inv, [Next]_vars PROVE [Exit!Next]_Exit!tvars
  OBVIOUS
<1>1. CASE Sync
  <2>1. UNCHANGED <<selection, registry, attempts>> /\ fresh' = TRUE
    BY <1>1 DEF Sync
  <2>2. Candidates' = Candidates
    BY <2>1 DEF Candidates
  <2>3. Outlets(Candidates)' = Outlets(Candidates)
    BY <2>2 DEF Outlets, Outlet, Name
  <2>4. Outlets(proxies.auto)' = Outlets(Candidates)
    <3>1. CASE SyncUpdate
      <4>1. proxies'.auto = Candidates
        BY <3>1 DEF SyncUpdate
      <4> QED BY <4>1 DEF Outlets, Outlet, Name
    <3>2. CASE SyncClear
      <4>1. proxies'.auto = <<>> /\ Candidates = <<>>
        BY <3>2 DEF SyncClear
      <4> QED BY <4>1 DEF Outlets, Outlet, Name
    <3>3. CASE SyncSkip
      <4>1. proxies' = proxies
        BY <3>3 DEF SyncSkip
      <4> QED BY <3>3, <4>1, SkipIsRight DEF Outlets, Outlet, Name
    <3> QED BY <1>1, <3>1, <3>2, <3>3 DEF Sync
  <2> QED BY <2>1, <2>3, <2>4 DEF Exit!Next, Exit!Sync
<1>2. CASE ~Sync
  <2>1. Outlets(proxies.auto)' = Outlets(proxies.auto)
    BY <1>2, Others DEF Outlets, Outlet, Name
  <2>2. CASE fresh' = FALSE
    BY <2>1, <2>2 DEF Exit!Next, Exit!Change
  <2>3. CASE fresh' # FALSE
    <3>1. UNCHANGED <<selection, registry, attempts, fresh>>
      BY <1>2, <2>3 DEF Next, Select, Reload, Tune, Dial, OpenLocal, OpenAuto, OpenWith,
         DialOk, Close, DialFails, TimedOut, Resolve, DirectEnds, NodesUntouched, vars
    <3>2. Outlets(Candidates)' = Outlets(Candidates)
      <4>1. Candidates' = Candidates
        BY <3>1 DEF Candidates
      <4> QED BY <4>1 DEF Outlets, Outlet, Name
    <3> QED BY <2>1, <3>1, <3>2 DEF Exit!tvars
  <2> QED BY <2>2, <2>3
<1> QED BY <1>1, <1>2

(* Every behaviour of the sync task, with the comparison by which it skips
   updates, is one that TunExit allows. *)
THEOREM Refinement == Spec => ImplementsExit
BY InitExit, StepExit, SpecInv, PTL DEF Spec, ImplementsExit, Exit!Spec

(* As long as nothing has changed since a sync, the engine's chain leads where
   the selection, the registry and fallback_attempts say. *)
THEOREM FreshIsRight == Spec => []Exit!FreshExit
<1>1. Exit!Init => Exit!FreshExit
  BY DEF Exit!Init, Exit!FreshExit
<1>2. Exit!FreshExit /\ [Exit!Next]_Exit!tvars => Exit!FreshExit'
  <2> SUFFICES ASSUME Exit!FreshExit, [Exit!Next]_Exit!tvars PROVE Exit!FreshExit'
    OBVIOUS
  <2>1. CASE Exit!Change
    BY <2>1 DEF Exit!FreshExit, Exit!Change
  <2>2. CASE Exit!Sync
    BY <2>2 DEF Exit!FreshExit, Exit!Sync
  <2>3. CASE UNCHANGED Exit!tvars
    BY <2>3 DEF Exit!FreshExit, Exit!tvars
  <2> QED BY <2>1, <2>2, <2>3 DEF Exit!Next
<1> QED BY <1>1, <1>2, InitExit, StepExit, SpecInv, PTL DEF Spec

-----------------------------------------------------------------------------
(* Types, of the engine and of the connections.  A connection that dials has
   something to dial. *)

Todos == Chains \cup {<<SharedDirect>>}

Engine ==
  /\ proxies \in [direct: BOOLEAN, auto: Chains]
  /\ current = Unset \/ current.first \in Adapters
  /\ fresh \in BOOLEAN

Steps == {"idle", "dial", "stream", "resolve", "direct"}

Connections ==
  /\ conn \in [Conns -> [step: Steps, todo: Todos]]
  /\ \A c \in Conns : conn[c].step = "dial" => conn[c].todo # <<>>

LEMMA EmptyChain == <<>> \in Chains
<1>1. <<>> \in Seq(Adapters) /\ Len(<<>>) \in 0..MaxAttempts
  BY TunAssumption
<1> QED BY <1>1, ChainsAreSequences

(* What is left of a chain is a chain. *)
LEMMA TailTyped ==
  ASSUME NEW s \in Todos, s # <<>>, Len(s) # 1
  PROVE  Tail(s) \in Todos /\ Tail(s) # <<>>
<1>1. s \in Chains
  BY DEF Todos
<1>2. s \in Seq(Adapters) /\ Len(s) \in 0..MaxAttempts
  BY <1>1, ChainsAreSequences
<1>3. Len(s) # 0
  BY <1>2
<1>4. /\ Tail(s) \in Seq(Adapters) /\ Len(Tail(s)) = Len(s) - 1
      /\ Len(Tail(s)) \in 0..MaxAttempts /\ Len(Tail(s)) # 0
  BY <1>2, <1>3, TunAssumption
<1>5. Tail(s) # <<>>
  BY <1>4, EmptySeq
<1>6. Tail(s) \in Chains
  BY <1>4, ChainsAreSequences
<1> QED BY <1>5, <1>6 DEF Todos

LEMMA HeadTyped ==
  ASSUME NEW s \in Todos, s # <<>>
  PROVE  <<Head(s)>> \in Todos
<1>1. CASE s \in Chains
  <2>1. s \in Seq(Adapters) /\ Len(s) # 0
    BY <1>1, ChainsAreSequences
  <2>2. <<Head(s)>> \in Seq(Adapters) /\ Len(<<Head(s)>>) \in 0..MaxAttempts
    BY <2>1, TunAssumption
  <2> QED BY <2>2, ChainsAreSequences DEF Todos
<1>2. CASE s = <<SharedDirect>>
  BY <1>2 DEF Todos
<1> QED BY <1>1, <1>2 DEF Todos

LEMMA EngineKept == ASSUME Inv, Engine, [Next]_vars PROVE Engine'
<1>1. CASE Sync
  <2>1. Candidates \in Chains /\ (Candidates # <<>> => Candidates[1] \in Adapters)
    BY CandidatesShape, ChainHead DEF Inv
  <2>2. CASE SyncUpdate
    BY <1>1, <2>1, <2>2 DEF Sync, SyncUpdate, Engine
  <2>3. CASE SyncClear
    BY <1>1, <2>3, EmptyChain DEF Sync, SyncClear, Engine
  <2>4. CASE SyncSkip
    BY <1>1, <2>4 DEF Sync, SyncSkip, Engine, Unset
  <2> QED BY <1>1, <2>2, <2>3, <2>4 DEF Sync
<1>2. CASE ~Sync
  <2>1. UNCHANGED <<current, proxies>>
    BY <1>2, Others
  <2>2. fresh' \in BOOLEAN
    BY <1>2 DEF Engine, Next, Select, Reload, Tune, Dial, OpenLocal, OpenAuto, OpenWith,
       DialOk, Close, DialFails, TimedOut, Resolve, DirectEnds, NodesUntouched, vars
  <2> QED BY <2>1, <2>2 DEF Engine, Unset
<1> QED BY <1>1, <1>2

LEMMA ConnectionsKept ==
  ASSUME Engine, Connections, [Next]_vars PROVE Connections'
<1>1. CASE UNCHANGED conn
  BY <1>1 DEF Connections
<1>2. ASSUME NEW c \in Conns, Dial(c) PROVE Connections'
  <2>1. /\ conn[c] \in [step: Steps, todo: Todos]
        /\ conn[c].step = "dial" => conn[c].todo # <<>>
    BY DEF Connections
  <2>2. ASSUME NEW k \in [step: Steps, todo: Todos],
               k.step = "dial" => k.todo # <<>>, conn' = [conn EXCEPT ![c] = k]
        PROVE  Connections'
    BY <2>2 DEF Connections
  <2>3. CASE Finish(c)
    BY <2>2, <2>3, EmptyChain DEF Finish, Idle, Todos, Steps
  <2>4. CASE OpenLocal(c)
    BY <2>2, <2>4 DEF OpenLocal, OpenWith, Todos, Steps
  <2>5. CASE OpenAuto(c)
    BY <2>2, <2>5 DEF OpenAuto, OpenWith, Todos, Engine, Steps
  <2>6. CASE Resolve(c)
    <3> DEFINE k == [conn[c] EXCEPT !.step = "direct"]
    <3>1. k \in [step: Steps, todo: Todos]
          /\ k.step = "direct"
      BY <2>1 DEF Steps
    <3>2. conn' = [conn EXCEPT ![c] = k]
      BY <2>6 DEF Resolve
    <3> HIDE DEF k
    <3> QED BY <2>2, <3>1, <3>2
  <2>7. ASSUME conn[c].step = "dial", Tried(c) PROVE Connections'
    <3>1. CASE Len(conn[c].todo) = 1
      BY <2>2, <2>7, <3>1, EmptyChain DEF Tried, Todos, Steps
    <3>2. CASE Len(conn[c].todo) # 1
      <4> DEFINE k == [step |-> "dial", todo |-> Tail(conn[c].todo)]
      <4>1. Tail(conn[c].todo) \in Todos /\ Tail(conn[c].todo) # <<>>
        BY <2>1, <2>7, <3>2, TailTyped
      <4>2. k \in [step: Steps, todo: Todos]
            /\ k.todo # <<>>
        BY <2>1, <4>1 DEF Steps
      <4>3. conn' = [conn EXCEPT ![c] = k]
        BY <2>7, <3>2 DEF Tried
      <4> HIDE DEF k
      <4> QED BY <2>2, <4>2, <4>3
    <3> QED BY <3>1, <3>2
  <2>8. ASSUME NEW a, <<a>> \in Todos, Through(c, a) PROVE Connections'
    BY <2>2, <2>8 DEF Through, Steps
  <2>9. CASE DialOk(c)
    BY <2>1, <2>8, <2>9, HeadTyped DEF DialOk
  <2>10. CASE DirectEnds(c)
    BY <2>3, <2>8, <2>10 DEF DirectEnds, Todos
  <2> QED
    BY <1>2, <2>3, <2>4, <2>5, <2>6, <2>7, <2>9, <2>10
    DEF Dial, DialFails, TimedOut, Close
<1> QED
  BY <1>1, <1>2 DEF Next, Select, Reload, Tune, Sync, vars

LEMMA EngineAlways == Spec => [](Engine /\ Connections)
<1>1. Init => Engine /\ Connections
  <2> SUFFICES ASSUME Init PROVE Engine /\ Connections
    OBVIOUS
  <2>1. Engine
    BY EmptyChain DEF Init, Engine
  <2>2. Idle \in [step: Steps, todo: Todos]
        /\ Idle.step # "dial"
    BY EmptyChain DEF Idle, Todos, Steps
  <2>3. Connections
    BY <2>2 DEF Init, Connections
  <2> QED BY <2>1, <2>3
<1>2. Inv /\ Engine /\ Connections /\ [Next]_vars => (Engine /\ Connections)'
  BY EngineKept, ConnectionsKept
<1> QED BY <1>1, <1>2, SpecInv, PTL DEF Spec

(* The engine holds chains of adapters, fallback_attempts long at most, and so
   does every connection, however long ago it took its own. *)
THEOREM Typing == Spec => []TypeOK
<1>1. Inv /\ Engine /\ Connections => TypeOK
  BY DEF Inv, Typed, Engine, Connections, Todos, Steps, TypeOK
<1> QED BY <1>1, EngineAlways, SpecInv, PTL

-----------------------------------------------------------------------------
(* Where a new connection ends up.  Outlets compare names and builds; nodes of
   one build that share a name are direct, but for one tagged DIRECT. *)

LEMMA SameOutletSameReach ==
  ASSUME NamesTell, NEW a \in Adapters, NEW b \in Adapters, Outlet(a) = Outlet(b)
  PROVE  Reach(a) = Reach(b)
<1>1. Name(a) = Name(b) /\ a.gen = b.gen
  BY DEF Outlet
<1>2. a.tag \in Tags /\ b.tag \in Tags
  BY DEF Adapters
<1>3. CASE a.tag \in DirectTags /\ b.tag \in DirectTags
  BY <1>3 DEF Reach
<1>4. CASE a.tag \notin DirectTags /\ b.tag \notin DirectTags
  <2>1. a.tag = b.tag
    BY <1>1, <1>4 DEF Name
  <2>2. a = b
    BY <1>1, <2>1 DEF Adapters
  <2> QED BY <2>2
<1>5. CASE ~(a.tag \in DirectTags <=> b.tag \in DirectTags)
  BY <1>1, <1>2, <1>5 DEF Name, NamesTell
<1> QED BY <1>3, <1>4, <1>5

LEMMA SameOutletsSameReaches ==
  ASSUME NamesTell, NEW s \in Chains, NEW t \in Chains, Outlets(s) = Outlets(t)
  PROVE  Reaches(s) = Reaches(t)
<1>1. DOMAIN s = DOMAIN t /\ \A i \in DOMAIN s : Outlet(s[i]) = Outlet(t[i])
  BY DEF Outlets
<1>2. ASSUME NEW i \in DOMAIN s PROVE Reach(s[i]) = Reach(t[i])
  <2>1. s[i] \in Adapters /\ t[i] \in Adapters
    BY <1>1 DEF Chains
  <2> QED BY <1>1, <2>1, SameOutletSameReach
<1> QED BY <1>1, <1>2 DEF Reaches

(* Unless a node that is not direct is tagged DIRECT, and another one is direct,
   the comparison by names and one adapter is exact: as long as nothing has
   changed since a sync, the engine's chain leads to the very servers that the
   selection, the registry and fallback_attempts call for. *)
THEOREM ReachIsRight ==
  NamesTell => (Spec => [](fresh => Reaches(proxies.auto) = Reaches(Candidates)))
<1> SUFFICES ASSUME NamesTell
             PROVE  Spec => [](fresh => Reaches(proxies.auto) = Reaches(Candidates))
  OBVIOUS
<1>1. Inv /\ Engine /\ Exit!FreshExit
      => (fresh => Reaches(proxies.auto) = Reaches(Candidates))
  <2> SUFFICES ASSUME Inv, Engine, Exit!FreshExit, fresh
               PROVE  Reaches(proxies.auto) = Reaches(Candidates)
    OBVIOUS
  <2>1. proxies.auto \in Chains /\ Candidates \in Chains
    BY CandidatesShape DEF Inv, Engine
  <2>2. Outlets(proxies.auto) = Outlets(Candidates)
    BY DEF Exit!FreshExit
  <2> QED BY <2>1, <2>2, SameOutletsSameReaches
<1> QED BY <1>1, SpecInv, EngineAlways, FreshIsRight, PTL
=============================================================================
