# Formal models of silverq

silverq measures a pool of proxy nodes, keeps the best of them in a shared
`selection`, and routes connections through it. This directory holds TLA+ models of
it, TLC runs over small instances, and theorems checked by TLAPS. All paths are
relative to the repository; the crate is `src/src/`.

## The system

| part | code | state it keeps | operations |
|---|---|---|---|
| node state | `scheduler/node.rs` | samples, EWMA, failure count and clock, HP, evidence of life | update, update_bw, penalize, note_*, adopt_score, restore_* |
| node pool | `main.rs` (schedule_loop), `scheduler/fast_path.rs`, `batch.rs`, `decision.rs`, `dataplane/inbound/health.rs` | `pool` behind one RwLock | measurement rounds, bandwidth batch, retire_stale, attribution of traffic, reload |
| persistence | `scheduler/persist.rs`, `main.rs`, `config/settings.rs` | snapshot file, whose path saves and the load look up separately | save, load, restart |
| selection | `main.rs` (seed, reselect), `ctl/protocol.rs` | `selection`, `pinned`, `pin_target`, SelectorStore | seed, reselect, select, select auto, reload |
| jev decider | `scheduler/jev.rs` | head, in-flight flag, cooldown | spawn_round, record, apply_head |
| route cache | `proxy/route.rs` | `entries` behind a mutex | decide, record |
| probes | `proxy/http_probe.rs`, `proxy/meow.rs` | one connection | measure, measure_bw |
| connections | `dataplane/inbound/*.rs` | one task per connection | policy, race, serial chain, relay, direct fallback |
| UDP relay | `dataplane/udp.rs`, `dataplane/inbound/udp.rs` | sessions of an association, behind one async mutex | run_relay, dial_udp_via_selection, reply pumps, end of the control connection |
| TUN | `dataplane/tun.rs` | proxies of the engine, `current_auto` | sync_proxies every 5 s, dial_tcp and dial_udp of ProxyWrapper |
| tuning | `config/settings.rs`, `web/mod.rs` | `tuning` behind an RwLock | PATCH, config-reload |
| DNS | `proxy/dns.rs` | a task per name while a table is loaded | resolve_dial_addrs, resolve_host, query, parse_answers |
| node table | `proxy/nodespec.rs`, `factory.rs` | none | parsing, construction |

How they interact: the scheduler task clones the pool, measures the clones without a
lock, writes the results back under the write lock, ranks the pool, writes the
selection and saves. Every ctl or web command runs in a task of its own and writes
the same cells. Every connection reads the selection, dials, and reports first bytes
and failed dials to the pool (`attribute_runtime`) and to the route cache
(`record`). The TUN task copies selection and registry into the engine; jev's task
leaves its head for the next reselect; a reload looks names up before it replaces
registry and pool. Nothing else is shared.

What is hard: all of these tasks interleave between any two locks; a measurement's
results are applied to a pool that has changed since; the process may be killed
between two saves; results of overlapping connections arrive in any order; timeouts
cut probes off anywhere. `PROJECT.json` lists each such hazard at its line.

What makes each part correct:

- pool: a node that lives is not retired, a dead one is; the pool is not emptied;
  the fields that say "ever measured" and "failing" agree.
- persistence: a restart brings back what the last save to the file it loads wrote,
  a stale file nothing.
- selection: a pin is honoured, the data plane always has candidates, none twice.
- route cache: bounded; a route that fails yields to one that works; slow routes are
  compared again, but rarely.
- connections: one that is pinned dials nothing directly, a request with side
  effects goes to one upstream, the node ledger and the route ledger agree, and no
  request waits for ever.
- probes: a good answer is a sample.
- jev: one question at a time; who is promoted has earned it, by an answer that is
  not too old; neither failures nor panics stop the questions for good.
- UDP relay: a session in the table is read; silence ends it; loop and pumps do not
  block one another; the loop ends with its control connection.
- TUN: after a sync the engine has the chain the selection, the registry and the
  tuning call for; nothing stays with the adapters of a former registry.
- DNS: a node is dialled at an address of its own server; nobody is given up before
  everyone has been asked; a reload does not wait for ever.

## The modules

| module | models | how state and actions correspond |
|---|---|---|
| `Node` | one node's operations, pure operators on a record | a field per field of `Node`; `ewma` is "INFINITY" or "finite", `bw` whether there is a bandwidth sample; `Instant`s are ages in ticks, capped where a comparison no longer changes |
| `NodePool` | the pool and its three writers | one action per hold of the write lock: `MeasureBatch`, `MeasureBw`, `RetireStale`, `AttributeRuntime`, `Reload`; `pc` is the place in `schedule_loop`, `todo` the clones taken for measurement |
| `PoolView` | what the pool is to the selection: members, and which of them can be ranked | abstract, two steps: `Measure`, `Rebuild`; `NodePool` and `Selection` both implement it |
| `PoolPersistence` | `NodePool` with the snapshot and crashes | `Save` (may fail), `Crash`, `Restart` = load_from + restore; `disk[f]` is what file f holds; `paths` are the file this run of the process saves to (`StatePath`: SILVERQ_STATE or the default) and the one it loaded (`EffState`: SILVERQ_STATE or `[paths].state`), chosen anew at every start |
| `Selection` | every writer of `selection` | one action per lock or atomic; `sched` and `cmd[c]` hold the local variables of the scheduler and of a command's handler; a round is `PlanRound`, batches each with its reselect, `EndBatches`, perhaps the throughput batch, `Retire`; with an empty pool it has no batch and so no reselect |
| `RouteCache` | decide and record | one action per case of the two functions; `ttl` and `recheck` count down to the instants `until` and `recheck_after` |
| `Connection` | handle_one, race_relay and relay, one task per connection, over `Cache == INSTANCE RouteCache` | `conn[c].step` is the await the task is at; one action per outcome of that await, with every booking the code makes before the next; `side[u]` is the slot of an upstream in `waves`, `pending` and `live` of a race; the flag `pinned` is read where the code reads it (policy, cache, last resort) |
| `BandwidthProbe` | one bandwidth probe | one action per await of measure_bw and read_body_bytes; the status line is its prefix and its fields |
| `JevDecider` | the decider with the scheduler rounds that feed it and the reselects that obey it | `phase` is the loop: batches, in which `RankPool`, `ApplyHead` and `WriteSelection` are a reselect, any number of times, then `EndBatches`, then `Ask` or `SkipAsk`; `desired` is the list a reselect is making; `tasks` are the decision tasks, `RecordAnswer`, `RecordNone` and `Panic` the ends of `ask`, `DropGuard` the drop of InFlightGuard; a round number is its age |
| `UdpRelay` | one association | `relay.step` is the await of run_relay; while it is "dial" the mutex is held (`Locked`), and a pump that wants to leave waits; `pump[i]` is the task that reads session i |
| `TunExit` | what a sync promises: the exit becomes the one due | abstract, two steps: `Change`, `Sync` |
| `Tun` | sync_proxies and ProxyWrapper | a sync holds its locks throughout and is one action; an adapter is its node and the build of the registry it came from; `conn[c].todo` is the chain a connection found and has not tried yet, or the adapter its stream goes through |
| `Dns` | resolve_dial_addrs | one task per name in `look`; a query has an id and a port, ports are used again, `net` holds replies that may be lost, late or delivered twice; `NotSent` is a query that could not be built or sent; a node whose dial_addr the table gives is passed over (`GIVEN`) |
| `MC...` | instances for TLC | symmetry, or the sequence of upstreams; in `MCTun`, that `Chain`, which numbers places, is the filter the code applies (`ChainIsFilter`, evaluated over all lists and registries of the instance) |
| `...Proofs` | theorems | see below |

`PoolPersistence` extends `NodePool`, which extends `Node`. `Selection` sees of the
pool only which tags are in it and how the measured ones rank; any new ranking is
allowed when scores may have moved. What it takes for granted is `PoolView`: a
measured node can be ranked as long as it stays in the pool, one that enters the
pool cannot. `NodePool` is proved to keep this, `Selection` to rely on no more and
to exclude none of it. For the rest it is wider than what `NodePool` can do, and so
is the outcome of every dial and probe.

`Connection` keeps of the node pool only whom a connection debits and credits; the
candidates are any list of distinct nodes, so it holds for whatever `Selection`
writes. A write that has no timeout in the code (the replay of relay, the client's
bytes to the sides of a race, the first bytes to the client) may stall: `stuck`
holds the task up until the peer reads.

`JevDecider`, `UdpRelay`, `Tun` and `Dns` meet the rest through the selection, the
registry or the table of nodes only. Each takes these as anything the others could
write: any list, any registry, any table, at any moment. `Selection` in turn takes
any head from jev, so what it shows holds for the head `JevDecider` provides.

History variables record what the code does not: `quiet` (ticks since the last sign
of life of a tag), `lastSaved` (of each file), `past` (what happened to a host's
routes), `fault` (something other than the endpoint's answer ended a probe),
`verdict` (the likeliest candidates of the last answered question), `grounds` (that
verdict at the moment the head was applied to the list being made), `fresh` (nothing
changed since the last sync), `tried` (queries made for a name, with those not sent)
and, in `conn[c]`, `got`, `debits`, `credits`, `answered`, `streak`, `free`. No
guard reads them.

Each component's mutated definitions ("Mutation: ...") are plausible mistakes in
that code; every property of a passing run is violated by at least one of them, so
none of them holds by construction.

## The runs

Passing runs:

| run | instance | what it shows |
|---|---|---|
| `node_pool` | 2 tags, batches of 1, 2 failures to retire (counted to 3), keep-alive 2 ticks, HP 0..1, floor 1 | types; failing exactly when the failure clock runs, and both tests for "measured" agree through reloads; a node with evidence of life is retired only after a whole keep-alive of silence; the floor; a silent node is out of the pool again and again, or the pool is at its floor |
| `persistence` | 1 tag, 2 files, snapshot fresh for 1 tick | crash anywhere, paths changing between runs: a restart restores HP and evidence of the last save to the file it loads, and nothing from a stale, lost or never written one |
| `selection` | 2 tags, 1 client, jev | no repeated or surplus candidate; the scheduler never empties the selection; a lasting pin is honoured in the end if there is a pool; an unpinned selection returns to measured nodes |
| `route_cache` | 3 hosts, 2 entries, 3 response times, interval 3, TTL 4 | the cache stays within its bound; a failed route yields, a failing direct route is compared, slow hosts race at most once per interval |
| `connection` | 1 connection after the other, 2 nodes, 2 attempts, 4 classes of targets, 1 host | a pin holds from end to end; a plain POST reaches one upstream; no node is debited and credited, nor credited without an answer of the proxy route; every request is answered or over |
| `udp_relay` | 1 client, 2 targets, 1 node with and 1 without UDP, 3 sessions at once, idle after 1 tick | a session in the table has a reader, also when an old pump removed a newer session; the loop serves, silent sessions end and the loop returns, unless a dial or a write hangs |
| `tun` | 3 nodes, 1 of them direct and another one tagged DIRECT, 2 builds of the registry, 1 or 2 attempts, 1 connection | implements `TunExit`; once changes stop the engine follows; once reloads stop old adapters are dialled no more |
| `jev` | 3 nodes, lists of 2, both judged, probabilities in thirds, expiry after 1 round, cooldown 2 after 2 failures | one question at a time; a promotion is earned and recent, also when answers and pins come between ranking, head and write; judgement expires when answers stop; the questions go on |
| `dns` | 2 nodes, with or without a given address, 2 names, 2 upstreams, 1 port, 3 ids, 1 permit | addresses are of the node's own server; upstreams are all tried before giving up; a reload ends |

Why the bounds are enough. The retirement rules compare two nodes at most (whom the
floor takes back), so two tags meet every case; limits of two failures and two ticks
distinguish "first", "last before" and "at the limit"; counters are capped above the
largest value any comparison asks for. Selection relates one pinned node to one
other; a second place lets jev's promotion reorder a list. In the route cache hosts
meet only in the sweep, which needs one more host than places; all else concerns one
host, with response times below the threshold, above it, and more than twice above
the first slow one. Interval and TTL are a few ticks with the TTL the longer, as 30
s and 180 s are. Of connections, properties are about one each, and what others do
to it goes through the cache, which has any entry the first requests left; two nodes
make a first and a second wave, a first and a next candidate. An association needs a
session, its successor under the same key while the old pump still lives, and one of
another flow. For `Tun` a direct node and another one tagged DIRECT are what makes
equal names of different adapters, and two builds the old and the new; a build is
taken again only when nobody holds an adapter of it. Jev has a node more than a list
holds, so one that was judged may be gone when its answer comes, a probability for
certain, likely and unlikely, and ages up to where no comparison changes. Two files
are the same, or not, for saves and load. Two names that share one port make a late
reply reach the wrong query; an id more than there are queries and replies at once
keeps one new. The theorems below hold without these bounds and for any number of
connections.

Fairness. The loop of `schedule_loop` never ends and every await in it has a timeout
or is a lock held briefly, so `WF(Scheduler)`; a round has at least one batch when
there is a pool, how many is left open. A handler that started runs to its end: weak
fairness on each client's `Continue`, none on starting a command. Time passes:
`WF(Tick)`. Nothing is assumed of traffic, jev or reloads. A connection's own awaits
have timeouts (dial, first byte, the budget of a side), so `WF(Handler(c))`; that of
a stalled write has none, so nothing makes a peer read, and `AnsweredOrOver` excepts
it.

In `UdpRelay` nothing makes a dial or a write of the loop end, for they have no
timeout; the properties except them. `SF(Shutdown)`: the select of the loop is
offered the end of the control connection again and again, and picks at random among
what is ready. `SF(PumpRemove)`: the mutex is given in the order of the requests,
and the loop gives it up between datagrams. `WF(Tick)` and `WF(IdleTimeout)` are the
timer of the pump. In `Tun` the interval and every dial and query have timeouts:
`WF(Sync)`, `WF(TimedOut)`, `WF(Resolve)`. In `JevDecider` a reselect that began is
finished (`WF(ApplyHead \/ WriteSelection)`), a round has finitely many batches
(`SF(EndBatches)`: each reselect disables it for a while) and its end asks or skips;
the HTTP client gives up after its timeout (`WF(RecordNone)`) and a task that ends
drops its guard; nothing is assumed of answers. In `Dns` a query has a timeout,
permits are given in turn, and the tasks run (`WF` of `NoAnswer`, `Acquire`,
`Query`); nothing is assumed of replies.

Violation runs, each a disagreement between the code and what the repository says of
it (quoted in `PROJECT.json`, "findings"):

| run | what happens |
|---|---|
| `stale_reselect` | a reselect of the loop, after the seeding of a cold start, reads the pin (`main.rs:580`); a `select` runs; the reselect writes its unpinned list over the pinned node (`main.rs:600`), until the next reselect |
| `download_is_no_sample` | the status check of the bandwidth probe looks at the seven bytes `HTTP/1.` only and refuses every answer |
| `request_sent_twice` | a POST through a SOCKS or CONNECT tunnel in clear text is written to both sides of a race |

Seen while modelling, without a run:

- persistence: with `[paths].state` set in silverq.toml and SILVERQ_STATE not set,
  saves go to the default path (`persist.rs:91-110`) and startup loads the
  configured one (`main.rs:121`), so nothing saved comes back, though
  `silverq.example.toml:47` calls it the file scores are restored from.
  `RestartRestores` speaks of the file that is loaded: what was saved elsewhere is
  not brought back, and the run and the theorem include the case.
- pins: with an empty pool (retirement with `retire_min_pool` 0 can empty it, while
  the registry keeps its adapters) a round has no batch (`main.rs:419`) and no
  throughput batch, so a stale list that a reselect wrote over a pin stays until
  there is a pool again, which `PinHonoured` therefore asks for; `select auto` and
  `select` interleaved leave the flag set and no target (`ctl/protocol.rs:284`,
  `310`); while a pin lasts the SelectorStore names another node, since `select`
  already wrote what reselect compares with (`main.rs:601`); `select auto` and
  `reload` write an empty selection when no node is measured, which reselect takes
  care not to do (`main.rs:564`), and leave jev's head out.
- pool: a bandwidth answer sets no evidence of life, so a node that only ever
  answered one would be retired at once; a first byte of traffic clears the count of
  failed probes that `health.rs:13` says it leaves alone.
- routes: a direct answer that hysteresis keeps out leaves the count of direct
  failures, so the two that switch an entry need not be adjacent; one connection can
  book both of them (a cached direct dial fails, all candidates fail, the last
  resort gets no byte), against the comment at `serve.rs:409`; `decide` moves the
  recheck time before the race is run, so followers use a direct route that has just
  failed; a client that goes away between the first byte and its delivery books a
  failure of the route; a race in which all sides die books the proxy only.
- connections: race_relay writes to a side that does not read without a timeout
  (`race.rs:179`), and then neither the other side nor a deadline is noticed;
  force-proxy names get the direct last resort too (`serve.rs:429`).
- UDP: the pumps and their sessions outlive the control connection by a minute of
  silence, where `udp.rs:24` and `inbound/udp.rs:11` say they are reclaimed with it;
  only replies keep a session; adapters without UDP use up attempts.
- TUN: DIRECT is not registered before the first candidate comes, though
  `tun.rs:453` says always; a stream keeps its adapter, of a build long replaced
  perhaps, as long as its ends like, since nothing here bounds it (`tun.rs:175`), so
  `OldNodesLetGo` speaks of dialling; nothing keeps a node that is not direct from
  being tagged DIRECT (`nodespec.rs:156-205`), and with a direct node beside it
  their adapters have one name: when one takes the other's place anywhere but at the
  head, the sync skips its update (`tun.rs:440`) and the engine keeps the older one
  until something else changes; a change of fallback_attempts reaches connections
  with the next sync, not at once as `tun.rs:164` says; the fallback to DIRECT is
  taken when pinned as well.
- jev: a cooldown skips one round less than `cooldown_rounds`.
- DNS: a reply with a wrong id ends its query; one that cannot be sent counts as
  tried; a `dial_addr` in the YAML, a derived field by `nodespec.rs:34`, is used as
  it stands; two overlapping reloads may leave the table of the one that read its
  file first.

## The theorems

All hold for every value of the constants that satisfies the named assumptions
(`NodeAssumption`, `PoolAssumption`, `SelectionAssumption`, `RouteCacheAssumption`,
`ConnectionAssumption`, `UdpRelayAssumption`, `TunAssumption`, `JevAssumption`,
`DnsAssumption`: natural limits, finite sets, at least one place, one failure, one
attempt, one upstream and one permit, an absent value outside the data). The code
justifies them by `RuntimeTuning::validated`, by the clamps of `JevDecider::new`, by
the default upstreams and by its types. `PersistAssumption` only names the default
file. Of the tags nothing is assumed; `ReachIsRight` has its condition (`NamesTell`)
in its statement.

`NodePoolProofs`: types, `MarksAgree`, `AliveKeepsItsPlace`, `RetirementFloor`. The
invariant says of each node that its count and clock agree and that its two marks of
measurement agree, and of each tag that the failure clock is not older than the
silence. The last is what makes retirement safe: a condemned node's clock has
reached the keep-alive, hence so has the silence. The properties alone are not
inductive: nothing in them relates the clock to the history. Each operation of a
node is shown once to keep a sound node sound; the actions apply these lemmas to the
nodes they touch. The floor follows from cardinalities: what is kept and what is
taken back are disjoint.

Under `PersistSpec`, with saves, lost files, crashes and restarts, the module proves
the types (`PersistTypeOK`), `RestartRestores`, and the three properties above
again. `PInv` adds to the pool's invariant what each file says: no tag stands in
both tables, and what they tell of a tag (of one in neither, that it is as new) is
the HP and the evidence it had in memory at the last save to that file. A restart
brings back just that of the file it loads, whatever path saves take; and the nodes
it builds are sound and have no failure clock, so the pool's invariant, and with it
the three properties, holds from there on.

The module also proves `SilenceCounts`: while a node stays in the pool and is
silent, no reload, round or connection takes anything off its failures or its clock,
and once stale it is stale until it answers. And `ServesTheSelection`: `Spec =>
View!Spec` of `PoolView`.

`SelectionProofs`: types, `NoWastedCandidate`, `SchedulerNeverEmpties`. The
invariant says that every list anyone holds ready to write has distinct members and
fits the capacity, and that the scheduler's is not empty where a write follows. This
is what outlives the interleaving: the write needs nothing of the shared state it
read before. The lemmas show that taking a prefix and promoting a tag keep a list
distinct (promotion permutes its places).

Two action properties say what becomes of a pin and of its end once commands have
stopped. `Obeys(t)` is where the scheduler stands after it has read the target t;
`PinTakesHold`: it stays there and writes `<<t>>` only. `Follows` is where it stands
when it has looked at the lowered flag; `AutoTakesHold`: what it writes is not empty
and measured in the pool as it is then, though it was ranked before.
`SelectionTakesTheView` and `EveryViewIsRanked` are the other half of `PoolView`:
`Selection` implements it, and since every finite set has a list of its members, its
guards on the next ranking forbid no pool that `PoolView` allows.

`RouteCacheProofs`: types, `CacheBounded`, `FailedRouteYields`,
`FailingDirectIsCompared`, `SlowRaceIsRare`. The invariant relates an entry to its
host's history: a failed route has no baseline left, and the part of the interval
that has passed since the last race plus the part the entry still has to wait is at
least the whole interval.

`ConnectionProofs`: types, `PinHolds`, `SentOnce`, `LedgersAgree`, and that every
step of a connection is one of `RouteCache` or none, so the theorems above hold of
the cache under the real connections. The invariant says at each step of the handler
which upstreams can still be chosen and that none of those has been debited, that
the request has gone to the chosen one alone unless it may race, and that a
connection never free of the pin has neither a direct policy, nor a race, nor a
cached route. Each action is shown once on the record of its connection; only `Pin`
touches several. `HandlerAdvances` gives a connection a rank (place in the handler,
candidates left, and in a race the sides still to be dialled, waiting or alive) that
every step of its handler lowers and nobody else raises: neither fallbacks nor
further waves can go round in a circle.

`UdpRelayProofs`: types, `SessionHasReader`, `WritesToItsOwn`. The invariant says of
the table what the code says nowhere: a session stands under the flow its pump was
started for, hence under one flow only. So a pump may remove whatever is under its
key, and what stays in the table is still read; and the session the loop has copied
out and writes to, with the table unlocked, is of the flow in hand or read no more,
never another client's.

`TunProofs`: types, the refinement `Spec => Exit!Spec` and, through it, that the
exit is the one due from a sync to the next change (`FreshExit` of `TunExit`, proved
of its steps, to which those of `Tun` map). The refinement maps `exit` to the
outlets of the engine's chain, an outlet being the adapter's name and the build it
is of, for any tags whatever. The point is `SyncSkip`: the code compares the names
and the first adapter only. The invariant says that the engine's chain is of one
build and that `current_auto` holds its names and its first adapter. Equal first
adapters then mean the same build, and equal names of one build the same outlets. (A
`Reload` takes a build nobody holds an adapter of: a pointer is not given to a new
adapter while the old one lives.) What outlets say of the servers a connection
reaches is `ReachIsRight`: the engine's chain leads to the very ones that are due,
if no two nodes of one name lead to different places, that is, unless there are a
direct node and another one, not direct, tagged DIRECT. The type of a chain needs
that the k-th of a finite set of places exists; the principle of the least natural
number, from well-foundedness, stands in for an induction here.

`JevDeciderProofs`: types, `OneQuestion`, `PromotionEarned`, `QuietInCooldown`. The
invariant ties the flag to the tasks and the head to `verdict`: a head is one of the
likeliest candidates of the last answer and has its age. `Grounded` carries this
over to the write: from the moment the head is applied, the list a reselect holds
begins with one of the likeliest of the verdict it rests on, and answers, pins or a
new ranking that come before the write do not touch it. Promotion moves a place of a
list to its front, which the lemmas on `Promoted` show to keep lists distinct.
`QuietInCooldown`: a cooldown has no question out and no head left, so `record`,
which resets the failures and not the cooldown, is never called in one.

`DnsProofs`: types, `AddressOfItsServer`, `UpstreamsExhausted`, `LookupsAdvance`.
The invariant says that replies under way which bear the id of a running query are
its own (a new id is borne by none), that what a task has found is of its name, and
that the queries tried are the plan up to its place. `PlanCovers` shows that the
plan holds every pair of upstream and type, v4 first. `LookupsAdvance` counts what a
name has still to do: each step of its task lowers it, no other raises it.

Every invariant and every safety action property that a passing run checks is thus a
theorem. The properties named here that no run lists (`PinTakesHold`,
`AutoTakesHold`, `SilenceCounts`, `HandlerAdvances`, `LookupsAdvance`,
`QuietInCooldown`, `WritesToItsOwn` and the two refinements of `PoolView`) are the
safety cores of liveness properties, or what one component owes another; they are
defined next to their proofs.

Only model-checked: liveness under fairness, which TLAPS does not prove here, that
is `DeadNodeLeaves`, `PinHonoured`, `AutoRecovers`, `AnsweredOrOver`, `RelayServes`,
`SilentSessionEnds`, `RelayReturns`, `FollowsSelection`, `OldNodesLetGo`,
`JudgementExpires`, `NeverStalls` and `ReloadEnds`; what is proved of several of
them is that no step goes back (`SilenceCounts`, `PinTakesHold`, `AutoTakesHold`,
`HandlerAdvances`, `LookupsAdvance`), so that what is left to TLC is that a step is
taken. That `Chain` is the filter of the code (`ChainIsFilter`) is checked over the
lists of the instance only: it would need an induction over lists.

## Not modelled

- values of scores, EWMA and bandwidth (an order or a yes/no here); wording of
  replies, logs, JSON and TOML;
- network, TLS and protocol engines (external crates): their outcomes are chosen
  freely;
- order of measurement within a round: `NodePool` allows every order and every batch
  up to the limit;
- clamps of the tuning, the read-modify-write of PATCH and `config-reload`: the
  other parts take any tuning (two PATCHes may lose an update, `web/mod.rs:482`;
  `retire_max_failures` is cut to 32 bits before it is clamped, so that 2^32
  disables retirement, `web/mod.rs:505`);
- the greeting and the parsers of SOCKS, HTTP, YAML and TOML, DomainSet,
  measurement_order and reorder_recent_failures: pure functions of their input;
- set-up of the TUN device, of routes and of the resolver (I/O), the engine and its
  store of fake addresses (external);
- durations: the shorter first-response budget of a cached direct route, and that a
  name looked up for the TUN fallback is outside the timeout of the dial.

## What is left

1. `Connection` over `Selection`'s list and `NodePool`'s attribution in place of any
   list and of the two ledgers.
2. `Tuning`: clamps with their widths, PATCH and config-reload.
3. Pure algorithms against reference definitions: measurement_order (each node once,
   batches mixed), reorder_recent_failures, DomainSet, header parsers.
4. An abstract selector that atomically pins, unpins and publishes, refined by
   `Selection` where it does.
5. Proofs: the safety cores of the liveness properties that have none yet
   (`RelayReturns`, `SilentSessionEnds`, `OldNodesLetGo`, `JudgementExpires`).
