# A TLA+ verification of ferrous-dns

ferrous-dns is a DNS server for a home or office network: it answers from local
records and a cache, filters by lists, and forwards the rest to upstream
resolvers. This directory holds TLA+ modules of the server, the TLC
configurations that check them on small instances, and TLAPS proofs, in
eight modules, of most of their safety properties for every instance. `PROJECT.json` is the index: the
components, the runs, the source lines each definition models, a mutant for
every property, the hazards of the code and the theorems.

    tlc -config CacheMap.cfg MCCacheMap     # a run: its cfg and its module
    tlapm CacheMapProofs.tla                # the proofs

## The system and its parts

| Part | State | Operations | What is hard | Modules |
|---|---|---|---|---|
| Listeners (`cli/src/server`, `dns/server.rs`) | connections per address | parse, limit, ask, reply | two parsers, six protocols, one answer | `Listeners`, `QueryPath` |
| Query pipeline (`handle_dns_query.rs`, `fast_path.rs`) | admission permits, verdict and group caches per thread | gates, filter, cache, resolver, guards, log | the order of the gates; a fast path that repeats them | `QueryPath` |
| Rate limiter, cookies, connection limits (`rate_limiter/`, `cookie_guard.rs`) | buckets per subnet, secrets, counts | take, refill, rotate, evict | entries evicted while spent from | `QueryBudget` |
| Detectors (`dga_detection`, `tunneling`, `nxdomain_hijack`, `response_ip_filter`) | statistics per subnet, flags, learned addresses | check, analyse, probe, evict | learned state read by the fast path | `Detectors` |
| Resolver layers (`dns/resolver`) | local PTR and wildcard registries | PTR, filters, DNS64, DNSSEC, core | which layer sees which answer | `ResolverLayers` |
| Query coalescing (`cache_layer.rs`) | `inflight` map of watch senders | look up, lead or follow, store, publish | election races publication; a leader dropped at any await | `Inflight`, `SingleFlight` |
| Cache map, L1, bloom filter, local records (`cache/`) | shared map, per-thread copies, two filter slots, registry | get, store, edit, clear, evict, rotate | four structures, each with its own lock | `CacheMap` |
| Refresh timers (`cache/schedule.rs`, `cache_maintenance.rs`) | timers, claims, permits | store, hit, fire, park, claim, renew, repair | lock-free; nothing scans, so a lost timer is a leak | `RefreshTimers` |
| DNSSEC (`dns/dnssec`) | caches of keys and DS sets, established keys | walk the chain, verify, judge a denial | cached proofs older than the zone | `Denial`, `Dnssec`, `Validation` |
| Upstream query (`load_balancer/pool.rs`, strategies) | the walk of one query | route, walk, race, fail open | verdicts change during the walk | `UpstreamQuery` |
| Health checker (`health.rs`) | verdict and run counters | probe round, mark, forget | two rounds at once; late probes of removed servers | `HealthChecker` |
| Pool sets (`pool.rs`, `hostname_refresh.rs`) | live set, pending lookups | reload, refresh a hostname | a reload and a refresh overlap for seconds | `UpstreamSets` |
| Transports (`dns/transport`, `dns/forwarding`) | transport cache, pools of sockets, streams and connections | exchange, retry, forget | late replies, stale connections, dropped tasks | `Transport`, `UpstreamLinks` |
| Block filter (`block_filter/`) | index, tickets, decision caches | compile, rebuild, evaluate, explain | skipped rebuilds; verdicts stored after a clear | `FilterIndex`, `Administration`, `QueryPath` |
| Administration (`use_cases`, `repositories`, both APIs) | the tables, four in-memory copies of them | some ninety handlers over forty use cases | which copy to load again, after which statement | `Catalog`, `UseCases`, `AdminApi`, `Administration` |
| Logins (`use_cases/auth`, `users`, `api_tokens`) | users, sessions, factors, challenges, failure windows | log in, verify, change, revoke | checks and writes in separate awaits | `Accounts`, `Auth` |
| Query log (`query_log_repository`, jobs) | queue, rows, minute and hour rollups, floor | log, flush, roll up, prune, read | rollups, retention and readers beside each other; clocks that step back | `QueryLog`, `LogViews` |
| Configuration (`handlers/config`, `use_cases/config`) | running config, file, what is live | update, import, reload, record and password changes | two locks, one held across awaits | `ConfigStore` |
| Config file (`config_persistence.rs`) | inodes, pages, directory, temp names | replace, or rewrite in place | power loss between any two steps | `ConfigFile` |

How they interact. A listener hands a query to `execute`, or answers it on the
fast path (`QueryPath`, which composes `Listeners`, `QueryBudget`, `Detectors`,
`ResolverLayers` and, behind them, `QueryLog` and `LogViews`). A query that
passes the filters reaches `CachedResolver` (`Inflight`), which looks in the
cache (`CacheMap`) and, as leader, asks the pool manager (`UpstreamQuery`) over
a snapshot of the live set (`UpstreamSets`), among the servers the checker has
in rotation (`HealthChecker`), through `Transport`; the validator (`Dnssec`)
asks the same pools. What is stored arms timers (`RefreshTimers`). Administrators'
requests (`AdminApi` over `UseCases` over `Catalog`) change tables and load the
engine's copies again (`Administration`); changes of the configuration go
through `ConfigStore` and `ConfigFile`.

Compositions: `QueryPath` as above; `Administration` of the two APIs, the use
cases, the tables, the compiler and the engine; `Auth` of the handlers and
`Accounts`; `Validation` of `UpstreamQuery` and `Dnssec` over a world of zones;
`UpstreamLinks` of `UpstreamSets` and `Transport`. Between compositions a module takes what the
others do as a free choice of its environment (any verdict at any look, any
answer of an upstream, any reload), which is weaker than what they really do,
so a property that holds here holds beside them.

## Conventions

One action is what happens between two points where another task or thread may
come in: an await, or one critical section of one structure. Actions and operators are named
after the code. A variable marked *history* is not in the program; it remembers
what a property needs and no guard reads it. Bounds are constants named `Max...`, or
the budgets of a mix (`left`), read in guards only. The definitions marked
*Mutant* are plausible wrong versions of the definition they precede; no
specification uses them. Where one run asks about many situations, its
constant `Mixes`, `Scenarios`, `Scenes`, `Settings` or `Traffics` is a set of
them and `Init` picks one: a situation fixes what the world holds and how often each thing may happen.

## The modules

**Inflight.** A query is one call of `resolve`. Its `pc` is the await or the
access to shared state it is at: the cache lookup, the `entry` on `inflight`,
the double check, the inner resolver, the store, the removal and the send. A
guard (`InflightLeaderGuard`) publishes None from every other exit; the
cancellation of a leader at its await is an action. **SingleFlight** is what
coalescing promises, with no channels: a query gets the outcome of an upstream
exchange that was under way during it, or the cache's, or resolves by itself
after a leader gave up. `Inflight` refines it.

**RefreshTimers.** `rec[k]` is a `CachedRecord`'s hot counters: the state of
`refresh_timer` (a pending second, Lapsed, Parked, Claimed), the in-flight and
the removal mark, the last hit. A timer goes from the thread that arms it
(`arming`) to the `inbox` and to the worker's `schedule`; the worker fires,
judges, parks and rechecks in steps of their own, since hits come in between. A
stale hit sets the in-flight bit (`StaleHit`) and sends the repair, or takes the bit back
when the channel is full (`StaleSend`), with the entry in `repairing` in between. A
permit is a renewal or a repair in one of its phases. An eviction marks any entry, a local record
that took the key included, and the retain that follows removes it. Negative entries have
timers of their own. Memory is sequentially consistent in the model, and the code's
counters are `Relaxed`; the next sections say where that matters. The clock is `Tick`.

**CacheMap.** Each operation is a sequence of steps, one per structure, of a
thread. `behind` holds the threads whose L1 has yet to compare generations.
An upstream answer is the routing it was obtained through. A renewal asks (`Renew`) and then keeps the entry, stores what it got or
removes what is there on a Bogus answer. `struck` and `shadowed` are the names that a race between these operations cost their record,
or that it left with an upstream answer in an L1; each race is named in "Where the code does less".

**ConfigStore.** A configuration is four sections that differ in how they are
saved and when they take effect. `config_writer` is the variable `writer`; the
config lock is never held across an await, so a section under it is one step.
`acked` is what was last reported as stored.

**ConfigFile.** A file system with pages and directory entries that are in memory until
synced or written back. `Kill` keeps memory, `PowerLoss` keeps what was synced and any
choice of what was written back. A save goes through a temp file, or rewrites the target in place
where the rename is refused (a bind-mounted file).

**HealthChecker.** Two rounds, the loop's and the first one spawned beside it, each with
its own set of probes out. Counters saturate at `CounterMax` (`u16::MAX`).

**UpstreamQuery.** Routing by the longest suffix and the client's group, then
the strategy of each pool: sequential (failover, balanced) or racing, with its
timeout. The walk and a sequential strategy are positions: the default pools from `at` on, and the places of the
servers still to ask (`todo`), in order from `start` and around. Routing is `Lookup`, translated from the suffix walk; the property
compares it with `RightPools`, a definition by claims that knows no walk.

**UpstreamSets.** `prepare` looks hostnames up one by one, `apply` raises the
flag, swaps, lowers it and notifies in separate steps; the refresh task loads
the set, looks up and compares-and-swaps.

**Transport.** `user[u]` is a task in `exchange_with_tc_retry` or in a probe:
its `pc` is the wait it is at, from the semaphore of the socket pool or the
connection to the read. Datagrams in `net` are addressed to a local port and
reach whoever has it bound. A stream carries the replies it still owes.
`shared` is `QUIC_POOL` and `H3_POOL`, each under its own key. A query has an
id, a question and `n`, which stands for its cookie and its 0x20 spelling;
scenes say whether the server echoes them, and whether it truncates.
**UpstreamLinks** lets the exchanges take their addresses from the live set
and the refresh task forget the transports it replaced.

**Denial.** Names are sequences of labels in canonical order; an RRset carries
signatures, a signature what it was made over, its signer and its times
(RFC 1982 arithmetic modulo `Wrap`). NSEC and NSEC3 proofs are translated
branch by branch. **Dnssec** is the validator: `fetch` steps of the walk from
the root, DS matching, key sets, caches with their TTLs, the verdict on
positive and negative answers. **Validation** puts clients and validators over
the pools and zones around them that roll keys, become signed and send damaged
replies; `hurt` remembers a damaged one, `stretched` a damaged one whose denial rests on the last NSEC3 record of a zone
for a hash outside its interval.

**FilterIndex.** From rules to the index and from a name to a verdict: exact,
wildcard, pattern and regex tiers per source bit, allow before deny, the
precedence of `evaluate`, and beside it `explain` and the preview.
**Catalog** is the tables with one operator per repository method; a rule of a service is named after what the
service is called and the rule (`RuleName`), and names are unique in a group. **UseCases**
gives each use case as the list of its awaits. The constant `Builtin` is the catalog of the binary, `Slugs` the id made of a name, `Unstarred`
what follows the star of a label that begins with one, as in `*ads.com`. Its last part is the import of
groups, malware switches and sources: ids translated from the exporting server's,
an error of one row noted and passed over, one reload after each batch. **AdminApi** turns requests of
both APIs into tasks. **Administration** runs tasks, rebuilds, downloads, the
malware and safe-search loads and the schedule evaluator step by step. A build reads its eight tables one statement after the
other, with the downloads where the code has them; tasks wait for the build lock in a set, since ticket and lock are not taken
together; what a load reads and what it stores are two steps. There are
statements that fail (a group whose rows the evaluator cannot load keeps its override) and clients that
disconnect.

**Accounts** is the tables behind logins; **Auth** the requests over them, one
step per await, the failure windows, and the admin's hash in provider and
config. Every row carries the life of the name it was obtained in: a request is of the life in which it presented its proof or found what it
presents (`bearer`), and what it writes is too, however late.

**QueryPath.** A worker thread takes a query from a listener; reading a cache,
evaluating, storing the verdict in L1 and in L0 are steps apart, and so are the two stores of a CNAME verdict
(`memo`), which keeps its chain's TTL (`ChainTtl`) and the version of the verdict it was made of; the checks of one chain are
one step. Publications of an index,
loads of client groups, which take no lock and may overlap, the blocking toggle with its timer, connections,
evictions, probes and feeds run beside it. **Listeners**, **QueryBudget**,
**Detectors** and **ResolverLayers** hold what a step computes.
**QueryLog** is the writer task, rollups (bags, so an upsert is a union), the
hourly job, retention and a paging reader; a flush may take its lock at any time after its batch was closed. **LogViews** has the
reads over them that count, filter or page.

## The runs

| Run | Instance | What it shows |
|---|---|---|
| `coalescing` | 3 queries, 1 key | no follower waits on a channel nobody will send on; nothing unvalidated or transient is served as a hit; every query returns; refinement of `SingleFlight` |
| `cache_timers` | 1 key, 3 settings (two permits; one permit and an entry that dies; no permit and a negative entry), clock to 3 | `NothingForgotten`: every entry is watched by a timer, a claim or a thread about to arm one, the pending second is that of a timer under way, the in-flight bit has an owner, only unused entries are parked; dead entries go |
| `cache_contents` | 3 traffics, up to 3 keys, 2 threads, 2 routings | `LocalRecordsHeld`: edits of a local record, queries, renewals, evictions and clears that meet on its name leave map, registry and L1 in step, but for the named races; a clear forgets all that was cached under the old routing; the bloom filter never hides what the map holds |
| `config_writers` | 2 requests, 2 values, crashes, hand edits, failing saves | what was stored stays; `LiveInStep`: the live pools are the saved ones, and a change that waits for a restart is flagged |
| `config_file` | 3 saves, 2 stops | no stop leaves a truncated file but in the in-place fallback; an acknowledged save survives |
| `upstream_health` | 2 servers, thresholds of 2, one listed twice | only a full run of results changes a verdict and such a run does; removed servers are forgotten; the rotation follows the servers |
| `hostname_refresh` | 2 hosts, 2 pools, 2 reloads, a move, a failed lookup; 9 scenes of two exchanges, every protocol, one mishap | `SetInStep`: a refresh never undoes a reload, the flag covers the routes, no hostname is left unwatched; `AddressesFollow`: the live addresses follow the DNS; `AnswersMatch`: an exchange ends with the answer to its own question, from the address asked, untruncated and in lower case; `LinksServe`: sockets, permits and streams are whole whatever ends an exchange, and a stale pooled connection fails none |
| `validation` | 8 scenarios: every pair of strategies under clients; zones that roll, become signed, agree on names, deny; outages | `WalkIsSound`: asked only where routed, SERVFAIL only when unanimous, no failure while a server was neither asked nor out, fail open only when none is healthy; `SecureIsGenuine`: Secure is what the zone published (`stretched` excepted); `VerdictsEarned`: Insecure is proven, Bogus needs a damaged reply |
| `administration` | 2 groups, 3 names, 2 lists, one family of requests per mix (rules, lists, syncs, clients, services, races, schedules, imports) | `IndexIsCurrent`: a change is in the index published when its request is answered; `EngineFollowsTables`: the other in-memory copies hold what the tables hold, no more and no less; service rules are their definitions, normalized; overrides are taken back; `PreviewsAgree`: explain and the preview say what evaluate does |
| `logins` | 2 clients behind one address, 2 users, one family of requests per mix | a code, a recovery code, a challenge or a passkey counter is used once; failures are bounded by the limit and the attempts in flight; nothing of a deleted user is inherited but what a request wrote after the deletion; a changed password ends the other sessions and reaches provider and config |
| `query_path` | 1 or 2 workers, up to 4 queries, one family of events per mix | verdicts and groups in use are current once a publication or load is over; the fast path answers what `execute` would admit and answer alike; rations and connections are bounded; a blocking timer acts only for the last request; the log tells what was sent |
| `query_log` | 2 s minutes, 4 s hours, chunks of 1, pages of 1 | `ColumnsAgree`: totals are the sum of their parts and filters match columns; `RollupsExact`: rollups count what the rows count; `PagesComplete`: a walk of the pages misses nothing and repeats only after its cursor row was deleted |

A property named with a colon above is a conjunction of named parts; the parts
are in the module, each with its comment.

Why the bounds are enough. Coalescing needs a leader, a follower and a third
query that comes between the leader's removal and its send; keys do not
interact. The hazards of a timer need a hit, the worker, and two permits on one
key; three ticks pass a TTL of 2 and reach the removal. The races on a name need one key, two operations that overlap and, for a
shadow, a second L1: the first traffic of the cache has just that, with every operation on. Renames need a second local name, clears and rotations a
key beside the local one. Two requests are enough for config writers
because one lock admits one of its users, beside one writer that does
not take it. Two stops suffice for the config file: one that leaves a temp file, and one during
the save that meets it. A threshold of 2 needs two failures, and a flap. Two hostnames and two pools hold
a shared, a private and a removed hostname. A pooled socket or connection
goes wrong between one exchange and the next, so two exchanges, overlapping or
in turn, with pools of one place and one mishap show it; a socket is worn after two uses so that both happen.
Zones three labels deep have a parent, a child and a wildcard between; a
second validator reads what the first cached, and the clock runs through a key roll. In the
administration mixes two requests overlap at every await with a rebuild, an
evaluator round or a failing statement, and a backup's groups have other ids than here; sequences of three requests of one administrator over clients and over
services reach what earlier ones left, and sequences of two run with a fault. The custom services of the instance are called what a built-in one is, lack a dot or a name. Logins race in pairs, since a factor is
spent by one statement; more than two are left to `AuthProofs`. A third query of `query_path` reads what the second
stored around two publications; two loads of groups suffice to interleave, and `StaleTtl` is so short that a bucket is evicted before it is full. The log runs close an hour, reopen it, flush into it late and prune
beside a reader, with one or two rows per minute.

## Fairness

* `Inflight`: weak fairness of every step of a query, upstream answers included,
  for the exchange has a timeout and tokio polls a woken task. New
  queries, cancellations and expiries have none.
* `RefreshTimers`: the worker ticks, a thread that holds a timer pushes it, a hit that holds its guard ends, a task ends; strong for
  the worker and the permits, which may have to wait for hits to let go of the entry: hits do not follow each other for ever without a moment
  between them (`LastHitEnds`). No query, store or edit has to come, nor does a second.
* `HealthChecker`: the loop ticks and probes end (each has a timeout). Servers and reloads are free.
* `UpstreamSets`, `UpstreamLinks`: the task runs and a lookup that is due is eventually made: strong, since a reload may
  postpone it. Reloads end, since lookups time out. Failures are bounded, as "once lookups stop failing" needs.
  Exchanges have no fairness.

The other modules state safety only. `CHECK_DEADLOCK FALSE` is where the
instance may stop: the clock is at its bound, the saves are used up, or no
request or query is left to make.

## Proofs

**CacheLayerProofs.** Coalescing, for any sets of queries, keys and answers. Assumed
(`InflightAssumption`): `NoQuery` is no query, valid and unvalidated answers are
disjoint and none is one of the reserved words. The properties are not
inductive: that no follower is stranded needs that a pending channel's leader
either has its sender in the map or holds it (`tx`); that the map names for a key only a
query that leads this key; and that what a leader is about to send is what it stored. `InflightInv`
says so, and its induction has one step per action. From it follow `InflightTypeCorrect`,
`LeaderUnique`, `NobodyStranded`, `FollowersAgree`, `HitsValidated` and `Refinement`: every step is a step of `SingleFlight` or
a stutter.
The timers, for any keys, TTLs, leads, windows, permits and bounds (`TimersAssumption`: a retry is at least a second away, the
threshold is a percentage, bounds are naturals). `TimersInv` says for each state of `refresh_timer` who will look
at the entry next (`StateWatched`: a timer on its way or in the schedule, the worker at a named step, a permit in a named phase), that a pending
second is never past the entry's deadline (`PendingInTime`), what the worker holds at each of its steps
(`WorkerAt`), that the in-flight bit has one owner (`RefreshingIsOwned`), and that parking is decided on
counters no hit has changed since (`ParkedOnlyIfUnused`). From it `NothingIsForgotten`.

**ConfigProofs.** The file, for any sets of inodes and process ids and any number of
saves and stops (`ConfigFileAssumption`: the target's name is no temp
name, `NoInode` is no inode, bounds are naturals). `FileInv` adds to the properties
what each phase of a save knows: that the temp inode is not the target's, that it is on disk once synced,
that it is what the target names after the rename, and that whatever the durable directory names is on disk.
From it: `TypeCorrect`, `FileSurvives`, `AckedSavesSurvive`, `ResultsTruthful`, `TempsAccounted`.
The store, for any requests, values and writers, with failed saves, hand edits and restarts
(`ConfigStoreAssumption`: `NoRequest` is no request, hand edits are of sections). That a stored section stays needs
what a writer between two steps carries (`OpsTyped`), that a reload's copy of the file is what was stored but for
sections that crossed it (`StoreAgrees`), who has put pools live that are not yet the running ones (`PoolsFollow`), and
which import has still to raise the restart flag (`FlagFollows`): `StoreInvariant`. From it
`StoredStaysStored`, `LiveStaysInStep` and, as an action property, `RestartLosesNothing`.

**UpstreamSetsProofs**, for any pools, hosts, addresses and configurations (`UpstreamSetsAssumption`: configurations map
pools to hosts, `NoAddr` is no address). `SetsInv` adds to the parts of `SetInStep` what the task and the reload know at
each step: what is due is pending, the set a lookup loaded is the live one until a reload swaps it, the flag is raised before the swap, and
a lookup that is over kept the address there was. From it `SetStaysInStep` and the action property
`AddressesStay`; `SetStaysInStepOverLinks` and `AddressesStayOverLinks` say the same of `UpstreamLinks`,
each of whose steps is a step of the set or leaves it alone.
The transports, for any tasks, ports, scenes, limits and mishaps (`TransportAssumption`: finitely many tasks, limits
are naturals, a port may be used once): neither property is inductive. `PoolsInv` has of the sockets that an exchange's port is in no pool and with no other
exchange, and the count of permits; what the pool hands out and takes back keeps it (`PopFits`, `DropFits`). `LinksGood` has of the exchanges that each carries a
message as it was built for its number (`Sent`), that a datagram on its way answers one of them (`Answer`), that a
transport has one address, given by a function `e` that grows with the transports made, which its idle streams and its users share; that a stream owes the
reader's reply or nothing; that a pooled QUIC connection is to the address in its key; and that whoever is on a connection that
closed after the dial is hurt. One lemma per action; the checks of a reply are `RightlyRefused`, `RightlyAccepted` and
`Delivered`. From it `AnswersAlwaysMatch` and `LinksAlwaysServe`.

**PoolProofs.** The health checker, for any servers and listings, any counter width and thresholds within it (`HealthAssumption`).
`VerdictFollowsRuns` speaks of the latest results and the verdict, the code of two saturating counters:
`EntryInv` relates them. A counter never claims a longer run than there was, and never a shorter one but for its
width; both are lemmas about one more result (`CountsOn`, `CountsOff`). From it `VerdictsFollowRuns` and the action
property `OnlyRunsDecide`.
A query over the pools, for any pool sets, names and groups, and any verdicts between any two steps
(`UpstreamQueryAssumption`, what `validate_pool_routes` accepts: sequences, known strategies, routed domains that are not empty,
some pool without domains). `RoutedRight`: the suffix walk of `lookup` over the map with its parents finds the pool that
comparing all claims finds, and nothing when there is none; least and greatest positions exist because the naturals are
well founded (`FirstIsLeast`, `LastIsGreatest`). The properties speak of asked and ended queries; `QueryInv` says what a query under way knows: that
the default walk has asked or skipped every server of the pools it is past, and only skipped while it saw nobody in rotation (`WalkInv`); that each server of
the pool at work has been asked, is out of rotation or is still to be asked, and that errors and racers add up (`PoolInv`); that while every failure
read as SERVFAIL nothing else was heard but from the pool at work (`HeardInv`). From it `WalksAreSound`.

**CacheMapProofs**, for any threads, keys, routings and traffic (`CacheMapAssumption`: values are told apart). `CacheInv` has what each
operation knows between its steps: a store has been put into the filter before the map, a rotation has still to
come to the keys it has not reseeded, a clear carries the local records it saved, an edit is the only one; and that an operation
that is about to hit a record that came after it (a picked victim, a renewal, a clear's copy) leaves the record's name in `struck` when it does, or has an
upstream answer in hand that `shadowed` names. From it `FilterAdmitsHeld`, `RoutingIsForgotten` and `LocalsAreHeld`, none with a
further hypothesis on the traffic: the races of the next section are exceptions of single names, recorded when they happen.

**AuthProofs**, for any clients, addresses, users, passwords and requests, any limits, and faults at any await
(`AuthAssumption`: finitely many clients, each with an address; the tables a run starts from are well formed and
their rows belong to the users of the time). `AuthInv` has what a request carries from await to await (`Typed`) and, for each property, who
holds what in between. A challenge is in its table, or with one request that took it out, or spent by one session (`TokensOnce`). An
accepted code is with one request or one session, and its row already says that it is used, a new secret being a new number
(`CodesOnce`); a code under check is checked against the secret its step will be counted for (`SecretsStay`). An open window at its limit has room for the
attempts that passed `check_at` and have not failed yet (`WindowsBounded`). A row is of the life of its name's present bearer, or the name has leaked,
and a request that can still write without a look at the user is of that life too, or will leak. Whoever changed a password last has ended the
other sessions, or is about to with the session to keep, or was cut short (`ChangesEnd`). One writer is between `Config` and the provider and brings what
`Config` has (`AdminFollows`). The steps are proved by kind: what a statement on the tables leaves as it was (`Kept`, `Stays`), then
what a request may do at an await (`RepliesStep`, `GoesStep`, `TakeStep`, `BuildStep`, ...), then one lemma per use case.
From it `FactorsUsedOnce`, `FailuresAreBounded`, `NothingIsInherited` and `PasswordChangesHold`. The proof corrected the model: with three
clients `FactorUsedOnce` failed, by the race on a replaced secret named in the next section, which
two clients cannot run; `muddled` now includes it.

**QueryPathProofs**, for any mixes, threads, clients and bounds. Assumed: what a mix starts from is well formed, answers of the
world are answers, and what safe search asks in place of a name is a public one (`MixAssumption`); bounds are naturals
and rates, bursts and TTLs are not zero, as the schema asks (`BudgetAssumption`, `root.rs:133`). Six invariants, each with its own strengthening over what every step
keeps of clock and budgets (`Counted`) and of a thread's query (`TasksShaped`). `TogglesFollow`: a timer has a number of its own, and but for a race
it is the slot's (`ToggleInv`). `GroupsStayFresh`: what a thread read under the present epoch, in its cache or in its hand between look and store, is what the
maps say unless a load is in the middle of them (`GroupInv`). `VerdictsStayFresh`: what is shared is of the version whose clear
came last, what a thread keeps under the present epoch too, and what a query acts on is no older than its start (`VerdictInv`); this proof
corrected the model, which stored again a verdict the thread had found in its own L0. `FastPathStaysTrue` needs that the cache only
holds what the resolver lets in (`CacheHolds`), for every layer and answer, and that a bucket with a token for `is_allowed` has one for `check`. `RationsStayHeld`: each address's count is the number of its connections
that have not been given back (`ConnInv`), and what a bucket has given and holds is what it was born with and earned until its last
use, an evicted one what time has brought and, where it was not full by then, at most `Shortfall` more (`GrantInv`). `LogTells` shows of each way a query can end, guards, safe search and
errors included, that the row of the log says what the reply says (`Honest`, `TellInv`). Beside the queries a reader walks the
pages of the log, of `LogViews`. `PagesStayComplete`: a walk misses nothing that stays and repeats nothing unless its cursor's row
went. Assumed: times are those of a Unix clock (`HistoryAssumption`), and a page is no longer than a snapshot may be (`ViewAssumption`; 1000 and 10000,
`get_recent.rs:10`). `PagesInv`: what the reader is still owed comes after the cursor's row or has a rank from the offset on, what was
shown comes before; the rows that go are older than every row that lasts, so ranks of the owed never fall below the offset. That a page
has the rows of its ranks is shown by counting (`PageRanks`, `LowRows`). The proof corrected the model: its windows had an end, which
a clock that stepped far back could leave rows behind; the SQL of the pages has none.

**FilterProofs**, for any tables, lists, requests and faults of `Administration`. `OverridesStayTracked` needs that the groups a round of the
schedule evaluator has still to come to are watched (`TrackInv`). `ReloadsAreKept`: every rebuild asked for is published or has a
task in the queue that will do it, although tasks skip what a later one covers; it needs that the build under way is of a task that still
waits and that whatever it does not cover waits too, in whatever order the lock is given (`TicketInv`). `PublishedOnlyGrows` is its action property. `PreviewsStayTrue`
is of the operators: `explain`, the preview and `evaluate` agree on every index. `CompilesRight`: what a build makes of
any tables and lists classifies every name for every group as the rules and lists say (`Tier`), where every enabled
source has a bit, no source has the manual list's number and no text is held of a source without url (`Compilable`, which TLC finds
true in every state of the `administration` instance) and no exact entry of a list shadows a wildcard of the manual list (`Shadowed`, named in the
next section). It is shown per lookup: what a rule or a list entry puts into the exact, wildcard and
pattern tiers, and what the group's mask leaves of it. The proof showed that the overlapping guards of `evaluate` left the order of the
tiers open; it is now the chain of returns of the code. `VerdictsDecode`: a verdict survives its packing into the decision cache.

Model-checked only. All liveness (`EveryQueryReturns`, `DeadEntriesGo`, `RotationFollows`, `AddressesFollow`): it needs
fairness and ENABLED. `SecureIsGenuine` and `VerdictsEarned` of `Validation`: that a chain of denials or a walk
from the root proves what the zones say is an induction over names. `IndexIsCurrent`, `EngineFollowsTables` and
`ServiceRulesMatch` of `Administration`: of the first, that a build is right and that no rebuild is lost are proved; what is left of all three is which
copies each of forty use cases loads after which statement, and their steps are sequences flattened from the rows of the
tables. `ColumnsAgree` and `RollupsExact` of `LogViews`: sums over bags of rows equal to counters kept beside them, an induction over data.

## Where the code does less than a comment or a doc says

The models have these behaviours. The properties leave them out by a condition
that names them (a history variable in parentheses where there is one).

*Configuration and cache.*
A reload that had read the file replaces a record or a password stored since in the running config
(`reload.rs:97`; `crossed`). Two admin password changes at once can leave the provider and the config with
different hashes (`composite_user_provider.rs:12` "hash changes are live"). An import saves pools and does not
apply them. `storage.rs` says that "local DNS records live here and nothing reloads them", and three races cost one its
place (`struck`): a renewal whose answer is Bogus removes the record that took the key meanwhile (`cache_maintenance.rs:139`); an eviction that picked or marked
the cached entry removes by key what is there by then; a record created, changed or deleted while a clear holds its copies or has not emptied the
map yet is lost, or the old one comes back. An upstream answer that another thread has in its L1, or is about to put there, when a record is inserted is served by that
thread until the next `l1_clear` (`shadowed`), though a store "must not replace it, here or in L1". A query that was upstream during a
reload stores after the clear (`late`). Outside the model: a hit stores `last_access` and then loads the timer's state, the worker parks and then loads
`last_access`, all `Relaxed` but the swap; memory that lets the hit's load pass its store parks an entry just used, where `refresh.rs` says that "the access it recorded is
visible now, so it is not missed". The next hit arms it again.

*Upstream.* A malformed reply of a lone racer ends the query as `PoolFailure::Final` ("an error no lower-priority pool could
do better on", `pool.rs:145`), though the next pool was not asked; under DNSSEC it makes the answer Bogus.
`H3_POOL` is keyed by hostname and port, so after a hostname moved the connection to the old address is used for up to
300 s, though `forget_transport` is said to let a replaced upstream's pooled connections go (`transport/mod.rs:76`).
A task that had loaded the old set puts a forgotten transport back into the cache; a reload forgets none, and the TCP
transport of a truncation retry is never forgotten. A late reply with the id of the next exchange
on the socket ends that exchange as spoofed. Health and hijack probes match a reply by its id only.

*DNSSEC.* `nsec3_covers` takes every hash in the wrap-around branch (`denial.rs:183`), though its doc
says "(owner, next] interval" (`denial.rs:170`): a reply damaged so that a denial rests on the last NSEC3 record of its zone is accepted for a name that
exists (`stretched`; other damage to the same reply is not excused). The NSEC branch of the wildcard proof only checks that the owner
is covered; `encloser_candidates` never yields the root; `nsec1_nxdomain` accepts an empty non-terminal, so a Secure NXDOMAIN from NSEC
records says only that nothing is owned by the name.

*Filter and administration.* `DeleteGroup` reloads the index only, so clients, subnets and safe search keep the group until their
next load. Loads of client groups, safe search and the catalog take no lock, so an older snapshot can win (`crossed`).
`cleanup_old_clients` does not reload the groups, so the engine keeps a removed client; `UpdateClient` and `DeleteClient` decide on a reload from a stale
read (`unloaded`). An update of a custom service writes the domains as typed (`update_custom_service.rs:83`), where a block writes them normalized: `*ads.com` is then a rule
that matches nothing and the empty name one too. A rule whose name another rule of the group has is left out without a word (`INSERT OR IGNORE` on
`UNIQUE(name, group_id)`), and a service's rule may be edited, moved or deleted by its id (`adrift` has the three). A client that disconnects
between the commit and the reload leaves the index behind (`orphaned`). An allow list
ignores Pattern entries, though the comment of `match_candidate` does not say so. An exact hit of a downloaded list
shadows a manual wildcard. Nothing in the program sets `TimedBypass` and `TimedBlock`.

*Queries.* The fast path answers without safe search (`docs/features/blocking-filtering.md:189`). The safe-search branch of `execute` applies neither DNSSEC
enforcement nor the response guards. A verdict stored by a check that overlapped a publication stays for up to 60 s, and a CNAME block made of one for the
chain's TTL (`late`). The fast path asks whether there is a token and spends none. A bucket that is evicted before it would have been full starts anew, full: nothing asks that `stale_entry_ttl_secs` be long
enough for its rate and burst (`root.rs:133`; with the defaults it is), so what it lacked is given once more per eviction (`Shortfall`).
A `BlockAll` schedule that starts while a query resolves makes its CNAME check memoise a Block. A client resolves to the default group while
the map is refilled, and a load that fails on the subnets leaves the map changed and the epoch not raised (`cutShort`). A blocking timer that is
already awake when it is superseded still flips.

*Logins.* A late `SetupTotp` can replace a secret that was enabled meanwhile, and a code that `VerifyMfa` has checked
against a secret removed since is counted on the step of the new one, so that it can be used again if its challenge is still there
(`muddled`). A challenge that a passkey start has taken out and puts back outlives `delete_all`. A session made by a login in flight survives a
password change. A request that a deletion overtakes after its last look at the user still writes its session, secret, challenge or passkey under the
name (`register_passkey.rs:89-110`, `leaked`), though "a reused name inherits no factors" (`user_repository.rs:128`). `delete_expired_challenges` is never called.

*Query log.* `give_back_open_hours` and `next_hour` do not look at the floor (`overtaken`), though `rollup.rs:264` ("the hourly job never refills an
hour before it") and `hour_rollup.rs:19` ("no hour before it is filled") say so. An hour closed again after a backwards step misses rows, and so does one that a flush reaches after it was aggregated (`reclosed`): a flush waits for the pool
and, chunk after failing chunk, for the lock (`writer.rs:154-214`), each with the busy timeout of the configuration, which together may be longer than `CLOSE_LAG_SECS`. Failures are counted as forwarded to an unknown server; refusals for capacity and safe-search failures are
not logged; a hit on a local record counts twice. `TIMEOUT` shows no reply though SERVFAIL was sent; two SERVFAIL kinds of DNSSEC
are stored as unknown. A page may repeat a row once the cursor's was deleted after a clock step; an `ip#port` filter
may find nothing once retention removed the row it looks up. The statistics are several statements without a transaction.

One statement is in a module and in no run, for it is telemetry: `Inflight!SharedAnswerMarkedLeader` fails because the
followers may be gone when the receivers are counted.

## Not modelled, and why

Byte encodings and parsers of messages, lists and headers: the repository
fuzzes them; the models have what they decide. Cryptography: a signature, hash or cookie is what it was made of. TLS
certificates: `write_pair` (`tls/mod.rs:147`) writes certificate and key in place, and a stop in between leaves a pair that does
not match; the code promises nothing about it. Backups and the database: SQLite's own snapshots and transactions. The configuration schema: parsing and validating one document. Views of the host, the network and the
cache, wiring and the command line: they change no state the properties speak of. In the modelled parts:
record contents, metrics, logging texts, the scores that choose an eviction victim (any entry that may be one), the
TTL arithmetic beyond what decides a timer's second, the negative cache's capacity, the connections of the DoH client library, and columns
no rule or view reads.

## Plan

1. Liveness of the rebuilds of `Administration`: a request that awaits its own is answered.
2. An abstract specification of the block filter ("after a reload returns, no check uses older rules") for `Administration` to refine;
   `ReloadsAreKept` and `CompilesRight` are its two halves.
