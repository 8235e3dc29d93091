------------------------------ MODULE QueryPath ------------------------------
(***************************************************************************)
(* The path of a query: the listener that takes it, the fast path that     *)
(* answers it from the cache, HandleDnsQueryUseCase::execute, the layers   *)
(* of the resolver, and what they read: the verdict and group caches of    *)
(* the block filter, the rate limiter, the malware detectors, the blocking *)
(* toggle and its timer.                                                   *)
(*                                                                         *)
(* Each worker is a thread with caches of its own and one query in hand;   *)
(* it runs beside the others, so reading a cache, evaluating the index and *)
(* storing the verdict are steps apart.  A reload publishes an index or a  *)
(* set of client groups step by step meanwhile.  The cache itself and the  *)
(* pools behind it have modules of their own: here an entry is dropped or  *)
(* stored whole, and an upstream gives one of the answers it may.          *)
(***************************************************************************)
EXTENDS Detectors, ResolverLayers, Listeners, LogViews

CONSTANTS
    Workers,       \* the threads; a mix uses some of them
    DefaultGroup, DecisionTtl, ChainTtl, GroupTtl,   \* ChainTtl: what a CNAME chain lives
    UpstreamSlots, FallbackSlots, EventRoom   \* MAX_UPSTREAM_BOUND_QUERIES, .._UDP_QUERIES, CHANNEL_CAPACITY

\* What a mix may be: how often each thing may happen, and a world and settings the program may meet.
Happenings ==
    {"query", "publish", "edit", "load", "fault", "tick", "drop", "blocking", "schedule", "tcp", "dot", "doq", "close",
     "evict", "probe", "feed", "refresh", "wall", "back", "retention", "flush", "rollup", "crash", "page"}

\* An entry of the cache keeps the relayed message only of an answer without addresses.
Cacheable(r) == IsResolution(r) /\ (r.addrs # {} => ~r.wire /\ ~r.nx)

ASSUME MixAssumption ==
    \A m \in DOMAIN Mixes :
        /\ Mixes[m].left \in [Happenings -> Nat]
        /\ Mixes[m].workers \subseteq Workers
        /\ \A k \in DOMAIN Mixes[m].cache : Cacheable(Mixes[m].cache[k])
        /\ \A k \in DOMAIN Mixes[m].world : \A x \in Mixes[m].world[k] : IsOutcome(x)
        /\ \A k \in DOMAIN Mixes[m].localWorld : \A x \in Mixes[m].localWorld[k] : IsOutcome(x)
        /\ Mixes[m].policy \in {"NullIp", "NoData", "NxDomain", "Refused"}
        /\ \A k \in DOMAIN Mixes[m].safe :   \* the targets of safe search are public names
              Mixes[m].safe[k] \notin Mixes[m].privatePtr \cup Mixes[m].hostnames
        /\ \A c \in DOMAIN Mixes[m].conns :
              /\ c \in {"tcp", "dot", "doq"} \X {0}
              /\ \E ip \in DOMAIN Subnet : \E client \in {Mixes[m].conns[c].client} :
                    Mixes[m].conns[c] = [over |-> c[1], ip |-> ip, client |-> client, at |-> "open"]

VARIABLES
    now,
    index, publish, published, epoch, l1, l0,  \* the index, the step of its publication and the caches;
                                               \* history: the version whose publication has ended
    memo,                                      \* worker -> the verdicts of a chain it has yet to store
    db, load, clientGroups, subnets, groupEpoch, groupL0, cutShort,   \* load: the loads under way
    overrides,                                 \* ScheduleStateStore: group -> its override
    blocking, timers, slot, want, raced,       \* the toggle, its tasks and BlockingTimer; what was asked last
    buckets, slips, granted, evicted,          \* DnsRateLimiter; history: per bucket, tokens given and evictions
    cache, upstream, fallback,                 \* the DNS cache; queries holding a slot of each kind
    counts, conns,                             \* ConnectionLimiter; the connections there are
    tunneling, dga, tunnelingEvents, dgaEvents, hijack, blocked, feedAt,
    task                                       \* worker -> its query

filterVars == <<index, publish, published, epoch, l1, l0, memo>>
groupVars == <<db, load, clientGroups, subnets, groupEpoch, groupL0, cutShort>>
toggleVars == <<overrides, blocking, timers, slot, want, raced>>
budgetVars == <<buckets, slips, granted, evicted>>
detectorVars == <<tunneling, dga, tunnelingEvents, dgaEvents, hijack, blocked, feedAt>>
listenerVars == <<counts, conns>>
vars == <<mix, now, logVars, filterVars, groupVars, toggleVars, budgetVars, cache, upstream, fallback,
          listenerVars, detectorVars, task, left>>

\* A thread between two queries; history: the kind of the reply it sent and of the one its log entry shows.
Idle(reply, sent, shown) == [at |-> "idle", reply |-> reply, sent |-> sent, shown |-> shown]
NoReply(reply) == Idle(reply, "none", "unlogged")
NoFeed == -1
NoConn == <<"none", 0>>
NoMemo == [at |-> "none", share |-> <<>>, keep |-> <<>>]

Init ==
    /\ LogInit /\ now = 0
    /\ index = [ver |-> 0, rules |-> Now("rules")[1]] /\ publish = 0 /\ published = 0
    /\ epoch = 0 /\ l1 = <<>> /\ l0 = [w \in Workers |-> <<>>] /\ memo = [w \in Workers |-> NoMemo]
    /\ db = Now("tables")[1] /\ load = <<>> /\ clientGroups = db.clients /\ subnets = db.subnets
    /\ groupEpoch = 0 /\ groupL0 = [w \in Workers |-> <<>>] /\ cutShort = FALSE
    /\ overrides = Now("overrides")[1] /\ blocking = TRUE /\ timers = {} /\ slot = 0 /\ want = [on |-> TRUE, fired |-> FALSE] /\ raced = FALSE
    /\ buckets = <<>> /\ slips = 0 /\ granted = <<>> /\ evicted = <<>>
    /\ cache = Now("cache") /\ upstream = {} /\ fallback = {}
    /\ counts = [k \in {<<Now("conns")[c].over, Now("conns")[c].ip>> : c \in DOMAIN Now("conns")} |-> 1]
    /\ conns = Now("conns")
    /\ tunneling = NoDetector /\ dga = NoDetector /\ tunnelingEvents = <<>> /\ dgaEvents = <<>>
    /\ hijack = <<>> /\ blocked = <<>> /\ feedAt = NoFeed
    /\ task = [w \in Workers |-> NoReply("none")]

(***************************************************************************)
(* Publication of an index and of the client groups                        *)
(***************************************************************************)
PublishClearsFirst == <<"clear", "epoch", "index">>
publish_order == <<"index", "clear", "epoch">>

Publish ==
    /\ publish = 0 => May("publish")
    /\ LET i == publish + 1
           step == publish_order[i]
       IN  /\ IF step = "index"
              THEN \E r \in DOMAIN Now("rules") : index' = [ver |-> index.ver + 1, rules |-> Now("rules")[r]]
              ELSE UNCHANGED index
           /\ l1' = IF step = "clear" THEN <<>> ELSE l1
           /\ epoch' = IF step = "epoch" THEN epoch + 1 ELSE epoch
           /\ publish' = i % Len(publish_order)
           /\ published' = IF publish' = 0 THEN index'.ver ELSE published
    /\ IF publish = 0 THEN Once("publish") ELSE UNCHANGED left
    /\ UNCHANGED <<mix, now, logVars, l0, memo, groupVars, toggleVars, budgetVars, cache, upstream, fallback, listenerVars,
                   detectorVars, task>>

\* The rows an administrator changes; their loads follow.
EditGroups ==
    /\ May("edit") /\ Once("edit")
    /\ \E i \in DOMAIN Now("tables") : db' = Now("tables")[i]
    /\ UNCHANGED <<mix, now, logVars, filterVars, load, clientGroups, subnets, groupEpoch, groupL0, cutShort, toggleVars,
                   budgetVars, cache, upstream, fallback, listenerVars, detectorVars, task>>

\* load_client_groups: the client rows, the map cleared and filled row by row, the subnets, then the
\* group epoch and the verdicts.  Nothing keeps two loads apart.
Loading(l, step) == load' = Put(load, l, step)

LoadBegins ==
    /\ May("load") /\ Once("load")
    /\ Loading(left["load"], [at |-> "clear", rows |-> db.clients])
    /\ UNCHANGED <<clientGroups, subnets, groupEpoch, cutShort, l1, epoch>>

ClientsCleared(l) ==
    /\ load[l].at = "clear" /\ clientGroups' = <<>>
    /\ Loading(l, [at |-> "insert", rows |-> load[l].rows])
    /\ UNCHANGED <<subnets, groupEpoch, cutShort, l1, epoch, left>>

ClientInserted(l) ==
    /\ load[l].at = "insert"
    /\ \E ip \in DOMAIN load[l].rows :
        /\ clientGroups' = Put(clientGroups, ip, load[l].rows[ip])
        /\ Loading(l, [at |-> "insert", rows |-> Without(load[l].rows, {ip})])
    /\ UNCHANGED <<subnets, groupEpoch, cutShort, l1, epoch, left>>

SubnetsRead(l) ==
    /\ load[l].at = "insert" /\ load[l].rows = <<>>
    /\ \/ Loading(l, [at |-> "match", rows |-> db.subnets]) /\ UNCHANGED <<cutShort, left>>
       \/ May("fault") /\ Once("fault") /\ load' = Without(load, {l}) /\ cutShort' = TRUE   \* the statement fails
    /\ UNCHANGED <<clientGroups, subnets, groupEpoch, l1, epoch>>

SubnetsStored(l) ==
    /\ load[l].at = "match" /\ subnets' = load[l].rows
    /\ Loading(l, [at |-> "bump", rows |-> <<>>])
    /\ UNCHANGED <<clientGroups, groupEpoch, cutShort, l1, epoch, left>>

GroupsExpired(l) ==
    /\ load[l].at = "bump" /\ groupEpoch' = groupEpoch + 1 /\ cutShort' = FALSE
    /\ Loading(l, [at |-> "decisions", rows |-> <<>>])
    /\ UNCHANGED <<clientGroups, subnets, l1, epoch, left>>

DecisionsCleared(l) ==
    /\ load[l].at = "decisions" /\ l1' = <<>>
    /\ Loading(l, [at |-> "epoch", rows |-> <<>>])
    /\ UNCHANGED <<clientGroups, subnets, groupEpoch, cutShort, epoch, left>>

DecisionsExpired(l) ==
    /\ load[l].at = "epoch" /\ epoch' = epoch + 1
    /\ load' = Without(load, {l})
    /\ UNCHANGED <<clientGroups, subnets, groupEpoch, cutShort, l1, left>>

load_client_groups ==
    /\ \/ LoadBegins
       \/ \E l \in DOMAIN load :
             \/ ClientsCleared(l) \/ ClientInserted(l) \/ SubnetsRead(l) \/ SubnetsStored(l)
             \/ GroupsExpired(l) \/ DecisionsCleared(l) \/ DecisionsExpired(l)
    /\ UNCHANGED <<mix, now, logVars, index, publish, published, l0, memo, db, groupL0, toggleVars, budgetVars, cache,
                   upstream, fallback, listenerVars, detectorVars, task>>

(***************************************************************************)
(* The block filter, as a query reads it                                   *)
(***************************************************************************)
resolve_group_uncached(ip) ==
    CASE ip \in DOMAIN clientGroups -> clientGroups[ip]
      [] ip \notin DOMAIN clientGroups /\ key(ip) \in DOMAIN subnets -> subnets[key(ip)]
      [] OTHER -> DefaultGroup

GroupEntryEpochAtStore(t, gid) == [group |-> gid, expires |-> now + GroupTtl, epoch |-> groupEpoch]
group_entry(t, gid) == [group |-> gid, expires |-> now + GroupTtl, epoch |-> t.epoch]
GroupHit(w, ip) ==
    /\ ip \in DOMAIN groupL0[w]
    /\ groupL0[w][ip].epoch = groupEpoch /\ now < groupL0[w][ip].expires

decision_key(name, group) == <<name, group>>
decision_l0_get(w, k) == k \in DOMAIN l0[w] /\ l0[w][k].epoch = epoch /\ now < l0[w][k].expires
decision_l0_set(entry) == Over(entry, [epoch |-> epoch])
decision_l1_get(k) == k \in DOMAIN l1 /\ now < l1[k].expires

evaluate(name, group) ==
    LET k == <<name, group>> IN IF k \in DOMAIN index.rules THEN index.rules[k] ELSE "NoMatch"

\* A verdict stored by a check that evaluated an index replaced meanwhile is late.
Entry(verdict, ver, late, expires) ==
    [verdict |-> verdict, ver |-> ver, late |-> late \/ ver < index.ver, expires |-> expires]

\* What a lookup finds, where, and what is then stored.
resolve_verdict(w, name, group, skip) ==
    LET k == decision_key(name, group)
    IN  CASE ~skip /\ decision_l0_get(w, k) -> [from |-> "l0", entry |-> l0[w][k]]
          [] ~skip /\ ~decision_l0_get(w, k) /\ decision_l1_get(k) -> [from |-> "l1", entry |-> l1[k]]
          [] OTHER -> [from |-> "index",
                       entry |-> Entry(evaluate(name, group), index.ver, FALSE, now + DecisionTtl)]

\* The schedule's override of a group: [kind, until].
Override(group) == IF group \in DOMAIN overrides THEN overrides[group] ELSE [kind |-> "none", until |-> 0]
skip_decision_cache(o) == o.kind = "TimedBypass" /\ now >= o.until

\* A schedule blocks everything now.
ScheduleBlocks(o) == o.kind = "BlockAll" \/ (o.kind = "TimedBlock" /\ now < o.until)

\* BlockFilterEngine::check, from the verdict on.
FilterDecision(verdict, o) ==
    CASE verdict = "ManualAllow" -> "ExplicitAllow"
      [] verdict = "ManualDeny" -> "Block"
      [] verdict \in {"Block", "NoMatch"} /\ ~blocking -> "Allow"
      [] verdict \in {"Block", "NoMatch"} /\ blocking /\ ScheduleBlocks(o) -> "Block"
      [] verdict \in {"Block", "NoMatch"} /\ blocking /\
         (o.kind = "AllowAll" \/ (o.kind = "TimedBypass" /\ now < o.until)) -> "Allow"
      [] OTHER -> IF verdict = "Block" THEN "Block" ELSE "Allow"

\* is_cname_cloaked: a check of each name of the chain.
is_cname_cloaked(w, chain, group) ==
    \E i \in DOMAIN chain :
        LET o == Override(group)
        IN  FilterDecision(resolve_verdict(w, chain[i], group, skip_decision_cache(o)).entry.verdict, o) = "Block"

\* The verdicts those checks find, of the names up to the first that is blocked; `where` says which
\* are then stored: one from the index is shared, and what a thread has not in its own cache it keeps.
Found(w, name, group) == resolve_verdict(w, name, group, skip_decision_cache(Override(group)))
Checked(w, chain, group, where) ==
    LET reached == {i \in DOMAIN chain : ~is_cname_cloaked(w, SubSeq(chain, 1, i - 1), group)}
        stored == {i \in reached : Found(w, chain[i], group).from \in where}
    IN  [k \in {decision_key(chain[i], group) : i \in stored} |-> Found(w, k[1], group).entry]

\* The name of the chain that is blocked, and the block of the query: as old as the verdict on that name.
Blocker(w, chain, group) ==
    CHOOSE i \in DOMAIN chain :
        is_cname_cloaked(w, SubSeq(chain, 1, i), group) /\ ~is_cname_cloaked(w, SubSeq(chain, 1, i - 1), group)
store_cname_decision(w, name, chain, group) ==
    LET e == Found(w, chain[Blocker(w, chain, group)], group).entry
    IN  [k \in {decision_key(name, group)} |-> Entry("Block", e.ver, e.late, now + ChainTtl)]

(***************************************************************************)
(* Guards on a name and on an answer                                       *)
(***************************************************************************)
screen_query(group, decision) ==
    [cloaking |-> decision # "ExplicitAllow",
     detectors |-> decision # "ExplicitAllow" /\ group \notin Now("exempt")]

TunnelingHit(q) == tunneling_check(q.name, q.type) \/ is_flagged(tunneling, q.name)
DgaHit(q) == dga_check(q.name) \/ is_flagged(dga, q.name)
screen_name(q) == TunnelingHit(q) \/ DgaHit(q)
NameRefused(q) == (TunnelingHit(q) /\ Now("tunneling") = "Block") \/ (DgaHit(q) /\ Now("dga") = "Block")

is_hijacked_response(r) == r.addrs \cap DOMAIN hijack # {}
has_blocked_ip(r) == r.addrs \cap DOMAIN blocked # {}
is_rebinding_attempt(q, r) == ~r.local /\ q.name \notin Now("localNames") /\ r.addrs \cap Now("private") # {}

is_suspicious_cached_answer(q, r) ==
    is_hijacked_response(r) \/ has_blocked_ip(r) \/ is_rebinding_attempt(q, r)

cname_for(name, group) == IF <<group, name>> \in DOMAIN Now("safe") THEN Now("safe")[<<group, name>>] ELSE ""

spends_nxdomain_budget(r) == r.nx /\ ~r.local

(***************************************************************************)
(* What a query is answered, as functions of the state                     *)
(***************************************************************************)
Decision(t) == FilterDecision(t.entry.verdict, t.override)
Screening(t) == screen_query(t.group, Decision(t))
Cloaked(w, t, r) == Screening(t).cloaking /\ is_cname_cloaked(w, r.chain, t.group)

\* cache_gate: whether the fast path may answer at all.  Its first test is made before the group is
\* looked up, so a worker turns to the slow path at once (run_udp_worker).
CookieGate == ~Now("strict")
CacheGateUnmetered(t) ==
    CookieGate /\ Decision(t) # "Block" /\ ~(Screening(t).detectors /\ screen_name(t.q))
cache_gate(t) ==
    /\ CookieGate
    /\ Decision(t) # "Block"
    /\ is_allowed(Now("limits"), buckets, t.q.client)
    /\ ~(Screening(t).detectors /\ screen_name(t.q))

try_cache_direct(w, t, r) ==
    /\ r.addrs # {}
    /\ ~Cloaked(w, t, r)
    /\ ~(Screening(t).detectors /\ is_suspicious_cached_answer(t.q, r))
    /\ maybe_truncate(t.q, Now("big")) # "TC"

try_cache_wire_direct(w, t, r) ==
    /\ ~(spends_nxdomain_budget(r) /\ limits_nxdomain(Now("limits")))
    /\ ~Cloaked(w, t, r)
    /\ r.wire
    /\ maybe_truncate(t.q, Now("big")) # "TC"

\* Whether either gets as far as the chain.
ChainReached(t, r) ==
    IF t.q.type \in {"A", "AAAA"} THEN r.addrs # {}
    ELSE ~(spends_nxdomain_budget(r) /\ limits_nxdomain(Now("limits")))

\* try_fast_path and try_fast_path_wire.
Fast(w, t) ==
    LET r == try_cache(Settings, cache, t.q)
    IN  /\ cache_gate(t) /\ r.hit
        /\ IF t.q.type \in {"A", "AAAA"} THEN try_cache_direct(w, t, r) ELSE try_cache_wire_direct(w, t, r)

\* What execute checks first: the budget is spent before the cookie is looked at.
rate_check(q) == check_rate(Now("limits"), buckets, slips, q.client, is_stream(q), now)
CookieRefused(q) ==
    requires_cookie(Now("strict"), is_stream(q)) /\ cookie_status(q.client, q.cookie, now) # "Valid"

\* What execute then makes of a query before it waits for anything: a reply and its log entry, or
\* the query it asks upstream.
Reply(err, charge, r, e) == [err |-> err, charge |-> charge, r |-> r, log |-> e, ask |-> NotCached]
Upstream(q, plain, r) == [err |-> "upstream", charge |-> FALSE, r |-> r, log |-> NoLog, ask |-> q, plain |-> plain]

rcode_name(r) == IF r.nx THEN "NXDOMAIN" ELSE "NOERROR"
UpstreamOf(r) == IF r.hit \/ r.local THEN NoUpstream ELSE <<"main", "s1">>
block_source(t) ==
    CASE t.entry.verdict = "ManualDeny" -> "managed_domain"
      [] t.entry.verdict # "ManualDeny" /\ ScheduleBlocks(t.override) -> "schedule"
      [] OTHER -> "blocklist"

\* What each path logs.
RateLimitLoggedAsBlock(q, verdict) == BlockedLog(q, "BLOCKED", "rate_limit")
apply_rate_limit(q, verdict) == BlockedLog(q, IF verdict = "Slip" THEN "RATE_LIMITED_TC" ELSE "RATE_LIMITED", "rate_limit")
CookieLog(q) == BlockedLog(q, IF response_cookie(q) THEN "BADCOOKIE" ELSE "REFUSED", "dns_cookie")
CloakedLog(q) == BlockedLog(q, "BLOCKED", "cname_cloaking")
NameLog(q) ==
    IF TunnelingHit(q) /\ Now("tunneling") = "Block" THEN BlockedLog(q, "TUNNELING_BLOCKED", "dns_tunneling")
    ELSE BlockedLog(q, "DGA_BLOCKED", "dga_detection")
CachedLog(q, r) == [cache_hit_log(q, r.status, r.addrs # {}) EXCEPT !.status = rcode_name(r)]
SafeSearchLog(q, r) == [base_query_log(q) EXCEPT !.hit = r.hit, !.up = UpstreamOf(r), !.status = "SAFE_SEARCH"]
ResolvedLog(q, r) ==
    [base_query_log(q) EXCEPT !.hit = r.hit, !.dnssec = r.status, !.answers = r.addrs # {}, !.up = UpstreamOf(r),
                              !.status = IF r.local THEN "LOCAL_DNS" ELSE rcode_name(r)]

safe_search_outcome(t, target) ==
    LET q == Ask(target, t.q.type)
        r == try_cache(Settings, cache, q)
    IN  IF r.hit /\ has_response_data(r) THEN Reply("", FALSE, [r EXCEPT !.chain = <<>>], SafeSearchLog(t.q, r))   \* its chain is not checked
        ELSE Upstream(q, FALSE, NotCached)

cache_outcome(w, t) ==
    LET r == try_cache(Settings, cache, t.q)
    IN  CASE r.hit /\ has_response_data(r) /\ Cloaked(w, t, r) -> Reply("Cloaked", FALSE, r, CloakedLog(t.q))
          [] r.hit /\ has_response_data(r) /\ ~Cloaked(w, t, r)
             /\ ~(Screening(t).detectors /\ is_suspicious_cached_answer(t.q, r)) ->
                Reply("", spends_nxdomain_budget(r), r, CachedLog(t.q, r))
          [] r.hit /\ ~has_response_data(r) -> Reply("NxDomain", ~r.lnx, NotCached, [base_query_log(t.q) EXCEPT !.hit = TRUE, !.status = "NXDOMAIN"])
          [] OTHER -> Upstream(Ask(t.q.name, t.q.type), TRUE, r)

execute_outcome(w, t) ==
    LET target == cname_for(t.q.name, t.group)
    IN  CASE Decision(t) = "Block" -> Reply("Blocked", FALSE, NotCached, BlockedLog(t.q, "BLOCKED", block_source(t)))
          [] Decision(t) # "Block" /\ Screening(t).detectors /\ NameRefused(t.q) ->
                Reply("Blocked", FALSE, NotCached, NameLog(t.q))
          [] OTHER -> IF target # "" THEN safe_search_outcome(t, target) ELSE cache_outcome(w, t)

\* What an answer that came from upstream becomes.  emit is whether the detectors are told.
Judged(err, charge, emit, e) == [err |-> err, charge |-> charge, emit |-> emit, log |-> e]

dnssec_refusal(t, r) ==
    Now("enforce") /\ ~t.q.cd /\ is_unvalidated(r.status)

judge_answer(w, t, r) ==
    LET guarded == Screening(t).detectors
    IN  CASE Cloaked(w, t, r) -> Judged("Cloaked", FALSE, FALSE, CloakedLog(t.q))
          [] ~Cloaked(w, t, r) /\ guarded /\ is_rebinding_attempt(t.q, r) ->
                Judged("Blocked", FALSE, FALSE, BlockedLog(t.q, "BLOCKED", "dns_rebinding"))
          [] ~Cloaked(w, t, r) /\ guarded /\ ~is_rebinding_attempt(t.q, r)
             /\ is_hijacked_response(r) /\ Now("hijack") = "Block" ->
                Judged("NxDomain", TRUE, FALSE, BlockedLog(t.q, "NXDOMAIN_HIJACK", "nxdomain_hijack"))
          [] ~Cloaked(w, t, r) /\ guarded /\ ~is_rebinding_attempt(t.q, r)
             /\ ~(is_hijacked_response(r) /\ Now("hijack") = "Block")
             /\ has_blocked_ip(r) /\ Now("responseIp") = "Block" ->
                Judged("Blocked", FALSE, FALSE, BlockedLog(t.q, "RESPONSE_IP_BLOCKED", "response_ip_filter"))
          [] OTHER -> IF dnssec_refusal(t, r)
                      THEN Judged(r.status, FALSE, FALSE,
                                  [base_query_log(t.q) EXCEPT !.dnssec = r.status,
                                     !.status = IF r.status = "Bogus" THEN "SERVFAIL_BOGUS" ELSE "SERVFAIL_INDETERMINATE"])
                      ELSE Judged("", spends_nxdomain_budget(r), guarded, ResolvedLog(t.q, r))

judge_error(t, e) ==
    LET failed(status) == [base_query_log(t.q) EXCEPT !.status = status]
    IN  CASE e = "LocalNxDomain" -> Judged("NxDomain", FALSE, FALSE, failed("LOCAL_DNS"))
          [] e = "Filtered" ->
                Judged(e, FALSE, FALSE, BlockedLog(t.q, "BLOCKED", IF t.q.type = "PTR" THEN "private_ptr" ELSE "non_fqdn"))
          [] e = "NxDomain" -> Judged("NxDomain", TRUE, Screening(t).detectors, failed("NXDOMAIN"))
          [] OTHER -> Judged(e, FALSE, FALSE, failed(IF e = "QueryTimeout" THEN "TIMEOUT" ELSE "SERVFAIL"))

\* The safe-search branch returns what it is given, and does not log an error.
judge(w, t, plain, out) ==
    CASE ~plain -> Judged(out.err, FALSE, FALSE, IF out.err = "" THEN SafeSearchLog(t.q, out.r) ELSE NoLog)
      [] plain /\ out.err = "" -> judge_answer(w, t, out.r)
      [] OTHER -> judge_error(t, out.err)

(***************************************************************************)
(* The steps of a worker                                                   *)
(***************************************************************************)
\* The kind of the reply a client got, in the terms of the log.
SentKind(q, reply, err, r) ==
    CASE err = "" -> IF r.nx THEN "NXDOMAIN" ELSE IF r.addrs # {} THEN "IP"
                     ELSE IF q.type \in {"A", "AAAA"} THEN "NODATA" ELSE "OTHER"
      [] err # "" /\ reply = "SINKHOLE" -> "IP"
      [] err # "" /\ reply \in {"TC", "BADCOOKIE"} -> "OTHER"
      [] OTHER -> reply

Finish(w, t, err, r, e) ==
    LET reply == answer(t.q, Now("policy"), Now("big"), err)
    IN  /\ task' = [task EXCEPT ![w] =
              Idle(reply, SentKind(t.q, reply, err, r),
                   IF e = NoLog THEN "unlogged" ELSE reply_kind(row_to_query_log(e), Now("policy")))]
        /\ upstream' = upstream \ {w} /\ fallback' = fallback \ {w}
        /\ log(e)

\* resolve_group, as far as the epoch and the entry of this thread.
Enter(w, q, conn, fast) ==
    LET t == [q |-> q, conn |-> conn, fast |-> fast, since |-> published, epoch |-> groupEpoch]
    IN  IF GroupHit(w, q.client)
        THEN Over(t, [at |-> IF fast THEN "check" ELSE "admit", group |-> groupL0[w][q.client].group])
        ELSE Over(t, [at |-> "group"])

\* handle_raw_udp_fallback: a query neither parser takes gets no reply.
handle_raw(w, q, conn) ==
    CASE parse_client_query(q) = "None" -> NoReply("none")
      [] parse_client_query(q) = "BadCookie" -> NoReply("FORMERR")
      [] OTHER -> Enter(w, q, conn, FALSE)

\* A datagram the fast path does not answer is spawned, if there is room, or dropped.
spawn_fallback(w, q) ==
    LET t == IF Cardinality(fallback) < FallbackSlots THEN handle_raw(w, q, NoConn) ELSE NoReply("none")
    IN  /\ task' = [task EXCEPT ![w] = t]
        /\ fallback' = IF t.at = "idle" THEN fallback ELSE fallback \cup {w}

run_udp_worker(w, q) ==
    /\ q.over = "udp"
    /\ IF FastPathQuery(q) /\ CookieGate
       THEN task' = [task EXCEPT ![w] = Enter(w, q, NoConn, TRUE)] /\ UNCHANGED fallback
       ELSE spawn_fallback(w, q)

\* A stream carries one query at a time, a QUIC connection many.
OnConnection(w, q, c) ==
    /\ conns[c].at = "open" /\ conns[c].over = q.over /\ conns[c].client = q.client
    /\ q.over # "doq" => \A v \in Workers : task[v].at # "idle" => task[v].conn # c
    /\ task' = [task EXCEPT ![w] = handle_raw(w, q, c)] /\ UNCHANGED fallback
handle_tcp_query(w, q) == q.over = "tcp" /\ \E c \in DOMAIN conns : OnConnection(w, q, c)
handle_dot_query(w, q) == q.over = "dot" /\ \E c \in DOMAIN conns : OnConnection(w, q, c)
handle_doq_stream(w, q) == q.over = "doq" /\ \E c \in DOMAIN conns : OnConnection(w, q, c)

dns_query_handler(w, q) ==
    /\ q.over = "doh"
    /\ task' = [task EXCEPT ![w] =
          handle_raw(w, [q EXCEPT !.client = client_ip(q.client, q.hops, Now("proxies"))], NoConn)]
    /\ UNCHANGED fallback

Receive(w) ==
    /\ task[w].at = "idle" /\ May("query") /\ Once("query")
    /\ \E i \in DOMAIN Now("questions") :
        LET q == Now("questions")[i]
        IN  run_udp_worker(w, q) \/ handle_tcp_query(w, q) \/ handle_dot_query(w, q)
              \/ handle_doq_stream(w, q) \/ dns_query_handler(w, q)
    /\ UNCHANGED <<mix, now, logVars, filterVars, groupVars, toggleVars, budgetVars, cache, upstream, listenerVars,
                   detectorVars>>

\* The group read from the maps, then remembered with the epoch read before.
GroupLookup(w) ==
    /\ task[w].at = "group"
    /\ task' = [task EXCEPT ![w] =
          Over([at |-> "remember", group |-> resolve_group_uncached(task[w].q.client)], task[w])]
    /\ UNCHANGED <<mix, now, logVars, filterVars, groupVars, toggleVars, budgetVars, cache, upstream, fallback, listenerVars,
                   detectorVars, left>>

GroupStore(w) ==
    /\ task[w].at = "remember"
    /\ LET t == task[w]
       IN  /\ groupL0' = [groupL0 EXCEPT ![w] = Put(@, t.q.client, group_entry(t, t.group))]
           /\ task' = [task EXCEPT ![w].at = IF t.fast THEN "check" ELSE "admit"]
    /\ UNCHANGED <<mix, now, logVars, filterVars, db, load, clientGroups, subnets, groupEpoch, cutShort, toggleVars,
                   budgetVars, cache, upstream, fallback, listenerVars, detectorVars, left>>

Admit(w) ==
    /\ task[w].at = "admit"
    /\ LET t == task[w]
           spent == rate_check(t.q)
           k == <<key(t.q.client), is_stream(t.q)>>
       IN  /\ buckets' = spent.buckets /\ slips' = spent.slips
           /\ granted' = IF spent.verdict = "Allow" /\ k \in DOMAIN spent.buckets /\ ~contains(t.q.client)
                         THEN Put(granted, k, 1 + IF k \in DOMAIN granted THEN granted[k] ELSE 0)
                         ELSE granted
           /\ CASE spent.verdict # "Allow" -> Finish(w, t, spent.verdict, NotCached, apply_rate_limit(t.q, spent.verdict))
                [] spent.verdict = "Allow" /\ CookieRefused(t.q) -> Finish(w, t, "CookieInvalid", NotCached, CookieLog(t.q))
                [] OTHER -> task' = [task EXCEPT ![w].at = "check"] /\ UNCHANGED <<upstream, fallback, logVars>>
    /\ UNCHANGED <<mix, now, evicted, filterVars, groupVars, toggleVars, cache, listenerVars, detectorVars, left>>

\* check: the override and the verdict, and where the verdict came from.
CheckLookup(w) ==
    /\ task[w].at = "check"
    /\ LET t == task[w]
           o == Override(t.group)
           v == resolve_verdict(w, t.q.name, t.group, skip_decision_cache(o))
           next == CASE v.from = "l0" -> IF t.fast THEN "fast" ELSE "decide"
                     [] v.from = "l1" -> "keep"
                     [] v.from = "index" -> "store"
       IN  task' = [task EXCEPT ![w] =
              Over([at |-> next, entry |-> v.entry, override |-> o, expires |-> v.entry.expires], t)]
    /\ UNCHANGED <<mix, now, logVars, filterVars, groupVars, toggleVars, budgetVars, cache, upstream, fallback, listenerVars,
                   detectorVars, left>>

\* A verdict of the index is shared, then each is kept by its thread with the epoch of that step.
Stored(t, expires) == Entry(t.entry.verdict, t.entry.ver, t.entry.late, expires)
CheckStore(w) ==
    /\ task[w].at = "store"
    /\ LET t == task[w]
       IN  /\ l1' = Put(l1, decision_key(t.q.name, t.group), Stored(t, now + DecisionTtl))
           /\ task' = [task EXCEPT ![w] = [t EXCEPT !.at = "keep", !.expires = now + DecisionTtl]]
    /\ UNCHANGED <<mix, now, logVars, index, publish, published, epoch, l0, memo, groupVars, toggleVars, budgetVars, cache,
                   upstream, fallback, listenerVars, detectorVars, left>>

CheckKeep(w) ==
    /\ task[w].at = "keep"
    /\ LET t == task[w]
       IN  /\ l0' = [l0 EXCEPT ![w] = Put(@, decision_key(t.q.name, t.group), decision_l0_set(Stored(t, t.expires)))]
           /\ task' = [task EXCEPT ![w].at = IF t.fast THEN "fast" ELSE "decide"]
    /\ UNCHANGED <<mix, now, logVars, index, publish, published, epoch, l1, memo, groupVars, toggleVars, budgetVars, cache,
                   upstream, fallback, listenerVars, detectorVars, left>>

\* What the checks of a chain, and the block they end in, will leave in the caches of verdicts.
Remember(w, t, r, cloaked) ==
    LET checked(where) == IF Screening(t).cloaking THEN Checked(w, r.chain, t.group, where) ELSE <<>>
        block == IF cloaked THEN store_cname_decision(w, t.q.name, r.chain, t.group) ELSE <<>>
        keep == Over(block, checked({"l1", "index"}))
    IN  /\ memo' = [memo EXCEPT ![w] = IF keep = <<>> THEN NoMemo
                      ELSE [at |-> "share", share |-> Over(block, checked({"index"})), keep |-> keep]]
        /\ UNCHANGED <<index, publish, published, epoch, l1, l0>>

\* A thread stores them before it goes on: each among the shared verdicts, then among its own.
Restamped(entries) ==
    [k \in DOMAIN entries |-> Entry(entries[k].verdict, entries[k].ver, entries[k].late, entries[k].expires)]
MemoStep(w) ==
    /\ \/ /\ memo[w].at = "share" /\ l1' = Over(Restamped(memo[w].share), l1)
          /\ memo' = [memo EXCEPT ![w] = [at |-> "keep", share |-> <<>>, keep |-> memo[w].keep]]
          /\ UNCHANGED l0
       \/ /\ memo[w].at = "keep"
          /\ LET own == Restamped(memo[w].keep)
             IN  l0' = [l0 EXCEPT ![w] = Over([k \in DOMAIN own |-> decision_l0_set(own[k])], @)]
          /\ memo' = [memo EXCEPT ![w] = NoMemo]
          /\ UNCHANGED l1
    /\ UNCHANGED <<mix, now, logVars, index, publish, published, epoch, groupVars, toggleVars, budgetVars, cache, upstream,
                   fallback, listenerVars, detectorVars, task, left>>

FastAnswer(w) ==
    /\ task[w].at = "fast"
    /\ LET t == task[w]
           r == try_cache(Settings, cache, t.q)
       IN  /\ IF Fast(w, t) THEN Finish(w, t, "", r, CachedLog(t.q, r))
              ELSE spawn_fallback(w, t.q) /\ UNCHANGED <<upstream, logVars>>
           /\ IF cache_gate(t) /\ ChainReached(t, r) THEN Remember(w, t, r, FALSE) ELSE UNCHANGED filterVars
    /\ UNCHANGED <<mix, now, groupVars, toggleVars, budgetVars, cache, listenerVars, detectorVars, left>>

\* charge_nxdomain: an answer over the budget is refused or truncated in its place.
Charge(w, t, err, charge, r, e) ==
    LET spent == charge_rate(Now("limits"), buckets, slips, t.q.client, is_stream(t.q), now)
    IN  IF ~charge THEN Finish(w, t, err, r, e) /\ UNCHANGED <<buckets, slips>>
        ELSE /\ IF spent.verdict = "Allow" THEN Finish(w, t, err, r, e)
                ELSE Finish(w, t, spent.verdict, NotCached, apply_rate_limit(t.q, spent.verdict))
             /\ buckets' = spent.buckets /\ slips' = spent.slips

Decide(w) ==
    /\ task[w].at = "decide"
    /\ \E x \in {execute_outcome(w, task[w])} :
       LET t == task[w]
       IN  CASE x.err # "upstream" ->
                  /\ Charge(w, t, x.err, x.charge, x.r, x.log)
                  /\ Remember(w, t, x.r, x.err = "Cloaked")
             [] x.err = "upstream" /\ Cardinality(upstream) < UpstreamSlots ->
                  /\ task' = [task EXCEPT ![w] = Over([at |-> "resolving", ask |-> x.ask, plain |-> x.plain], t)]
                  /\ upstream' = upstream \cup {w}
                  /\ Remember(w, t, x.r, FALSE)
                  /\ UNCHANGED <<fallback, buckets, slips, logVars>>
             [] OTHER ->
                  /\ Finish(w, t, "UpstreamCapacityExhausted", NotCached, NoLog)
                  /\ Remember(w, t, x.r, FALSE)
                  /\ UNCHANGED <<buckets, slips>>
    /\ UNCHANGED <<mix, now, groupVars, toggleVars, granted, evicted, cache, listenerVars, detectorVars, left>>

\* try_send: an event that finds no room is lost.
Emit(events, event) == IF Len(events) < EventRoom THEN Append(events, event) ELSE events

Resolved(w) ==
    /\ task[w].at = "resolving"
    /\ \E x \in resolve(Settings, cache, task[w].ask) : \E j \in {judge(w, task[w], task[w].plain, x.out)} :
        LET t == task[w]
            event == [name |-> t.q.name, type |-> t.q.type, client |-> t.q.client,
                      nx |-> x.out.err = "NxDomain" \/ spends_nxdomain_budget(x.out.r)]
        IN  /\ cache' = x.cache
            /\ Charge(w, t, j.err, j.charge, x.out.r, j.log)
            /\ IF t.plain /\ x.out.err = "" THEN Remember(w, t, x.out.r, j.err = "Cloaked") ELSE UNCHANGED filterVars
            /\ tunnelingEvents' = IF j.emit THEN Emit(tunnelingEvents, event) ELSE tunnelingEvents
            /\ dgaEvents' = IF j.emit THEN Emit(dgaEvents, event) ELSE dgaEvents
    /\ UNCHANGED <<mix, now, groupVars, toggleVars, granted, evicted, listenerVars, tunneling, dga, hijack, blocked, feedAt, left>>

(***************************************************************************)
(* The toggle, the schedules and the connections                           *)
(***************************************************************************)
\* An abort takes effect where the task awaits: one past its sleep still flips.
NoAbort(ts, id) == ts
abort(ts, id) == {t \in ts : t.id # id \/ t.awake}

set_blocking ==
    /\ May("blocking") /\ Once("blocking")
    /\ \E on \in BOOLEAN, secs \in {0, 1} :
        LET held == abort(timers, slot)
            id == left["blocking"]
        IN  /\ timers' = IF secs = 0 THEN held
                         ELSE held \cup {[id |-> id, awake |-> FALSE, deadline |-> now + secs, flip |-> ~on]}
            /\ slot' = IF secs = 0 THEN 0 ELSE id
            /\ blocking' = on /\ want' = [on |-> on, fired |-> FALSE]
            /\ raced' = (raced \/ \E t \in timers : t.awake)
    /\ UNCHANGED <<mix, now, logVars, overrides, filterVars, groupVars, budgetVars, cache, upstream, fallback, listenerVars,
                   detectorVars, task>>

TimerWakes ==
    /\ \E t \in timers :
        /\ ~t.awake /\ now >= t.deadline
        /\ timers' = (timers \ {t}) \cup {[t EXCEPT !.awake = TRUE]}
    /\ UNCHANGED <<mix, now, logVars, overrides, blocking, slot, want, raced, filterVars, groupVars, budgetVars, cache, upstream,
                   fallback, listenerVars, detectorVars, task, left>>

TimerFlips ==
    /\ \E t \in timers :
        /\ t.awake
        /\ timers' = timers \ {t} /\ blocking' = t.flip
        /\ want' = IF t.id = slot THEN [want EXCEPT !.fired = TRUE] ELSE want
    /\ UNCHANGED <<mix, now, logVars, overrides, slot, raced, filterVars, groupVars, budgetVars, cache, upstream, fallback,
                   listenerVars, detectorVars, task, left>>

\* ScheduleEvaluatorJob sets and clears the override of a group.
ScheduleChanges ==
    /\ May("schedule") /\ Once("schedule")
    /\ \E i \in DOMAIN Now("overrides") : overrides' = Now("overrides")[i]
    /\ UNCHANGED <<mix, now, logVars, blocking, timers, slot, want, raced, filterVars, groupVars, budgetVars, cache, upstream,
                   fallback, listenerVars, detectorVars, task>>

\* A listener has a limiter of its own; what follows is the header of a proxy, then a handshake.
Accept(over, first) ==
    /\ May(over) /\ Once(over)
    /\ \E ip \in DOMAIN Subnet :
        LET got == try_acquire(counts, <<over, ip>>)
        IN  /\ counts' = got.counts
            /\ conns' = IF got.ok THEN Put(conns, <<over, left[over]>>,
                                           [over |-> over, ip |-> ip, client |-> ip, at |-> first])
                        ELSE conns
run_tcp_worker == Accept("tcp", IF Now("proxied") # {} THEN "proxy" ELSE "open")
run_dot_accept_loop == Accept("dot", IF Now("proxied") # {} THEN "proxy" ELSE "tls")
serve_doq == Accept("doq", "tls")

\* ConnectionGuard::drop: the count goes down, and an idle entry goes in a step of its own.
Drop(c) ==
    LET k == <<conns[c].over, conns[c].ip>>
    IN  /\ counts' = release(counts, k)
        /\ conns' = IF k \in DOMAIN counts /\ counts[k] <= 1 THEN [conns EXCEPT ![c].at = "forget"]
                    ELSE Without(conns, {c})
        /\ UNCHANGED left

Greeted(c, at, client) == conns' = [conns EXCEPT ![c].at = at, ![c].client = client] /\ UNCHANGED <<counts, left>>

\* The header in time and well formed, or the end of the connection.
ProxyHeader ==
    \E c \in DOMAIN conns :
        /\ conns[c].at = "proxy"
        /\ \/ \E header \in Now("proxied") : \E ip \in read_proxy_v2_client_ip(header, conns[c].ip) :
                Greeted(c, IF conns[c].over = "dot" THEN "tls" ELSE "open", ip)
           \/ Drop(c)

Handshake ==
    \E c \in DOMAIN conns :
        /\ conns[c].at = "tls"
        /\ Greeted(c, "open", conns[c].client) \/ Drop(c)

\* The peer goes; a stream is not read again before its query is answered.
Close ==
    \E c \in DOMAIN conns :
        /\ May("close")
        /\ conns[c].at = "open"
        /\ conns[c].over # "doq" => \A w \in Workers : task[w].at # "idle" => task[w].conn # c
        /\ Drop(c)

Forget ==
    \E c \in DOMAIN conns :
        /\ conns[c].at = "forget"
        /\ counts' = forget_idle(counts, <<conns[c].over, conns[c].ip>>) /\ conns' = Without(conns, {c})
        /\ UNCHANGED left

ConnectionStep ==
    /\ run_tcp_worker \/ run_dot_accept_loop \/ serve_doq \/ ProxyHeader \/ Handshake \/ Close \/ Forget
    /\ UNCHANGED <<mix, now, logVars, filterVars, groupVars, toggleVars, budgetVars, cache, upstream, fallback, detectorVars, task>>

(***************************************************************************)
(* The loops and jobs around the queries                                   *)
(***************************************************************************)
Tick ==
    /\ May("tick") /\ Once("tick") /\ now' = now + 1
    /\ UNCHANGED <<mix, logVars, filterVars, groupVars, toggleVars, budgetVars, cache, upstream, fallback, listenerVars,
                   detectorVars, task>>

Evictions(k) == IF k \in DOMAIN evicted THEN evicted[k] ELSE 0
RateEviction ==
    /\ StaleBuckets(buckets, now) # {}
    /\ buckets' = Without(buckets, StaleBuckets(buckets, now))
    /\ evicted' = [k \in DOMAIN evicted \cup StaleBuckets(buckets, now) |->
                     Evictions(k) + IF k \in StaleBuckets(buckets, now) THEN 1 ELSE 0]
    /\ UNCHANGED <<mix, now, logVars, slips, granted, filterVars, groupVars, toggleVars, cache, upstream, fallback, listenerVars,
                   detectorVars, task, left>>

\* An entry of the DNS cache expires or makes room.
CacheDrop ==
    /\ May("drop") /\ Once("drop")
    /\ \E k \in DOMAIN cache : k \notin Now("records") /\ cache' = Without(cache, {k})
    /\ UNCHANGED <<mix, now, logVars, filterVars, groupVars, toggleVars, budgetVars, upstream, fallback, listenerVars,
                   detectorVars, task>>

\* The analysis loops, the probes, the feeds and the eviction jobs of the detectors.
AnalyseTunneling ==
    /\ tunnelingEvents # <<>>
    /\ tunneling' = process_tunneling(tunneling, Head(tunnelingEvents), now)
    /\ tunnelingEvents' = Tail(tunnelingEvents)
    /\ UNCHANGED <<dga, dgaEvents, hijack, blocked, feedAt, left>>

AnalyseDga ==
    /\ dgaEvents # <<>>
    /\ dga' = process_dga(dga, Head(dgaEvents), now)
    /\ dgaEvents' = Tail(dgaEvents)
    /\ UNCHANGED <<tunneling, tunnelingEvents, hijack, blocked, feedAt, left>>

TunnelingEviction ==
    /\ May("evict") /\ Once("evict") /\ tunneling' = evict_tunneling(tunneling, now)
    /\ UNCHANGED <<dga, hijack, blocked, tunnelingEvents, dgaEvents, feedAt>>
DgaEviction ==
    /\ May("evict") /\ Once("evict") /\ dga' = evict_dga(dga, now)
    /\ UNCHANGED <<tunneling, hijack, blocked, tunnelingEvents, dgaEvents, feedAt>>
NxdomainHijackEviction ==
    /\ May("evict") /\ Once("evict") /\ hijack' = evict_stale_ips(hijack, now)
    /\ UNCHANGED <<tunneling, dga, blocked, tunnelingEvents, dgaEvents, feedAt>>
ResponseIpFilterEviction ==
    /\ May("evict") /\ Once("evict") /\ blocked' = evict_stale_ips(blocked, now)
    /\ UNCHANGED <<tunneling, dga, hijack, tunnelingEvents, dgaEvents, feedAt>>

probe_all_upstreams ==
    /\ May("probe") /\ Once("probe")
    /\ \E ips \in Now("probes") : hijack' = Confirm(hijack, ips, now)
    /\ UNCHANGED <<tunneling, dga, tunnelingEvents, dgaEvents, blocked, feedAt>>

\* The time of a round is read before its lists are downloaded.
fetch_all_lists ==
    /\ \/ /\ feedAt = NoFeed /\ May("feed") /\ Once("feed")
          /\ feedAt' = now /\ UNCHANGED blocked
       \/ /\ feedAt # NoFeed
          /\ \E ips \in Now("feeds") : blocked' = Confirm(blocked, ips, feedAt)
          /\ feedAt' = NoFeed /\ UNCHANGED left
    /\ UNCHANGED <<tunneling, dga, tunnelingEvents, dgaEvents, hijack>>

DetectorStep ==
    /\ \/ AnalyseTunneling \/ AnalyseDga \/ probe_all_upstreams \/ fetch_all_lists
       \/ TunnelingEviction \/ DgaEviction \/ NxdomainHijackEviction \/ ResponseIpFilterEviction
    /\ UNCHANGED <<mix, now, logVars, filterVars, groupVars, toggleVars, budgetVars, cache, upstream, fallback, listenerVars, task>>

WorkerStep(w) ==
    /\ memo[w].at = "none"
    /\ \/ Receive(w) \/ GroupLookup(w) \/ GroupStore(w) \/ Admit(w) \/ CheckLookup(w) \/ CheckStore(w) \/ CheckKeep(w)
       \/ FastAnswer(w) \/ Decide(w) \/ Resolved(w)

LogSteps ==
    /\ LogStep
    /\ UNCHANGED <<mix, now, filterVars, groupVars, toggleVars, budgetVars, cache, upstream, fallback, listenerVars,
                   detectorVars, task>>

Next ==
    \/ LogSteps
    \/ Publish \/ EditGroups \/ load_client_groups
    \/ set_blocking \/ TimerWakes \/ TimerFlips \/ ScheduleChanges
    \/ ConnectionStep
    \/ Tick \/ RateEviction \/ CacheDrop \/ DetectorStep
    \/ \E w \in Now("workers") : WorkerStep(w) \/ MemoStep(w)

Spec == Init /\ [][Next]_vars

(***************************************************************************)
(* Properties                                                              *)
(***************************************************************************)
\* A verdict that a query begun after a publication acts on was read from the published index or
\* from a later one (rebuild_through and resolve_verdict), unless a check that overlapped the
\* publication stored it after the caches were cleared.
VerdictsFresh ==
    \A w \in Workers :
        task[w].at \in {"store", "keep", "fast", "decide"} => task[w].entry.ver >= task[w].since \/ task[w].entry.late

\* When no load is between its first change of the maps and its group epoch, and none was cut short
\* there since, the group a thread remembers for a client is the group of the maps, however loads
\* overlap (resolve_group, load_client_groups).
GroupsFresh ==
    (\A l \in DOMAIN load : load[l].at \in {"clear", "decisions", "epoch"}) /\ ~cutShort =>
        \A w \in Workers : \A ip \in DOMAIN groupL0[w] :
            GroupHit(w, ip) => groupL0[w][ip].group = resolve_group_uncached(ip)

\* What the fast path answers, execute would answer from the same state with the same group and
\* verdict: its rate limit and its cookie check would let the query pass, and it would neither block
\* it, charge it to the NXDOMAIN budget nor resolve it.  A name that safe search rewrites is the
\* exception.  What execute takes and the fast path does not is the query's own token (is_allowed).
FastPathAgrees ==
    \A w \in Workers :
        task[w].at = "fast" /\ Fast(w, task[w]) /\ cname_for(task[w].q.name, task[w].group) = "" =>
            /\ rate_check(task[w].q).verdict = "Allow" /\ ~CookieRefused(task[w].q)
            /\ \E x \in {execute_outcome(w, task[w])} :
                  /\ x.err = "" /\ x.r = try_cache(Settings, cache, task[w].q)
                  /\ x.charge => ~limits_nxdomain(Now("limits"))

\* Whatever is refilled, a bucket gives no more tokens than it held and earned; one evicted before it
\* would have been full starts anew and gives what it lacked too, at most once per StaleTtl.
GrantsBounded ==
    Now("limits") = "on" =>
        \A k \in DOMAIN granted :
            /\ granted[k] * Milli <= Burst * Milli + now * Qps + Evictions(k) * Shortfall
            /\ Evictions(k) * StaleTtl <= now

\* Blocking is what the last request asked, flipped once its own timer has fired: no timer it
\* replaced acts, unless it was past its sleep when it was replaced (set_blocking).
TimerFollowsLastRequest == ~raced => blocking = (want.on # want.fired)

\* The count of an address is the number of its open connections, though an idle entry is
\* removed after the count went down and a connection may open in between (ConnectionGuard::drop).
ConnectionsCounted ==
    MaxConns > 0 =>
        \A over \in {"tcp", "dot", "doq"}, ip \in DOMAIN Subnet :
            Cardinality({c \in DOMAIN conns : conns[c].at # "forget" /\ conns[c].over = over /\ conns[c].ip = ip})
                = IF <<over, ip>> \in DOMAIN counts THEN counts[<<over, ip>>] ELSE 0

\* What is rationed is neither given twice nor lost: tokens of a bucket, and the connections an
\* address may hold open (RateLimiter, ConnectionLimiter).
RationsHold == GrantsBounded /\ ConnectionsCounted

\* What the log shows a client was sent, it was sent; what it cannot say is unknown, a timeout or
\* the name of a safe search.  Only a failure without an upstream slot or of a safe search is not
\* logged (the calls of log in execute, reply_kind).
LogTellsReply ==
    \A w \in Workers :
        task[w].at = "idle" /\ task[w].reply \notin {"none", "FORMERR"} =>
            \/ task[w].shown \in {task[w].sent, "UNKNOWN"}
            \/ task[w].shown = "NONE" /\ task[w].sent = "SERVFAIL"
            \/ task[w].shown = "CNAME"
            \/ task[w].shown = "unlogged" /\ task[w].sent \in {"SERVFAIL", "NXDOMAIN"}

=============================================================================
