------------------------------- MODULE QueryLog -------------------------------
(***************************************************************************)
(* The query log: what a query leaves in it, the task that writes it, the  *)
(* rollups kept beside the raw rows, the hourly job, retention and a       *)
(* reader that pages through it.                                           *)
(*                                                                         *)
(* A flush stamps its rows and its minute bucket with one reading of the   *)
(* wall clock and commits them together, after waiting for the write lock. *)
(* Retention prunes the rollups in one transaction and then deletes raw    *)
(* rows in batches.  The hourly job reads its coverage, aggregates an hour *)
(* and stores it only if the coverage is still the one it read.  They run  *)
(* beside each other, and the wall clock may step back under all of them.  *)
(*                                                                         *)
(* The rollup tables are bags: a counter of a minute is how often its key  *)
(* is in the bag, so an upsert is a bag union.                             *)
(***************************************************************************)
EXTENDS Integers, Sequences, FiniteSets, FiniteSetsExt, Bags, TLC

CONSTANTS
    Mixes,                         \* sequence of the settings and the world of a run
    MinuteSecs, HourSecs,          \* ticks of a minute and of an hour
    CloseLag,                      \* CLOSE_LAG_SECS
    ChannelCapacity, MaxBatchSize, RowsPerChunk, DeleteBatch, MaxHoursPerRun, PageLimit

ASSUME LogAssumption ==
    /\ {MinuteSecs, HourSecs, ChannelCapacity, MaxBatchSize, RowsPerChunk, DeleteBatch, MaxHoursPerRun, PageLimit}
         \subseteq Nat \ {0}
    /\ HourSecs % MinuteSecs = 0
    /\ CloseLag \in Nat

\* What a mix starts the log with: times are of the Unix clock.
IsSequence(s) == s \in Seq({s[i] : i \in DOMAIN s})
ASSUME HistoryAssumption ==
    \A m \in DOMAIN Mixes :
        /\ {Mixes[m].wall, Mixes[m].window, Mixes[m].retain} \subseteq Nat /\ Mixes[m].steps \subseteq Nat
        /\ IsSequence(Mixes[m].queued) /\ IsSequence(Mixes[m].logged)
        /\ \A i \in DOMAIN Mixes[m].logged : Mixes[m].logged[i].at \in Nat

VARIABLES
    mix, left,                     \* the mix of this behaviour; how often each thing may still happen
    wall,                          \* Utc::now
    sampled, channel, batch, flush,
    rows, newest,                  \* the table query_log and the id it gave last
    minutes, hours, cov,           \* the rollups and query_log_rollup_state
    job, purge, walk,
    overtaken, missed, reclosed    \* history: see roll_up_hours, flush_batch and WallTicks

storeVars == <<rows, newest, minutes, hours, cov>>
logVars == <<wall, sampled, channel, batch, flush, storeVars, job, purge, walk, overtaken, missed, reclosed>>

Settings == Mixes[mix]
Now(what) == Settings[what]
May(what) == left[what] > 0
Once(what) == left' = [left EXCEPT ![what] = @ - 1]

(***************************************************************************)
(* What a query leaves in the log                                          *)
(***************************************************************************)
NoUpstream == <<"", "">>
NoLog == [status |-> "none"]
base_query_log(q) ==
    [source |-> "client", domain |-> q.name, type |-> q.type, client |-> q.client, blocked |-> FALSE, hit |-> FALSE,
     refresh |-> FALSE, status |-> "NOERROR", block |-> "none", up |-> NoUpstream, dnssec |-> "none",
     answers |-> FALSE]
cache_hit_log(q, dnssec, answers) == [base_query_log(q) EXCEPT !.hit = TRUE, !.dnssec = dnssec, !.answers = answers]
BlockedLog(q, status, block) == [base_query_log(q) EXCEPT !.blocked = TRUE, !.status = status, !.block = block]

\* A background renewal of a cache entry.
refresh_log(q) ==
    [base_query_log(q) EXCEPT !.source = "internal", !.client = "127.0.0.1", !.refresh = TRUE, !.up = <<"main", "s1">>]

is_malware(block) ==
    block \in {"dns_tunneling", "dns_rebinding", "nxdomain_hijack", "response_ip_filter", "dga_detection"}

\* The statuses the reader knows; a row with another comes back without one.
to_static_response_status(s) ==
    IF s \in {"NOERROR", "NXDOMAIN", "SERVFAIL", "REFUSED", "TIMEOUT", "BLOCKED", "LOCAL_DNS", "RATE_LIMITED",
              "RATE_LIMITED_TC", "SAFE_SEARCH", "BADCOOKIE"} THEN s ELSE "none"
row_to_query_log(e) == [e EXCEPT !.status = to_static_response_status(@)]

\* QueryLog::reply_kind, of what the reader makes of a row.
blocked_reply_kind(mode, type) ==
    CASE mode = "NullIp" /\ type \in {"A", "AAAA"} -> "IP"
      [] mode = "NullIp" /\ type \notin {"A", "AAAA"} -> "NODATA"
      [] mode = "NoData" -> "NODATA"
      [] mode = "NxDomain" -> "NXDOMAIN"
      [] OTHER -> "REFUSED"
reply_kind(e, mode) ==
    IF e.blocked
    THEN CASE e.block = "nxdomain_hijack" -> "NXDOMAIN"
           [] e.block = "dns_cookie" -> IF e.status = "REFUSED" THEN "REFUSED" ELSE "OTHER"
           [] e.block \notin {"nxdomain_hijack", "dns_cookie"} /\ e.status = "RATE_LIMITED" -> "REFUSED"
           [] e.block \notin {"nxdomain_hijack", "dns_cookie"} /\ e.status = "RATE_LIMITED_TC" -> "OTHER"
           [] OTHER -> blocked_reply_kind(mode, e.type)
    ELSE CASE e.status \in {"NOERROR", "LOCAL_DNS"} /\ e.answers -> "IP"
           [] e.status = "NOERROR" /\ ~e.answers -> IF e.type \in {"A", "AAAA"} THEN "NODATA" ELSE "OTHER"
           [] e.status = "SAFE_SEARCH" -> "CNAME"
           [] e.status \in {"NXDOMAIN", "SERVFAIL", "REFUSED"} -> e.status
           [] e.status = "TIMEOUT" -> "NONE"
           [] OTHER -> "UNKNOWN"

(***************************************************************************)
(* The rollups                                                             *)
(***************************************************************************)
minute_bucket(t) == t - (t % MinuteSecs)
hour_bucket(t) == t - (t % HourSecs)
ceil_bucket(t, size) == ((t + size - 1) \div size) * size

IsUpstreamAnyBlock(e) == ~e.hit /\ e.status # "LOCAL_DNS"
is_upstream(e) == ~e.hit /\ ~e.blocked /\ e.status # "LOCAL_DNS"

\* MinuteCounters::add: the counters an entry raises, of those that have to add up.
counters(e) ==
    {"total"}
      \cup (IF e.blocked THEN {"blocked"} ELSE {}) \cup (IF e.hit THEN {"cache_hits"} ELSE {})
      \cup (IF ~e.hit /\ ~e.refresh /\ ~e.blocked THEN {"cache_misses"} ELSE {})
      \cup (IF e.status = "LOCAL_DNS" THEN {"local_dns"} ELSE {})
      \cup (IF e.dnssec # "none" THEN {"dnssec_validated", e.dnssec} ELSE {})

\* MinuteRollup::add: the counters per source, and the breakdowns of the client's queries.
rollup_add(e, bucket) ==
    SetToBag({<<bucket, e.source, c>> : c \in counters(e)}
      \cup (IF e.source # "client" THEN {}
            ELSE {<<bucket, "type", e.type>>}
                   \cup (IF e.blocked /\ e.block # "none" THEN {<<bucket, "block", e.block>>} ELSE {})
                   \cup (IF is_upstream(e) THEN {<<bucket, "upstream", e.up>>} ELSE {})))

\* MinuteRollup::persist, of the entries of one flush.
persist(entries, bucket) ==
    FoldSet(LAMBDA i, bag : bag (+) rollup_add(entries[i], bucket), EmptyBag, DOMAIN entries)

Keep(bag, Test(_)) == [k \in {x \in DOMAIN bag : Test(x)} |-> bag[k]]
Total(bag, Test(_)) == MapThenSumSet(LAMBDA k : bag[k], {k \in DOMAIN bag : Test(k)})

first_open_hour == hour_bucket(wall - CloseLag)
ClientRows(from, until) == {r \in rows : r.e.source = "client" /\ r.at >= from /\ r.at < until}

\* aggregate: the counts of an hour by one column and by verdict.
CountBy(rs, Key(_)) ==
    [k \in {Key(r) : r \in rs} |-> Cardinality({r \in rs : Key(r) = k})]
HourKey(r, column) == IF column = "domain" THEN <<r.e.domain, r.e.blocked>> ELSE <<r.e.client, r.e.blocked>>
aggregate(column, hour) ==
    LET counts == CountBy(ClientRows(hour, hour + HourSecs), LAMBDA r : HourKey(r, column))
    IN  [k \in {<<hour, column, x>> : x \in DOMAIN counts} |-> counts[k[3]]]

NoPurge == [at |-> "none", cutoff |-> 0]
NoWalk == [at |-> "none"]
Parked == [at |-> "parked", runs |-> 0]

\* The log of a run: rows, their rollups, the coverage of the migration and what is queued.
LogInit ==
    /\ mix \in DOMAIN Mixes /\ left = Now("left") /\ wall = Now("wall")
    /\ sampled = 0 /\ channel = Now("queued") /\ batch = <<>> /\ flush = [at |-> "none", stamp |-> 0]
    /\ rows = {[id |-> i, at |-> Now("logged")[i].at, e |-> Now("logged")[i].e] : i \in DOMAIN Now("logged")}
    /\ newest = Len(Now("logged"))
    /\ minutes = FoldSet(LAMBDA r, bag : bag (+) rollup_add(r.e, minute_bucket(r.at)), EmptyBag, rows)
    /\ cov = [minute |-> 0, since |-> hour_bucket(wall), until |-> hour_bucket(wall), floor |-> 0]
    /\ hours = EmptyBag
    /\ job = Parked /\ purge = [p \in {"retention", "flush"} |-> NoPurge] /\ walk = NoWalk
    /\ overtaken = FALSE /\ missed = {} /\ reclosed = FALSE

(***************************************************************************)
(* The writer                                                              *)
(***************************************************************************)
\* Every n-th query is logged, and dropped when the channel is full.
log_query_sync(e) ==
    /\ sampled' = (sampled + 1) % Now("sampleRate")
    /\ channel' = IF sampled = 0 /\ Len(channel) < ChannelCapacity THEN Append(channel, e) ELSE channel

\* HandleDnsQueryUseCase::log: nothing unless queries are logged.
log(e) ==
    /\ IF Now("logging") /\ e.status # "none" THEN log_query_sync(e) ELSE UNCHANGED <<sampled, channel>>
    /\ UNCHANGED <<wall, batch, flush, storeVars, job, purge, walk, overtaken, missed, reclosed>>

RefreshLogged ==
    /\ May("refresh") /\ Once("refresh") /\ log_query_sync(refresh_log([name |-> "ok", type |-> "A", client |-> "c1"]))
    /\ UNCHANGED <<wall, batch, flush, storeVars, job, purge, walk, overtaken, missed, reclosed>>

\* flush_loop: entries are taken as long as the batch has room, and a full batch is flushed.
Took == IF Len(channel) + Len(batch) <= MaxBatchSize THEN Len(channel) ELSE MaxBatchSize - Len(batch)
flush_loop ==
    /\ flush.at = "none" /\ channel # <<>>
    /\ batch' = batch \o SubSeq(channel, 1, Took) /\ channel' = SubSeq(channel, Took + 1, Len(channel))
    /\ flush' = IF Len(batch') >= MaxBatchSize THEN [at |-> "begin", stamp |-> wall] ELSE flush
    /\ UNCHANGED <<wall, sampled, storeVars, job, purge, walk, overtaken, missed, reclosed, left>>

FlushTick ==
    /\ flush.at = "none" /\ batch # <<>>
    /\ flush' = [at |-> "begin", stamp |-> wall]
    /\ UNCHANGED <<wall, sampled, channel, batch, storeVars, job, purge, walk, overtaken, missed, reclosed, left>>

\* The chunks of a batch that land: all of them, unless something fails.
Chunk(i) == (i - 1) \div RowsPerChunk
Landings ==
    LET chunks == {Chunk(i) : i \in DOMAIN batch}
    IN  IF May("fault") THEN SUBSET chunks ELSE {chunks}

FlushCounts(landed) == [i \in {j \in DOMAIN batch : Chunk(j) \in landed} |-> batch[i]]

\* The hour is held, or the job has read some of its rows.
Aggregated(hour) ==
    \/ cov.since <= hour /\ hour < cov.until
    \/ job.at \in {"client", "store"} /\ job.hour = hour

\* flush_batch, from the transaction on: it waits for a connection and, with every chunk, for the
\* write lock, which may take longer than CLOSE_LAG_SECS (history: missed, reclosed).  A transaction
\* that does not begin, rollups that cannot be written and a commit that fails lose the batch; a
\* chunk that fails loses its own rows.
flush_batch ==
    /\ flush.at = "begin"
    /\ \E landed \in Landings :
        LET ids == {i \in DOMAIN batch : Chunk(i) \in landed}
            id(i) == newest + Cardinality({j \in ids : j <= i})
            hour == hour_bucket(flush.stamp)
        IN  /\ rows' = rows \cup {[id |-> id(i), at |-> flush.stamp, e |-> batch[i]] : i \in ids}
            /\ newest' = newest + Cardinality(ids)
            /\ minutes' = minutes (+) persist(FlushCounts(landed), minute_bucket(flush.stamp))
            /\ missed' = IF Aggregated(hour) THEN missed \cup {hour} ELSE missed
            /\ reclosed' = (reclosed \/ (Aggregated(hour) /\ hour < first_open_hour))
            /\ left' = IF ids = DOMAIN batch THEN left ELSE [left EXCEPT !["fault"] = @ - 1]
    /\ batch' = <<>> /\ flush' = [flush EXCEPT !.at = "none"]
    /\ UNCHANGED <<wall, sampled, channel, hours, cov, job, purge, walk, overtaken>>

(***************************************************************************)
(* Retention                                                               *)
(***************************************************************************)
\* The job keeps some days, Pi-hole's flush none; the cutoff is read first.
delete_older_than ==
    /\ \E p \in DOMAIN purge :
        /\ purge[p].at = "none" /\ May(p) /\ Once(p)
        /\ purge' = [purge EXCEPT ![p] =
              [at |-> "prune", cutoff |-> wall - (IF p = "flush" THEN 0 ELSE Now("retain"))]]
    /\ UNCHANGED <<wall, sampled, channel, batch, flush, storeVars, job, walk, overtaken, missed, reclosed>>

pruned_coverage(c, cutoff) ==
    LET hour == ceil_bucket(cutoff, HourSecs)
    IN  [minute |-> Max({c.minute, ceil_bucket(cutoff, MinuteSecs)}),
         since |-> Max({c.since, hour}), until |-> Max({c.until, hour}), floor |-> Max({c.floor, hour})]

prune_before ==
    /\ \E p \in DOMAIN purge :
        LET cutoff == purge[p].cutoff
        IN  /\ purge[p].at = "prune"
            /\ minutes' = Keep(minutes, LAMBDA k : k[1] >= cutoff)
            /\ hours' = Keep(hours, LAMBDA k : k[1] >= cutoff)
            /\ cov' = pruned_coverage(cov, cutoff)
            /\ missed' = {h \in missed : h >= cov'.since}
            /\ purge' = [purge EXCEPT ![p].at = "delete"]
    /\ UNCHANGED <<wall, sampled, channel, batch, flush, rows, newest, job, walk, overtaken, reclosed, left>>

\* One batch: some of the rows before the cutoff, in no order; the loop ends when there are none.
DeleteRows ==
    /\ \E p \in DOMAIN purge :
        LET old == {r \in rows : r.at < purge[p].cutoff}
            size == IF Cardinality(old) < DeleteBatch THEN Cardinality(old) ELSE DeleteBatch
        IN  /\ purge[p].at = "delete"
            /\ \E gone \in kSubset(size, old) : rows' = rows \ gone
            /\ purge' = IF old = {} THEN [purge EXCEPT ![p] = NoPurge] ELSE purge
    /\ UNCHANGED <<wall, sampled, channel, batch, flush, newest, minutes, hours, cov, job, walk, overtaken, missed,
                   reclosed, left>>

(***************************************************************************)
(* The hourly job                                                          *)
(***************************************************************************)
RollupJobStarts ==
    /\ job.at = "parked" /\ May("rollup") /\ Once("rollup")
    /\ job' = [at |-> "pick", runs |-> MaxHoursPerRun]
    /\ UNCHANGED <<wall, sampled, channel, batch, flush, storeVars, purge, walk, overtaken, missed, reclosed>>

NoHour == -1
next_hour(c, open) ==
    LET old == {r.at : r \in {x \in rows : x.e.source = "client"}}
        previous == c.since - HourSecs
    IN  CASE c.until < open -> c.until
          [] c.until >= open /\ old # {} /\ previous >= Max({hour_bucket(Min(old)), c.floor}) -> previous
          [] OTHER -> NoHour

Deleting(hour) == \E p \in DOMAIN purge : purge[p].at = "delete" /\ purge[p].cutoff > hour

\* roll_up_hours: give back what a clock that ran ahead closed, or pick an hour, or be done.
\* The hour after a flush of the whole log is picked though it is before the floor: history.
roll_up_hours ==
    /\ job.at = "pick"
    /\ LET hour == next_hour(cov, first_open_hour)
           next == [cov |-> cov, hour |-> hour, open |-> first_open_hour, runs |-> job.runs - 1]
       IN  CASE job.runs = 0 -> job' = Parked /\ UNCHANGED overtaken
             [] job.runs > 0 /\ cov.until > first_open_hour ->
                  job' = next @@ [at |-> "give_back"] /\ UNCHANGED overtaken
             [] job.runs > 0 /\ cov.until <= first_open_hour /\ hour = NoHour -> job' = Parked /\ UNCHANGED overtaken
             [] OTHER -> /\ job' = next @@ [at |-> "domain", counts |-> EmptyBag]
                         /\ overtaken' = (overtaken \/ (hour < cov.floor /\ Deleting(hour)))
    /\ UNCHANGED <<wall, sampled, channel, batch, flush, storeVars, purge, walk, missed, reclosed, left>>

Again == [at |-> "pick", runs |-> job.runs]

give_back_open_hours ==
    /\ job.at = "give_back"
    /\ job' = Again
    /\ IF cov # job.cov THEN UNCHANGED <<hours, cov, missed>>
       ELSE /\ cov' = [cov EXCEPT !.since = Min({@, job.open}), !.until = job.open]
            /\ hours' = Keep(hours, LAMBDA k : k[1] < job.open)
            /\ missed' = {h \in missed : h < job.open}
    /\ UNCHANGED <<wall, sampled, channel, batch, flush, rows, newest, minutes, purge, walk, overtaken, reclosed, left>>

AggregateColumn ==
    /\ job.at \in {"domain", "client"}
    /\ job' = [job EXCEPT !.at = IF job.at = "domain" THEN "client" ELSE "store",
                          !.counts = @ (+) aggregate(job.at, job.hour)]
    /\ missed' = IF job.at = "domain" THEN missed \ {job.hour} ELSE missed
    /\ UNCHANGED <<wall, sampled, channel, batch, flush, storeVars, purge, walk, overtaken, reclosed, left>>

StoreAnyway(read, current) == TRUE
replace(read, current) == read = current

\* The hour and its coverage in one transaction, unless the coverage moved.
store_hour ==
    /\ job.at = "store"
    /\ job' = Again
    /\ IF ~replace(job.cov, cov) THEN missed' = missed \ {job.hour} /\ UNCHANGED <<hours, cov>>
       ELSE /\ cov' = IF job.hour = job.cov.until THEN [cov EXCEPT !.until = job.hour + HourSecs]
                      ELSE [cov EXCEPT !.since = job.hour]
            /\ hours' = Keep(hours, LAMBDA k : k[1] # job.hour) (+) job.counts
            /\ UNCHANGED missed
    /\ UNCHANGED <<wall, sampled, channel, batch, flush, rows, newest, minutes, purge, walk, overtaken, reclosed, left>>

(***************************************************************************)
(* The wall clock and a restart                                            *)
(***************************************************************************)
\* History: an hour that took rows after it was aggregated, because the clock had stepped back into
\* it, closes again.
WallTicks ==
    /\ May("wall") /\ Once("wall")
    /\ wall' = wall + 1
    /\ reclosed' = (reclosed \/ \E h \in missed : h < hour_bucket(wall' - CloseLag))
    /\ UNCHANGED <<sampled, channel, batch, flush, storeVars, job, purge, walk, overtaken, missed>>

WallStepsBack ==
    /\ May("back") /\ Once("back")
    /\ \E by \in Now("steps") : wall - by >= CloseLag /\ wall' = wall - by
    /\ UNCHANGED <<sampled, channel, batch, flush, storeVars, job, purge, walk, overtaken, missed, reclosed>>

\* What was not committed is lost; the tables are as they were.
Restart ==
    /\ May("crash") /\ Once("crash")
    /\ channel' = <<>> /\ batch' = <<>> /\ flush' = [flush EXCEPT !.at = "none"] /\ sampled' = 0
    /\ job' = Parked /\ purge' = [p \in DOMAIN purge |-> NoPurge] /\ walk' = NoWalk
    /\ UNCHANGED <<wall, storeVars, overtaken, missed, reclosed>>

=============================================================================
