------------------------------- MODULE LogViews -------------------------------
(***************************************************************************)
(* What the query log shows: the reads of the repository, the filters and  *)
(* pages of the two query lists, and the views of the dashboard and of the *)
(* Pi-hole API made of them.                                               *)
(*                                                                         *)
(* A window is the time it starts at; it ends now.  Windows are read from  *)
(* the minutes, from hours with raw rows around them, or from raw rows,    *)
(* and the views add up what those reads return.  The caches of a few      *)
(* seconds in front of some reads are left out: a view is as the read that *)
(* filled them.  So are shares, rates and texts.                           *)
(***************************************************************************)
EXTENDS QueryLog

CONSTANTS
    HistorySecs, HistoryBuckets,   \* HISTORY_BUCKET_SECS and HISTORY_BUCKETS
    SnapshotLimit                  \* MAX_SNAPSHOT_LIMIT

ASSUME ViewAssumption ==
    /\ {HistorySecs, HistoryBuckets, SnapshotLimit} \subseteq Nat \ {0} /\ HistorySecs % MinuteSecs = 0
    /\ PageLimit <= SnapshotLimit   \* MAX_QUERY_PAGE_LIMIT and MAX_SNAPSHOT_LIMIT

\* A window has no end: a row of a clock that ran ahead is in it.
RawRows(start) == {r \in rows : r.e.source = "client" /\ r.at >= start}

(***************************************************************************)
(* Reads of the minutes                                                    *)
(***************************************************************************)
window_start_bucket(start) == minute_bucket(Max({start, 0}))
first_complete_minute(start) == Max({ceil_bucket(start, MinuteSecs), cov.minute})

Minutes(since, kind, what) == Total(minutes, LAMBDA k : k[1] >= since /\ k[2] = kind /\ k[3] = what)
Breakdown(since, kind) ==
    LET held == {k \in DOMAIN minutes : k[1] >= since /\ k[2] = kind}
    IN  [x \in {k[3] : k \in held} |-> Total(minutes, LAMBDA k : k \in held /\ k[3] = x)]

count_client_rows_since(start) ==
    LET switch == first_complete_minute(start)
    IN  Cardinality(ClientRows(start, switch)) + Minutes(switch, "client", "total")

\* The sources of the answers: <<"own", name, "">> or <<"upstream", pool, server>>.
Named(x) == IF x = "" THEN "unknown" ELSE x
source_stats(since) ==
    LET ups == Breakdown(since, "upstream")
        blocks == Breakdown(since, "block")
    IN  [k \in {<<"own", "cache", "">>, <<"own", "local_dns", "">>} |->
            Minutes(since, "client", IF k[2] = "cache" THEN "cache_hits" ELSE "local_dns")]
          @@ [k \in {<<"upstream", Named(u[1]), Named(u[2])>> : u \in DOMAIN ups} |->
                MapThenSumSet(LAMBDA u : IF k = <<"upstream", Named(u[1]), Named(u[2])>> THEN ups[u] ELSE 0, DOMAIN ups)]
          @@ [k \in {<<"own", b, "">> : b \in DOMAIN blocks} |-> blocks[k[2]]]

get_stats(start) ==
    LET since == window_start_bucket(start)
    IN  [total |-> Minutes(since, "client", "total"), blocked |-> Minutes(since, "client", "blocked"),
         source_stats |-> source_stats(since), queries_by_type |-> Breakdown(since, "type")]

get_dnssec_stats(start) ==
    LET since == window_start_bucket(start)
    IN  [c \in {"dnssec_validated", "Secure", "Insecure", "Bogus", "Indeterminate"} |-> Minutes(since, "client", c)]

get_cache_stats(start) ==
    LET since == window_start_bucket(start)
    IN  [hits |-> Minutes(since, "client", "cache_hits"), misses |-> Minutes(since, "client", "cache_misses")]

get_timeline(start, width) ==
    LET since == window_start_bucket(start)
        of(t) == t - (t % width)
        Sum(b, Test(_)) == Total(minutes, LAMBDA k : k[1] >= since /\ of(k[1]) = b /\ Test(k))
        Count(b, c) == Sum(b, LAMBDA k : k[2] = "client" /\ k[3] = c)
    IN  [b \in {of(k[1]) : k \in {x \in DOMAIN minutes : x[1] >= since /\ x[2] = "client"}} |->
            [total |-> Count(b, "total"), blocked |-> Count(b, "blocked"),
             cached |-> Count(b, "cache_hits") + Count(b, "local_dns"),
             forwarded |-> Sum(b, LAMBDA k : k[2] = "upstream")]]

(***************************************************************************)
(* Reads of the hours, with raw rows around them                           *)
(***************************************************************************)
\* Hours held beyond the clock are read raw until the job gives them back.
split_hours(start) ==
    LET from == Max({ceil_bucket(start, HourSecs), cov.since})
        held_until == Min({cov.until, first_open_hour})
    IN  IF from < held_until THEN [from |-> from, until |-> held_until] ELSE [from |-> start, until |-> start]

\* hour_split_counts_sql: key -> count, of the rows whose verdict is one of `verdicts`.
hour_split_counts(column, start, verdicts) ==
    LET split == split_hours(start)
        raw == ClientRows(start, split.from) \cup RawRows(split.until)
        keys == {HourKey(r, column) : r \in raw}
                  \cup {k[3] : k \in {x \in DOMAIN hours : x[1] >= split.from /\ x[1] < split.until /\ x[2] = column}}
        judged == {k \in keys : k[2] \in verdicts}
    IN  [x \in {k[1] : k \in judged} |->
            Cardinality({r \in raw : HourKey(r, column)[1] = x /\ r.e.blocked \in verdicts})
              + Total(hours, LAMBDA k : /\ k[1] >= split.from /\ k[1] < split.until
                                        /\ k[2] = column /\ k[3][1] = x /\ k[3][2] \in verdicts)]

\* The lists of at most `limit` keys that are the largest counts.
Ranked(counts, limit) ==
    {top \in kSubset(IF Cardinality(DOMAIN counts) < limit THEN Cardinality(DOMAIN counts) ELSE limit, DOMAIN counts) :
        \A x \in top, y \in DOMAIN counts \ top : counts[x] >= counts[y]}

get_top_clients(blocked_only, start) ==
    hour_split_counts("client", start, IF blocked_only THEN {TRUE} ELSE BOOLEAN)

(***************************************************************************)
(* Reads of the raw rows                                                   *)
(***************************************************************************)
count_queries_since(start) == Cardinality(RawRows(start))

get_client_activity(clients, width, start) ==
    LET key(r) == <<r.at - (r.at % width), IF r.e.client \in clients THEN r.e.client ELSE "none">>
    IN  CountBy(RawRows(start), key)

get_storage(start) ==
    [recent |-> count_client_rows_since(start), newest_id |-> Max({0} \cup {r.id : r \in RawRows(0)})]

\* Newest first; the id breaks the ties of a flush.
Before(r, s) == r.at > s.at \/ (r.at = s.at /\ r.id > s.id)
Slice(rs, offset, limit) == {r \in rs : Cardinality({s \in rs : Before(s, r)}) \in offset..(offset + limit - 1)}

\* The kind of a reply once more, in SQL: of the columns as they are stored.
ReplyKindForgetsHijack(e, mode) ==
    IF e.blocked /\ e.block \notin {"dns_cookie", "rate_limit"} THEN blocked_reply_kind(mode, e.type)
    ELSE reply_kind(e, mode)
reply_kind_sql(e, mode) ==
    CASE e.blocked /\ e.block = "nxdomain_hijack" -> "NXDOMAIN"
      [] e.blocked /\ e.block = "dns_cookie" -> IF e.status = "REFUSED" THEN "REFUSED" ELSE "OTHER"
      [] e.blocked /\ e.block \notin {"nxdomain_hijack", "dns_cookie"} ->
            IF e.status = "RATE_LIMITED" THEN "REFUSED"
            ELSE IF e.status = "RATE_LIMITED_TC" THEN "OTHER" ELSE blocked_reply_kind(mode, e.type)
      [] ~e.blocked /\ e.status \in {"NOERROR", "LOCAL_DNS"} /\ e.answers -> "IP"
      [] ~e.blocked /\ e.status = "NOERROR" /\ ~e.answers -> IF e.type \in {"A", "AAAA"} THEN "NODATA" ELSE "OTHER"
      [] ~e.blocked /\ e.status \in {"NXDOMAIN", "SERVFAIL", "REFUSED"} -> e.status
      [] OTHER -> IF e.status = "SAFE_SEARCH" THEN "CNAME" ELSE IF e.status = "TIMEOUT" THEN "NONE" ELSE "UNKNOWN"

\* A filter has a value for each of its fields: the one that selects everything is "".
NoFilter == [domain |-> "", category |-> "", client |-> "", type |-> "", excluded |-> {}, upstream |-> "",
             dnssec |-> "", reply |-> "", until |-> 0]

InCategory(e, category) ==
    CASE category = "allowed" -> ~e.blocked
      [] category = "blocked" -> e.blocked
      [] category = "cache" -> e.hit
      [] category = "upstream" ->
            ~e.hit /\ ~e.blocked /\ e.status \notin {"LOCAL_DNS", "RATE_LIMITED", "RATE_LIMITED_TC"}
      [] category = "rate_limited" -> e.status \in {"RATE_LIMITED", "RATE_LIMITED_TC"}
      [] category = "malware" -> is_malware(e.block)
      [] OTHER -> TRUE

Matches(r, f, mode) ==
    /\ f.domain \in {"", r.e.domain} /\ f.client \in {"", r.e.client} /\ f.type \in {"", r.e.type}
    /\ r.e.type \notin f.excluded /\ f.upstream \in {"", r.e.up[2]}
    /\ InCategory(r.e, f.category)
    /\ f.dnssec = "any" => r.e.dnssec # "none"
    /\ f.dnssec \notin {"", "any"} => r.e.dnssec = f.dnssec
    /\ f.until # 0 => r.at < f.until
    /\ f.reply # "" => reply_kind_sql(r.e, mode) = f.reply

CursorById(r, cursor) == r.id < cursor
\* The page after a row, or below its id once it is deleted.
AfterCursor(r, cursor) ==
    IF \E c \in rows : c.id = cursor THEN \E c \in rows : c.id = cursor /\ Before(c, r) ELSE r.id < cursor

WithinSnapshot(r, newest_id) == r.id <= newest_id

\* The rows a page is of, and the page.  One row more than asked for tells whether there is another.
Listable(page, start, f, mode) ==
    LET found == {r \in RawRows(start) : Matches(r, f, mode)}
    IN  IF page.kind = "snapshot" THEN {r \in found : WithinSnapshot(r, page.id)} ELSE found
Fetched(limit, page, listable) ==
    IF page.kind = "cursor" THEN Slice({r \in listable : AfterCursor(r, page.id)}, 0, limit + 1)
    ELSE Slice(listable, page.offset, limit + 1)
get_recent_paged(limit, page, start, f, mode) ==
    LET listable == Listable(page, start, f, mode)
        fetched == Fetched(limit, page, listable)
        shown == Slice(fetched, 0, limit)
    IN  [rows |-> {[r EXCEPT !.e = row_to_query_log(@)] : r \in shown}, total |-> count_client_rows_since(start),
         filtered |-> IF f = NoFilter /\ page.kind # "snapshot" THEN count_client_rows_since(start)
                      ELSE Cardinality(listable),
         next |-> IF fetched = shown THEN 0 ELSE (CHOOSE r \in shown : \A s \in shown \ {r} : Before(s, r)).id]

MaxPage(page) == IF page.kind = "snapshot" THEN SnapshotLimit ELSE PageLimit
execute_paged(limit, page, start, f, mode) ==
    get_recent_paged(Min({limit, MaxPage(page)}), page, start, f, mode)

Page(kind, id, offset) == [kind |-> kind, id |-> id, offset |-> offset]

(***************************************************************************)
(* The filters and views of the Pi-hole API                                *)
(***************************************************************************)
blocked_status(block) ==
    CASE block = "regex_filter" -> "REGEX"
      [] block = "managed_domain" -> "DENYLIST"
      [] block = "cname_cloaking" -> "GRAVITY_CNAME"
      [] OTHER -> "GRAVITY"
map_query_status(e) ==
    IF e.blocked THEN blocked_status(e.block)
    ELSE IF e.hit \/ e.status = "LOCAL_DNS" THEN "CACHE" ELSE "FORWARDED"
dnssec_name(d) ==
    CASE d = "Secure" -> "SECURE" [] d = "Insecure" -> "INSECURE" [] d = "Bogus" -> "BOGUS"
      [] d = "Indeterminate" -> "ABANDONED" [] OTHER -> "UNKNOWN"

FtlTypes == {"A", "AAAA", "ANY", "SRV", "SOA", "PTR", "TXT", "NAPTR", "MX", "DS", "RRSIG", "DNSKEY", "NS", "SVCB",
             "HTTPS"}
query_type_name(type) == IF type \in FtlTypes THEN type ELSE "OTHER"
FtlReplies == {"UNKNOWN", "NODATA", "NXDOMAIN", "CNAME", "IP", "DOMAIN", "RRNAME", "SERVFAIL", "REFUSED", "NOTIMP",
               "OTHER", "DNSSEC", "NONE", "BLOB"}
NeverLogged == {"DOMAIN", "RRNAME", "NOTIMP", "DNSSEC", "BLOB"}

\* A selection is a filter, or nothing at all.
Nothing == [empty |-> TRUE]
Selected(f) == [empty |-> FALSE, f |-> f]
restrict_category(f, category) ==
    CASE f.category \in {"", category} -> Selected([f EXCEPT !.category = category])
      [] f.category = "allowed" /\ category \in {"cache", "upstream"} -> Selected([f EXCEPT !.category = category])
      [] f.category \in {"cache", "upstream"} /\ category = "allowed" -> Selected(f)
      [] OTHER -> Nothing
select_status(f, status) ==
    CASE status \in {"GRAVITY", "REGEX", "DENYLIST", "GRAVITY_CNAME"} -> restrict_category(f, "blocked")
      [] status = "FORWARDED" -> restrict_category(f, "upstream")
      [] status = "CACHE" -> restrict_category(f, "cache")
      [] OTHER -> Nothing
select_type(f, type) ==
    CASE type = "OTHER" -> Selected([f EXCEPT !.excluded = FtlTypes \ {"ANY"}])
      [] type = "ANY" -> Nothing
      [] OTHER -> Selected([f EXCEPT !.type = type])
select_reply(f, reply) == IF reply \in NeverLogged THEN Nothing ELSE Selected([f EXCEPT !.reply = reply])
select_dnssec(f, d) ==
    CASE d \in {"SECURE", "INSECURE", "BOGUS", "ABANDONED"} ->
            Selected([f EXCEPT !.dnssec = CHOOSE x \in {"Secure", "Insecure", "Bogus", "Indeterminate"} : dnssec_name(x) = d])
      [] d = "UNKNOWN" -> Selected([f EXCEPT !.dnssec = "none"])
      [] OTHER -> Nothing

is_upstream_key(k) == k[1] = "upstream"
forwarded_count(sources) ==
    MapThenSumSet(LAMBDA k : sources[k], {k \in DOMAIN sources : is_upstream_key(k)})
upstream_servers(stats) ==
    LET keys == {k \in DOMAIN stats.source_stats : is_upstream_key(k)}
    IN  [s \in {k[3] : k \in keys} |-> MapThenSumSet(LAMBDA k : IF k[3] = s THEN stats.source_stats[k] ELSE 0, keys)]

\* A pseudo-upstream is a category; an ip#port names a server that answered in the window, and
\* anything else is a server as it is recorded.
select_upstream(f, kind, server, start) ==
    CASE kind = "blocklist" -> restrict_category(f, "blocked")
      [] kind = "cache" -> restrict_category(f, "cache")
      [] kind = "permitted" -> restrict_category(f, "allowed")
      [] kind = "address" -> IF server \in DOMAIN upstream_servers(get_stats(start))
                             THEN Selected([f EXCEPT !.upstream = server]) ELSE Nothing
      [] OTHER -> Selected([f EXCEPT !.upstream = server])

SourceStatus(k) ==
    CASE k[2] \in {"cache", "local_dns"} /\ ~is_upstream_key(k) -> "CACHE"
      [] is_upstream_key(k) -> "FORWARDED"
      [] OTHER -> blocked_status(k[2])
cached_count(sources) == sources[<<"own", "cache", "">>] + sources[<<"own", "local_dns", "">>]
summary(start) ==
    LET stats == get_stats(start)
        sources == stats.source_stats
    IN  [total |-> stats.total, blocked |-> stats.blocked,
         forwarded |-> forwarded_count(sources), cached |-> cached_count(sources),
         types |-> stats.queries_by_type,
         status |-> [s \in {SourceStatus(k) : k \in DOMAIN sources} |->
                        MapThenSumSet(LAMBDA k : IF SourceStatus(k) = s THEN sources[k] ELSE 0, DOMAIN sources)]]

upstreams(start) ==
    LET stats == get_stats(start)
        servers == upstream_servers(stats)
    IN  [blocklist |-> stats.blocked, cache |-> cached_count(stats.source_stats), servers |-> servers,
         total |-> stats.total]

history_buckets ==
    LET latest == wall - (wall % HistorySecs)
    IN  {latest - i * HistorySecs : i \in 0..(HistoryBuckets - 1)}
get_history ==
    LET by_start == get_timeline(Min(history_buckets), HistorySecs)
        empty == [total |-> 0, blocked |-> 0, cached |-> 0, forwarded |-> 0]
    IN  [b \in history_buckets |-> IF b \in DOMAIN by_start THEN by_start[b] ELSE empty]

\* Of n series the last is the others, when the clients do not all fit; 0 is all of them.
get_history_clients(n) ==
    LET start == Min(history_buckets)
        counts == get_top_clients(FALSE, start)
        folded == n # 0 /\ Cardinality(DOMAIN counts) > n
        named == CHOOSE top \in Ranked(counts, IF folded THEN n - 1 ELSE Cardinality(DOMAIN counts)) : TRUE
        activity == get_client_activity(named, HistorySecs, start)
        at(b, c) == IF <<b, c>> \in DOMAIN activity THEN activity[<<b, c>>] ELSE 0
    IN  [history |-> [b \in history_buckets |-> [c \in named \cup {"others"} |-> at(b, IF c = "others" THEN "none" ELSE c)]],
         clients |-> [c \in named |-> counts[c]]]

\* get_queries of the Pi-hole API: what a list shows of a row.
Shown(r, mode) ==
    LET e == row_to_query_log(r.e)
    IN  [id |-> r.id, type |-> query_type_name(e.type), status |-> map_query_status(e),
         dnssec |-> dnssec_name(e.dnssec), reply |-> reply_kind(e, mode), upstream |-> e.up[2]]
get_queries(selection, newest_id, offset, limit, start, mode) ==
    IF selection.empty THEN {}
    ELSE {Shown(r, mode) : r \in execute_paged(limit, Page("snapshot", newest_id, offset), start, selection.f, mode).rows}

(***************************************************************************)
(* The dashboard                                                           *)
(***************************************************************************)
\* Its lists are hour_split_counts of the domains and of the clients.
QuarterHour == MinuteSecs
get_dashboard(start) ==
    [stats |-> get_stats(start), cache_stats |-> get_cache_stats(start), timeline |-> get_timeline(start, QuarterHour)]

(***************************************************************************)
(* A reader that walks the pages                                           *)
(***************************************************************************)
\* The dashboard starts at offset 0 and follows the cursors; the Pi-hole API pins the newest row.
\* The pages are of the last Now("window"); base, lost and again are for the property.
Turn(w) ==
    LET start == wall - Now("window")
        got == execute_paged(PageLimit, w.page, start, NoFilter, Now("policy"))
        ids == {r.id : r \in got.rows}
        ended == IF w.page.kind = "snapshot" THEN w.page.offset + Cardinality(ids) >= got.filtered ELSE got.next = 0
    IN  [w EXCEPT !.at = IF ended THEN "end" ELSE "page", !.start = start, !.seen = @ \cup ids,
                  !.again = @ \/ ids \cap w.seen # {},
                  !.lost = @ \/ (w.page.kind = "cursor" /\ \A r \in rows : r.id # w.page.id),
                  !.page = IF @.kind = "snapshot" THEN Page("snapshot", @.id, @.offset + PageLimit)
                           ELSE Page("cursor", got.next, 0)]

WalkStarts ==
    /\ walk.at = "none" /\ May("page") /\ Once("page")
    /\ \E page \in {Page("offset", 0, 0), Page("snapshot", get_storage(wall).newest_id, 0)} :
        walk' = Turn([at |-> "page", page |-> page, start |-> 0, seen |-> {}, again |-> FALSE, lost |-> FALSE,
                      base |-> {r.id : r \in RawRows(0)}])
    /\ UNCHANGED <<wall, sampled, channel, batch, flush, storeVars, job, purge, overtaken, missed, reclosed>>

\* A snapshot whose newest row is gone is refused.
NextPage ==
    /\ walk.at = "page"
    /\ walk' = IF walk.page.kind = "snapshot" /\ walk.page.id > get_storage(wall).newest_id
               THEN [walk EXCEPT !.at = "refused"] ELSE Turn(walk)
    /\ UNCHANGED <<wall, sampled, channel, batch, flush, storeVars, job, purge, overtaken, missed, reclosed, left>>

LogStep ==
    \/ RefreshLogged \/ flush_loop \/ FlushTick \/ flush_batch
    \/ delete_older_than \/ prune_before \/ DeleteRows
    \/ RollupJobStarts \/ roll_up_hours \/ give_back_open_hours \/ AggregateColumn \/ store_hour
    \/ WallTicks \/ WallStepsBack \/ Restart
    \/ WalkStarts \/ NextPage

(***************************************************************************)
(* Properties                                                              *)
(***************************************************************************)
Windows == 0..(wall + 1)
SumOf(f) == MapThenSumSet(LAMBDA x : f[x], DOMAIN f)

\* Every query is of one kind: what is counted as blocked, cached and forwarded adds up to the
\* total, also in the bars of the history, and so do the types, the statuses, the upstreams, the
\* bars of the timelines and the lists of the dashboard (MinuteCounters::add, get_stats,
\* get_timeline).  The exception is a query whose leader found a local answer in the cache: it is
\* a hit and a local answer.
SummaryAddsUp ==
    rows # {} /\ (\A r \in rows : ~(r.e.hit /\ r.e.status = "LOCAL_DNS")) =>
        /\ (\A k \in DOMAIN minutes : k[1] <= wall) =>
              \E h \in {get_history} :
                  MapThenSumSet(LAMBDA b : h[b].total, history_buckets) = get_stats(Min(history_buckets)).total
        /\ \A start \in {window_start_bucket(t) : t \in Windows} :
             \E s \in {summary(start)}, u \in {upstreams(start)}, d \in {get_dashboard(start)},
               v \in {get_dnssec_stats(start)}, bars \in {get_timeline(start, HistorySecs)} :
                /\ s.total = s.blocked + s.cached + s.forwarded
                /\ s.total = SumOf(s.types) /\ s.total = SumOf(s.status)
                /\ u.total = u.blocklist + u.cache + SumOf(u.servers)
                /\ \A field \in {"total", "blocked", "cached", "forwarded"} :
                      MapThenSumSet(LAMBDA b : bars[b][field], DOMAIN bars) = s[field]
                /\ s.total = d.cache_stats.hits + d.cache_stats.misses + d.stats.blocked
                /\ s.total = MapThenSumSet(LAMBDA b : d.timeline[b].total, DOMAIN d.timeline)
                /\ v["dnssec_validated"] = v["Secure"] + v["Insecure"] + v["Bogus"] + v["Indeterminate"]

\* The count a page shows is the number of rows, for a window of any start, while flushes fail in
\* part and retention has pruned the minutes and is still deleting rows (count_client_rows_since).
CountsExact ==
    \A start \in Windows : count_client_rows_since(start) = count_queries_since(start)

\* Hours and the raw rows around them count what the raw rows count (hour_split_counts_sql), unless
\* an hour took rows after it was aggregated, from a flush that waited for longer than CLOSE_LAG_SECS
\* or because the clock had stepped back into it, or was aggregated while retention deleted it.  The
\* bars of the busiest clients add up to their counts when no row is later than the clock.
TopListsExact ==
    ~overtaken /\ ~reclosed /\ (rows # {} \/ hours # EmptyBag) =>
        /\ \A start \in Windows, column \in {"domain", "client"}, verdicts \in {{TRUE}, {FALSE}, BOOLEAN} :
              hour_split_counts(column, start, verdicts) =
                  CountBy({r \in RawRows(start) : r.e.blocked \in verdicts}, LAMBDA r : HourKey(r, column)[1])
        /\ (\A r \in rows : r.at <= wall) =>
              \A n \in 0..2 :
                  \E shown \in {get_history_clients(n)} :
                      \A c \in DOMAIN shown.clients :
                          shown.clients[c] = MapThenSumSet(LAMBDA b : shown.history[b][c], history_buckets)

\* What is shown as a count is one: the pages' and the lists', from rollups and raw rows alike.
RollupsExact == CountsExact /\ TopListsExact

\* A walk of the pages shows each row that was there when it started and has stayed, once, whatever
\* is flushed, deleted and however the clock steps meanwhile; a row comes again only after the row
\* of a cursor was deleted (get_recent_paged).
PagesComplete ==
    walk.at = "end" =>
        /\ \A r \in RawRows(walk.start) :
              r.id \in walk.base /\ (\A p \in DOMAIN purge : r.at >= purge[p].cutoff) => r.id \in walk.seen
        /\ walk.again => walk.lost

\* A list filtered by a reply, a DNSSEC status, a type or an upstream has the rows that show it,
\* and one filtered by a status only rows of its category (reply_kind_sql, select_status).
FiltersMatchColumns ==
    RawRows(0) # {} =>
    LET mode == Now("policy")
        all == {Shown(r, mode) : r \in RawRows(0)}
        Listed(s) == get_queries(s, newest, 0, newest + 1, 0, mode)
    IN  /\ \A reply \in FtlReplies : Listed(select_reply(NoFilter, reply)) = {x \in all : x.reply = reply}
        /\ \A d \in {"SECURE", "INSECURE", "BOGUS", "ABANDONED", "TRUNCATED", "UNKNOWN"} :
              Listed(select_dnssec(NoFilter, d)) = {x \in all : x.dnssec = d}
        /\ \A type \in FtlTypes \cup {"OTHER"} : Listed(select_type(NoFilter, type)) = {x \in all : x.type = type}
        /\ Listed(select_upstream(NoFilter, "server", "s1", 0)) = {x \in all : x.upstream = "s1"}
        /\ Listed(select_upstream(NoFilter, "address", "s1", 0)) \in {{}, {x \in all : x.upstream = "s1"}}
        /\ \A status \in {"FORWARDED", "CACHE"} :
              \A x \in Listed(select_status(NoFilter, status)) : x.status = status
        /\ Listed(select_status(NoFilter, "GRAVITY")) = {x \in all : x.status \notin {"FORWARDED", "CACHE"}}

\* What is shown of the rows is consistent: the summary's parts add up to its total, and a filter
\* lists the rows whose column shows the value (summary, reply_kind_sql, select_status).
ColumnsAgree == SummaryAddsUp /\ FiltersMatchColumns

=============================================================================
