--------------------------- MODULE Administration ---------------------------
(***************************************************************************)
(* Administration of the filter: requests to the two APIs and the          *)
(* background jobs, run step by step over one database, and what the       *)
(* server holds in memory of it: the block index, the client groups, the   *)
(* safe search and malware settings, the service catalog and the schedule  *)
(* overrides.                                                              *)
(*                                                                         *)
(* Every step of a request is one await.  Rebuilds of the index run in     *)
(* tasks of their own, one at a time; which of them gets the build lock    *)
(* next does not depend on their tickets.  A request waits for its own.  A *)
(* client may disconnect, which drops its request at the await it is at,   *)
(* but not a rebuild.  `Mixes` are the databases a run starts from, each   *)
(* with the requests asked of it.                                          *)
(***************************************************************************)
EXTENDS AdminApi, FilterIndex, TLC

CONSTANTS
    Mixes,        \* sequence of the databases a run starts from; `each`: requests
                  \* an admin makes; `troubles`: statements that fail and clients that leave
    MaxRefreshes, \* list refreshes that no request asks for
    Clock,        \* the hours a schedule tells apart
    Names         \* the names that are looked up

VARIABLES
    mix,        \* which of Mixes this is
    db, web,    \* the tables; the text each list server would send
    task,       \* admin -> its request, or Idle
    asked,      \* admin -> the requests it has made
    tickets, published, queue, build, index, held,  \* BlockFilterEngine; the rebuilds asked for
    syncing,    \* SyncBlocklistSourcesUseCase.running
    clients, subnets,   \* client_groups and subnet_matcher
    exempt, safe, catalog,
    overrides, active, eval,  \* ScheduleStateStore; the evaluator's groups and its round
    hour,
    troubles, refreshes,      \* how often each has happened
    orphaned,   \* a change is committed whose rebuild failed or was never asked for
    newest,     \* what is loaded -> the admin whose load of it read last
    crossed,    \* what was stored last from rows older than another load's
    unloaded,   \* the clients whose group changed in a statement no load follows
    adrift      \* <<service, group, why>>: what was done to the rules of a service

engine == <<tickets, published, queue, build, index, held, syncing>>
groups == <<clients, subnets, exempt, safe, catalog>>
schedule == <<overrides, active, eval, hour>>
counts == <<troubles, refreshes, orphaned>>
history == <<newest, crossed, unloaded, adrift>>
vars == <<mix, db, web, task, asked, engine, groups, schedule, counts, history>>

Admins == Mixes[mix].admins
Idle == Refuse(0)
NoBuild == [phase |-> "none"]
NoEval == {}
Loads == {"clients", "subnets", "safe", "catalog"}  \* loads whose read and store are two steps

ClientMap(d) ==
    LET ids == {c \in DOMAIN d.clients : d.clients[c].group # NULL}
    IN  [ip \in {d.clients[c].ip : c \in ids} |->
            d.clients[CHOOSE c \in ids : d.clients[c].ip = ip].group]
SubnetRows(d) == Range(d.subnets)
Exempt(d) == Where(d.groups, "malware", FALSE)

\* SafeSearchIndex::from_configs
from_configs(d) == {<<r.group, r.engine>> : r \in {x \in Range(d.safeSearch) : x.enabled}}

(***************************************************************************)
(* The engine is created with its groups loaded and a first build queued.  *)
(***************************************************************************)
Init ==
    /\ mix \in DOMAIN Mixes
    /\ db = Mixes[mix].db /\ web = Mixes[mix].web
    /\ task = [a \in Admins |-> Idle] /\ asked = [a \in Admins |-> 0]
    /\ tickets = 1 /\ build = NoBuild /\ syncing = FALSE
    /\ held = Mixes[mix].held
    /\ IF Mixes[mix].booted  \* the first build is done and downloaded `held`
       THEN published = 1 /\ queue = {} /\ index = compile_block_index(load_sources(db), db, held)
       ELSE /\ published = 0 /\ index = EmptyIndex
            /\ queue = {[ticket |-> 1, fetch |-> "ReuseHeld", by |-> "boot"]}
    /\ clients = ClientMap(db) /\ subnets = SubnetRows(db)
    /\ exempt = Exempt(db) /\ safe = from_configs(db) /\ catalog = CustomServices(db)
    /\ overrides = <<>> /\ active = {} /\ eval = NoEval /\ hour = 0
    /\ troubles = 0 /\ refreshes = 0 /\ orphaned = FALSE
    /\ newest = [k \in Loads |-> "boot"] /\ crossed = {} /\ unloaded = {} /\ adrift = {}

(***************************************************************************)
(* Requests                                                                *)
(***************************************************************************)
Busy(a) == task[a].todo # <<>>
NextStep(a) == Head(Head(task[a].todo))
At(a, do) == Busy(a) /\ NextStep(a).do = do

\* The steps of an item are done in order; its last done, the item is a success.
Done(t, more) ==
    LET rest == more \o Tail(Head(t.todo))
    IN  IF rest = <<>> THEN [t EXCEPT !.todo = Tail(@), !.good = @ + 1, !.wrote = FALSE]
        ELSE [t EXCEPT !.todo[1] = rest]

Owes(a, what) == Busy(a) /\ \E i \in DOMAIN Head(task[a].todo) : Due(Head(task[a].todo)[i]) \cap what # {}

\* What a request gives up when an item of it ends here: the rebuild of what it wrote.
Orphan(a, ends) ==
    LET gives == ends /\ task[a].wrote /\ Owes(a, {"reload"})
    IN  /\ orphaned' = (orphaned \/ gives)
        /\ build' = IF build.phase = "none" THEN build ELSE [build EXCEPT !.saw = @ /\ ~gives]

Accept(a) ==
    /\ ~Busy(a) /\ asked[a] < Mixes[mix].each
    /\ \E i \in DOMAIN Mixes[mix].asks : task' = [task EXCEPT ![a] = Handle(db, Mixes[mix].asks[i])]
    /\ asked' = [asked EXCEPT ![a] = @ + 1]
    /\ UNCHANGED <<mix, db, web, engine, groups, schedule, counts, history>>

\* Steps that are not statements: what they load or start is below.
InMemory == {"reload", "await", "sync", "client_groups", "client_map", "subnet_rows", "subnet_matcher",
             "exemptions", "safe_search", "safe_store", "catalog", "catalog_store"}

\* The clients whose group a statement changes though no load follows: the cleanup
\* asks for none, and a client's update or deletion asks by the group it read before.
Unfollowed(s) ==
    IF s.do = "CleanupOldClients"
    THEN {db.clients[c].ip : c \in Where(db.clients, "recent", FALSE) \ ClientsInGroup(db, NULL)}
    ELSE IF "was" \in DOMAIN s /\ s.id \in DOMAIN db.clients /\ db.clients[s.id].group # s.was
    THEN {db.clients[s.id].ip} ELSE {}

\* What a statement does to the rules of a service in a group: `typed` writes the
\* domains as they are, `collided` leaves some out whose name the group has, and
\* `edited` changes or deletes one by its id.
Drifts(s) ==
    LET Of(id) == {g \in {db.managed[id].group} \cup (IF s.do = "ManagedRepoUpdate"
                        THEN {Patch(db.managed[id], s.update).group} ELSE {}) : db.managed[id].service # ""}
    IN  CASE s.do = "delete_by_service" -> {t \in adrift : t[1] # s.service \/ t[2] # s.group}
          [] s.do = "delete_all_by_service" -> {t \in adrift : t[1] # s.service}
          [] s.do \in {"BulkRules", "BulkDomains"} ->
                adrift \cup {<<s.service, s.group, why>> : why \in {w \in {"typed", "collided"} :
                    \/ w = "typed" /\ s.do = "BulkDomains"
                    \/ w = "collided" /\ Collides(db, s.called, s.group, RulesToWrite(catalog, s)) # {}}}
          [] s.do \in {"ManagedRepoUpdate", "ManagedRepoDelete"} ->
                IF s.id \notin DOMAIN db.managed THEN adrift
                ELSE adrift \cup {<<db.managed[s.id].service, g, "edited">> : g \in Of(s.id)}
          [] OTHER -> adrift

Statement(a) ==
    /\ Busy(a) /\ NextStep(a).do \notin InMemory
    /\ LET r == Step(db, catalog, NextStep(a))
       IN  /\ db' = r.db
           /\ task' = [task EXCEPT ![a] =
                IF r.err = "" THEN Done([@ EXCEPT !.wrote = @ \/ r.db # db], r.more) ELSE Failed(@, r.err)]
           /\ Orphan(a, r.err # "")
           /\ unloaded' = unloaded \cup (IF r.err = "" THEN Unfollowed(NextStep(a)) ELSE {})
           /\ adrift' = IF r.err = "" THEN Drifts(NextStep(a)) ELSE adrift
    /\ UNCHANGED <<mix, web, asked, tickets, published, queue, index, held, syncing, groups, schedule,
                   troubles, refreshes, newest, crossed>>

Reads == {"client_groups", "subnet_rows", "exemptions", "safe_search", "catalog"}

\* A statement the database refuses, or a read of one of the loads below, which is logged.
Fault(a) ==
    /\ Busy(a) /\ troubles < Mixes[mix].troubles
    /\ NextStep(a).do \notin InMemory \ Reads
    /\ troubles' = troubles + 1
    /\ task' = [task EXCEPT ![a] =
            CASE NextStep(a).do \in Reads -> Done(@, <<>>)
              [] NextStep(a).do \in Soft -> Done(@, Skipped(NextStep(a)))
              [] OTHER -> Failed(@, "DatabaseError")]
    /\ Orphan(a, NextStep(a).do \notin Reads \cup Soft)
    /\ UNCHANGED <<mix, db, web, asked, tickets, published, queue, index, held, syncing, groups,
                   schedule, refreshes, history>>

\* The client is gone: the request ends at the await it is at.
Disconnect(a) ==
    /\ Busy(a) /\ troubles < Mixes[mix].troubles
    /\ troubles' = troubles + 1
    /\ task' = [task EXCEPT ![a] = Idle]
    /\ Orphan(a, TRUE)
    /\ UNCHANGED <<mix, db, web, asked, tickets, published, queue, index, held, syncing, groups,
                   schedule, refreshes, history>>

(***************************************************************************)
(* BlockFilterEngine: rebuilds                                             *)
(***************************************************************************)
\* issue_reload_ticket, and the detached task that waits for the lock.
rebuild_detached(by, fetch) ==
    /\ tickets' = tickets + 1
    /\ queue' = queue \cup {[ticket |-> tickets + 1, fetch |-> fetch, by |-> by]}

AskReload(a) ==
    /\ At(a, "reload")
    /\ rebuild_detached(a, "ReuseHeld")
    /\ task' = [task EXCEPT ![a] =
            [Done(@, <<[do |-> "await", ticket |-> tickets + 1]>>) EXCEPT !.wrote = FALSE]]
    /\ UNCHANGED <<mix, db, web, asked, published, build, index, held, syncing, groups, schedule, counts, history>>

\* Starts a refresh, or answers 409 while one that it started runs.
SyncBlocklistSources(a) ==
    /\ At(a, "sync")
    /\ IF syncing
       THEN /\ task' = [task EXCEPT ![a] = [Done(@, <<>>) EXCEPT !.ok = 409]]
            /\ UNCHANGED <<tickets, queue, syncing>>
       ELSE /\ rebuild_detached("sync", "Redownload") /\ syncing' = TRUE
            /\ task' = [task EXCEPT ![a] = Done(@, <<>>)]
    /\ UNCHANGED <<mix, db, web, asked, published, build, index, held, groups, schedule, counts, history>>

\* The daily job, or the Pi-hole gravity action.
refresh_lists ==
    /\ refreshes < MaxRefreshes /\ ~Mixes[mix].booted
    /\ refreshes' = refreshes + 1
    /\ rebuild_detached("job", "Redownload")
    /\ UNCHANGED <<mix, db, web, task, asked, published, build, index, held, syncing, groups, schedule,
                   troubles, orphaned, history>>

\* A list server changes what it sends.
Publish(u) ==
    /\ web' = [web EXCEPT ![u] = Mixes[mix].web2[u]]
    /\ web' # web
    /\ UNCHANGED <<mix, db, task, asked, engine, groups, schedule, counts, history>>

\* A rebuild ends, and its caller goes on.
EndBuild(q) ==
    LET Waits(a) == At(a, "await") /\ NextStep(a).ticket = q.ticket
    IN  /\ queue' = queue \ {q} /\ build' = NoBuild
        /\ syncing' = (syncing /\ q.by # "sync")
        /\ task' = [a \in Admins |-> IF Waits(a) THEN Done(task[a], <<>>) ELSE task[a]]

\* Mutant of Covered: a build covers the reload asked for while it ran.
CoveredWhileRunning(q) == q.fetch = "ReuseHeld" /\ published + 1 >= q.ticket

\* rebuild_through takes the lock.  A later build that is published covers it,
\* unless the lists are to be downloaded again.
Covered(q) == q.fetch = "ReuseHeld" /\ published >= q.ticket

SkipBuild(q) ==
    /\ build.phase = "none" /\ Covered(q)
    /\ EndBuild(q)
    /\ UNCHANGED <<mix, db, web, asked, tickets, published, index, held, groups, schedule, counts, history>>

\* The tickets issued by now are covered: their changes are committed.
BeginBuild(q) ==
    /\ build.phase = "none" /\ ~Covered(q)
    /\ build' = [phase |-> "rows", q |-> q, covered |-> tickets, saw |-> TRUE,
                 load |-> <<>>, rules |-> <<>>, next |-> <<>>, index |-> EmptyIndex]
    /\ UNCHANGED <<mix, db, web, task, asked, tickets, published, queue, index, held, syncing, groups,
                   schedule, counts, history>>

\* The reads of a build, in order, each a statement of its own; the lists are
\* downloaded between "groups" and "blocklist", the allow lists after "whitelists".
SourceReads == <<"rows", "assigned", "groups">>
RuleReads == <<"blocklist", "managed", "regexes", "whitelist", "whitelists">>

After(reads, phase, last) ==
    LET i == CHOOSE j \in DOMAIN reads : reads[j] = phase
    IN  IF i = Len(reads) THEN last ELSE reads[i + 1]

SourceRead(phase) ==
    CASE phase = "rows" -> [ids |-> NamedSources(db), url |-> SourceUrls(db)]
      [] phase = "assigned" -> [assigned |-> SourceGroups(db, build.load.ids)]
      [] phase = "groups" -> [groups |-> DOMAIN db.groups]

\* The allow lists are joined with the groups they are assigned to.
RuleRead(phase) ==
    IF phase = "whitelists" THEN [whitelists |-> db.whitelists, groups |-> db.groups] ELSE (phase :> db[phase])

LoadSources ==
    /\ build.phase \in Range(SourceReads)
    /\ build' = [build EXCEPT !.phase = After(SourceReads, @, "lists"), !.load = SourceRead(build.phase) @@ @]
    /\ UNCHANGED <<mix, db, web, task, asked, tickets, published, queue, index, held, syncing, groups,
                   schedule, counts, history>>

\* What comes of the downloads a build tries, each of which may fail, and how each went.
Arrivals(url) ==
    {[u \in came |-> web[u]] : came \in SUBSET ToDownload(Range(url), held, build.q.fetch)}
Statuses(url, got) ==
    [s \in {x \in DOMAIN url : url[x] \in ToDownload(Range(url), held, build.q.fetch)} |->
        ListStatus(url[s], held, got)]

Download ==
    /\ build.phase = "lists"
    /\ \E got \in Arrivals(build.load.url) :
            /\ db' = record_downloads(db, "blocklists", Statuses(build.load.url, got))
            /\ build' = [build EXCEPT !.phase = "blocklist",
                    !.next = fetch_lists(Range(build.load.url), held, build.q.fetch, got)]
    /\ UNCHANGED <<mix, web, task, asked, tickets, published, queue, index, held, syncing, groups,
                   schedule, counts, history>>

ReadRules ==
    /\ build.phase \in Range(RuleReads)
    /\ build' = [build EXCEPT !.phase = After(RuleReads, @, "allowlists"), !.rules = RuleRead(build.phase) @@ @]
    /\ UNCHANGED <<mix, db, web, task, asked, tickets, published, queue, index, held, syncing, groups,
                   schedule, counts, history>>

AllowUrls(rules) == [s \in {a[1] : a \in AllowAssignments(rules)} |-> rules.whitelists[s].url]

\* load_allowlists: the allow lists are downloaded the same way; then `held` is replaced.
DownloadAllowed ==
    /\ build.phase = "allowlists"
    /\ LET url == AllowUrls(build.rules)
       IN  \E got \in Arrivals(url) :
            LET next == fetch_lists(Range(url), held, build.q.fetch, got) @@ build.next
            IN  /\ db' = record_downloads(db, "whitelists", Statuses(url, got))
                /\ held' = next
                /\ build' = [build EXCEPT !.phase = "compiled",
                        !.index = compile_block_index(build.load, build.rules, next)]
    /\ UNCHANGED <<mix, web, task, asked, tickets, published, queue, index, syncing, groups, schedule, counts,
                   history>>

PublishIndex ==
    /\ build.phase = "compiled"
    /\ index' = build.index
    /\ published' = build.covered
    /\ orphaned' = (orphaned /\ ~build.saw)
    /\ EndBuild(build.q)
    /\ UNCHANGED <<mix, db, web, asked, tickets, held, groups, schedule, troubles, refreshes, history>>

\* A read fails: the index published stays, and so does the ticket it covers.  The
\* error is logged: what the reload was for waits for the next one.
FailBuild ==
    /\ build.phase \in Range(SourceReads) \cup Range(RuleReads) /\ troubles < Mixes[mix].troubles
    /\ troubles' = troubles + 1 /\ orphaned' = TRUE
    /\ EndBuild(build.q)
    /\ UNCHANGED <<mix, db, web, asked, tickets, published, index, held, groups, schedule, refreshes, history>>

(***************************************************************************)
(* What a request loads into memory.  A read and the store of what it read *)
(* are two steps, so two loads may cross; exemptions are reloaded under a  *)
(* lock.                                                                   *)
(***************************************************************************)
Loaded(a, more) == task' = [task EXCEPT ![a] = Done(@, more)]

Reading(a, what) == newest' = [newest EXCEPT ![what] = a] /\ UNCHANGED crossed
Storing(a, what) ==
    /\ crossed' = IF newest[what] = a THEN crossed \ {what} ELSE crossed \cup {what}
    /\ UNCHANGED newest

load_client_groups_inner(a) ==
    /\ \/ /\ At(a, "client_groups") /\ Loaded(a, <<[do |-> "client_map", rows |-> ClientMap(db)]>>)
          /\ Reading(a, "clients") /\ unloaded' = {}
          /\ UNCHANGED <<clients, subnets>>
       \/ /\ At(a, "client_map")
          /\ clients' = NextStep(a).rows
          /\ Loaded(a, <<[do |-> "subnet_rows"]>>) /\ Storing(a, "clients")
          /\ UNCHANGED <<subnets, unloaded>>
       \/ /\ At(a, "subnet_rows") /\ Loaded(a, <<[do |-> "subnet_matcher", rows |-> SubnetRows(db)]>>)
          /\ Reading(a, "subnets")
          /\ UNCHANGED <<clients, subnets, unloaded>>
       \/ /\ At(a, "subnet_matcher") /\ Loaded(a, <<>>) /\ Storing(a, "subnets")
          /\ subnets' = NextStep(a).rows
          /\ UNCHANGED <<clients, unloaded>>
    /\ UNCHANGED <<mix, db, web, asked, engine, exempt, safe, catalog, schedule, counts, adrift>>

ReloadOthers(a) ==
    /\ \/ /\ At(a, "exemptions") /\ exempt' = Exempt(db) /\ Loaded(a, <<>>)
          /\ UNCHANGED <<safe, catalog, newest, crossed>>
       \/ /\ At(a, "safe_search") /\ Loaded(a, <<[do |-> "safe_store", rows |-> from_configs(db)]>>)
          /\ Reading(a, "safe")
          /\ UNCHANGED <<exempt, safe, catalog>>
       \/ /\ At(a, "safe_store") /\ safe' = NextStep(a).rows /\ Loaded(a, <<>>) /\ Storing(a, "safe")
          /\ UNCHANGED <<exempt, catalog>>
       \/ /\ At(a, "catalog") /\ Loaded(a, <<[do |-> "catalog_store", rows |-> CustomServices(db)]>>)
          /\ Reading(a, "catalog")
          /\ UNCHANGED <<exempt, safe, catalog>>
       \/ /\ At(a, "catalog_store") /\ catalog' = NextStep(a).rows /\ Loaded(a, <<>>) /\ Storing(a, "catalog")
          /\ UNCHANGED <<exempt, safe>>
    /\ UNCHANGED <<mix, db, web, asked, engine, clients, subnets, schedule, counts, unloaded, adrift>>

(***************************************************************************)
(* ScheduleEvaluatorJob                                                    *)
(***************************************************************************)
\* A slot is [start, end); one that blocks outweighs one that allows.
evaluate_slots(slots, now) ==
    LET in == {s.action : s \in {x \in slots : x.start <= now /\ now < x.end}}
    IN  IF "BlockAll" \in in THEN "BlockAll" ELSE IF "AllowAll" \in in THEN "AllowAll" ELSE "none"

\* Mutant of Clear: what was set stays.
ClearNothing(o, gs) == o

Clear(o, gs) == Without(o, gs)
SetOverride(o, g, action) ==
    IF action = "none" THEN Clear(o, {g}) ELSE [x \in DOMAIN o \cup {g} |-> IF x = g THEN action ELSE o[x]]

\* The rows, in no order.
Assignments(d) == {[group |-> r.group, profile |-> r.profile] : r \in Range(d.assigned)}
Assigned(d) == {r.group : r \in Assignments(d)}

\* A round: drop what is no longer assigned, then each group in turn.
EvaluateBegin ==
    /\ eval = NoEval /\ Mixes[mix].scheduled
    /\ eval' = Assignments(db)
    /\ overrides' = Clear(overrides, active \ Assigned(db))
    /\ active' = Assigned(db)
    /\ UNCHANGED <<mix, db, web, task, asked, engine, groups, hour, counts, history>>

EvaluateGroup(r) ==
    /\ overrides' =
            IF r.profile \notin DOMAIN db.profiles THEN Clear(overrides, {r.group})
            ELSE SetOverride(overrides, r.group, evaluate_slots(get_slots(db, r.profile), hour))
    /\ eval' = eval \ {r}
    /\ UNCHANGED <<mix, db, web, task, asked, engine, groups, active, hour, counts, history>>

\* The profile or its slots cannot be loaded: the group keeps its override.
EvaluateFails(r) ==
    /\ troubles < Mixes[mix].troubles /\ troubles' = troubles + 1
    /\ eval' = eval \ {r}
    /\ UNCHANGED <<mix, db, web, task, asked, engine, groups, overrides, active, hour, refreshes, orphaned, history>>

Tick ==
    /\ Mixes[mix].scheduled /\ hour + 1 \in Clock
    /\ hour' = hour + 1
    /\ UNCHANGED <<mix, db, web, task, asked, engine, groups, overrides, active, eval, counts, history>>

Next ==
    \/ \E a \in Admins : \/ Accept(a) \/ Statement(a) \/ Fault(a) \/ Disconnect(a)
                         \/ AskReload(a) \/ SyncBlocklistSources(a)
                         \/ load_client_groups_inner(a) \/ ReloadOthers(a)
    \/ refresh_lists \/ \E q \in queue : SkipBuild(q) \/ BeginBuild(q)
    \/ LoadSources \/ Download \/ ReadRules \/ DownloadAllowed \/ PublishIndex \/ FailBuild
    \/ EvaluateBegin \/ Tick \/ \E r \in eval : EvaluateGroup(r) \/ EvaluateFails(r)
    \/ \E u \in DOMAIN web : Publish(u)

Spec == Init /\ [][Next]_vars

(***************************************************************************)
(* Properties                                                              *)
(***************************************************************************)
\* What the rows and the lists say of a name, rule by rule.
RuleHits(rule, n) == IF rule.star THEN ProperSuffix(rule.name, n) ELSE rule.name = n

EntryHits(e, n, patterns) ==
    CASE e.kind = "Exact" -> e.arg = n
      [] e.kind = "Wildcard" -> ProperSuffix(e.arg, n)
      [] e.kind = "DomainAndSubdomains" -> e.arg = n \/ ProperSuffix(e.arg, n)
      [] OTHER -> patterns /\ HitBy(e.arg, n)

Said(n, g, action) ==
    \/ \E r \in Range(db.managed) :
            r.enabled /\ r.action = action /\ r.group = g /\ RuleHits(r.rule, n)
    \/ \E r \in Range(db.regexes) :
            r.enabled /\ r.action = action /\ r.group = g /\ HitBy(r.pattern.name, n)

Listed(n, g, table, patterns) ==
    \E s \in Range(db[table]) :
        /\ s.enabled /\ g \in s.groups /\ s.url \in DOMAIN held
        /\ \E e \in parse_list_text(held[s.url]) : EntryHits(e, n, patterns)

Tier(n, g) ==
    IF \/ Said(n, g, "Allow") \/ Listed(n, g, "whitelists", FALSE)
       \/ \E r \in db.whitelist : RuleHits(r, n) THEN "ManualAllow"
    ELSE IF Said(n, g, "Deny") \/ \E r \in db.blocklist : RuleHits(r, n) THEN "ManualDeny"
    ELSE IF Listed(n, g, "blocklists", TRUE) THEN "Block" ELSE "NoMatch"

\* With no rebuild queued, and no change between its commit and its rebuild, the
\* published index answers for every name and group what the rows and the lists
\* held say, however requests, the first build and refreshes overlapped and
\* downloads failed (rebuild_through's tickets, compile_block_index, evaluate).  A
\* change whose rebuild failed, or whose request ended before it asked for one, is
\* excepted until the next rebuild.
IndexIsCurrent ==
    (queue = {} /\ ~orphaned /\ \A a \in Admins : ~Owes(a, {"reload"})) =>
        \A n \in Names, g \in DOMAIN db.groups : evaluate(index, n, g).tier = Tier(n, g)

\* Once the loads that requests owe are done, the server holds of clients, subnets,
\* malware exemptions, safe search and custom services what the tables hold, no more
\* and no less, whatever the requests of two administrators did between a read and a
\* store of each other (load_client_groups_inner, GroupMalwareExemptions,
\* SafeSearchEnforcer, reload_catalog).  Four things are excepted.  Two loads store
\* in the other order than they read, and what the older one stored stays until the
\* next load (`crossed`).  A client with a group is removed by the cleanup, or its
\* group changes between the read that decides on a load and the write (`unloaded`).
\* What referenced a deleted group stays until a load.  A failed statement or load.
EngineFollowsTables ==
    (troubles = 0 /\ \A a \in Admins : ~Owes(a, InMemory)) =>
        /\ "clients" \in crossed \/
                /\ \A ip \in DOMAIN ClientMap(db) \ unloaded : ip \in DOMAIN clients /\ clients[ip] = ClientMap(db)[ip]
                /\ \A ip \in DOMAIN clients \ unloaded : ip \in DOMAIN ClientMap(db) \/ ~GroupExists(db, clients[ip])
        /\ "subnets" \in crossed \/ {s \in subnets : GroupExists(db, s.group)} = SubnetRows(db)
        /\ {g \in exempt : GroupExists(db, g)} = Exempt(db)
        /\ "safe" \in crossed \/ {s \in safe : GroupExists(db, s[1])} = from_configs(db)
        /\ "catalog" \in crossed \/ catalog = CustomServices(db)

\* The rules of a service in a group.
ServiceRules(service, g) ==
    {r.rule : r \in {x \in Range(db.managed) : x.service = service /\ x.group = g}}

\* Between one administrator's requests a group that blocks a service has the rules
\* that the service's definition lists, normalized, and no others, and no rule of a
\* service outlives its block (BlockService, UnblockService and the custom service
\* use cases).  An update of a custom service writes its domains as they were typed,
\* so `*ads.com` is then a rule that blocks nothing and the empty name is one too.
\* Excepted are the groups where a rule was left out because another rule had its
\* name, and where one was edited or deleted by its id, until the rules are
\* written again.
ServiceRulesMatch ==
    (troubles = 0 /\ Cardinality(Admins) = 1 /\ \A a \in Admins : ~Busy(a)) =>
        /\ \A b \in Range(db.blocked) :
                \/ \E why \in {"collided", "edited"} : <<b.service, b.group, why>> \in adrift
                \/ ServiceRules(b.service, b.group) =
                        IF <<b.service, b.group, "typed">> \in adrift
                        THEN UNION {db.custom[i].domains : i \in CustomRow(db, b.service)}
                        ELSE normalized_rules_for(catalog, b.service)
        /\ \A r \in Range(db.managed) :
                \/ r.service = "" \/ BlockedRows(db, r.service, r.group) # {}
                \/ <<r.service, r.group, "edited">> \in adrift

\* A schedule override belongs to a group the evaluator still watches, so its next
\* round takes it back: none stays in force for ever after its profile, its group
\* or the assignment is deleted between two steps of a round (evaluate_once).
OverridesTracked == DOMAIN overrides \subseteq active

\* The index of one group with one list and no other rules.
OnlyList(entries) ==
    LET lists == build_exact_and_wildcard({}, [s \in {1} |-> entries])
    IN  [EmptyIndex EXCEPT !.exact = lists.exact, !.wildcard = lists.wildcard,
                           !.patterns = lists.patterns, !.masks = [g \in {1} |-> {MANUAL, 1}]]

\* The tools that predict agree with what is enforced: `explain` says blocked just
\* when evaluate blocks, and match_candidate names what the same lines would block
\* as a list of their own (BlockIndex::explain, match_candidate).
PreviewsAgree ==
    build.phase = "compiled" =>
        /\ \A n \in Names, g \in DOMAIN db.groups :
                explain(build.index, n, g).blocked
                    <=> evaluate(build.index, n, g).tier \in {"ManualDeny", "Block"}
        /\ \A u \in DOMAIN held :
                match_candidate(Names, held[u], {}).names
                    = {n \in Names : evaluate(OnlyList(parse_list_text(held[u])), n, 1).tier = "Block"}

=============================================================================
