---------------------------- MODULE FilterProofs ----------------------------
(***************************************************************************)
(* Theorems about Administration and FilterIndex, for any tables, lists,   *)
(* requests and faults.                                                    *)
(***************************************************************************)
EXTENDS Administration, SequenceTheorems, TLAPS

(***************************************************************************)
(* The schedule evaluator                                                  *)
(***************************************************************************)

\* A group the round under way has still to come to is one the evaluator watches.
RoundTracked == \A r \in eval : r.group \in active
TrackInv == OverridesTracked /\ RoundTracked

\* What Clear leaves in the store.
LEMMA ClearDomain == ASSUME NEW o, NEW gs PROVE DOMAIN Clear(o, gs) = DOMAIN o \ gs
  BY DEF Clear, Without, Keep

\* What SetOverride leaves in the store.
LEMMA SetDomain == ASSUME NEW o, NEW g, NEW action PROVE DOMAIN SetOverride(o, g, action) \subseteq DOMAIN o \cup {g}
  BY DEF Clear, SetOverride, Without, Keep

\* Only the evaluator touches the store.
LEMMA ScheduleFrame ==
    ASSUME Next
    PROVE  \/ UNCHANGED <<overrides, active, eval>>
           \/ EvaluateBegin
           \/ \E r \in eval : EvaluateGroup(r) \/ EvaluateFails(r)
<1> USE DEF schedule
<1>1. ASSUME NEW a \in Admins,
             \/ Accept(a) \/ Statement(a) \/ Fault(a) \/ Disconnect(a) \/ AskReload(a) \/ SyncBlocklistSources(a)
             \/ load_client_groups_inner(a) \/ ReloadOthers(a)
      PROVE  UNCHANGED <<overrides, active, eval>>
  BY <1>1, ZenonT(60) DEF Accept, Statement, Fault, Disconnect, AskReload, SyncBlocklistSources, load_client_groups_inner,
              ReloadOthers
<1>2. ASSUME \/ refresh_lists \/ (\E q \in queue : SkipBuild(q) \/ BeginBuild(q)) \/ LoadSources \/ Download
             \/ ReadRules \/ DownloadAllowed \/ PublishIndex \/ FailBuild \/ Tick
      PROVE  UNCHANGED <<overrides, active, eval>>
  BY <1>2, ZenonT(60) DEF refresh_lists, SkipBuild, BeginBuild, LoadSources, Download, ReadRules, DownloadAllowed,
              PublishIndex, FailBuild, Tick
<1>3. ASSUME NEW u \in DOMAIN web, Publish(u) PROVE UNCHANGED <<overrides, active, eval>>
  BY <1>3 DEF Publish
<1> QED
  BY <1>1, <1>2, <1>3 DEF Next

\* A round begins with the overrides of groups assigned no more taken back.
LEMMA BeginTracks == TrackInv /\ EvaluateBegin => TrackInv'
<1> SUFFICES ASSUME TrackInv, EvaluateBegin PROVE TrackInv'
  OBVIOUS
<1>1. DOMAIN overrides' = DOMAIN overrides \ (active \ Assigned(db)) /\ active' = Assigned(db)
  BY ClearDomain DEF EvaluateBegin
<1>2. eval' = Assignments(db)
  BY DEF EvaluateBegin
<1> QED
  BY <1>1, <1>2 DEF TrackInv, OverridesTracked, RoundTracked, Assigned

\* A group that is evaluated is watched.
LEMMA GroupTracks ==
    ASSUME TrackInv, NEW r \in eval, EvaluateGroup(r) \/ EvaluateFails(r)
    PROVE  TrackInv'
<1>1. r.group \in active /\ active' = active /\ eval' \subseteq eval
  BY DEF TrackInv, RoundTracked, EvaluateGroup, EvaluateFails
<1>2. DOMAIN overrides' \subseteq DOMAIN overrides \cup {r.group}
  <2>1. CASE EvaluateFails(r)
    BY <2>1 DEF EvaluateFails
  <2>2. CASE EvaluateGroup(r) /\ r.profile \notin DOMAIN db.profiles
    <3>1. overrides' = Clear(overrides, {r.group})
      BY <2>2 DEF EvaluateGroup
    <3> QED
      BY <3>1, ClearDomain
  <2>3. CASE EvaluateGroup(r) /\ r.profile \in DOMAIN db.profiles
    <3>1. PICK action : overrides' = SetOverride(overrides, r.group, action)
      BY <2>3 DEF EvaluateGroup
    <3> QED
      BY <3>1, SetDomain
  <2> QED
    BY <2>1, <2>2, <2>3
<1> QED
  BY <1>1, <1>2 DEF TrackInv, OverridesTracked, RoundTracked

\* However requests delete profiles, groups and assignments between the steps of a round, and whatever
\* loads fail, an override in force is of a group the evaluator watches, so that its next round takes
\* it back (evaluate_once, ScheduleStateStore).
THEOREM OverridesStayTracked == Spec => []OverridesTracked
<1>1. Init => TrackInv
  BY DEF Init, TrackInv, OverridesTracked, RoundTracked, NoEval
<1>2. TrackInv /\ [Next]_vars => TrackInv'
  <2> SUFFICES ASSUME TrackInv, [Next]_vars PROVE TrackInv'
    OBVIOUS
  <2>1. CASE UNCHANGED <<overrides, active, eval>>
    BY <2>1 DEF TrackInv, OverridesTracked, RoundTracked
  <2>2. CASE UNCHANGED vars
    BY <2>1, <2>2 DEF vars, schedule
  <2> QED
    BY <2>1, <2>2, ScheduleFrame, BeginTracks, GroupTracks
<1>3. TrackInv => OverridesTracked
  BY DEF TrackInv
<1> QED
  BY <1>1, <1>2, <1>3, PTL DEF Spec

(***************************************************************************)
(* The tickets of the rebuilds                                             *)
(***************************************************************************)
Callers == Admins \cup {"sync", "job", "boot"}
Reloads == [ticket : Nat, fetch : {"ReuseHeld", "Redownload"}, by : Callers]

\* Some task is to rebuild for the ticket.
Queued(t) == \E q \in queue : q.ticket = t

TicketsTyped ==
    /\ tickets \in Nat /\ published \in Nat /\ published <= tickets /\ orphaned \in BOOLEAN
    /\ queue \subseteq Reloads /\ \A q \in queue : q.ticket <= tickets

\* The build under way is for a task of the queue and covers at least its ticket and what is published; the
\* tickets it does not cover have tasks of their own.
BuildCovers ==
    build.phase # "none" =>
        /\ DOMAIN build = {"phase", "q", "covered", "saw", "load", "rules", "next", "index"}
        /\ build.covered \in Nat /\ build.saw \in BOOLEAN
        /\ published <= build.covered /\ build.covered <= tickets
        /\ build.q \in queue /\ build.q.ticket <= build.covered
        /\ \A t \in 1..tickets : t <= build.covered \/ Queued(t)

\* Every reload that was asked for is in the published index or has a task that will rebuild for it, though
\* tasks skip the rebuilds that a later one covers.
ReloadsKept == orphaned \/ \A t \in 1..tickets : t <= published \/ Queued(t)

TicketInv == TicketsTyped /\ BuildCovers /\ ReloadsKept

rebuilds == <<mix, tickets, queue, build, published, orphaned>>

\* What a step may do to the tickets and the build: nothing, orphan a change, ask for a reload, or one of the
\* steps of rebuild_through.
Orphans ==
    /\ UNCHANGED <<mix, tickets, queue, published>>
    /\ \E gives \in BOOLEAN :
          /\ orphaned' = (orphaned \/ gives)
          /\ build' = IF build.phase = "none" THEN build ELSE [build EXCEPT !.saw = @ /\ ~gives]
Asks ==
    /\ UNCHANGED <<mix, build, published, orphaned>>
    /\ \E by \in Callers, fetch \in {"ReuseHeld", "Redownload"} : rebuild_detached(by, fetch)
BuildReads ==
    /\ UNCHANGED <<mix, tickets, queue, published, orphaned>> /\ build.phase # "none"
    /\ build'.phase # "none" /\ DOMAIN build' = DOMAIN build
    /\ build'.covered = build.covered /\ build'.saw = build.saw /\ build'.q = build.q

\* A read is followed by another or by the downloads, never by the end of the build.
LEMMA SourceReadsNamed ==
    /\ Range(SourceReads) = {"rows", "assigned", "groups"}
    /\ \A p \in Range(SourceReads) : After(SourceReads, p, "lists") \in {"assigned", "groups", "lists"}
<1>1. SourceReads = <<"rows", "assigned", "groups">> /\ DOMAIN SourceReads = 1..3 /\ Len(SourceReads) = 3
  BY DEF SourceReads
<1>2. SourceReads[1] = "rows" /\ SourceReads[2] = "assigned" /\ SourceReads[3] = "groups"
  BY DEF SourceReads
<1>3. Range(SourceReads) = {"rows", "assigned", "groups"}
  BY <1>1, <1>2 DEF Range
<1>4. ASSUME NEW p \in Range(SourceReads) PROVE After(SourceReads, p, "lists") \in {"assigned", "groups", "lists"}
  <2> DEFINE i == CHOOSE j \in DOMAIN SourceReads : SourceReads[j] = p
  <2>1. i \in DOMAIN SourceReads /\ SourceReads[i] = p
    BY <1>4, Zenon DEF Range
  <2>2. After(SourceReads, p, "lists") = IF i = Len(SourceReads) THEN "lists" ELSE SourceReads[i + 1]
    BY DEF After
  <2> HIDE DEF i
  <2>3. i = 1 \/ i = 2 \/ i = 3
    BY <1>1, <2>1
  <2> QED
    BY <1>1, <1>2, <2>2, <2>3
<1> QED
  BY <1>3, <1>4

LEMMA RuleReadsNamed ==
    /\ Range(RuleReads) = {"blocklist", "managed", "regexes", "whitelist", "whitelists"}
    /\ \A p \in Range(RuleReads) :
          After(RuleReads, p, "allowlists") \in {"managed", "regexes", "whitelist", "whitelists", "allowlists"}
<1>1. DOMAIN RuleReads = 1..5 /\ Len(RuleReads) = 5
  BY DEF RuleReads
<1>2. /\ RuleReads[1] = "blocklist" /\ RuleReads[2] = "managed" /\ RuleReads[3] = "regexes"
      /\ RuleReads[4] = "whitelist" /\ RuleReads[5] = "whitelists"
  BY DEF RuleReads
<1>3. Range(RuleReads) = {"blocklist", "managed", "regexes", "whitelist", "whitelists"}
  BY <1>1, <1>2 DEF Range
<1>4. ASSUME NEW p \in Range(RuleReads)
      PROVE  After(RuleReads, p, "allowlists") \in {"managed", "regexes", "whitelist", "whitelists", "allowlists"}
  <2> DEFINE i == CHOOSE j \in DOMAIN RuleReads : RuleReads[j] = p
  <2>1. i \in DOMAIN RuleReads /\ RuleReads[i] = p
    BY <1>4, Zenon DEF Range
  <2>2. After(RuleReads, p, "allowlists") = IF i = Len(RuleReads) THEN "allowlists" ELSE RuleReads[i + 1]
    BY DEF After
  <2> HIDE DEF i
  <2>3. i = 1 \/ i = 2 \/ i = 3 \/ i = 4 \/ i = 5
    BY <1>1, <2>1
  <2> QED
    BY <1>1, <1>2, <2>2, <2>3
<1> QED
  BY <1>3, <1>4

\* Nothing else happens to them.
LEMMA RebuildFrame ==
    ASSUME BuildCovers, Next
    PROVE  \/ UNCHANGED rebuilds \/ Orphans \/ Asks \/ BuildReads \/ PublishIndex \/ FailBuild
           \/ \E q \in queue : BeginBuild(q) \/ SkipBuild(q)
<1> USE DEF engine, counts, rebuilds
<1>1. ASSUME NEW a \in Admins, Accept(a) \/ load_client_groups_inner(a) \/ ReloadOthers(a)
      PROVE  UNCHANGED rebuilds
  BY <1>1 DEF Accept, load_client_groups_inner, ReloadOthers
<1>2. ASSUME NEW a \in Admins, NEW ends, Orphan(a, ends), UNCHANGED <<mix, tickets, queue, published>>
      PROVE  Orphans
  <2>1. \E gives : gives \in BOOLEAN /\ gives <=> (ends /\ task[a].wrote /\ Owes(a, {"reload"}))
    OBVIOUS
  <2> QED
    BY <1>2, <2>1 DEF Orphan, Orphans
<1>3. ASSUME NEW a \in Admins, Statement(a) PROVE Orphans
  BY <1>2, <1>3 DEF Statement
<1>4. ASSUME NEW a \in Admins, Fault(a) \/ Disconnect(a) PROVE Orphans
  BY <1>2, <1>4 DEF Fault, Disconnect
<1>5. ASSUME NEW a \in Admins, AskReload(a) PROVE Asks
  BY <1>5 DEF AskReload, Asks, Callers
<1>6. ASSUME NEW a \in Admins, SyncBlocklistSources(a) PROVE Asks \/ UNCHANGED rebuilds
  BY <1>6 DEF SyncBlocklistSources, Asks, Callers
<1>7. ASSUME refresh_lists PROVE Asks
  BY <1>7 DEF refresh_lists, Asks, Callers
<1>8. ASSUME LoadSources \/ Download \/ ReadRules \/ DownloadAllowed PROVE BuildReads
  <2>1. ASSUME NEW p, NEW load, p # "none", build.phase # "none",
               \/ build' = [build EXCEPT !.phase = p, !.load = load]
               \/ build' = [build EXCEPT !.phase = p, !.next = load]
               \/ build' = [build EXCEPT !.phase = p, !.rules = load]
               \/ build' = [build EXCEPT !.phase = p, !.index = load],
               UNCHANGED <<mix, tickets, queue, published, orphaned>>
        PROVE  BuildReads
    BY <2>1 DEF BuildReads, BuildCovers
  <2>2. CASE LoadSources
    <3>1. build.phase \in {"rows", "assigned", "groups"}
      BY <2>2, SourceReadsNamed DEF LoadSources
    <3>2. After(SourceReads, build.phase, "lists") # "none"
      BY <3>1, SourceReadsNamed
    <3>3. \E load : build' = [build EXCEPT !.phase = After(SourceReads, build.phase, "lists"), !.load = load]
      BY <2>2 DEF LoadSources
    <3> QED
      BY <2>1, <2>2, <3>1, <3>2, <3>3 DEF LoadSources
  <2>3. CASE Download
    <3>1. \E next : build' = [build EXCEPT !.phase = "blocklist", !.next = next]
      BY <2>3 DEF Download
    <3> QED
      BY <2>1, <2>3, <3>1 DEF Download
  <2>4. CASE ReadRules
    <3>1. build.phase \in {"blocklist", "managed", "regexes", "whitelist", "whitelists"}
      BY <2>4, RuleReadsNamed DEF ReadRules
    <3>2. After(RuleReads, build.phase, "allowlists") # "none"
      BY <3>1, RuleReadsNamed
    <3>3. \E rules : build' = [build EXCEPT !.phase = After(RuleReads, build.phase, "allowlists"), !.rules = rules]
      BY <2>4 DEF ReadRules
    <3> QED
      BY <2>1, <2>4, <3>1, <3>2, <3>3 DEF ReadRules
  <2>5. CASE DownloadAllowed
    <3>1. \E ix : build' = [build EXCEPT !.phase = "compiled", !.index = ix]
      BY <2>5 DEF DownloadAllowed
    <3> QED
      BY <2>1, <2>5, <3>1 DEF DownloadAllowed
  <2> QED
    BY <1>8, <2>2, <2>3, <2>4, <2>5
<1>9. ASSUME EvaluateBegin \/ Tick \/ (\E r \in eval : EvaluateGroup(r) \/ EvaluateFails(r)) PROVE UNCHANGED rebuilds
  BY <1>9 DEF EvaluateBegin, Tick, EvaluateGroup, EvaluateFails
<1>10. ASSUME NEW u \in DOMAIN web, Publish(u) PROVE UNCHANGED rebuilds
  BY <1>10 DEF Publish
<1> QED
  BY <1>1, <1>3, <1>4, <1>5, <1>6, <1>7, <1>8, <1>9, <1>10 DEF Next

\* A reload that is asked for waits among the others.
LEMMA AskKeeps == TicketInv /\ Asks => TicketInv'
<1> SUFFICES ASSUME TicketInv, Asks PROVE TicketInv'
  OBVIOUS
<1>1. PICK r \in Reloads : r.ticket = tickets + 1 /\ queue' = queue \cup {r} /\ tickets' = tickets + 1
  <2>1. PICK by \in Callers, fetch \in {"ReuseHeld", "Redownload"} : rebuild_detached(by, fetch)
    BY DEF Asks
  <2>2. [ticket |-> tickets + 1, fetch |-> fetch, by |-> by] \in Reloads
    BY <2>1 DEF Reloads, TicketInv, TicketsTyped
  <2> QED
    BY <2>1, <2>2 DEF rebuild_detached
<1>2. Reloads' = Reloads /\ UNCHANGED <<build, published, orphaned>>
  BY DEF Asks, Reloads, Callers, Admins
<1>3. \A q \in queue : q.ticket \in Nat /\ q.ticket <= tickets
  BY DEF TicketInv, TicketsTyped, Reloads
<1>4. \A t \in 1..tickets' : (t <= tickets /\ ~Queued(t)) \/ Queued(t)'
  BY <1>1 DEF Queued, TicketInv, TicketsTyped
<1>5. TicketsTyped'
  BY <1>1, <1>2, <1>3 DEF TicketInv, TicketsTyped
<1>6. BuildCovers'
  BY <1>1, <1>2, <1>4, SMTT(30) DEF TicketInv, TicketsTyped, BuildCovers
<1>7. ReloadsKept'
  BY <1>1, <1>2, <1>4 DEF TicketInv, TicketsTyped, ReloadsKept
<1> QED
  BY <1>5, <1>6, <1>7 DEF TicketInv

\* A task that had the lock ends.
LEMMA EndTakes ==
    ASSUME TicketInv, NEW q \in queue, EndBuild(q), UNCHANGED mix
    PROVE  /\ queue' \subseteq queue /\ Reloads' = Reloads /\ build'.phase = "none"
           /\ \A t : Queued(t) /\ t # q.ticket => Queued(t)'
<1>1. queue' = queue \ {q} /\ build' = NoBuild
  BY DEF EndBuild
<1>2. \A t : Queued(t) /\ t # q.ticket => Queued(t)'
  BY <1>1 DEF Queued
<1>3. Reloads' = Reloads /\ build'.phase = "none"
  BY <1>1 DEF Reloads, Callers, Admins, NoBuild
<1> QED
  BY <1>1, <1>2, <1>3

\* A task whose ticket is published already skips its rebuild and drops no ticket by it.
LEMMA SkipKeeps == ASSUME TicketInv, NEW q \in queue, SkipBuild(q) PROVE TicketInv'
<1>1. EndBuild(q) /\ UNCHANGED <<mix, tickets, published, orphaned>> /\ q.ticket <= published
  BY DEF SkipBuild, counts, Covered
<1>2. TicketsTyped'
  BY <1>1, EndTakes DEF TicketInv, TicketsTyped
<1>3. BuildCovers'
  BY <1>1, EndTakes DEF BuildCovers
<1>4. ReloadsKept'
  BY <1>1, EndTakes DEF TicketInv, ReloadsKept
<1> QED
  BY <1>2, <1>3, <1>4 DEF TicketInv

\* A build that begins covers every ticket issued by then.
LEMMA BeginKeeps == ASSUME TicketInv, NEW q \in queue, BeginBuild(q) PROVE TicketInv'
<1>1. /\ UNCHANGED <<mix, tickets, published, orphaned, queue>>
      /\ build' = [phase |-> "rows", q |-> q, covered |-> tickets, saw |-> TRUE,
                   load |-> <<>>, rules |-> <<>>, next |-> <<>>, index |-> EmptyIndex]
  BY DEF BeginBuild, counts
<1>2. TicketsTyped' /\ ReloadsKept'
  BY <1>1 DEF TicketInv, TicketsTyped, ReloadsKept, Queued, Reloads, Callers, Admins
<1>3. BuildCovers'
  BY <1>1 DEF TicketInv, TicketsTyped, BuildCovers
<1> QED
  BY <1>2, <1>3 DEF TicketInv

\* What is published covers what the build covered: the rest has tasks that wait.
LEMMA PublishKeeps == TicketInv /\ PublishIndex => TicketInv' /\ published' >= published
<1> SUFFICES ASSUME TicketInv, PublishIndex PROVE TicketInv' /\ published' >= published
  OBVIOUS
<1>1. /\ build.phase = "compiled" /\ published' = build.covered /\ orphaned' = (orphaned /\ ~build.saw)
      /\ EndBuild(build.q) /\ UNCHANGED <<mix, tickets>>
  BY DEF PublishIndex
<1>2. /\ build.covered \in Nat /\ published <= build.covered /\ build.covered <= tickets
      /\ build.q \in queue /\ build.q.ticket <= build.covered
      /\ \A t \in 1..tickets : t <= build.covered \/ Queued(t)
  BY <1>1 DEF TicketInv, BuildCovers
<1>3. TicketsTyped'
  BY <1>1, <1>2, EndTakes DEF TicketInv, TicketsTyped
<1>4. BuildCovers'
  BY <1>1, <1>2, EndTakes DEF BuildCovers
<1>5. ReloadsKept'
  BY <1>1, <1>2, EndTakes DEF TicketInv, ReloadsKept
<1> QED
  BY <1>1, <1>2, <1>3, <1>4, <1>5 DEF TicketInv, TicketsTyped

\* A build that fails leaves its change to the next one, which is remembered.
LEMMA FailKeeps == TicketInv /\ FailBuild => TicketInv'
<1> SUFFICES ASSUME TicketInv, FailBuild PROVE TicketInv'
  OBVIOUS
<1>1. build.phase # "none" /\ EndBuild(build.q) /\ orphaned' = TRUE /\ UNCHANGED <<mix, tickets, published>>
  BY SourceReadsNamed, RuleReadsNamed DEF FailBuild
<1>2. build.q \in queue
  BY <1>1 DEF TicketInv, BuildCovers
<1>o. orphaned' \in BOOLEAN
  BY <1>1, Zenon
<1>3. TicketsTyped'
  BY <1>1, <1>2, <1>o, EndTakes DEF TicketInv, TicketsTyped
<1>4. BuildCovers' /\ ReloadsKept'
  BY <1>1, <1>2, EndTakes DEF BuildCovers, ReloadsKept
<1> QED
  BY <1>3, <1>4 DEF TicketInv

\* The other steps of a build, and requests that end early, issue and end no ticket.
LEMMA OthersKeep == TicketInv /\ (UNCHANGED rebuilds \/ Orphans \/ BuildReads) => TicketInv'
<1> SUFFICES ASSUME TicketInv, UNCHANGED rebuilds \/ Orphans \/ BuildReads PROVE TicketInv'
  OBVIOUS
<1>1. UNCHANGED <<mix, tickets, queue, published>> /\ orphaned' \in BOOLEAN /\ (orphaned => orphaned')
  BY DEF rebuilds, Orphans, BuildReads, TicketInv, TicketsTyped
<1>2. /\ build'.phase = "none" <=> build.phase = "none"
      /\ build.phase # "none" =>
            /\ DOMAIN build' = DOMAIN build /\ build'.covered = build.covered /\ build'.saw \in BOOLEAN
            /\ build'.q = build.q
  BY DEF rebuilds, Orphans, BuildReads, TicketInv, BuildCovers
<1>3. TicketsTyped' /\ ReloadsKept'
  BY <1>1 DEF TicketInv, TicketsTyped, ReloadsKept, Queued, Reloads, Callers, Admins
<1>4. BuildCovers'
  BY <1>1, <1>2 DEF TicketInv, BuildCovers, Queued
<1> QED
  BY <1>3, <1>4 DEF TicketInv

\* TicketInv is inductive.
LEMMA StepKeepsTickets == TicketInv /\ [Next]_vars => TicketInv'
<1> SUFFICES ASSUME TicketInv, [Next]_vars PROVE TicketInv'
  OBVIOUS
<1>1. CASE UNCHANGED vars
  BY <1>1, OthersKeep DEF vars, engine, counts, rebuilds
<1>2. CASE Next
  <2>1. BuildCovers
    BY DEF TicketInv
  <2> QED
    BY <1>2, <2>1, RebuildFrame, OthersKeep, AskKeeps, BeginKeeps, SkipKeeps, PublishKeeps, FailKeeps
<1> QED
  BY <1>1, <1>2

\* The engine starts with its first build queued, or done.
LEMMA InitTickets == Init => TicketInv
<1> SUFFICES ASSUME Init PROVE TicketInv
  OBVIOUS
<1>1. tickets = 1 /\ build = NoBuild /\ orphaned = FALSE /\ (published = 1 \/ published = 0)
  BY DEF Init
<1>o. orphaned \in BOOLEAN
  BY <1>1, Zenon
<1>2. BuildCovers
  BY <1>1 DEF BuildCovers, NoBuild
<1>3. CASE published = 1
  <2>1. queue = {}
    BY <1>3 DEF Init
  <2> QED
    BY <1>1, <1>o, <1>2, <1>3, <2>1 DEF TicketInv, TicketsTyped, ReloadsKept
<1>4. CASE published = 0
  <2>1. queue = {[ticket |-> 1, fetch |-> "ReuseHeld", by |-> "boot"]}
    BY <1>4 DEF Init
  <2>2. queue \subseteq Reloads /\ \A q \in queue : q.ticket = 1
    BY <2>1 DEF Reloads, Callers
  <2>3. TicketsTyped
    BY <1>1, <1>o, <1>4, <2>2 DEF TicketsTyped
  <2>4. Queued(1)
    BY <2>1 DEF Queued
  <2>5. ReloadsKept
    BY <1>1, <2>4 DEF ReloadsKept
  <2> QED
    BY <1>2, <2>3, <2>5 DEF TicketInv
<1> QED
  BY <1>1, <1>3, <1>4

\* No reload is lost by the rebuilds that are skipped: once a change is committed and its ticket issued, the ticket
\* is covered by the published index or a task in the queue will rebuild for it, for any number of requests, jobs
\* and disconnections; only a build that failed is excepted, until the next one (rebuild_detached, rebuild_through).
THEOREM ReloadsAreKept == Spec => []ReloadsKept
<1>1. TicketInv => ReloadsKept
  BY DEF TicketInv
<1> QED
  BY <1>1, InitTickets, StepKeepsTickets, PTL DEF Spec

\* An index is never replaced by one of fewer tickets: builds run one at a time and each covers what was issued
\* when it took the lock (rebuild_through).
THEOREM PublishedOnlyGrows == Spec => [][published' >= published]_vars
<1>1. TicketInv /\ [Next]_vars => [published' >= published]_vars
  <2> SUFFICES ASSUME TicketInv, [Next]_vars PROVE published' >= published \/ UNCHANGED vars
    OBVIOUS
  <2>1. published \in Nat /\ BuildCovers
    BY DEF TicketInv, TicketsTyped
  <2>2. CASE UNCHANGED published
    BY <2>1, <2>2
  <2>3. CASE PublishIndex
    BY <2>3, PublishKeeps
  <2>4. Next => UNCHANGED published \/ PublishIndex
    BY <2>1, RebuildFrame DEF rebuilds, Orphans, Asks, BuildReads, BeginBuild, SkipBuild, FailBuild
  <2> QED
    BY <2>2, <2>3, <2>4
<1> QED
  BY <1>1, InitTickets, StepKeepsTickets, PTL DEF Spec

(***************************************************************************)
(* What evaluate, explain and the preview say of a name                    *)
(***************************************************************************)

\* Some allow rule, some deny rule of the operator and some list of the group match.
Allows(index0, n, g) == is_allowed(index0.allow, n, g) \/ RegexHits(index0, index0.allowRegex, n, g) # {}
Denies(index0, n, g) == ManagedDeny(index0, n, g) \/ RegexHits(index0, index0.blockRegex, n, g) # {}
ListsHit(index0, n, g) ==
    \/ ExactBits(index0, n, group_mask(index0, g)) # {}
    \/ SuffixLookup(index0.wildcard, n) \cap group_mask(index0, g) # {}
    \/ PatternBits(index0, n, group_mask(index0, g)) # {}

\* evaluate blocks what some rule or list matches and no allow rule.
LEMMA EvaluateBlocks ==
    ASSUME NEW ix, NEW n, NEW g
    PROVE  evaluate(ix, n, g).tier \in {"ManualDeny", "Block"}
               <=> ~Allows(ix, n, g) /\ (Denies(ix, n, g) \/ ListsHit(ix, n, g))
<1> DEFINE mask == group_mask(ix, g)
           exact == ExactBits(ix, n, mask)
           other == check_wildcard_and_patterns(ix, n, mask)
<1> HIDE DEF mask
<1>1. other # {} <=> SuffixLookup(ix.wildcard, n) \cap mask # {} \/ PatternBits(ix, n, mask) # {}
  BY DEF check_wildcard_and_patterns
<1> HIDE DEF exact, other
<1>2. /\ ManualAllow.tier = "ManualAllow" /\ NoMatch.tier = "NoMatch"
      /\ \A s, b : ManualDeny(s).tier = "ManualDeny" /\ classify_deny(s, b).tier \in {"ManualDeny", "Block"}
  BY DEF ManualAllow, NoMatch, ManualDeny, Block, classify_deny
<1>3. evaluate(ix, n, g) =
        IF Allows(ix, n, g) THEN ManualAllow
        ELSE IF ManagedDeny(ix, n, g) THEN ManualDeny("ManagedDomain")
        ELSE IF RegexHits(ix, ix.blockRegex, n, g) # {} THEN ManualDeny("RegexFilter")
        ELSE IF exact # {} THEN classify_deny("Blocklist", exact)
        ELSE IF other # {} THEN classify_deny("Blocklist", other)
        ELSE NoMatch
  BY DEF evaluate, exact, other, mask, Allows
<1>4. ListsHit(ix, n, g) <=> exact # {} \/ other # {}
  BY <1>1 DEF ListsHit, exact, mask
<1>5. CASE Allows(ix, n, g)
  BY <1>2, <1>3, <1>5
<1>6. CASE ~Allows(ix, n, g) /\ Denies(ix, n, g)
  BY <1>2, <1>3, <1>6 DEF Denies
<1>7. CASE ~Allows(ix, n, g) /\ ~Denies(ix, n, g)
  BY <1>2, <1>3, <1>4, <1>7 DEF Denies
<1> QED
  BY <1>5, <1>6, <1>7

\* explain finds an allow rule when evaluate does, and a deny rule or a list when evaluate does.
LEMMA ExplainBlocks ==
    ASSUME NEW ix, NEW n, NEW g
    PROVE  explain(ix, n, g).blocked <=> ~Allows(ix, n, g) /\ (Denies(ix, n, g) \/ ListsHit(ix, n, g))
<1> DEFINE mask == group_mask(ix, g)
           allows == collect_allow_matches(ix, n, g)
           managed == {[kind |-> "ManagedDomain", source |-> 0, type |-> t] : t \in
                          {x \in {"Exact", "Wildcard"} :
                              \/ x = "Exact" /\ <<g, n>> \in ix.denies
                              \/ x = "Wildcard" /\ \E e \in ix.denyWildcards :
                                                      e[1] = g /\ ProperSuffix(e[2], n)}}
           exact == collect_bit_matches(ix, ExactBits(ix, n, mask), "Exact")
           wild == collect_bit_matches(ix, SuffixLookup(ix.wildcard, n) \cap mask, "Wildcard")
           pats == collect_bit_matches(ix, PatternBits(ix, n, mask), "Pattern")
           regs == RegexMatches(RegexHits(ix, ix.blockRegex, n, g))
           blocks == managed \cup exact \cup wild \cup pats \cup regs
<1>1. explain(ix, n, g).blocked <=> allows = {} /\ blocks # {}
  BY DEF explain
<1>2. \A bits, type : collect_bit_matches(ix, bits, type) # {} <=> bits # {}
  BY DEF collect_bit_matches
<1>3. \A bits, type : collect_allow_bits(ix.allow, bits, type) # {} <=> bits # {}
  BY DEF collect_allow_bits
<1>4. \A type, P : Global(type, P) # {} <=> P
  BY DEF Global
<1>5. \A ids : RegexMatches(ids) # {} <=> ids # {}
  BY DEF RegexMatches
<1>6. managed # {} <=> ManagedDeny(ix, n, g)
  BY DEF ManagedDeny
<1>7. allows # {} <=> Allows(ix, n, g)
  <2> DEFINE named == {e[3] : e \in {x \in ix.allow.groupExact : x[1] = g /\ x[2] = n}}
             below == SuffixLookup(GroupTrie(ix.allow.groupWildcard, g), n)
             above == SuffixLookup(ix.allow.globalWildcard, n)
             hits == RegexHits(ix, ix.allowRegex, n, g)
  <2>1. allows = collect_allow_bits(ix.allow, named, "Exact")
                   \cup collect_allow_bits(ix.allow, below, "Wildcard")
                   \cup Global("Exact", n \in ix.allow.globalExact)
                   \cup Global("Wildcard", above # {}) \cup RegexMatches(hits)
    BY DEF collect_allow_matches
  <2>2. named # {} <=> \E e \in ix.allow.groupExact : e[1] = g /\ e[2] = n
    OBVIOUS
  <2> HIDE DEF named
  <2>3. is_allowed(ix.allow, n, g) <=> named # {} \/ below # {} \/ n \in ix.allow.globalExact \/ above # {}
    BY <2>2 DEF is_allowed
  <2> HIDE DEF below, above, hits, allows
  <2>4. /\ collect_allow_bits(ix.allow, named, "Exact") # {} <=> named # {}
        /\ collect_allow_bits(ix.allow, below, "Wildcard") # {} <=> below # {}
        /\ RegexMatches(hits) # {} <=> hits # {}
    BY <1>3, <1>5
  <2>5. /\ Global("Exact", n \in ix.allow.globalExact) # {} <=> n \in ix.allow.globalExact
        /\ Global("Wildcard", above # {}) # {} <=> above # {}
    BY DEF Global
  <2>6. allows # {} <=> named # {} \/ below # {} \/ n \in ix.allow.globalExact \/ above # {} \/ hits # {}
    BY <2>1, <2>4, <2>5
  <2> QED
    BY <2>3, <2>6 DEF Allows, hits
<1>8. /\ exact # {} <=> ExactBits(ix, n, mask) # {}
      /\ wild # {} <=> SuffixLookup(ix.wildcard, n) \cap mask # {}
      /\ pats # {} <=> PatternBits(ix, n, mask) # {}
      /\ regs # {} <=> RegexHits(ix, ix.blockRegex, n, g) # {}
  BY <1>2, <1>5
<1> HIDE DEF managed, exact, wild, pats, regs, allows
<1>9. blocks # {} <=> Denies(ix, n, g) \/ ListsHit(ix, n, g)
  BY <1>6, <1>8 DEF Denies, ListsHit
<1> QED
  BY <1>1, <1>7, <1>9

\* Where a row of a relation of the index shows in its lookups.
LEMMA RowsHit ==
    ASSUME NEW ix, NEW n, NEW x, NEW b, NEW mask, b \in mask
    PROVE  /\ <<n, b>> \in ix.exact => b \in ExactBits(ix, n, mask)
           /\ <<x, b>> \in ix.wildcard /\ ProperSuffix(x, n) => b \in SuffixLookup(ix.wildcard, n)
           /\ <<x, b>> \in ix.patterns /\ HitBy(x, n) => b \in PatternBits(ix, n, mask)
<1>0. \A y : <<y, b>>[1] = y /\ <<y, b>>[2] = b
  OBVIOUS
<1>1. ASSUME <<n, b>> \in ix.exact PROVE b \in ExactBits(ix, n, mask)
  <2>1. <<n, b>> \in {e \in ix.exact : e[1] = n}
    BY <1>0, <1>1
  <2> QED
    BY <1>0, <2>1 DEF ExactBits
<1>2. ASSUME <<x, b>> \in ix.wildcard, ProperSuffix(x, n) PROVE b \in SuffixLookup(ix.wildcard, n)
  <2>1. <<x, b>> \in {e \in ix.wildcard : ProperSuffix(e[1], n)}
    BY <1>0, <1>2
  <2> QED
    BY <1>0, <2>1 DEF SuffixLookup
<1>3. ASSUME <<x, b>> \in ix.patterns, HitBy(x, n) PROVE b \in PatternBits(ix, n, mask)
  <2>1. <<x, b>> \in {e \in ix.patterns : HitBy(e[1], n)}
    BY <1>0, <1>3
  <2> QED
    BY <1>0, <2>1 DEF PatternBits
<1> QED
  BY <1>1, <1>2, <1>3

\* A list alone blocks the names match_candidate says, as a list and not as the operator's own rule.
LEMMA CandidateBlocks ==
    ASSUME NEW entries, NEW n
    PROVE  evaluate(OnlyList(entries), n, 1).tier = "Block"
               <=> \/ n \in ExactOf(entries)
                   \/ \E s \in SuffixesOf(entries) : ProperSuffix(s, n)
                   \/ \E p \in PatternsOf(entries) : HitBy(p, n)
<1> DEFINE ix == OnlyList(entries)
           mask == {MANUAL, 1}
           exact == ExactBits(ix, n, mask)
           other == check_wildcard_and_patterns(ix, n, mask)
<1>1. /\ ix.exact = ExactOf(entries) \X {1}
      /\ ix.wildcard = SuffixesOf(entries) \X {1}
      /\ ix.patterns = PatternsOf(entries) \X {1}
      /\ ix.masks = [g \in {1} |-> mask]
      /\ ix.allow = EmptyIndex.allow
      /\ ix.denies = {} /\ ix.denyWildcards = {} /\ ix.allowRegex = {} /\ ix.blockRegex = {}
  BY DEF OnlyList, build_exact_and_wildcard, EmptyIndex
<1> HIDE DEF ix
<1>2. group_mask(ix, 1) = mask
  BY <1>1 DEF group_mask
<1>3. ~Allows(ix, n, 1) /\ ~Denies(ix, n, 1)
  BY <1>1 DEF Allows, Denies, is_allowed, EmptyIndex, ManagedDeny, RegexHits, SuffixLookup, GroupTrie
<1>4. ListsHit(ix, n, 1)
        <=> \/ n \in ExactOf(entries)
            \/ \E s \in SuffixesOf(entries) : ProperSuffix(s, n)
            \/ \E p \in PatternsOf(entries) : HitBy(p, n)
  <2>0. ASSUME NEW S, NEW s \in S PROVE <<s, 1>> \in S \X {1} /\ 1 \in mask
    OBVIOUS
  <2>1. ExactBits(ix, n, mask) # {} <=> n \in ExactOf(entries)
    <3>1. ASSUME n \in ExactOf(entries) PROVE 1 \in ExactBits(ix, n, mask)
      BY <1>1, <2>0, <3>1, RowsHit
    <3>2. ASSUME NEW b \in ExactBits(ix, n, mask) PROVE n \in ExactOf(entries)
      BY <1>1 DEF ExactBits
    <3> QED
      BY <3>1, <3>2
  <2>2. SuffixLookup(ix.wildcard, n) \cap mask # {} <=> \E s \in SuffixesOf(entries) : ProperSuffix(s, n)
    <3>1. ASSUME NEW s \in SuffixesOf(entries), ProperSuffix(s, n) PROVE 1 \in SuffixLookup(ix.wildcard, n)
      BY <1>1, <2>0, <3>1, RowsHit
    <3>2. ASSUME NEW b \in SuffixLookup(ix.wildcard, n)
          PROVE  \E s \in SuffixesOf(entries) : ProperSuffix(s, n)
      BY <1>1 DEF SuffixLookup
    <3> QED
      BY <3>1, <3>2
  <2>3. PatternBits(ix, n, mask) # {} <=> \E p \in PatternsOf(entries) : HitBy(p, n)
    <3>1. ASSUME NEW p \in PatternsOf(entries), HitBy(p, n) PROVE 1 \in PatternBits(ix, n, mask)
      BY <1>1, <2>0, <3>1, RowsHit
    <3>2. ASSUME NEW b \in PatternBits(ix, n, mask)
          PROVE  \E p \in PatternsOf(entries) : HitBy(p, n)
      BY <1>1 DEF PatternBits
    <3> QED
      BY <3>1, <3>2
  <2> QED
    BY <1>2, <2>1, <2>2, <2>3 DEF ListsHit
<1>5. MANUAL \notin exact /\ MANUAL \notin other
  <2>1. MANUAL \notin ExactBits(ix, n, mask)
    BY <1>1 DEF ExactBits, MANUAL
  <2>2. MANUAL \notin SuffixLookup(ix.wildcard, n)
    BY <1>1 DEF SuffixLookup, MANUAL
  <2>3. MANUAL \notin PatternBits(ix, n, mask)
    BY <1>1 DEF PatternBits, MANUAL
  <2> QED
    BY <2>1, <2>2, <2>3 DEF check_wildcard_and_patterns
<1>6. evaluate(ix, n, 1) = IF exact # {} THEN classify_deny("Blocklist", exact)
                           ELSE IF other # {} THEN classify_deny("Blocklist", other) ELSE NoMatch
  BY <1>2, <1>3 DEF evaluate, Allows, Denies
<1> HIDE DEF exact, other
<1>7. evaluate(ix, n, 1).tier # "ManualDeny"
  <2>1. \A b : MANUAL \notin b => classify_deny("Blocklist", b).tier = "Block"
    BY DEF classify_deny, Block
  <2> QED
    BY <1>5, <1>6, <2>1 DEF NoMatch
<1> QED
  BY <1>3, <1>4, <1>7, EvaluateBlocks DEF ix

\* The tools that predict agree with what is enforced, whatever the tables and the lists hold: `explain` says
\* blocked of a name just when evaluate blocks it, and match_candidate names just what the same lines would block
\* as a list of their own (BlockIndex::explain, match_candidate).
THEOREM PreviewsStayTrue == Spec => []PreviewsAgree
<1>1. PreviewsAgree
  <2>1. ASSUME NEW n \in Names, NEW g \in DOMAIN db.groups
        PROVE  explain(build.index, n, g).blocked
                   <=> evaluate(build.index, n, g).tier \in {"ManualDeny", "Block"}
    BY EvaluateBlocks, ExplainBlocks
  <2>2. ASSUME NEW u \in DOMAIN held
        PROVE  match_candidate(Names, held[u], {}).names
                   = {n \in Names : evaluate(OnlyList(parse_list_text(held[u])), n, 1).tier = "Block"}
    <3> DEFINE entries == parse_list_text(held[u])
    <3>1. match_candidate(Names, held[u], {}).names
            = {n \in Names : \/ n \in ExactOf(entries)
                             \/ \E s \in SuffixesOf(entries) : ProperSuffix(s, n)
                             \/ \E p \in PatternsOf(entries) : HitBy(p, n)}
      BY DEF match_candidate
    <3> HIDE DEF entries
    <3> QED
      BY <3>1, CandidateBlocks DEF entries
  <2> QED
    BY <2>1, <2>2 DEF PreviewsAgree
<1> QED
  BY <1>1, PTL

(***************************************************************************)
(* What compile_block_index makes of the tables and the lists held         *)
(***************************************************************************)

\* The index of the tables and the lists as they are.
Compiled == compile_block_index(load_sources(db), db, held)

\* The lists of a table that serve a group and whose text is held.
Serving(table, g) ==
    {s \in DOMAIN db[table] : db[table][s].enabled /\ g \in db[table][s].groups /\ db[table][s].url \in DOMAIN held}

\* What is held of a list.
EntriesOf(table, s) == parse_list_text(held[db[table][s].url])

\* A rule of the manual list covers the name only through a wildcard, and a list of the group holds the name
\* itself: the lookup stops at the exact entry and calls the block the list's.
Shadowed(n, g) ==
    /\ \E r \in db.blocklist : r.star /\ ProperSuffix(r.name, n)
    /\ \A r \in db.blocklist : RuleHits(r, n) => r.star
    /\ \E s \in Serving("blocklists", g) : n \in ExactOf(EntriesOf("blocklists", s))

\* What a list of entries hits, by the three kinds of lookup.
LEMMA EntriesHit ==
    ASSUME NEW text, NEW n, NEW patterns
    PROVE  (\E e \in parse_list_text(text) : EntryHits(e, n, patterns))
               <=> \/ n \in ExactOf(parse_list_text(text))
                   \/ \E s \in SuffixesOf(parse_list_text(text)) : ProperSuffix(s, n)
                   \/ patterns /\ \E p \in PatternsOf(parse_list_text(text)) : HitBy(p, n)
<1> DEFINE Kinds == {"Exact", "Wildcard", "DomainAndSubdomains", "Pattern"}
<1>1. \A e \in parse_list_text(text) : e.kind \in Kinds
  <2>1. ASSUME NEW line, NEW e \in parse_list_line(line) PROVE e.kind \in Kinds
    BY DEF parse_list_line
  <2> QED
    BY <2>1 DEF parse_list_text
<1> DEFINE entries == parse_list_text(text)
<1> HIDE DEF entries
<1>2. ASSUME NEW e \in entries
      PROVE  EntryHits(e, n, patterns) <=>
                \/ e.kind \in {"Exact", "DomainAndSubdomains"} /\ e.arg = n
                \/ e.kind \in {"Wildcard", "DomainAndSubdomains"} /\ ProperSuffix(e.arg, n)
                \/ e.kind \in {"Pattern"} /\ patterns /\ HitBy(e.arg, n)
  BY <1>1 DEF EntryHits, entries
<1>3. ASSUME NEW kinds, NEW x PROVE x \in Named(entries, kinds) <=> \E e \in entries : e.kind \in kinds /\ e.arg = x
  BY DEF Named
<1>4. n \in ExactOf(entries) <=> \E e \in entries : e.kind \in {"Exact", "DomainAndSubdomains"} /\ e.arg = n
  BY <1>3 DEF ExactOf
<1>5. (\E s \in SuffixesOf(entries) : ProperSuffix(s, n))
        <=> \E e \in entries : e.kind \in {"Wildcard", "DomainAndSubdomains"} /\ ProperSuffix(e.arg, n)
  BY <1>3 DEF SuffixesOf
<1>6. (\E p \in PatternsOf(entries) : HitBy(p, n))
        <=> \E e \in entries : e.kind \in {"Pattern"} /\ HitBy(e.arg, n)
  BY <1>3 DEF PatternsOf
<1>7. (\E e \in entries : EntryHits(e, n, patterns))
               <=> \/ n \in ExactOf(entries)
                   \/ \E s \in SuffixesOf(entries) : ProperSuffix(s, n)
                   \/ patterns /\ \E p \in PatternsOf(entries) : HitBy(p, n)
  BY <1>2, <1>4, <1>5, <1>6, Zenon
<1> QED
  BY <1>7 DEF entries

\* A list hits a name for a group when one that serves the group does.
LEMMA ListedBy ==
    ASSUME NEW n, NEW g, NEW table, NEW patterns
    PROVE  Listed(n, g, table, patterns)
               <=> \E s \in Serving(table, g) :
                       \/ n \in ExactOf(EntriesOf(table, s))
                       \/ \E x \in SuffixesOf(EntriesOf(table, s)) : ProperSuffix(x, n)
                       \/ patterns /\ \E p \in PatternsOf(EntriesOf(table, s)) : HitBy(p, n)
<1>1. ASSUME NEW s
      PROVE  (\E e \in EntriesOf(table, s) : EntryHits(e, n, patterns)) <=>
                       \/ n \in ExactOf(EntriesOf(table, s))
                       \/ \E x \in SuffixesOf(EntriesOf(table, s)) : ProperSuffix(x, n)
                       \/ patterns /\ \E p \in PatternsOf(EntriesOf(table, s)) : HitBy(p, n)
  BY EntriesHit DEF EntriesOf
<1>2. Listed(n, g, table, patterns)
        <=> \E s \in Serving(table, g) : \E e \in EntriesOf(table, s) : EntryHits(e, n, patterns)
  BY DEF Listed, Serving, EntriesOf, Range
<1> QED
  BY <1>1, <1>2

\* The managed rules and the expressions of a group, as the index holds them.
LEMMA RulesCompiled ==
    ASSUME NEW n, NEW g, NEW action
    PROVE  Said(n, g, action)
               <=> \/ <<g, n>> \in ManagedRules(db.managed, action, FALSE)
                   \/ \E e \in ManagedRules(db.managed, action, TRUE) : e[1] = g /\ ProperSuffix(e[2], n)
                   \/ RegexHits(Compiled, build_regex_filters(db.regexes, action), n, g) # {}
<1> DEFINE rows == Range(db.managed)
           On(r) == r.enabled /\ r.action = action /\ r.group = g
<1>1. <<g, n>> \in ManagedRules(db.managed, action, FALSE)
        <=> \E r \in rows : On(r) /\ ~r.rule.star /\ r.rule.name = n
  BY DEF ManagedRules
<1>2. (\E e \in ManagedRules(db.managed, action, TRUE) : e[1] = g /\ ProperSuffix(e[2], n))
        <=> \E r \in rows : On(r) /\ r.rule.star /\ ProperSuffix(r.rule.name, n)
  <2>1. ASSUME NEW e \in ManagedRules(db.managed, action, TRUE), e[1] = g, ProperSuffix(e[2], n)
        PROVE  \E r \in rows : On(r) /\ r.rule.star /\ ProperSuffix(r.rule.name, n)
    <3>1. PICK r \in rows : r.enabled /\ r.action = action /\ r.rule.star /\ e = <<r.group, r.rule.name>>
      BY DEF ManagedRules
    <3> QED
      BY <2>1, <3>1
  <2>2. ASSUME NEW r \in rows, On(r), r.rule.star, ProperSuffix(r.rule.name, n)
        PROVE  \E e \in ManagedRules(db.managed, action, TRUE) : e[1] = g /\ ProperSuffix(e[2], n)
    <3>1. <<g, r.rule.name>> \in ManagedRules(db.managed, action, TRUE)
      BY <2>2 DEF ManagedRules
    <3>2. <<g, r.rule.name>>[1] = g /\ <<g, r.rule.name>>[2] = r.rule.name
      OBVIOUS
    <3> QED
      BY <2>2, <3>1, <3>2
  <2> QED
    BY <2>1, <2>2
<1>3. RegexHits(Compiled, build_regex_filters(db.regexes, action), n, g) # {}
        <=> \E r \in Range(db.regexes) : On(r) /\ HitBy(r.pattern.name, n)
  <2>1. Compiled.regexes = [i \in DOMAIN db.regexes |-> db.regexes[i].pattern.name]
    BY DEF Compiled, compile_block_index
  <2>2. ASSUME NEW i \in RegexHits(Compiled, build_regex_filters(db.regexes, action), n, g)
        PROVE  \E r \in Range(db.regexes) : On(r) /\ HitBy(r.pattern.name, n)
    BY <2>1 DEF RegexHits, build_regex_filters, Range
  <2>3. ASSUME NEW i \in DOMAIN db.regexes, On(db.regexes[i]), HitBy(db.regexes[i].pattern.name, n)
        PROVE  i \in RegexHits(Compiled, build_regex_filters(db.regexes, action), n, g)
    <3>1. <<g, i>> \in build_regex_filters(db.regexes, action)
      BY <2>3 DEF build_regex_filters, HitBy
    <3>2. <<g, i>>[1] = g /\ <<g, i>>[2] = i
      OBVIOUS
    <3>3. <<g, i>> \in {x \in build_regex_filters(db.regexes, action) : x[1] = g /\ HitBy(Compiled.regexes[x[2]], n)}
      BY <2>1, <2>3, <3>1, <3>2
    <3> QED
      BY <3>2, <3>3 DEF RegexHits
  <2> QED
    BY <2>2, <2>3 DEF Range
<1>4. Said(n, g, action) <=>
        \/ \E r \in rows : On(r) /\ RuleHits(r.rule, n)
        \/ \E r \in Range(db.regexes) : On(r) /\ HitBy(r.pattern.name, n)
  BY DEF Said
<1>5. (\E r \in rows : On(r) /\ RuleHits(r.rule, n)) <=>
        \/ \E r \in rows : On(r) /\ ~r.rule.star /\ r.rule.name = n
        \/ \E r \in rows : On(r) /\ r.rule.star /\ ProperSuffix(r.rule.name, n)
  BY DEF RuleHits
<1> QED
  BY <1>1, <1>2, <1>3, <1>4, <1>5

\* The allow side of the index is what the rules, the allow lists and the manual allow list say.
LEMMA AllowsCompiled ==
    ASSUME NEW n, NEW g \in DOMAIN db.groups, NoUrl \notin DOMAIN held
    PROVE  Allows(Compiled, n, g)
               <=> \/ Said(n, g, "Allow") \/ Listed(n, g, "whitelists", FALSE)
                   \/ \E r \in db.whitelist : RuleHits(r, n)
<1> DEFINE allow == Compiled.allow
           wl == db.whitelists
           used == {a \in AllowAssignments(db) : wl[a[1]].url \in DOMAIN held}
           ids == {a[1] : a \in AllowAssignments(db)}
           Bit(s) == IF Cardinality({o \in ids : o < s}) < MaxBits THEN s ELSE UNNAMED
           Of(a) == parse_list_text(held[wl[a[1]].url])
           Rules(star) == {<<m[1], m[2], UNNAMED>> : m \in ManagedRules(db.managed, "Allow", star)}
<1>1. /\ allow.globalExact = {r.name : r \in {x \in db.whitelist : ~x.star}}
      /\ allow.globalWildcard = {<<r.name, UNNAMED>> : r \in {x \in db.whitelist : x.star}}
      /\ allow.groupExact = Rules(FALSE) \cup UNION {{<<a[2], m, Bit(a[1])>> : m \in ExactOf(Of(a))} : a \in used}
      /\ allow.groupWildcard = Rules(TRUE) \cup UNION {{<<a[2], m, Bit(a[1])>> : m \in SuffixesOf(Of(a))} : a \in used}
      /\ Compiled.allowRegex = build_regex_filters(db.regexes, "Allow")
  BY DEF Compiled, compile_block_index, build_allowlist_index
<1> HIDE DEF allow, Bit
<1>2. \A s : <<s, g>> \in used <=> s \in Serving("whitelists", g)
  <2>1. ASSUME NEW s \in Serving("whitelists", g) PROVE <<s, g>> \in used
    <3>1. <<s, g>> \in (DOMAIN wl) \X (DOMAIN db.groups) /\ <<s, g>>[1] = s /\ <<s, g>>[2] = g
      BY DEF Serving
    <3> QED
      BY <3>1 DEF Serving, AllowAssignments
  <2>2. ASSUME NEW s, <<s, g>> \in used PROVE s \in Serving("whitelists", g)
    BY <2>2 DEF Serving, AllowAssignments
  <2> QED
    BY <2>1, <2>2
<1>3. \A a \in used : a = <<a[1], a[2]>>
  BY DEF AllowAssignments
<1> HIDE DEF used
<1> DEFINE Hit(star, m) == IF star THEN ProperSuffix(m, n) ELSE m = n
           Rel(kinds) == UNION {{<<a[2], m, Bit(a[1])>> : m \in Named(Of(a), kinds)} : a \in used}
<1>4. ASSUME NEW kinds, NEW star \in BOOLEAN
      PROVE  (\E e \in Rel(kinds) : e[1] = g /\ Hit(star, e[2]))
                 <=> \E s \in Serving("whitelists", g) : \E m \in Named(EntriesOf("whitelists", s), kinds) : Hit(star, m)
  <2>1. ASSUME NEW e \in Rel(kinds), e[1] = g, Hit(star, e[2])
        PROVE  \E s \in Serving("whitelists", g) : \E m \in Named(EntriesOf("whitelists", s), kinds) : Hit(star, m)
    <3>1. PICK a \in used : \E m \in Named(Of(a), kinds) : e = <<a[2], m, Bit(a[1])>>
      OBVIOUS
    <3>2. PICK m \in Named(Of(a), kinds) : e = <<a[2], m, Bit(a[1])>>
      BY <3>1
    <3>3. a[2] = g /\ e[2] = m
      BY <2>1, <3>2
    <3>4. a[1] \in Serving("whitelists", g)
      BY <1>2, <1>3, <3>3
    <3>5. Of(a) = EntriesOf("whitelists", a[1])
      BY DEF EntriesOf
    <3> QED
      BY <2>1, <3>3, <3>4, <3>5
  <2>2. ASSUME NEW s \in Serving("whitelists", g), NEW m \in Named(EntriesOf("whitelists", s), kinds), Hit(star, m)
        PROVE  \E e \in Rel(kinds) : e[1] = g /\ Hit(star, e[2])
    <3> DEFINE e == <<g, m, Bit(s)>>
    <3>1. <<s, g>> \in used /\ <<s, g>>[1] = s /\ <<s, g>>[2] = g
      BY <1>2
    <3>2. m \in Named(Of(<<s, g>>), kinds)
      BY <3>1 DEF EntriesOf
    <3>3. e \in Rel(kinds)
      BY <3>1, <3>2
    <3>4. e[1] = g /\ e[2] = m
      OBVIOUS
    <3> QED
      BY <2>2, <3>3, <3>4
  <2> QED
    BY <2>1, <2>2
<1>5. ASSUME NEW star \in BOOLEAN
      PROVE  (\E e \in Rules(star) : e[1] = g /\ Hit(star, e[2]))
                 <=> \E m \in ManagedRules(db.managed, "Allow", star) : m[1] = g /\ Hit(star, m[2])
  <2>1. \A m : <<m[1], m[2], UNNAMED>>[1] = m[1] /\ <<m[1], m[2], UNNAMED>>[2] = m[2]
    OBVIOUS
  <2> HIDE DEF Hit
  <2> QED
    BY <2>1
<1> HIDE DEF Rules, Rel
<1>6. (\E e \in allow.groupExact : e[1] = g /\ e[2] = n)
        <=> \/ <<g, n>> \in ManagedRules(db.managed, "Allow", FALSE)
            \/ \E s \in Serving("whitelists", g) : n \in ExactOf(EntriesOf("whitelists", s))
  <2>1. allow.groupExact = Rules(FALSE) \cup Rel({"Exact", "DomainAndSubdomains"})
    BY <1>1 DEF ExactOf, Rel
  <2>2. (\E m \in ManagedRules(db.managed, "Allow", FALSE) : m[1] = g /\ m[2] = n)
          <=> <<g, n>> \in ManagedRules(db.managed, "Allow", FALSE)
    <3>1. \A m \in ManagedRules(db.managed, "Allow", FALSE) : m = <<m[1], m[2]>>
      BY DEF ManagedRules
    <3>2. <<g, n>>[1] = g /\ <<g, n>>[2] = n
      OBVIOUS
    <3> QED
      BY <3>1, <3>2
  <2>3. (\E e \in Rules(FALSE) : e[1] = g /\ e[2] = n) <=> <<g, n>> \in ManagedRules(db.managed, "Allow", FALSE)
    BY <1>5, <2>2
  <2>4. (\E e \in Rel({"Exact", "DomainAndSubdomains"}) : e[1] = g /\ e[2] = n)
          <=> \E s \in Serving("whitelists", g) : n \in ExactOf(EntriesOf("whitelists", s))
    BY <1>4 DEF ExactOf
  <2> QED
    BY <2>1, <2>3, <2>4
<1>7. SuffixLookup(GroupTrie(allow.groupWildcard, g), n) # {}
        <=> \/ \E e \in ManagedRules(db.managed, "Allow", TRUE) : e[1] = g /\ ProperSuffix(e[2], n)
            \/ \E s \in Serving("whitelists", g) : \E x \in SuffixesOf(EntriesOf("whitelists", s)) : ProperSuffix(x, n)
  <2>1. allow.groupWildcard = Rules(TRUE) \cup Rel({"Wildcard", "DomainAndSubdomains"})
    BY <1>1 DEF SuffixesOf, Rel
  <2>2. SuffixLookup(GroupTrie(allow.groupWildcard, g), n) # {}
          <=> \E e \in allow.groupWildcard : e[1] = g /\ ProperSuffix(e[2], n)
    <3> DEFINE trie == allow.groupWildcard
    <3> HIDE DEF trie
    <3>1. \A e : <<e[2], e[3]>>[1] = e[2]
      OBVIOUS
    <3>2. (\E e \in GroupTrie(trie, g) : ProperSuffix(e[1], n)) <=> \E e \in trie : e[1] = g /\ ProperSuffix(e[2], n)
      BY <3>1 DEF GroupTrie
    <3>3. SuffixLookup(GroupTrie(trie, g), n) # {} <=> \E e \in GroupTrie(trie, g) : ProperSuffix(e[1], n)
      BY DEF SuffixLookup
    <3> QED
      BY <3>2, <3>3 DEF trie
  <2>3. (\E e \in Rules(TRUE) : e[1] = g /\ ProperSuffix(e[2], n))
          <=> \E e \in ManagedRules(db.managed, "Allow", TRUE) : e[1] = g /\ ProperSuffix(e[2], n)
    BY <1>5
  <2>4. (\E e \in Rel({"Wildcard", "DomainAndSubdomains"}) : e[1] = g /\ ProperSuffix(e[2], n))
          <=> \E s \in Serving("whitelists", g) : \E x \in SuffixesOf(EntriesOf("whitelists", s)) : ProperSuffix(x, n)
    BY <1>4 DEF SuffixesOf
  <2> QED
    BY <2>1, <2>2, <2>3, <2>4
<1>8. n \in allow.globalExact \/ SuffixLookup(allow.globalWildcard, n) # {}
        <=> \E r \in db.whitelist : RuleHits(r, n)
  <2>1. n \in allow.globalExact <=> \E r \in db.whitelist : ~r.star /\ r.name = n
    BY <1>1
  <2>2. SuffixLookup(allow.globalWildcard, n) # {} <=> \E r \in db.whitelist : r.star /\ ProperSuffix(r.name, n)
    <3>1. \A r : <<r.name, UNNAMED>>[1] = r.name
      OBVIOUS
    <3>2. (\E e \in allow.globalWildcard : ProperSuffix(e[1], n))
            <=> \E r \in db.whitelist : r.star /\ ProperSuffix(r.name, n)
      BY <1>1, <3>1
    <3>3. SuffixLookup(allow.globalWildcard, n) # {} <=> \E e \in allow.globalWildcard : ProperSuffix(e[1], n)
      BY DEF SuffixLookup
    <3> QED
      BY <3>2, <3>3
  <2> QED
    BY <2>1, <2>2 DEF RuleHits
<1>9. Listed(n, g, "whitelists", FALSE)
        <=> \E s \in Serving("whitelists", g) :
                       \/ n \in ExactOf(EntriesOf("whitelists", s))
                       \/ \E x \in SuffixesOf(EntriesOf("whitelists", s)) : ProperSuffix(x, n)
  BY ListedBy
<1> QED
  BY <1>1, <1>6, <1>7, <1>8, <1>9, RulesCompiled DEF Allows, is_allowed, allow

\* Every enabled source has a bit of its own, none the manual list's, and no text is held of a source without url.
Compilable ==
    /\ load_sources(db).ids = {s \in DOMAIN db.blocklists : db.blocklists[s].enabled}
    /\ MANUAL \notin DOMAIN db.blocklists
    /\ NoUrl \notin DOMAIN held

\* The bits a group sees in the three lookups: the manual list's for a rule of it, a source's for an entry of a
\* list that serves the group.
LEMMA BitsCompiled ==
    ASSUME NEW n, NEW g \in DOMAIN db.groups, Compilable
    PROVE  LET mask == group_mask(Compiled, g)
               On == Serving("blocklists", g)
               Of(s) == EntriesOf("blocklists", s)
           IN  /\ MANUAL \in mask /\ MANUAL \notin On
               /\ \A b \in ExactBits(Compiled, n, mask) : b = MANUAL \/ (b \in On /\ n \in ExactOf(Of(b)))
               /\ \A b \in SuffixLookup(Compiled.wildcard, n) \cap mask :
                       b = MANUAL \/ (b \in On /\ \E x \in SuffixesOf(Of(b)) : ProperSuffix(x, n))
               /\ \A b \in PatternBits(Compiled, n, mask) : b \in On /\ \E p \in PatternsOf(Of(b)) : HitBy(p, n)
               /\ \A b \in On : /\ n \in ExactOf(Of(b)) => b \in ExactBits(Compiled, n, mask)
                                /\ (\E x \in SuffixesOf(Of(b)) : ProperSuffix(x, n))
                                        => b \in SuffixLookup(Compiled.wildcard, n) \cap mask
                                /\ (\E p \in PatternsOf(Of(b)) : HitBy(p, n)) => b \in PatternBits(Compiled, n, mask)
               /\ MANUAL \in ExactBits(Compiled, n, mask) <=> \E r \in db.blocklist : ~r.star /\ r.name = n
               /\ MANUAL \in SuffixLookup(Compiled.wildcard, n)
                       <=> \E r \in db.blocklist : r.star /\ ProperSuffix(r.name, n)
<1> DEFINE bl == db.blocklists
           load == load_sources(db)
           ids == {x \in DOMAIN load.url : load.url[x] \in DOMAIN held}
           entries == [s \in ids |-> parse_list_text(held[load.url[s]])]
           mask == group_mask(Compiled, g)
           On == Serving("blocklists", g)
           Of(s) == EntriesOf("blocklists", s)
<1>1. /\ load.ids = {s \in DOMAIN bl : bl[s].enabled}
      /\ load.url = [s \in {x \in load.ids : bl[x].url # NoUrl} |-> bl[s].url]
      /\ load.assigned = {a \in load.ids \X (DOMAIN db.groups) : a[2] \in bl[a[1]].groups}
      /\ load.groups = DOMAIN db.groups
  <2>1. NamedSources(db) = EnabledSources(db) /\ EnabledSources(db) = {s \in DOMAIN bl : bl[s].enabled}
    BY DEF Compilable, load_sources, EnabledSources
  <2>2. SourceUrls(db) = [s \in {x \in EnabledSources(db) : bl[x].url # NoUrl} |-> bl[s].url]
    BY <2>1 DEF SourceUrls
  <2>3. SourceGroups(db, NamedSources(db))
            = {a \in EnabledSources(db) \X (DOMAIN db.groups) : a[2] \in bl[a[1]].groups}
    BY <2>1 DEF SourceGroups
  <2>4. /\ load.ids = NamedSources(db) /\ load.url = SourceUrls(db)
        /\ load.assigned = SourceGroups(db, NamedSources(db)) /\ load.groups = DOMAIN db.groups
    BY DEF load_sources
  <2> HIDE DEF load
  <2> QED
    BY <2>1, <2>2, <2>3, <2>4
<1> HIDE DEF load
<1>2. /\ Compiled.masks = build_group_masks(load)
      /\ Compiled.exact = {<<r.name, MANUAL>> : r \in {x \in db.blocklist : ~x.star}}
                             \cup UNION {ExactOf(entries[s]) \X {s} : s \in DOMAIN entries}
      /\ Compiled.wildcard = {<<r.name, MANUAL>> : r \in {x \in db.blocklist : x.star}}
                             \cup UNION {SuffixesOf(entries[s]) \X {s} : s \in DOMAIN entries}
      /\ Compiled.patterns = UNION {PatternsOf(entries[s]) \X {s} : s \in DOMAIN entries}
  BY DEF Compiled, compile_block_index, build_exact_and_wildcard, load
<1>3. /\ DOMAIN entries = {s \in DOMAIN bl : bl[s].enabled /\ bl[s].url \in DOMAIN held}
      /\ \A s \in DOMAIN entries : entries[s] = Of(s)
  BY <1>1 DEF Compilable, EntriesOf
<1> HIDE DEF entries, ids
<1>4. mask = {MANUAL} \cup {s \in DOMAIN bl : bl[s].enabled /\ g \in bl[s].groups}
  <2>1. mask = {MANUAL} \cup {a[1] : a \in {x \in load.assigned : x[2] = g}}
    BY <1>1, <1>2 DEF group_mask, build_group_masks
  <2>2. ASSUME NEW s \in DOMAIN bl, bl[s].enabled, g \in bl[s].groups
        PROVE  s \in {a[1] : a \in {x \in load.assigned : x[2] = g}}
    <3>1. <<s, g>>[1] = s /\ <<s, g>>[2] = g /\ <<s, g>> \in load.ids \X (DOMAIN db.groups)
      BY <1>1, <2>2
    <3>2. <<s, g>> \in {x \in load.assigned : x[2] = g}
      BY <1>1, <2>2, <3>1
    <3> QED
      BY <3>1, <3>2
  <2>3. ASSUME NEW a \in {x \in load.assigned : x[2] = g}
        PROVE  a[1] \in DOMAIN bl /\ bl[a[1]].enabled /\ g \in bl[a[1]].groups
    BY <1>1
  <2> QED
    BY <2>1, <2>2, <2>3
<1>5. MANUAL \in mask /\ MANUAL \notin DOMAIN bl /\ MANUAL \notin On /\ MANUAL \notin DOMAIN entries
  BY <1>3, <1>4 DEF Compilable, Serving
<1>6. On = DOMAIN entries \cap mask
  BY <1>3, <1>4, <1>5 DEF Serving
<1> HIDE DEF mask, On
<1>7. ASSUME NEW x, NEW b
      PROVE  /\ <<x, b>> \in Compiled.exact <=>
                    \/ b = MANUAL /\ \E r \in db.blocklist : ~r.star /\ r.name = x
                    \/ b \in DOMAIN entries /\ x \in ExactOf(Of(b))
             /\ <<x, b>> \in Compiled.wildcard <=>
                    \/ b = MANUAL /\ \E r \in db.blocklist : r.star /\ r.name = x
                    \/ b \in DOMAIN entries /\ x \in SuffixesOf(Of(b))
             /\ <<x, b>> \in Compiled.patterns <=> b \in DOMAIN entries /\ x \in PatternsOf(Of(b))
  <2> HIDE DEF Of
  <2>1. <<x, b>> \in UNION {ExactOf(entries[s]) \X {s} : s \in DOMAIN entries}
          <=> b \in DOMAIN entries /\ x \in ExactOf(Of(b))
    BY <1>3
  <2>2. <<x, b>> \in UNION {SuffixesOf(entries[s]) \X {s} : s \in DOMAIN entries}
          <=> b \in DOMAIN entries /\ x \in SuffixesOf(Of(b))
    BY <1>3
  <2>3. <<x, b>> \in UNION {PatternsOf(entries[s]) \X {s} : s \in DOMAIN entries}
          <=> b \in DOMAIN entries /\ x \in PatternsOf(Of(b))
    BY <1>3
  <2>4. /\ <<x, b>> \in {<<r.name, MANUAL>> : r \in {y \in db.blocklist : ~y.star}}
              <=> b = MANUAL /\ \E r \in db.blocklist : ~r.star /\ r.name = x
        /\ <<x, b>> \in {<<r.name, MANUAL>> : r \in {y \in db.blocklist : y.star}}
              <=> b = MANUAL /\ \E r \in db.blocklist : r.star /\ r.name = x
    OBVIOUS
  <2> QED
    BY <1>2, <2>1, <2>2, <2>3, <2>4
<1>8. /\ \A e \in Compiled.exact : e = <<e[1], e[2]>>
      /\ \A e \in Compiled.wildcard : e = <<e[1], e[2]>>
      /\ \A e \in Compiled.patterns : e = <<e[1], e[2]>>
  BY <1>2
<1>9. ASSUME NEW b \in mask
      PROVE  /\ b \in ExactBits(Compiled, n, mask) <=> <<n, b>> \in Compiled.exact
             /\ b \in SuffixLookup(Compiled.wildcard, n)
                    <=> \E x : <<x, b>> \in Compiled.wildcard /\ ProperSuffix(x, n)
             /\ b \in PatternBits(Compiled, n, mask) <=> \E x : <<x, b>> \in Compiled.patterns /\ HitBy(x, n)
  <2> DEFINE ix == Compiled
  <2> HIDE DEF ix
  <2>1. b \in ExactBits(ix, n, mask) => <<n, b>> \in ix.exact
    BY <1>8 DEF ExactBits, ix
  <2>2. b \in SuffixLookup(ix.wildcard, n) => \E x : <<x, b>> \in ix.wildcard /\ ProperSuffix(x, n)
    BY <1>8 DEF SuffixLookup, ix
  <2>3. b \in PatternBits(ix, n, mask) => \E x : <<x, b>> \in ix.patterns /\ HitBy(x, n)
    BY <1>8 DEF PatternBits, ix
  <2> QED
    BY <2>1, <2>2, <2>3, RowsHit DEF ix
<1>10. /\ \A b \in ExactBits(Compiled, n, mask) : b \in mask
       /\ \A b \in PatternBits(Compiled, n, mask) : b \in mask
  BY DEF ExactBits, PatternBits
<1> HIDE DEF bl
<1>11. /\ \A b \in ExactBits(Compiled, n, mask) : b = MANUAL \/ (b \in On /\ n \in ExactOf(Of(b)))
       /\ \A b \in SuffixLookup(Compiled.wildcard, n) \cap mask :
              b = MANUAL \/ (b \in On /\ \E x \in SuffixesOf(Of(b)) : ProperSuffix(x, n))
       /\ \A b \in PatternBits(Compiled, n, mask) : b \in On /\ \E p \in PatternsOf(Of(b)) : HitBy(p, n)
  <2> HIDE DEF Of
  <2>1. ASSUME NEW b \in ExactBits(Compiled, n, mask) PROVE b = MANUAL \/ (b \in On /\ n \in ExactOf(Of(b)))
    <3>1. b \in mask /\ <<n, b>> \in Compiled.exact
      BY <1>9, <1>10
    <3>2. b = MANUAL \/ (b \in DOMAIN entries /\ n \in ExactOf(Of(b)))
      BY <1>7, <3>1
    <3> QED
      BY <1>6, <3>1, <3>2
  <2>2. ASSUME NEW b \in SuffixLookup(Compiled.wildcard, n) \cap mask
        PROVE  b = MANUAL \/ (b \in On /\ \E x \in SuffixesOf(Of(b)) : ProperSuffix(x, n))
    <3>1. b \in mask
      OBVIOUS
    <3>2. PICK x : <<x, b>> \in Compiled.wildcard /\ ProperSuffix(x, n)
      BY <1>9, <3>1
    <3>3. b = MANUAL \/ (b \in DOMAIN entries /\ x \in SuffixesOf(Of(b)))
      BY <1>7, <3>2
    <3> QED
      BY <1>6, <3>1, <3>2, <3>3
  <2>3. ASSUME NEW b \in PatternBits(Compiled, n, mask) PROVE b \in On /\ \E p \in PatternsOf(Of(b)) : HitBy(p, n)
    BY <1>6, <1>7, <1>9, <1>10
  <2> QED
    BY <2>1, <2>2, <2>3
<1>12. ASSUME NEW b \in On
       PROVE  /\ n \in ExactOf(Of(b)) => b \in ExactBits(Compiled, n, mask)
              /\ (\E x \in SuffixesOf(Of(b)) : ProperSuffix(x, n))
                     => b \in SuffixLookup(Compiled.wildcard, n) \cap mask
              /\ (\E p \in PatternsOf(Of(b)) : HitBy(p, n)) => b \in PatternBits(Compiled, n, mask)
  <2> HIDE DEF Of
  <2>1. b \in mask /\ b \in DOMAIN entries
    BY <1>6
  <2> QED
    BY <1>7, <1>9, <2>1
<1>13. /\ MANUAL \in ExactBits(Compiled, n, mask) <=> \E r \in db.blocklist : ~r.star /\ r.name = n
       /\ MANUAL \in SuffixLookup(Compiled.wildcard, n)
              <=> \E r \in db.blocklist : r.star /\ ProperSuffix(r.name, n)
  <2> HIDE DEF Of
  <2>1. /\ <<n, MANUAL>> \in Compiled.exact <=> \E r \in db.blocklist : ~r.star /\ r.name = n
        /\ \A x : <<x, MANUAL>> \in Compiled.wildcard <=> \E r \in db.blocklist : r.star /\ r.name = x
    BY <1>5, <1>7
  <2>2. /\ MANUAL \in ExactBits(Compiled, n, mask) <=> <<n, MANUAL>> \in Compiled.exact
        /\ MANUAL \in SuffixLookup(Compiled.wildcard, n)
              <=> \E x : <<x, MANUAL>> \in Compiled.wildcard /\ ProperSuffix(x, n)
    BY <1>5, <1>9
  <2>3. (\E x : <<x, MANUAL>> \in Compiled.wildcard /\ ProperSuffix(x, n))
          <=> \E r \in db.blocklist : r.star /\ ProperSuffix(r.name, n)
    BY <2>1, Zenon
  <2> QED
    BY <2>1, <2>2, <2>3
<1> QED
  BY <1>5, <1>11, <1>12, <1>13 DEF mask, On

\* What a build makes of the tables and the lists is right: for every name and every group, the index classifies the
\* name as the operator's rules, the manual lists and the lists of the group say, whatever the tables hold, except
\* where an exact entry of a list shadows a wildcard of the manual list (compile_block_index, build_allowlist_index,
\* evaluate).  With ReloadsAreKept this is the argument for IndexIsCurrent.
THEOREM CompilesRight ==
    ASSUME Compilable, NEW n, NEW g \in DOMAIN db.groups, ~Shadowed(n, g)
    PROVE  evaluate(compile_block_index(load_sources(db), db, held), n, g).tier = Tier(n, g)
<1> DEFINE mask == group_mask(Compiled, g)
           exact == ExactBits(Compiled, n, mask)
           wild == SuffixLookup(Compiled.wildcard, n) \cap mask
           pats == PatternBits(Compiled, n, mask)
           On == Serving("blocklists", g)
           Of(s) == EntriesOf("blocklists", s)
           ManualExact == \E r \in db.blocklist : ~r.star /\ r.name = n
           ManualWild == \E r \in db.blocklist : r.star /\ ProperSuffix(r.name, n)
<1>1. /\ MANUAL \in exact <=> ManualExact
      /\ MANUAL \in wild <=> ManualWild
      /\ MANUAL \notin pats
      /\ (exact \ {MANUAL} # {}) <=> \E s \in On : n \in ExactOf(Of(s))
      /\ exact \cup wild \cup pats # {} <=> ManualExact \/ ManualWild \/ Listed(n, g, "blocklists", TRUE)
  <2>1. Listed(n, g, "blocklists", TRUE)
          <=> \E s \in On : \/ n \in ExactOf(Of(s))
                            \/ \E x \in SuffixesOf(Of(s)) : ProperSuffix(x, n)
                            \/ \E p \in PatternsOf(Of(s)) : HitBy(p, n)
    BY ListedBy
  <2>2. /\ MANUAL \in mask /\ MANUAL \notin On
        /\ \A b \in exact : b = MANUAL \/ (b \in On /\ n \in ExactOf(Of(b)))
        /\ \A b \in wild : b = MANUAL \/ (b \in On /\ \E x \in SuffixesOf(Of(b)) : ProperSuffix(x, n))
        /\ \A b \in pats : b \in On /\ \E p \in PatternsOf(Of(b)) : HitBy(p, n)
        /\ \A b \in On : /\ n \in ExactOf(Of(b)) => b \in exact
                         /\ (\E x \in SuffixesOf(Of(b)) : ProperSuffix(x, n)) => b \in wild
                         /\ (\E p \in PatternsOf(Of(b)) : HitBy(p, n)) => b \in pats
        /\ MANUAL \in exact <=> ManualExact
        /\ MANUAL \in SuffixLookup(Compiled.wildcard, n) <=> ManualWild
    BY BitsCompiled
  <2>3. MANUAL \in wild <=> ManualWild
    BY <2>2
  <2> HIDE DEF mask, exact, wild, pats, On, Of, ManualExact, ManualWild
  <2>4. (exact \ {MANUAL} # {}) <=> \E s \in On : n \in ExactOf(Of(s))
    <3>1. ASSUME NEW b \in exact, b # MANUAL PROVE \E s \in On : n \in ExactOf(Of(s))
      BY <2>2, <3>1
    <3>2. ASSUME NEW s \in On, n \in ExactOf(Of(s)) PROVE s \in exact /\ s # MANUAL
      BY <2>2, <3>2
    <3> QED
      BY <3>1, <3>2
  <2>5. exact \cup wild \cup pats # {} <=> ManualExact \/ ManualWild \/ Listed(n, g, "blocklists", TRUE)
    <3>1. ASSUME NEW b \in exact \cup wild \cup pats, b # MANUAL PROVE Listed(n, g, "blocklists", TRUE)
      <4>1. CASE b \in exact
        BY <2>1, <2>2, <3>1, <4>1
      <4>2. CASE b \in wild
        BY <2>1, <2>2, <3>1, <4>2
      <4>3. CASE b \in pats
        BY <2>1, <2>2, <3>1, <4>3
      <4> QED
        BY <4>1, <4>2, <4>3
    <3>2. MANUAL \in exact \cup wild \cup pats <=> ManualExact \/ ManualWild
      BY <2>2, <2>3
    <3>3. ASSUME Listed(n, g, "blocklists", TRUE) PROVE exact \cup wild \cup pats # {}
      <4>1. PICK s \in On : \/ n \in ExactOf(Of(s))
                            \/ \E x \in SuffixesOf(Of(s)) : ProperSuffix(x, n)
                            \/ \E p \in PatternsOf(Of(s)) : HitBy(p, n)
        BY <2>1, <3>3
      <4>2. s \in exact \/ s \in wild \/ s \in pats
        BY <2>2, <4>1
      <4> QED
        BY <4>2
    <3> QED
      BY <3>1, <3>2, <3>3
  <2>6. MANUAL \notin pats
    BY <2>2
  <2> QED
    BY <2>2, <2>3, <2>4, <2>5, <2>6
<1>2. (\E r \in db.blocklist : RuleHits(r, n)) <=> ManualExact \/ ManualWild
  BY DEF RuleHits
<1>3. ~(ManualWild /\ ~ManualExact /\ exact \ {MANUAL} # {})
  BY <1>1 DEF Shadowed, RuleHits
<1>4. Denies(Compiled, n, g) <=> Said(n, g, "Deny")
  <2>1. /\ Compiled.denies = ManagedRules(db.managed, "Deny", FALSE)
        /\ Compiled.denyWildcards = ManagedRules(db.managed, "Deny", TRUE)
        /\ Compiled.blockRegex = build_regex_filters(db.regexes, "Deny")
    BY DEF Compiled, compile_block_index
  <2> QED
    BY <2>1, RulesCompiled DEF Denies, ManagedDeny
<1>5. evaluate(Compiled, n, g) =
        IF Allows(Compiled, n, g) THEN ManualAllow
        ELSE IF ManagedDeny(Compiled, n, g) THEN ManualDeny("ManagedDomain")
        ELSE IF RegexHits(Compiled, Compiled.blockRegex, n, g) # {} THEN ManualDeny("RegexFilter")
        ELSE IF exact # {} THEN classify_deny("Blocklist", exact)
        ELSE IF (IF wild # {} THEN wild ELSE pats) # {}
             THEN classify_deny("Blocklist", IF wild # {} THEN wild ELSE pats)
        ELSE NoMatch
  BY DEF evaluate, Allows, check_wildcard_and_patterns
<1>6. Allows(Compiled, n, g) <=> \/ Said(n, g, "Allow") \/ Listed(n, g, "whitelists", FALSE)
                                 \/ \E r \in db.whitelist : RuleHits(r, n)
  BY AllowsCompiled DEF Compilable
<1> HIDE DEF mask, exact, wild, pats, ManualExact, ManualWild
<1>7. evaluate(Compiled, n, g).tier =
        IF Allows(Compiled, n, g) THEN "ManualAllow"
        ELSE IF Denies(Compiled, n, g) THEN "ManualDeny"
        ELSE IF exact # {} THEN IF MANUAL \in exact THEN "ManualDeny" ELSE "Block"
        ELSE IF wild # {} THEN IF MANUAL \in wild THEN "ManualDeny" ELSE "Block"
        ELSE IF pats # {} THEN "Block" ELSE "NoMatch"
  BY <1>1, <1>5 DEF Denies, ManualAllow, NoMatch, ManualDeny, Block, classify_deny
<1>8. evaluate(Compiled, n, g).tier =
        IF Allows(Compiled, n, g) THEN "ManualAllow"
        ELSE IF Denies(Compiled, n, g) \/ ManualExact \/ ManualWild THEN "ManualDeny"
        ELSE IF Listed(n, g, "blocklists", TRUE) THEN "Block" ELSE "NoMatch"
  BY <1>1, <1>3, <1>7
<1> QED
  BY <1>2, <1>4, <1>6, <1>8 DEF Tier, Compiled

\* Every verdict the filter gives.
Verdicts == {NoMatch, ManualAllow} \cup {ManualDeny(s) : s \in Range(BlockSources)} \cup {Block(s) : s \in Range(BlockSources)}

\* The source of a byte and the byte of a source.
LEMMA SourceBytes ==
    ASSUME NEW s \in Range(BlockSources)
    PROVE  SourceByte(s) \in 1..14 /\ BlockSources[SourceByte(s)] = s
<1>1. DOMAIN BlockSources = 1..14
  BY DEF BlockSources
<1>2. \E i \in DOMAIN BlockSources : BlockSources[i] = s
  BY DEF Range
<1> QED
  BY <1>1, <1>2 DEF SourceByte

\* A decision the caches give back is the one that was stored, for every verdict and every source: the byte it is
\* kept as loses nothing (encode_verdict, decode_verdict).
THEOREM VerdictsDecode == \A v \in Verdicts : decode_verdict(encode_verdict(v)) = v
<1>0. DOMAIN BlockSources = 1..14 /\ CACHE_MANUAL = 128
  BY DEF BlockSources, CACHE_MANUAL
<1>1. decode_verdict(encode_verdict(NoMatch)) = NoMatch
  BY <1>0 DEF decode_verdict, encode_verdict, NoMatch
<1>2. decode_verdict(encode_verdict(ManualAllow)) = ManualAllow
  BY <1>0 DEF decode_verdict, encode_verdict, ManualAllow
<1>3. ASSUME NEW s \in Range(BlockSources) PROVE decode_verdict(encode_verdict(ManualDeny(s))) = ManualDeny(s)
  <2>1. encode_verdict(ManualDeny(s)) = CACHE_MANUAL + SourceByte(s)
    BY DEF encode_verdict, ManualDeny
  <2> DEFINE b == SourceByte(s)
  <2>2. b \in 1..14 /\ BlockSources[b] = s
    BY SourceBytes
  <2> HIDE DEF b
  <2>3. (128 + b) >= 128 /\ (128 + b) % 128 = b /\ b # 0
    BY <2>2
  <2>4. decode_verdict(CACHE_MANUAL + b) = ManualDeny(BlockSources[b])
    BY <1>0, <2>2, <2>3 DEF decode_verdict
  <2> QED
    BY <2>1, <2>2, <2>4 DEF b
<1>4. ASSUME NEW s \in Range(BlockSources) PROVE decode_verdict(encode_verdict(Block(s))) = Block(s)
  <2>1. encode_verdict(Block(s)) = SourceByte(s)
    BY DEF encode_verdict, Block
  <2> DEFINE b == SourceByte(s)
  <2>2. b \in 1..14 /\ BlockSources[b] = s
    BY SourceBytes
  <2> HIDE DEF b
  <2>3. ~(b >= 128) /\ b % 128 = b /\ b # 0
    BY <2>2
  <2>4. decode_verdict(b) = Block(BlockSources[b])
    BY <1>0, <2>2, <2>3 DEF decode_verdict
  <2> QED
    BY <2>1, <2>2, <2>4 DEF b
<1> QED
  BY <1>1, <1>2, <1>3, <1>4 DEF Verdicts

=============================================================================
