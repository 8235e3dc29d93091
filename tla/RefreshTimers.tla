--------------------------- MODULE RefreshTimers ---------------------------
(***************************************************************************)
(* The timers that renew and remove cache entries: DnsCache               *)
(* (crates/infrastructure/src/dns/cache/{storage,record,refresh,schedule,  *)
(* expiry}.rs) and the worker of cache_maintenance.rs.                     *)
(*                                                                         *)
(* Nothing scans the cache for dead entries.  An entry goes only when a    *)
(* timer or a claim that knows its key finds it dead, so the code rests on *)
(* "every entry the cache can lose has at least one timer pending at all   *)
(* times" (schedule.rs).  Stores, hits, the worker and the renewals run on *)
(* different threads; a timer is pushed after the lock of the map is let   *)
(* go; the pending second of a record moves by compare-and-swap.           *)
(*                                                                         *)
(* A map operation that writes a record excludes the readers that hold a   *)
(* guard on it (Guarded).  Timers and claims are sets: a second identical  *)
(* one finds the first one's work done.                                    *)
(***************************************************************************)
EXTENDS Integers, Sequences, FiniteSets

CONSTANTS
    Keys,          \* keys of positive entries
    NegativeKeys,  \* keys of negative entries
    LocalKeys,     \* keys the operator may give a local record
    NegativeTTL,   \* TTL of negative entries
    ThresholdPct,  \* refresh_threshold, in percent
    RetryAfter,    \* retry_lapsed_after_secs (cache_compaction_interval)
    RenewAhead,    \* optimistic refresh is on
    Permits,       \* MAX_CONCURRENT_REFRESHES permits
    Settings,      \* what the server may be started with, and who may be at work
    MaxRepairs,    \* bound on the repairs queued at once
    MaxTimers,     \* bound on the timers under way when an answer is stored
    MaxNow         \* bound on the clock

ASSUME TimersAssumption ==
    /\ LocalKeys \subseteq Keys
    /\ NegativeTTL \in Nat \ {0}
    /\ ThresholdPct \in 0..100
    /\ \A s \in Settings : /\ s.ttls \subseteq Nat /\ s.lead \in Nat /\ s.window \in Nat
                          /\ s.permits \subseteq Permits /\ s.negative \subseteq NegativeKeys
    /\ RetryAfter \in Nat \ {0}
    /\ RenewAhead \in BOOLEAN
    /\ {MaxRepairs, MaxTimers, MaxNow} \subseteq Nat

VARIABLES
    settings,  \* one of Settings
    now,       \* the coarse clock
    rec,       \* DnsCache.cache
    neg,       \* NegativeDnsCache: expiry of the entry of each key, or NoExpiry
    arming,    \* timers some thread is about to push (arm_timer)
    inbox,     \* TimerInbox
    schedule,  \* RefreshSchedule
    worker,    \* what the worker is doing
    wnow,      \* the worker's `now` of this tick, 0 between ticks
    cur,       \* the timer claim_due_refresh is at, or the claim to re-arm
    due,       \* claimed renewals waiting for a permit
    stale,     \* serve-stale repairs, in arrival order
    task,      \* what each permit is spent on
    hitting,   \* keys with a hit between record_hit and is_refresh_parked
    repairing  \* keys with a hit between try_set_refreshing and try_send

workerVars == <<worker, wnow, cur, due>>
vars == <<now, rec, neg, arming, inbox, schedule, worker, wnow, cur, due,
          stale, task, hitting, repairing>>

TTLs         == settings.ttls      \* TTLs after clamp_ttl
RefreshLead  == settings.lead      \* REFRESH_LEAD_SECS
AccessWindow == settings.window    \* access_window_secs

(***************************************************************************)
(* Records and timers                                                      *)
(***************************************************************************)

\* States of HotCounters.refresh_timer other than a pending second.
Lapsed  == 0
Parked  == -1
Claimed == -2

NoExpiry == 0

Absent == [kind |-> "absent", ins |-> 0, ttl |-> 0, timer |-> Lapsed, refreshing |-> "no",
           marked |-> "no", last |-> 0]

Timer(k, at, kind) == [key |-> k, at |-> at, kind |-> kind]
NoTimer == [kind |-> "none"]
NoTask  == [phase |-> "free"]

MaxOf(a, b) == IF a >= b THEN a ELSE b
MinOf(a, b) == IF a <= b THEN a ELSE b

\* schedule.rs refresh_due_at.
RefreshDueAt(ins, ttl) ==
    LET proportional == (ttl * ThresholdPct) \div 100
        lead == IF ttl > RefreshLead
                THEN MaxOf(ttl - RefreshLead, (ttl + 1) \div 2)
                ELSE ttl
    IN  ins + MaxOf(MinOf(proportional, lead), 1)

RenewsAhead(ttl) == RenewAhead /\ ttl # 0

Expires(r)  == r.ins + r.ttl
Deadline(r) == r.ins + 2 * r.ttl      \* refresh_deadline_secs
Cached(r)   == r.kind = "cached"

IsExpired(r, t) == Cached(r) /\ t >= Expires(r)
IsDead(r, t)    == Cached(r) /\ t >= Deadline(r)
Removable(r, t) == Cached(r) /\ (r.marked = "yes" \/ IsDead(r, t))
IsStale(r, t)   == IsExpired(r, t) /\ ~IsDead(r, t)

\* remaining_ttl_at_secs; a permanent record reports its TTL.
Remaining(r, t) == IF Cached(r) THEN MaxOf(Expires(r) - t, 0) ELSE r.ttl

\* is_worth_renewing.
Worth(r, t) ==
    /\ t - r.last <= AccessWindow
    /\ r.ttl >= RefreshLead \/ r.last >= r.ins

\* first_timer_at: the pending second it leaves, and the timer to arm.
FirstPending(ttl) == IF RenewsAhead(ttl) THEN RefreshDueAt(now, ttl) ELSE Lapsed
FirstTimerAt(ttl) == IF RenewsAhead(ttl) THEN RefreshDueAt(now, ttl) ELSE now + 2 * ttl

AllTimers  == arming \cup inbox \cup schedule
MoreTimers == Cardinality(AllTimers) < MaxTimers

\* A reader holds a guard on the entry, which keeps writers out.
Guarded(k) ==
    \/ k \in hitting \/ k \in repairing
    \/ worker \in {"judge", "park", "recheck"} /\ cur.key = k

Init ==
    /\ settings \in Settings
    /\ now = 1
    /\ rec = [k \in Keys |-> Absent]
    /\ neg = [k \in NegativeKeys |-> NoExpiry]
    /\ arming = {} /\ inbox = {} /\ schedule = {}
    /\ worker = "idle" /\ wnow = 0 /\ cur = NoTimer /\ due = {}
    /\ stale = <<>>
    /\ task = [p \in Permits |-> NoTask]
    /\ hitting = {} /\ repairing = {}

ClockTick ==
    /\ now < MaxNow
    /\ now' = now + 1
    /\ UNCHANGED <<rec, neg, arming, inbox, schedule, worker, wnow, cur, due,
                   stale, task, hitting, repairing>>

\* The push of arm_timer, after the map's lock is gone.
Push(t) ==
    /\ t \in arming
    /\ arming' = arming \ {t}
    /\ inbox' = inbox \cup {t}
    /\ UNCHANGED <<now, rec, neg, schedule, worker, wnow, cur, due, stale, task, hitting, repairing>>

(***************************************************************************)
(* The cache, as queries and the operator use it                           *)
(***************************************************************************)

\* `store` of a positive answer.  An upstream answer never replaces a local
\* record.
Store(k, ttl) ==
    /\ rec[k].kind # "permanent" /\ ~Guarded(k) /\ MoreTimers
    /\ rec' = [rec EXCEPT ![k] = [kind |-> "cached", ins |-> now, ttl |-> ttl,
                                  timer |-> FirstPending(ttl), refreshing |-> "no",
                                  marked |-> "no", last |-> now]]
    /\ arming' = arming \cup {Timer(k, FirstTimerAt(ttl), "due")}
    /\ UNCHANGED <<now, neg, inbox, schedule, workerVars, stale, task, hitting, repairing>>

\* `store` of a negative answer.
StoreNegative(k) ==
    /\ MoreTimers
    /\ neg' = [neg EXCEPT ![k] = now + NegativeTTL]
    /\ arming' = arming \cup {Timer(k, now + NegativeTTL, "negative")}
    /\ UNCHANGED <<now, rec, inbox, schedule, workerVars, stale, task, hitting, repairing>>

\* `insert_permanent`: a local record takes the key.
InsertPermanent(k, ttl) ==
    /\ ~Guarded(k)
    /\ rec' = [rec EXCEPT ![k] = [Absent EXCEPT !.kind = "permanent", !.ins = now, !.ttl = ttl,
                                                !.last = now]]
    /\ UNCHANGED <<now, neg, arming, inbox, schedule, workerVars, stale, task, hitting, repairing>>

\* Eviction, `clear` and `remove` of an entry the cache can lose, and the end of an
\* eviction pass, which retains no marked record, be it a local one.
Forget(k) ==
    /\ Cached(rec[k]) \/ rec[k].marked = "yes"
    /\ ~Guarded(k)
    /\ rec' = [rec EXCEPT ![k] = Absent]
    /\ UNCHANGED <<now, neg, arming, inbox, schedule, workerVars, stale, task, hitting, repairing>>

\* `remove` of a local record by the operator.
RemovePermanent(k) ==
    /\ rec[k].kind = "permanent" /\ ~Guarded(k)
    /\ rec' = [rec EXCEPT ![k] = Absent]
    /\ UNCHANGED <<now, neg, arming, inbox, schedule, workerVars, stale, task, hitting, repairing>>

\* Eviction or lazy expiry of a negative entry.
ForgetNegative(k) ==
    /\ neg[k] # NoExpiry
    /\ neg' = [neg EXCEPT ![k] = NoExpiry]
    /\ UNCHANGED <<now, rec, arming, inbox, schedule, workerVars, stale, task, hitting, repairing>>

\* A hit of `get`, or the batch an L1 copy hands over: record_hit ...
HitRecord(k) ==
    /\ Cached(rec[k]) /\ k \notin hitting
    /\ rec' = [rec EXCEPT ![k].last = now]
    /\ hitting' = hitting \cup {k}
    /\ UNCHANGED <<now, neg, arming, inbox, schedule, workerVars, stale, task, repairing>>

\* ... then, under the same guard, is_refresh_parked and rearm_refresh.
HitRearm(k) ==
    /\ k \in hitting
    /\ hitting' = hitting \ {k}
    /\ IF rec[k].timer = Parked /\ RenewsAhead(rec[k].ttl)
       THEN LET at == RefreshDueAt(rec[k].ins, rec[k].ttl) IN
            /\ rec' = [rec EXCEPT ![k].timer = at]
            /\ arming' = arming \cup {Timer(k, at, "due")}
       ELSE UNCHANGED <<rec, arming>>
    /\ UNCHANGED <<now, neg, inbox, schedule, workerVars, stale, task, repairing>>

\* A hit on an expired entry still inside its grace: the one that sets the
\* in-flight bit queues a repair ...
StaleHit(k) ==
    /\ IsStale(rec[k], now)
    /\ IF rec[k].refreshing = "no"
       THEN /\ rec' = [rec EXCEPT ![k].last = now, ![k].refreshing = "yes"]
            /\ repairing' = repairing \cup {k}
       ELSE /\ rec' = [rec EXCEPT ![k].last = now]
            /\ UNCHANGED repairing
    /\ UNCHANGED <<now, neg, arming, inbox, schedule, workerVars, stale, task, hitting>>

\* ... under the same guard.  Whether the channel has room is open: a full one
\* drops the repair, and the hit clears the bit again.
StaleSend(k, room) ==
    /\ k \in repairing
    /\ room => Len(stale) < MaxRepairs
    /\ repairing' = repairing \ {k}
    /\ IF room
       THEN stale' = Append(stale, k) /\ UNCHANGED rec
       ELSE rec' = [rec EXCEPT ![k].refreshing = "no"] /\ UNCHANGED stale
    /\ UNCHANGED <<now, neg, arming, inbox, schedule, workerVars, task, hitting>>

\* An eviction pass marks an expired entry nobody asked for of late, or whatever
\* took its key since the pass walked the map, a local record too.
EvictMark(k) ==
    /\ rec[k].kind # "absent" /\ rec[k].marked = "no"
    /\ rec' = [rec EXCEPT ![k].marked = "yes"]
    /\ UNCHANGED <<now, neg, arming, inbox, schedule, workerVars, stale, task, hitting, repairing>>

\* A hit on a dead entry marks it.
DeadHit(k) ==
    /\ IsDead(rec[k], now) /\ rec[k].marked = "no"
    /\ rec' = [rec EXCEPT ![k].marked = "yes"]
    /\ UNCHANGED <<now, neg, arming, inbox, schedule, workerVars, stale, task, hitting, repairing>>

(***************************************************************************)
(* The worker's tick                                                       *)
(***************************************************************************)

\* collect_timers; the timers take_due takes are the due ones of the schedule.
TickStart ==
    /\ worker = "idle"
    /\ worker' = "fire"
    /\ wnow' = now
    /\ schedule' = schedule \cup inbox
    /\ inbox' = {}
    /\ UNCHANGED <<now, rec, neg, arming, cur, due, stale, task, hitting, repairing>>

\* remove_dead, which looks again under the map's write lock.
RemoveDead(k, t) ==
    IF Removable(rec[k], t)
    THEN ~Guarded(k) /\ rec' = [rec EXCEPT ![k] = Absent]
    ELSE UNCHANGED rec

\* The next timer of the batch, earliest second first.
Firing == {t \in schedule : t.at <= wnow}
NextFiring(t) == t \in Firing /\ \A u \in Firing : t.at <= u.at

\* expire_negative.
FireNegative(t) ==
    /\ worker = "fire" /\ NextFiring(t) /\ t.kind = "negative"
    /\ schedule' = schedule \ {t}
    /\ neg' = [neg EXCEPT ![t.key] = IF @ <= wnow THEN NoExpiry ELSE @]
    /\ UNCHANGED <<now, rec, arming, inbox, worker, wnow, cur, due, stale, task, hitting, repairing>>

\* claim_due_refresh on an entry that is gone, local, dead or marked, or whose
\* pending second is another one.
FireSpent(t) ==
    /\ worker = "fire" /\ NextFiring(t) /\ t.kind # "negative"
    /\ ~Cached(rec[t.key]) \/ Removable(rec[t.key], wnow) \/ rec[t.key].timer # t.at
    /\ schedule' = schedule \ {t}
    /\ RemoveDead(t.key, wnow)
    /\ UNCHANGED <<now, neg, arming, inbox, worker, wnow, cur, due, stale, task, hitting, repairing>>

\* claim_due_refresh takes the timer of a usable entry.
FireClaim(t) ==
    /\ worker = "fire" /\ NextFiring(t) /\ t.kind # "negative"
    /\ Cached(rec[t.key]) /\ ~Removable(rec[t.key], wnow) /\ rec[t.key].timer = t.at
    /\ schedule' = schedule \ {t}
    /\ rec' = [rec EXCEPT ![t.key].timer = Claimed]
    /\ worker' = "judge" /\ cur' = t
    /\ UNCHANGED <<now, neg, arming, inbox, wnow, due, stale, task, hitting, repairing>>

Claim(t) == [key |-> t.key, retry |-> (t.kind = "retry"), deadline |-> Deadline(rec[t.key])]

\* Worth renewing: the claim joins the heap.  Else the entry is to be parked.
Judge ==
    /\ worker = "judge"
    /\ IF Worth(rec[cur.key], wnow)
       THEN /\ due' = due \cup {Claim(cur)}
            /\ worker' = "fire" /\ cur' = NoTimer
       ELSE /\ worker' = "park"
            /\ UNCHANGED <<due, cur>>
    /\ UNCHANGED <<now, rec, neg, arming, inbox, schedule, wnow, stale, task, hitting, repairing>>

\* Mutant: parking does not look at the hits again.
ParkBlindly ==
    /\ worker = "park"
    /\ rec' = [rec EXCEPT ![cur.key].timer = Parked]
    /\ arming' = arming \cup {Timer(cur.key, Deadline(rec[cur.key]), "due")}
    /\ worker' = "fire" /\ cur' = NoTimer
    /\ UNCHANGED <<now, neg, inbox, schedule, wnow, due, stale, task, hitting, repairing>>

\* park_claimed_refresh.
Park ==
    /\ worker = "park"
    /\ rec' = [rec EXCEPT ![cur.key].timer = Parked]
    /\ worker' = "recheck"
    /\ UNCHANGED <<now, neg, arming, inbox, schedule, wnow, cur, due, stale, task, hitting, repairing>>

\* A hit that came between is seen here; otherwise the entry gets the timer of
\* its death.
Recheck ==
    /\ worker = "recheck"
    /\ worker' = "fire" /\ cur' = NoTimer
    /\ IF Worth(rec[cur.key], wnow) /\ rec[cur.key].timer = Parked
       THEN /\ rec' = [rec EXCEPT ![cur.key].timer = Claimed]
            /\ due' = due \cup {Claim(cur)}
            /\ UNCHANGED arming
       ELSE /\ arming' = arming \cup {Timer(cur.key, Deadline(rec[cur.key]), "due")}
            /\ UNCHANGED <<rec, due>>
    /\ UNCHANGED <<now, neg, inbox, schedule, wnow, stale, task, hitting, repairing>>

Fired == worker = "fire" /\ Firing = {}

\* Mutant: a dead claim is dropped and its entry left where it is.
GiveUpClaimOnly(c) ==
    /\ Fired /\ c \in due /\ c.deadline <= wnow
    /\ due' = due \ {c}
    /\ UNCHANGED <<now, rec, neg, arming, inbox, schedule, worker, wnow, cur, stale, task, hitting, repairing>>

\* give_up_dead_claims: a claim holds no timer, so the worker looks itself.
GiveUp(c) ==
    /\ Fired /\ c \in due /\ c.deadline <= wnow
    /\ due' = due \ {c}
    /\ RemoveDead(c.key, wnow)
    /\ UNCHANGED <<now, neg, arming, inbox, schedule, worker, wnow, cur, stale, task,
                   hitting, repairing>>

\* The sweep of the timers whose entry is gone, in budgeted steps.
Held(t) == IF t.kind = "negative" THEN neg[t.key] # NoExpiry ELSE rec[t.key].kind # "absent"

Sweep ==
    /\ Fired /\ \A c \in due : c.deadline > wnow
    /\ worker' = "idle" /\ wnow' = 0
    /\ \E gone \in SUBSET {t \in schedule : ~Held(t)} : schedule' = schedule \ gone
    /\ UNCHANGED <<now, rec, neg, arming, inbox, cur, due, stale, task, hitting, repairing>>

(***************************************************************************)
(* Renewals                                                                *)
(***************************************************************************)

\* rearm_lapsed.
RearmLapsed(k) ==
    LET r  == rec[k]
        at == IF Cached(r) THEN MinOf(now + RetryAfter, Deadline(r)) ELSE now + RetryAfter
    IN  IF r.kind # "absent" /\ RenewsAhead(r.ttl) /\ r.timer = Lapsed
        THEN /\ rec' = [rec EXCEPT ![k].timer = at]
             /\ arming' = arming \cup {Timer(k, at, "due")}
        ELSE UNCHANGED <<rec, arming>>

\* start_next on a queued repair, always before a claim.
StartRepair(p) ==
    /\ worker = "idle" /\ task[p] = NoTask /\ stale # <<>>
    /\ stale' = Tail(stale)
    /\ task' = [task EXCEPT ![p] = [phase |-> "resolve", key |-> Head(stale), origin |-> "stale"]]
    /\ UNCHANGED <<now, rec, neg, arming, inbox, schedule, workerVars, hitting, repairing>>

\* start_next on a claim (any one: the heap only ranks them), and
\* start_claimed_refresh.
StartClaim(p, c) ==
    LET k == c.key IN
    /\ worker = "idle" /\ task[p] = NoTask /\ stale = <<>> /\ c \in due
    /\ due' = due \ {c}
    /\ IF ~Cached(rec[k]) \/ rec[k].timer # Claimed
       THEN UNCHANGED <<rec, task, worker, cur>>
       ELSE IF Removable(rec[k], now)
       THEN RemoveDead(k, now) /\ UNCHANGED <<task, worker, cur>>
       ELSE IF rec[k].refreshing = "no"
       THEN /\ rec' = [rec EXCEPT ![k].timer = Lapsed, ![k].refreshing = "yes"]
            /\ task' = [task EXCEPT ![p] = [phase |-> "resolve", key |-> k,
                                            origin |-> IF c.retry THEN "retry" ELSE "due"]]
            /\ UNCHANGED <<worker, cur>>
       ELSE /\ rec' = [rec EXCEPT ![k].timer = Lapsed]
            /\ worker' = "rearm" /\ cur' = Timer(k, now, "due")
            /\ UNCHANGED task
    /\ UNCHANGED <<now, neg, arming, inbox, schedule, wnow, stale, hitting, repairing>>

\* Standing down for a repair, start_claimed_refresh arms the next timer.
WorkerRearm ==
    /\ worker = "rearm"
    /\ RearmLapsed(cur.key)
    /\ worker' = "idle" /\ cur' = NoTimer
    /\ UNCHANGED <<now, neg, inbox, schedule, wnow, due, stale, task, hitting, repairing>>

Running(p, phase) == task[p].phase = phase

\* The renewal ends without an answer to store: outcome is "kept" (not
\* validated, nothing to store), "servfail" (AllUpstreamsServfail) or "failed".
ResolveNothing(p, outcome) ==
    /\ Running(p, "resolve")
    /\ task' = [task EXCEPT ![p] = [phase |-> "follow_up", key |-> @.key, origin |-> @.origin,
                                    outcome |-> outcome]]
    /\ UNCHANGED <<now, rec, neg, arming, inbox, schedule, workerVars, stale, hitting, repairing>>

\* A Bogus answer: refresh_entry removes whatever the key holds.
ResolveBogus(p) ==
    /\ Running(p, "resolve")
    /\ ~Guarded(task[p].key)
    /\ rec' = [rec EXCEPT ![task[p].key] = Absent]
    /\ task' = [task EXCEPT ![p] = [phase |-> "follow_up", key |-> @.key, origin |-> @.origin,
                                    outcome |-> "removed"]]
    /\ UNCHANGED <<now, neg, arming, inbox, schedule, workerVars, stale, hitting, repairing>>

\* An answer of ttl; a renewal on a timer declines a positive one that would
\* not extend a live entry.
ResolveAnswer(p, ttl, positive) ==
    LET remaining == Remaining(rec[task[p].key], now) IN
    /\ Running(p, "resolve")
    /\ IF task[p].origin # "stale" /\ positive /\ remaining > 0 /\ ttl <= remaining
       THEN task' = [task EXCEPT ![p] = [phase |-> "follow_up", key |-> @.key,
                                         origin |-> @.origin, outcome |-> "declined"]]
       ELSE task' = [task EXCEPT ![p] = [phase |-> "store", key |-> @.key,
                                         origin |-> @.origin, ttl |-> ttl]]
    /\ UNCHANGED <<now, rec, neg, arming, inbox, schedule, workerVars, stale, hitting, repairing>>

\* refresh_record_of: the new lifetime replaces the pending timer.
Renew(p) ==
    LET k == task[p].key IN
    /\ Running(p, "store")
    /\ IF Cached(rec[k]) /\ rec[k].marked = "no"
       THEN /\ ~Guarded(k)
            /\ rec' = [rec EXCEPT ![k].ins = now, ![k].ttl = task[p].ttl,
                                  ![k].timer = FirstPending(task[p].ttl),
                                  ![k].refreshing = "no"]
            /\ arming' = arming \cup {Timer(k, FirstTimerAt(task[p].ttl), "due")}
            /\ task' = [task EXCEPT ![p] = NoTask]
       ELSE /\ task' = [task EXCEPT ![p] = [phase |-> "follow_up", key |-> k,
                                            origin |-> @.origin, outcome |-> "kept"]]
            /\ UNCHANGED <<rec, arming>>
    /\ UNCHANGED <<now, neg, inbox, schedule, workerVars, stale, hitting, repairing>>

\* RefreshOrigin::retry_in: seconds to the one more attempt, or -1 for none.
RetryIn(origin, outcome, remaining) ==
    CASE origin = "due" /\ outcome = "declined" /\ remaining >= 2 -> remaining - 1
      [] origin \in {"due", "retry"} /\ outcome = "declined"
         /\ ~(origin = "due" /\ remaining >= 2) -> remaining
      [] origin = "due" /\ outcome = "servfail" /\ remaining >= 2 -> remaining \div 2
      [] OTHER -> -1

\* schedule_retry.
ScheduleRetry(k, in) ==
    IF rec[k].kind # "absent" /\ rec[k].timer = Lapsed
    THEN /\ rec' = [rec EXCEPT ![k].timer = now + in]
         /\ arming' = arming \cup {Timer(k, now + in, "retry")}
    ELSE UNCHANGED <<rec, arming>>

\* follow_up of a renewal that did not renew: the next timer first ...
FollowUp(p) ==
    LET k  == task[p].key
        in == RetryIn(task[p].origin, task[p].outcome, Remaining(rec[k], now))
    IN
    /\ Running(p, "follow_up")
    /\ IF in >= 0 THEN ScheduleRetry(k, in) ELSE RearmLapsed(k)
    /\ task' = [task EXCEPT ![p] = [phase |-> "reset", key |-> k]]
    /\ UNCHANGED <<now, neg, inbox, schedule, workerVars, stale, hitting, repairing>>

\* ... then reset_refreshing, and the permit is free.
ResetRefreshing(p) ==
    LET k == task[p].key IN
    /\ Running(p, "reset")
    /\ rec' = [rec EXCEPT ![k].refreshing = "no"]
    /\ task' = [task EXCEPT ![p] = NoTask]
    /\ UNCHANGED <<now, neg, arming, inbox, schedule, workerVars, stale, hitting, repairing>>

(***************************************************************************)
(* Specification                                                           *)
(***************************************************************************)

Traffic(k) ==
    \/ \E ttl \in TTLs : Store(k, ttl)
    \/ Forget(k) \/ EvictMark(k) \/ HitRecord(k) \/ DeadHit(k)
    \/ StaleHit(k)

HitEnds(k) == HitRearm(k) \/ \E room \in BOOLEAN : StaleSend(k, room)
LastHitEnds(k) == HitEnds(k) /\ k \notin hitting' \cup repairing'

NegativeTraffic(k) == StoreNegative(k) \/ ForgetNegative(k)

Operator(k) == (\E ttl \in TTLs : InsertPermanent(k, ttl)) \/ RemovePermanent(k)

Tick ==
    \/ TickStart \/ Judge \/ Park \/ Recheck \/ Sweep \/ WorkerRearm
    \/ \E t \in Firing : FireNegative(t) \/ FireSpent(t) \/ FireClaim(t)
    \/ \E c \in due : GiveUp(c)

Start(p) == StartRepair(p) \/ \E c \in due : StartClaim(p, c)

Refresh(p) ==
    \/ \E outcome \in {"kept", "servfail", "failed"} : ResolveNothing(p, outcome)
    \/ ResolveBogus(p)
    \/ \E ttl \in TTLs, positive \in BOOLEAN : ResolveAnswer(p, ttl, positive)
    \/ Renew(p) \/ FollowUp(p) \/ ResetRefreshing(p)

PushOf(k, kind) == \E t \in arming : t.key = k /\ t.kind = kind /\ Push(t)
TimerKinds == {"due", "retry", "negative"}
TimerKeys  == Keys \cup NegativeKeys
PushSome   == \E k \in TimerKeys, kind \in TimerKinds : PushOf(k, kind)

Next ==
    /\ \/ ClockTick \/ PushSome \/ Tick
       \/ \E k \in Keys : Traffic(k) \/ HitEnds(k)
       \/ \E k \in settings.negative : NegativeTraffic(k)
       \/ \E k \in LocalKeys : Operator(k)
       \/ \E p \in settings.permits : Start(p) \/ Refresh(p)
    /\ UNCHANGED settings

\* The worker's loop, a renewal with its permit, a hit holding its guard and a
\* thread about to push all run on (a resolution ends: its upstream queries time
\* out).  The worker and a renewal may wait for hits to let go of an entry: hits do
\* not follow each other for ever without a moment between them (LastHitEnds), and
\* the map's lock gives a waiting writer its turn, hence the strong fairness.
\* No query and no second has to come.
Spec ==
    /\ Init /\ [][Next]_<<vars, settings>>
    /\ SF_vars(Tick)
    /\ \A k \in TimerKeys, kind \in TimerKinds : WF_vars(PushOf(k, kind))
    /\ \A k \in Keys : WF_vars(HitEnds(k)) /\ SF_vars(LastHitEnds(k))
    /\ \A p \in Permits : SF_vars(Refresh(p))

(***************************************************************************)
(* Properties                                                              *)
(***************************************************************************)

Timers == [key : TimerKeys, at : Nat, kind : TimerKinds]
Phases == {"resolve", "store", "follow_up", "reset"}

TypeOK ==
    /\ now \in Nat /\ wnow \in Nat
    /\ rec \in [Keys -> [kind : {"absent", "cached", "permanent"}, ins : Nat, ttl : Nat,
                         timer : Int, refreshing : {"yes", "no"}, marked : {"yes", "no"},
                         last : Nat]]
    /\ neg \in [NegativeKeys -> Nat]
    /\ arming \subseteq Timers /\ inbox \subseteq Timers /\ schedule \subseteq Timers
    /\ worker \in {"idle", "fire", "judge", "park", "recheck", "rearm"}
    /\ cur \in Timers \cup {NoTimer}
    /\ due \subseteq [key : Keys, retry : BOOLEAN, deadline : Nat]
    /\ \A p \in Permits : task[p] = NoTask \/ (task[p].phase \in Phases /\ task[p].key \in Keys)
    /\ hitting \subseteq Keys /\ repairing \subseteq Keys

Watches(t, k) == t.key = k /\ t.kind # "negative"

\* A renewal or repair of k that has yet to arm what comes next.
RenewalOwes(k) ==
    \E p \in Permits : task[p].phase \in {"resolve", "store", "follow_up"} /\ task[p].key = k

\* schedule.rs: "Every entry the cache can lose has at least one timer pending
\* at all times."  A timer that comes no later than the entry's death (or at the
\* next tick, for an entry already dead), a claim the worker gives up by then,
\* or a thread that is about to arm one.  Without it the entry would stay for
\* ever: nothing scans the cache.
EntryWatched ==
    \A k \in Keys : Cached(rec[k]) =>
        \/ \E t \in AllTimers : Watches(t, k) /\ t.at <= MaxOf(Deadline(rec[k]), now)
        \/ rec[k].timer = Claimed
           /\ \E c \in due : c.key = k /\ c.deadline <= Deadline(rec[k])
        \/ worker \in {"judge", "park", "recheck", "rearm"} /\ cur.key = k
        \/ rec[k].timer = Lapsed /\ RenewalOwes(k)

\* The same for negative entries: the timer of their very expiry is under way.
NegativeWatched ==
    \A k \in NegativeKeys : neg[k] # NoExpiry =>
        \E t \in AllTimers : t.kind = "negative" /\ t.key = k /\ t.at = neg[k]

\* The second a record holds as its pending renewal is that of a timer under
\* way, and a claimed record has its claim in the heap or on its way there: no
\* usable entry silently drops out of the renewals.
PendingIsArmed ==
    \A k \in Keys : Cached(rec[k]) =>
        /\ rec[k].timer > 0 => \E t \in AllTimers : Watches(t, k) /\ t.at = rec[k].timer
        /\ rec[k].timer = Claimed =>
               \/ \E c \in due : c.key = k
               \/ worker \in {"judge", "park"} /\ cur.key = k

\* The in-flight bit belongs to a hit about to queue a repair, to one in the queue or to a renewal that will
\* clear it: left set, it would keep every later repair of the entry away.
RefreshingIsOwned ==
    \A k \in Keys : rec[k].refreshing = "yes" =>
        \/ k \in repairing
        \/ \E i \in DOMAIN stale : stale[i] = k
        \/ \E p \in Permits : task[p].phase \in Phases /\ task[p].key = k

\* "A hit that read the state before the park armed nothing; the access it
\* recorded is visible now, so it is not missed": once neither the worker nor a
\* hit is at an unexpired entry, it is parked only if it is not worth renewing.
ParkedOnlyIfUnused ==
    \A k \in Keys :
        Cached(rec[k]) /\ rec[k].timer = Parked /\ ~Guarded(k) /\ ~IsExpired(rec[k], now)
            => ~Worth(rec[k], now)

\* Nothing drops out of the timers: however stores, hits, the worker, renewals and
\* the operator interleave, each entry is watched until it is removed, and one that
\* is used is renewed (claim_due_refresh, park, record_hit, start_claimed_refresh).
NothingForgotten ==
    /\ TypeOK
    /\ EntryWatched /\ NegativeWatched /\ PendingIsArmed /\ RefreshingIsOwned /\ ParkedOnlyIfUnused

\* A dead entry and an expired negative one are removed, whatever the queries,
\* renewals and claims in between do.
DeadEntriesGo ==
    /\ \A k \in Keys : IsDead(rec[k], now) ~> ~IsDead(rec[k], now)
    /\ \A k \in NegativeKeys :
           (neg[k] # NoExpiry /\ neg[k] <= now) ~> (neg[k] = NoExpiry \/ neg[k] > now)

=============================================================================
