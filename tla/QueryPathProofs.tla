--------------------------- MODULE QueryPathProofs ---------------------------
(***************************************************************************)
(* Theorems about QueryPath, for any mixes, threads, clients and bounds:   *)
(* its six invariants, each with the inductive invariant it needs, and the *)
(* walks of LogViews over the pages of the query log, which go on beside   *)
(* the queries.                                                            *)
(***************************************************************************)
EXTENDS QueryPath, FiniteSetTheorems, WellFoundedInduction, TLAPS

(***************************************************************************)
(* What every step does to the clock and to what may still happen          *)
(***************************************************************************)

\* The clock, the budgets of the mix and the purges that may be pending.
Purges == {"retention", "flush"}
Counted ==
    /\ mix \in DOMAIN Mixes /\ now \in Nat
    /\ left \in [Happenings -> Int] /\ DOMAIN purge = Purges

\* What may happen less often after a step, if anything.
Spent(E) == UNCHANGED left \/ \E e \in E : Once(e)

Timed == {"blocking"}
Opened == {"tcp", "dot", "doq"}
Others == Happenings \ (Timed \cup Opened)

\* A step of the log leaves the mix and the clock alone, and spends nothing of the toggle's or
\* the listeners'.
LEMMA LogSpends ==
    ASSUME Counted, LogSteps
    PROVE  Spent(Others) /\ DOMAIN purge' = Purges
<1> USE DEF Spent, Others, Happenings, Timed, Opened
<1>1. CASE RefreshLogged
  BY <1>1 DEF RefreshLogged, Counted
<1>2. CASE flush_loop \/ FlushTick
  BY <1>2 DEF flush_loop, FlushTick, Counted
<1>3. CASE flush_batch
  BY <1>3 DEF flush_batch, Counted, Once
<1>4. CASE delete_older_than
  BY <1>4 DEF delete_older_than, Counted, Purges
<1>5. CASE prune_before \/ DeleteRows
  BY <1>5 DEF prune_before, DeleteRows, Counted
<1>6. CASE RollupJobStarts \/ WallTicks \/ WallStepsBack \/ WalkStarts
  BY <1>6 DEF RollupJobStarts, WallTicks, WallStepsBack, WalkStarts, Counted
<1>7. CASE roll_up_hours \/ give_back_open_hours \/ AggregateColumn \/ store_hour \/ NextPage
  BY <1>7 DEF roll_up_hours, give_back_open_hours, AggregateColumn, store_hour, NextPage, Counted
<1>8. CASE Restart
  BY <1>8 DEF Restart, Counted
<1> QED
  BY <1>1, <1>2, <1>3, <1>4, <1>5, <1>6, <1>7, <1>8 DEF LogSteps, LogStep

\* So does a step of a worker.
LEMMA WorkerSpends ==
    ASSUME NEW w, WorkerStep(w)
    PROVE  Spent(Others) /\ UNCHANGED <<mix, now, purge>>
<1> USE DEF Spent, Others, Happenings, Timed, Opened, logVars
<1>1. ASSUME NEW t, NEW err, NEW r, NEW e, Finish(w, t, err, r, e) PROVE UNCHANGED purge
  BY <1>1 DEF Finish, log
<1>2. ASSUME NEW t, NEW err, NEW charge, NEW r, NEW e, Charge(w, t, err, charge, r, e) PROVE UNCHANGED purge
  BY <1>1, <1>2 DEF Charge
<1>3. CASE Receive(w)
  BY <1>3 DEF Receive
<1>4. CASE GroupLookup(w) \/ GroupStore(w) \/ CheckLookup(w) \/ CheckStore(w) \/ CheckKeep(w)
  BY <1>4 DEF GroupLookup, GroupStore, CheckLookup, CheckStore, CheckKeep
<1>5. CASE Admit(w)
  BY <1>5, <1>1 DEF Admit
<1>6. CASE FastAnswer(w)
  BY <1>6, <1>1 DEF FastAnswer
<1>7. CASE Decide(w)
  BY <1>7, <1>1, <1>2 DEF Decide
<1>8. CASE Resolved(w)
  BY <1>8, <1>2 DEF Resolved
<1> QED
  BY <1>3, <1>4, <1>5, <1>6, <1>7, <1>8 DEF WorkerStep

\* No step changes the mix; the clock stands still or ticks; and what a step spends is known but for
\* the toggle's requests and the listeners' connections, which are counted in their own lemmas.
LEMMA StepSpends ==
    ASSUME Counted, Next
    PROVE  /\ UNCHANGED mix /\ (now' = now \/ now' = now + 1) /\ DOMAIN purge' = Purges
           /\ \/ Spent(Others)
              \/ set_blocking
              \/ ConnectionStep /\ Spent(Opened)
<1> USE DEF Spent, Others, Happenings, Timed, Opened, logVars
<1>1. CASE LogSteps
  BY <1>1, LogSpends DEF LogSteps
<1>2. CASE Publish \/ EditGroups \/ load_client_groups
  <2>1. Spent(Others)
    BY <1>2 DEF Publish, EditGroups, load_client_groups, LoadBegins, ClientsCleared, ClientInserted, SubnetsRead,
                SubnetsStored, GroupsExpired, DecisionsCleared, DecisionsExpired
  <2> QED
    BY <1>2, <2>1 DEF Publish, EditGroups, load_client_groups, Counted
<1>3. CASE set_blocking
  BY <1>3 DEF set_blocking, Counted
<1>4. CASE TimerWakes \/ TimerFlips \/ ScheduleChanges
  BY <1>4 DEF TimerWakes, TimerFlips, ScheduleChanges, Counted
<1>5. CASE ConnectionStep
  <2>1. Spent(Opened)
    BY <1>5 DEF ConnectionStep, run_tcp_worker, run_dot_accept_loop, serve_doq, Accept, ProxyHeader, Handshake,
                Close, Forget, Drop, Greeted
  <2> QED
    BY <1>5, <2>1 DEF ConnectionStep, Counted
<1>6. CASE Tick \/ RateEviction \/ CacheDrop
  BY <1>6 DEF Tick, RateEviction, CacheDrop, Counted
<1>7. CASE DetectorStep
  <2>1. Spent(Others)
    BY <1>7 DEF DetectorStep, AnalyseTunneling, AnalyseDga, probe_all_upstreams, fetch_all_lists,
                TunnelingEviction, DgaEviction, NxdomainHijackEviction, ResponseIpFilterEviction
  <2> QED
    BY <1>7, <2>1 DEF DetectorStep, Counted
<1>8. CASE \E w \in Now("workers") : WorkerStep(w) \/ MemoStep(w)
  <2>1. ASSUME NEW w, MemoStep(w) PROVE Spent(Others) /\ UNCHANGED <<mix, now, purge>>
    BY <2>1 DEF MemoStep
  <2> QED
    BY <1>8, <2>1, WorkerSpends DEF Counted
<1> QED
  BY <1>1, <1>2, <1>3, <1>4, <1>5, <1>6, <1>7, <1>8 DEF Next

\* Spending keeps the counters integers, and those of other things as they are.
LEMMA SpendingCounts ==
    ASSUME Counted, NEW e \in Happenings, Once(e)
    PROVE  /\ left' \in [Happenings -> Int] /\ left'[e] = left[e] - 1
           /\ \A d \in Happenings \ {e} : left'[d] = left[d]
  BY DEF Counted, Once

\* The counters of a mix are naturals (MixAssumption).
LEMMA InitCounts == Init => Counted
<1> SUFFICES ASSUME Init PROVE Counted
  OBVIOUS
<1>1. mix \in DOMAIN Mixes /\ left = Mixes[mix].left /\ DOMAIN purge = Purges /\ now = 0
  BY DEF Init, LogInit, Now, Settings, Purges
<1>2. left \in [Happenings -> Nat]
  BY <1>1, MixAssumption
<1>3. left \in [Happenings -> Int]
  BY <1>2
<1> QED
  BY <1>1, <1>3 DEF Counted

\* Every step keeps the counters.
LEMMA StepCounts == Counted /\ [Next]_vars => Counted'
<1> SUFFICES ASSUME Counted, [Next]_vars PROVE Counted'
  OBVIOUS
<1>1. CASE UNCHANGED vars
  BY <1>1 DEF vars, logVars, Counted
<1>2. CASE Next
  <2>1. /\ UNCHANGED mix /\ (now' = now \/ now' = now + 1) /\ DOMAIN purge' = Purges
        /\ \/ Spent(Others)
           \/ set_blocking
           \/ ConnectionStep /\ Spent(Opened)
    BY <1>2, StepSpends
  <2>2. UNCHANGED left \/ \E e \in Happenings : Once(e)
    BY <2>1 DEF Spent, Others, Opened, Happenings, set_blocking
  <2>3. left' \in [Happenings -> Int]
    BY <2>2, SpendingCounts DEF Counted
  <2> QED
    BY <2>1, <2>3 DEF Counted
<1> QED
  BY <1>1, <1>2

\* The clock, the budgets of the mix and the pending purges have their types in every reachable state.
THEOREM CountsKept == Spec => []Counted
  BY InitCounts, StepCounts, PTL DEF Spec

(***************************************************************************)
(* The blocking toggle and its timers                                      *)
(***************************************************************************)
TimerRecords == [id : Nat \ {0}, awake : BOOLEAN, deadline : Nat, flip : BOOLEAN]

\* A timer has an identifier of its own, and one that is not the last request's is of a race;
\* the last request's timer, until it fires, will flip what was asked.
TogglesTyped ==
    /\ blocking \in BOOLEAN /\ want \in [on : BOOLEAN, fired : BOOLEAN] /\ raced \in BOOLEAN /\ slot \in Nat
    /\ timers \subseteq TimerRecords
TimersFollow ==
    /\ \A t \in timers : t.id > left["blocking"]
    /\ \A t, u \in timers : t.id = u.id => t = u
    /\ ~raced => \A t \in timers : t.id = slot /\ t.flip = ~want.on /\ ~want.fired
ToggleInv == TogglesTyped /\ TimersFollow /\ TimerFollowsLastRequest

toggle == <<blocking, timers, slot, want, raced>>

\* Only set_blocking and its timer touch the toggle.
LEMMA ToggleFrame ==
    ASSUME Next
    PROVE  set_blocking \/ TimerWakes \/ TimerFlips \/ UNCHANGED toggle
<1> USE DEF toggle, toggleVars
<1>1. ASSUME NEW w, WorkerStep(w) PROVE UNCHANGED toggle
  BY <1>1 DEF WorkerStep, Receive, GroupLookup, GroupStore, Admit, CheckLookup, CheckStore, CheckKeep, FastAnswer, Decide, Resolved
<1>2. ASSUME NEW w, MemoStep(w) PROVE UNCHANGED toggle
  BY <1>2 DEF MemoStep
<1>3. CASE LogSteps \/ Publish \/ EditGroups \/ load_client_groups \/ ScheduleChanges \/ ConnectionStep
  BY <1>3 DEF LogSteps, Publish, EditGroups, load_client_groups, ScheduleChanges, ConnectionStep
<1>4. CASE Tick \/ RateEviction \/ CacheDrop \/ DetectorStep
  BY <1>4 DEF Tick, RateEviction, CacheDrop, DetectorStep
<1> QED
  BY <1>1, <1>2, <1>3, <1>4 DEF Next

\* The server starts with blocking as configured and no timer.
LEMMA InitToggle == Init => ToggleInv
<1> SUFFICES ASSUME Init PROVE ToggleInv
  OBVIOUS
<1>1. blocking = TRUE /\ timers = {} /\ slot = 0 /\ want = [on |-> TRUE, fired |-> FALSE] /\ raced = FALSE
  BY DEF Init
<1> QED
  BY <1>1 DEF ToggleInv, TogglesTyped, TimersFollow, TimerFollowsLastRequest

\* A request: the timer it replaces is aborted, unless it is past its sleep.
LEMMA RequestToggles ==
    ASSUME Counted, ToggleInv, set_blocking
    PROVE  ToggleInv'
<1>1. PICK on \in BOOLEAN, secs \in {0, 1} :
        LET held == abort(timers, slot)
            id == left["blocking"]
        IN  /\ timers' = IF secs = 0 THEN held
                         ELSE held \cup {[id |-> id, awake |-> FALSE, deadline |-> now + secs, flip |-> ~on]}
            /\ slot' = IF secs = 0 THEN 0 ELSE id
            /\ blocking' = on /\ want' = [on |-> on, fired |-> FALSE]
            /\ raced' = (raced \/ \E t \in timers : t.awake)
  BY DEF set_blocking
<1> DEFINE id == left["blocking"]
           fresh == [id |-> id, awake |-> FALSE, deadline |-> now + secs, flip |-> ~on]
<1>2. id \in Nat \ {0} /\ left'["blocking"] = id - 1
  BY SpendingCounts DEF set_blocking, May, Counted, Happenings
<1>3. fresh \in TimerRecords /\ fresh.id = id /\ fresh.flip = ~on
  BY <1>2 DEF TimerRecords, Counted
<1>4. /\ abort(timers, slot) \subseteq timers /\ timers \subseteq TimerRecords
      /\ timers' \subseteq abort(timers, slot) \cup {fresh}
      /\ secs = 0 => timers' = abort(timers, slot)
  BY <1>1 DEF abort, ToggleInv, TogglesTyped
<1>5. ~raced' => abort(timers, slot) = {}
  BY <1>1 DEF abort, ToggleInv, TimersFollow
<1>6. TogglesTyped'
  BY <1>1, <1>2, <1>3, <1>4 DEF TogglesTyped, ToggleInv
<1>7. \A t \in timers' : t.id > left'["blocking"]
  BY <1>2, <1>3, <1>4 DEF ToggleInv, TimersFollow, TimerRecords
<1> HIDE DEF fresh
<1>8. \A t, u \in timers' : t.id = u.id => t = u
  <2>1. \A t \in timers : t.id # fresh.id
    BY <1>2, <1>3 DEF ToggleInv, TimersFollow, TogglesTyped, TimerRecords
  <2>2. \A t, u \in timers : t.id = u.id => t = u
    BY DEF ToggleInv, TimersFollow
  <2> QED
    BY <1>4, <2>1, <2>2
<1>9. want'.on = on /\ want'.fired = FALSE
  BY <1>1
<1>10. ASSUME ~raced', NEW t \in timers' PROVE t.id = slot' /\ t.flip = ~want'.on /\ ~want'.fired
  <2>1. t = fresh /\ secs # 0
    BY <1>4, <1>5, <1>10
  <2> QED
    BY <2>1, <1>1, <1>3, <1>9
<1>11. TimerFollowsLastRequest'
  BY <1>1, <1>9 DEF TimerFollowsLastRequest
<1> QED
  BY <1>6, <1>7, <1>8, <1>10, <1>11 DEF ToggleInv, TimersFollow

\* A timer that wakes is the same timer, past its sleep.
LEMMA WakingToggles ==
    ASSUME Counted, ToggleInv, TimerWakes
    PROVE  ToggleInv'
<1>1. PICK t \in timers : timers' = (timers \ {t}) \cup {[t EXCEPT !.awake = TRUE]}
  BY DEF TimerWakes
<1>2. UNCHANGED <<blocking, slot, want, raced, left>>
  BY DEF TimerWakes
<1> DEFINE woken == [t EXCEPT !.awake = TRUE]
<1>3. t \in TimerRecords
  BY DEF ToggleInv, TogglesTyped
<1>4. woken \in TimerRecords /\ woken.id = t.id /\ woken.flip = t.flip
  BY <1>3 DEF TimerRecords
<1> HIDE DEF woken
<1>5. timers' = (timers \ {t}) \cup {woken}
  BY <1>1 DEF woken
<1>6. TogglesTyped'
  BY <1>2, <1>4, <1>5 DEF ToggleInv, TogglesTyped
<1>7. TimersFollow'
  BY <1>2, <1>4, <1>5 DEF ToggleInv, TimersFollow
<1> QED
  BY <1>2, <1>6, <1>7 DEF ToggleInv, TimerFollowsLastRequest

\* A timer that flips does what the last request asked, or was past its sleep when it was replaced.
LEMMA FlippingToggles ==
    ASSUME Counted, ToggleInv, TimerFlips
    PROVE  ToggleInv'
<1>1. PICK t \in timers :
        /\ timers' = timers \ {t} /\ blocking' = t.flip
        /\ want' = IF t.id = slot THEN [want EXCEPT !.fired = TRUE] ELSE want
  BY DEF TimerFlips
<1>2. UNCHANGED <<slot, raced, left>>
  BY DEF TimerFlips
<1>3. t \in TimerRecords /\ want \in [on : BOOLEAN, fired : BOOLEAN]
  BY DEF ToggleInv, TogglesTyped
<1>4. want' \in [on : BOOLEAN, fired : BOOLEAN] /\ want'.on = want.on /\ (t.id = slot => want'.fired = TRUE)
  BY <1>1, <1>3
<1>5. TogglesTyped'
  BY <1>1, <1>2, <1>3, <1>4 DEF ToggleInv, TogglesTyped, TimerRecords
<1>6. ~raced => timers' = {} /\ t.id = slot /\ t.flip = ~want.on
  BY <1>1 DEF ToggleInv, TimersFollow
<1>7. TimersFollow'
  BY <1>1, <1>2, <1>6 DEF ToggleInv, TimersFollow
<1>8. TimerFollowsLastRequest'
  <2> SUFFICES ASSUME ~raced' PROVE blocking' = (want'.on # want'.fired)
    BY DEF TimerFollowsLastRequest
  <2>1. blocking' = ~want'.on /\ want'.fired = TRUE /\ want'.on \in BOOLEAN
    BY <1>1, <1>2, <1>3, <1>4, <1>6
  <2> QED
    BY <2>1
<1> QED
  BY <1>5, <1>7, <1>8 DEF ToggleInv

\* Every step keeps ToggleInv.
LEMMA StepToggles == Counted /\ ToggleInv /\ [Next]_vars => ToggleInv'
<1> SUFFICES ASSUME Counted, ToggleInv, [Next]_vars PROVE ToggleInv'
  OBVIOUS
<1>1. ASSUME UNCHANGED toggle, left'["blocking"] = left["blocking"] PROVE ToggleInv'
  BY <1>1 DEF ToggleInv, TogglesTyped, TimersFollow, TimerFollowsLastRequest, toggle
<1>2. CASE UNCHANGED vars
  BY <1>1, <1>2 DEF vars, toggleVars, toggle
<1>3. CASE Next
  <2>1. CASE set_blocking
    BY <2>1, RequestToggles
  <2>2. CASE TimerWakes \/ TimerFlips
    BY <2>2, WakingToggles, FlippingToggles
  <2>3. CASE ~(set_blocking \/ TimerWakes \/ TimerFlips)
    <3>1. UNCHANGED toggle
      BY <1>3, <2>3, ToggleFrame
    <3>2. Spent(Others \cup Opened)
      BY <1>3, <2>3, StepSpends DEF Spent
    <3>3. left'["blocking"] = left["blocking"]
      BY <3>2, SpendingCounts DEF Spent, Others, Opened, Timed, Happenings
    <3> QED
      BY <1>1, <3>1, <3>3
  <2> QED
    BY <2>1, <2>2, <2>3
<1> QED
  BY <1>2, <1>3

\* However requests, timers and queries interleave, blocking is what the last request asked for,
\* or its opposite once that request's own timer fired; only a timer that was past its sleep when
\* it was replaced can say otherwise (set_blocking, BlockingTimer).
THEOREM TogglesFollow == Spec => []TimerFollowsLastRequest
<1>1. Init => Counted /\ ToggleInv
  BY InitCounts, InitToggle
<1>2. (Counted /\ ToggleInv) /\ [Next]_vars => (Counted /\ ToggleInv)'
  BY StepCounts, StepToggles
<1>3. ToggleInv => TimerFollowsLastRequest
  BY DEF ToggleInv
<1> QED
  BY <1>1, <1>2, <1>3, PTL DEF Spec

(***************************************************************************)
(* The query each thread has in hand                                       *)
(***************************************************************************)
\* What is put over a function, and what is left of it.
LEMMA OverFields ==
    ASSUME NEW f, NEW g
    PROVE  /\ DOMAIN Over(f, g) = DOMAIN f \cup DOMAIN g
           /\ \A x \in DOMAIN f : Over(f, g)[x] = f[x]
           /\ \A x \in DOMAIN g \ DOMAIN f : Over(f, g)[x] = g[x]
  BY DEF Over

\* What an insertion into a map holds.
LEMMA PutFields ==
    ASSUME NEW f, NEW k, NEW v
    PROVE  /\ DOMAIN Put(f, k, v) = DOMAIN f \cup {k}
           /\ Put(f, k, v)[k] = v
           /\ \A x \in DOMAIN f \ {k} : Put(f, k, v)[x] = f[x]
  BY DEF Put

\* The end of a query, and the beginning of one.
Ended(t) == \E reply, sent, shown : t = Idle(reply, sent, shown)
Entered(w, t) == \E q, conn : \E fast \in BOOLEAN : t = Enter(w, q, conn, fast) /\ (fast => ~is_stream(q))

\* What a thread knows of its query at each step.
TaskFields(t) ==
    /\ "at" \in DOMAIN t
    /\ t.at # "idle" => {"q", "conn", "fast", "since", "epoch"} \subseteq DOMAIN t
    /\ t.at \notin {"idle", "group"} => "group" \in DOMAIN t
    /\ t.at \in {"store", "keep", "fast", "decide", "resolving"} => {"entry", "override", "expires"} \subseteq DOMAIN t
TasksShaped == DOMAIN task = Workers /\ \A w \in Workers : TaskFields(task[w])

\* A thread that has ended its query needs no fields.
LEMMA EndedFields == ASSUME NEW t, Ended(t) PROVE t.at = "idle" /\ TaskFields(t)
  BY DEF Ended, Idle, TaskFields

\* A query that enters the pipeline carries the versions of the moment, and the group only if the
\* thread's own cache gave it.
LEMMA EnteredFields ==
    ASSUME NEW w, NEW q, NEW conn, NEW fast, NEW t, t = Enter(w, q, conn, fast)
    PROVE  /\ t.q = q /\ t.since = published /\ t.epoch = groupEpoch /\ t.conn = conn /\ t.fast = fast
           /\ t.at \in {"group", "check", "admit"} /\ TaskFields(t)
           /\ t.at # "group" => GroupHit(w, q.client) /\ t.group = groupL0[w][q.client].group
<1> DEFINE b == [q |-> q, conn |-> conn, fast |-> fast, since |-> published, epoch |-> groupEpoch]
<1>1. CASE GroupHit(w, q.client)
  <2> DEFINE e == [at |-> IF fast THEN "check" ELSE "admit", group |-> groupL0[w][q.client].group]
  <2>1. t = Over(b, e)
    BY <1>1 DEF Enter
  <2>2. DOMAIN b = {"q", "conn", "fast", "since", "epoch"} /\ DOMAIN e = {"at", "group"}
    OBVIOUS
  <2> HIDE DEF b, e
  <2>3. /\ DOMAIN t = DOMAIN b \cup DOMAIN e
        /\ \A x \in DOMAIN b : t[x] = b[x]
        /\ \A x \in DOMAIN e \ DOMAIN b : t[x] = e[x]
    BY <2>1, Zenon DEF Over
  <2>4. DOMAIN t = {"q", "conn", "fast", "since", "epoch", "at", "group"}
    BY <2>2, <2>3
  <2>5. t.q = b.q /\ t.conn = b.conn /\ t.fast = b.fast /\ t.since = b.since /\ t.epoch = b.epoch
    BY <2>2, <2>3
  <2>6. t.at = e.at /\ t.group = e.group
    BY <2>2, <2>3
  <2> QED
    BY <1>1, <2>4, <2>5, <2>6 DEF TaskFields, b, e
<1>2. CASE ~GroupHit(w, q.client)
  <2> DEFINE e == [at |-> "group"]
  <2>1. t = Over(b, e)
    BY <1>2 DEF Enter
  <2>2. DOMAIN b = {"q", "conn", "fast", "since", "epoch"} /\ DOMAIN e = {"at"}
    OBVIOUS
  <2>3. /\ DOMAIN t = {"q", "conn", "fast", "since", "epoch", "at"}
        /\ t.q = b.q /\ t.conn = b.conn /\ t.fast = b.fast /\ t.since = b.since /\ t.epoch = b.epoch
        /\ t.at = e.at
    BY <2>1, <2>2, OverFields
  <2> QED
    BY <2>3 DEF TaskFields
<1> QED
  BY <1>1, <1>2

\* What a listener and the fast path hand on: a query, or a reply at once.
LEMMA RawEnters ==
    ASSUME NEW w, NEW q, NEW conn
    PROVE  Ended(handle_raw(w, q, conn)) \/ Entered(w, handle_raw(w, q, conn))
  BY DEF handle_raw, Ended, Entered, NoReply

\* A fallback of the fast path enters the pipeline or drops the query.
LEMMA SpawnEnters ==
    ASSUME NEW w, NEW q, spawn_fallback(w, q)
    PROVE  \E t : task' = [task EXCEPT ![w] = t] /\ (Ended(t) \/ Entered(w, t))
<1> DEFINE t == IF Cardinality(fallback) < FallbackSlots THEN handle_raw(w, q, NoConn) ELSE NoReply("none")
<1>1. task' = [task EXCEPT ![w] = t]
  BY DEF spawn_fallback
<1>2. Ended(t) \/ Entered(w, t)
  BY RawEnters DEF Ended, NoReply
<1> QED
  BY <1>1, <1>2

\* So does a listener that reads a query.
LEMMA ReceiveEnters ==
    ASSUME NEW w, Receive(w)
    PROVE  \E t : task' = [task EXCEPT ![w] = t] /\ (Ended(t) \/ Entered(w, t))
<1>1. PICK q : run_udp_worker(w, q) \/ handle_tcp_query(w, q) \/ handle_dot_query(w, q)
                 \/ handle_doq_stream(w, q) \/ dns_query_handler(w, q)
  BY DEF Receive
<1>2. CASE run_udp_worker(w, q)
  <2>1. \/ task' = [task EXCEPT ![w] = Enter(w, q, NoConn, TRUE)]
        \/ spawn_fallback(w, q)
    BY <1>2 DEF run_udp_worker
  <2>2. Entered(w, Enter(w, q, NoConn, TRUE))
    BY <1>2 DEF Entered, run_udp_worker, is_stream
  <2> QED
    BY <2>1, <2>2, SpawnEnters
<1>3. ASSUME NEW c, OnConnection(w, q, c)
      PROVE  \E t : task' = [task EXCEPT ![w] = t] /\ (Ended(t) \/ Entered(w, t))
  BY <1>3, RawEnters DEF OnConnection
<1>4. CASE dns_query_handler(w, q)
  BY <1>4, RawEnters DEF dns_query_handler
<1> QED
  BY <1>1, <1>2, <1>3, <1>4 DEF handle_tcp_query, handle_dot_query, handle_doq_stream

\* A reply ends the query.
LEMMA FinishEnds ==
    ASSUME NEW w, NEW q, NEW err, NEW r, NEW e, Finish(w, q, err, r, e)
    PROVE  \E t : task' = [task EXCEPT ![w] = t] /\ Ended(t)
  BY DEF Finish, Ended

\* So does a reply that is charged to the NXDOMAIN budget.
LEMMA ChargeEnds ==
    ASSUME NEW w, NEW q, NEW err, NEW charge, NEW r, NEW e, Charge(w, q, err, charge, r, e)
    PROVE  \E t : task' = [task EXCEPT ![w] = t] /\ Ended(t)
  BY FinishEnds DEF Charge

\* The steps of a query.
TaskMoves(w, t) ==
    \/ Ended(t)
    \/ task[w].at \in {"idle", "fast"} /\ Entered(w, t)
    \/ GroupLookup(w) /\ t = Over([at |-> "remember", group |-> resolve_group_uncached(task[w].q.client)], task[w])
    \/ task[w].at = "remember" /\ t = [task[w] EXCEPT !.at = IF task[w].fast THEN "check" ELSE "admit"]
    \/ task[w].at = "admit" /\ t = [task[w] EXCEPT !.at = "check"]
    \/ CheckLookup(w) /\ task' = [task EXCEPT ![w] = t]
    \/ task[w].at = "store" /\ \E x : t = [task[w] EXCEPT !.at = "keep", !.expires = x]
    \/ task[w].at = "keep" /\ t = [task[w] EXCEPT !.at = IF task[w].fast THEN "fast" ELSE "decide"]
    \/ task[w].at = "decide" /\ \E ask, plain : t = Over([at |-> "resolving", ask |-> ask, plain |-> plain], task[w])

\* A step of a thread changes its own task, in one of the ways of TaskMoves.
LEMMA TaskStep ==
    ASSUME TasksShaped, NEW w \in Workers, WorkerStep(w)
    PROVE  \E t : task' = [task EXCEPT ![w] = t] /\ TaskMoves(w, t)
<1>1. CASE Receive(w)
  BY <1>1, ReceiveEnters DEF TaskMoves, Receive
<1>2. CASE GroupLookup(w)
  BY <1>2 DEF TaskMoves, GroupLookup
<1>3. CASE GroupStore(w)
  BY <1>3 DEF TaskMoves, GroupStore, TasksShaped
<1>4. CASE Admit(w)
  <2>1. task[w].at = "admit"
    BY <1>4 DEF Admit
  <2>2. \/ \E t, err, r, e : Finish(w, t, err, r, e)
        \/ task' = [task EXCEPT ![w].at = "check"]
    BY <1>4 DEF Admit
  <2> QED
    BY <2>1, <2>2, FinishEnds DEF TaskMoves, TasksShaped
<1>5. CASE CheckLookup(w)
  BY <1>5 DEF TaskMoves, CheckLookup
<1>6. CASE CheckStore(w)
  BY <1>6 DEF TaskMoves, CheckStore, TasksShaped
<1>10. CASE CheckKeep(w)
  BY <1>10 DEF TaskMoves, CheckKeep, TasksShaped
<1>7. CASE FastAnswer(w)
  <2>1. task[w].at = "fast"
    BY <1>7 DEF FastAnswer
  <2>2. (\E t, err, r, e : Finish(w, t, err, r, e)) \/ (\E q : spawn_fallback(w, q))
    BY <1>7 DEF FastAnswer
  <2> QED
    BY <2>1, <2>2, FinishEnds, SpawnEnters DEF TaskMoves
<1>8. CASE Decide(w)
  <2>1. task[w].at = "decide"
    BY <1>8 DEF Decide
  <2>2. \/ \E t, err, charge, r, e : Charge(w, t, err, charge, r, e)
        \/ \E t, err, r, e : Finish(w, t, err, r, e)
        \/ \E ask, plain : task' = [task EXCEPT ![w] = Over([at |-> "resolving", ask |-> ask, plain |-> plain], task[w])]
    BY <1>8 DEF Decide
  <2> QED
    BY <2>1, <2>2, FinishEnds, ChargeEnds DEF TaskMoves
<1>9. CASE Resolved(w)
  <2>1. \E t, err, charge, r, e : Charge(w, t, err, charge, r, e)
    BY <1>9 DEF Resolved
  <2> QED
    BY <2>1, ChargeEnds DEF TaskMoves
<1> QED
  BY <1>1, <1>2, <1>3, <1>4, <1>5, <1>6, <1>7, <1>8, <1>9, <1>10 DEF WorkerStep

\* Only its own steps change the query of a thread.
LEMMA TaskFrame ==
    ASSUME Counted, Next
    PROVE  (\E w \in Workers : WorkerStep(w)) \/ UNCHANGED task
<1>1. Now("workers") \subseteq Workers
  BY MixAssumption DEF Now, Settings, Counted
<1> QED
  BY <1>1 DEF Next, LogSteps, Publish, EditGroups, load_client_groups, set_blocking, TimerWakes, TimerFlips,
              ScheduleChanges, ConnectionStep, Tick, RateEviction, CacheDrop, DetectorStep, MemoStep

CheckFields(w, b) ==
    \E at \in {"fast", "decide", "store", "keep"} : \E entry, override, expires :
        b = [at |-> at, entry |-> entry, override |-> override, expires |-> expires] /\ (at = "fast" => task[w].fast)

\* A verdict is found in one of three places.
LEMMA FoundSomewhere ==
    ASSUME NEW w, NEW name, NEW group, NEW skip
    PROVE  resolve_verdict(w, name, group, skip).from \in {"l0", "l1", "index"}
  BY DEF resolve_verdict

\* A check adds the entry it acts on to the task and leaves the rest.
LEMMA CheckMoves ==
    ASSUME TasksShaped, NEW w \in Workers, NEW t, task' = [task EXCEPT ![w] = t], CheckLookup(w)
    PROVE  \E b : t = Over(b, task[w]) /\ CheckFields(w, b)
<1>1. PICK v, o : /\ v = resolve_verdict(w, task[w].q.name, task[w].group, skip_decision_cache(o))
                  /\ o = Override(task[w].group)
  OBVIOUS
<1>2. PICK at : at = CASE v.from = "l0" -> IF task[w].fast THEN "fast" ELSE "decide"
                       [] v.from = "l1" -> "keep"
                       [] v.from = "index" -> "store"
  OBVIOUS
<1>3. v.from \in {"l0", "l1", "index"}
  BY <1>1, FoundSomewhere
<1>4. at \in {"fast", "decide", "store", "keep"} /\ (at = "fast" => task[w].fast)
  BY <1>2, <1>3
<1>5. t = Over([at |-> at, entry |-> v.entry, override |-> o, expires |-> v.entry.expires], task[w])
  BY <1>1, <1>2 DEF CheckLookup, TasksShaped
<1> QED
  BY <1>4, <1>5 DEF CheckFields

\* Each move leaves a task with the fields its next step reads.
LEMMA MovesShape ==
    ASSUME TasksShaped, NEW w \in Workers, NEW t, task' = [task EXCEPT ![w] = t], TaskMoves(w, t)
    PROVE  TaskFields(t)
<1> DEFINE o == task[w]
<1>0. TaskFields(o)
  BY DEF TasksShaped
<1>1. CASE Ended(t)
  BY <1>1, EndedFields
<1>2. CASE Entered(w, t)
  BY <1>2, EnteredFields DEF Entered
<1>3. ASSUME NEW b, t = Over(b, o), o.at \in {"group", "check", "decide"}, "at" \in DOMAIN b, b.at # "idle",
             b.at # "group" => "group" \in DOMAIN b \cup DOMAIN o,
             b.at \in {"store", "keep", "fast", "decide", "resolving"} => {"entry", "override", "expires"} \subseteq DOMAIN b \cup DOMAIN o
      PROVE  TaskFields(t)
  <2>1. DOMAIN t = DOMAIN b \cup DOMAIN o /\ t.at = b.at
    BY <1>3, OverFields
  <2>2. {"q", "conn", "fast", "since", "epoch"} \subseteq DOMAIN o
    BY <1>0, <1>3 DEF TaskFields
  <2> HIDE DEF o
  <2> QED
    BY <1>3, <2>1, <2>2 DEF TaskFields
<1>4. ASSUME NEW at, t = [o EXCEPT !.at = at], o.at \in {"remember", "admit", "keep"}, at # "group",
             at \in {"store", "keep", "fast", "decide", "resolving"} => o.at = "keep"
      PROVE  TaskFields(t)
  BY <1>0, <1>4 DEF TaskFields
<1>5. CASE GroupLookup(w) /\ t = Over([at |-> "remember", group |-> resolve_group_uncached(task[w].q.client)], task[w])
  <2> DEFINE b == [at |-> "remember", group |-> resolve_group_uncached(task[w].q.client)]
  <2>1. "at" \in DOMAIN b /\ "group" \in DOMAIN b /\ b.at = "remember" /\ o.at = "group" /\ t = Over(b, o)
    BY <1>5 DEF GroupLookup
  <2> HIDE DEF b, o
  <2> QED
    BY <1>3, <2>1
<1>6. CASE CheckLookup(w)
  <2>1. PICK b : t = Over(b, o) /\ CheckFields(w, b)
    BY <1>6, CheckMoves
  <2>2. "at" \in DOMAIN b /\ {"entry", "override", "expires"} \subseteq DOMAIN b /\ b.at \in {"fast", "decide", "store", "keep"}
    BY <2>1 DEF CheckFields
  <2>3. o.at = "check" /\ "group" \in DOMAIN o
    BY <1>0, <1>6 DEF CheckLookup, TaskFields
  <2> HIDE DEF o
  <2> QED
    BY <1>3, <2>1, <2>2, <2>3
<1>7. CASE task[w].at = "decide" /\ \E ask, plain : t = Over([at |-> "resolving", ask |-> ask, plain |-> plain], task[w])
  <2>1. PICK b : t = Over(b, o) /\ \E ask, plain : b = [at |-> "resolving", ask |-> ask, plain |-> plain]
    BY <1>7
  <2>2. "at" \in DOMAIN b /\ b.at = "resolving" /\ o.at = "decide"
    BY <1>7, <2>1
  <2>3. {"group", "entry", "override", "expires"} \subseteq DOMAIN o
    BY <1>0, <2>2 DEF TaskFields
  <2> HIDE DEF o
  <2> QED
    BY <1>3, <2>1, <2>2, <2>3
<1>8. CASE task[w].at = "remember" /\ t = [task[w] EXCEPT !.at = IF task[w].fast THEN "check" ELSE "admit"]
  BY <1>4, <1>8
<1>9. CASE task[w].at = "admit" /\ t = [task[w] EXCEPT !.at = "check"]
  BY <1>4, <1>9
<1>10. CASE task[w].at = "keep" /\ t = [task[w] EXCEPT !.at = IF task[w].fast THEN "fast" ELSE "decide"]
  BY <1>4, <1>10
<1>11. CASE task[w].at = "store" /\ \E x : t = [task[w] EXCEPT !.at = "keep", !.expires = x]
  BY <1>0, <1>11 DEF TaskFields
<1> QED
  BY <1>1, <1>2, <1>5, <1>6, <1>7, <1>8, <1>9, <1>10, <1>11 DEF TaskMoves

\* The threads start idle.
LEMMA InitShapes == Init => TasksShaped
  BY EndedFields DEF Init, TasksShaped, Ended, NoReply

\* Every step keeps TasksShaped.
LEMMA StepShapes == Counted /\ TasksShaped /\ [Next]_vars => TasksShaped'
<1> SUFFICES ASSUME Counted, TasksShaped, [Next]_vars PROVE TasksShaped'
  OBVIOUS
<1>1. CASE UNCHANGED task
  BY <1>1 DEF TasksShaped
<1>2. ASSUME NEW w \in Workers, WorkerStep(w) PROVE TasksShaped'
  <2>1. PICK t : task' = [task EXCEPT ![w] = t] /\ TaskMoves(w, t)
    BY <1>2, TaskStep
  <2>2. TaskFields(t)
    BY <2>1, MovesShape
  <2> QED
    BY <2>1, <2>2 DEF TasksShaped
<1> QED
  BY <1>1, <1>2, TaskFrame DEF vars

(***************************************************************************)
(* The groups a thread remembers                                           *)
(***************************************************************************)
\* The maps are those of the epoch: no load has changed them since its number was raised.
Settled == (\A l \in DOMAIN load : load[l].at \in {"clear", "decisions", "epoch"}) /\ ~cutShort

\* A load is known by a number that no later one has.
LoadsNumbered == \A l \in DOMAIN load : l \in Int /\ l > left["load"]

\* An epoch a thread read is this one or an earlier one, and what it learned under this one is
\* what the maps say, once it has looked and once it has stored it.
EpochRead(e) == e \in Nat /\ e <= groupEpoch
GroupEntriesHold ==
    \A w \in Workers : \A ip \in DOMAIN groupL0[w] :
        /\ EpochRead(groupL0[w][ip].epoch)
        /\ Settled /\ groupL0[w][ip].epoch = groupEpoch => groupL0[w][ip].group = resolve_group_uncached(ip)
GroupLookupsHold ==
    \A w \in Workers :
        /\ task[w].at \in {"group", "remember"} => EpochRead(task[w].epoch)
        /\ task[w].at = "remember" /\ Settled /\ task[w].epoch = groupEpoch =>
              task[w].group = resolve_group_uncached(task[w].q.client)
GroupInv ==
    /\ DOMAIN groupL0 = Workers /\ groupEpoch \in Nat
    /\ GroupEntriesHold /\ GroupLookupsHold

grouping == <<load, clientGroups, subnets, groupEpoch, groupL0, cutShort>>

\* Only a load and the store of a lookup touch the maps and the caches of groups.
LEMMA GroupFrame ==
    ASSUME Next
    PROVE  load_client_groups \/ (\E w \in Now("workers") : GroupStore(w)) \/ UNCHANGED grouping
<1> USE DEF grouping, groupVars
<1>1. ASSUME NEW w, WorkerStep(w) PROVE GroupStore(w) \/ UNCHANGED grouping
  BY <1>1 DEF WorkerStep, Receive, GroupLookup, Admit, CheckLookup, CheckStore, CheckKeep, FastAnswer, Decide, Resolved
<1> QED
  BY <1>1 DEF Next, LogSteps, Publish, EditGroups, set_blocking, TimerWakes, TimerFlips, ScheduleChanges,
              ConnectionStep, Tick, RateEviction, CacheDrop, DetectorStep, MemoStep

\* The caches of groups start empty.
LEMMA InitGroups == Init => GroupInv
<1> SUFFICES ASSUME Init PROVE GroupInv
  OBVIOUS
<1>1. /\ DOMAIN groupL0 = Workers /\ groupEpoch = 0
      /\ \A w \in Workers : groupL0[w] = <<>> /\ task[w].at = "idle"
  BY DEF Init, NoReply, Idle
<1> QED
  BY <1>1 DEF GroupInv, GroupEntriesHold, GroupLookupsHold

\* What a step of a load does to the loads there are: its own goes on or ends.
LEMMA LoadMoves ==
    ASSUME NEW l, NEW m,
           ClientsCleared(l) \/ ClientInserted(l) \/ SubnetsRead(l) \/ SubnetsStored(l)
             \/ GroupsExpired(l) \/ DecisionsCleared(l) \/ DecisionsExpired(l),
           l \in DOMAIN load, m \in DOMAIN load'
    PROVE  m \in DOMAIN load /\ (m # l => load'[m] = load[m])
<1>1. (\E step : load' = Put(load, l, step)) \/ load' = Without(load, {l})
  BY DEF ClientsCleared, ClientInserted, SubnetsRead, SubnetsStored, GroupsExpired, DecisionsCleared, DecisionsExpired, Loading
<1> QED
  BY <1>1 DEF Put, Without

\* Every step keeps LoadsNumbered.
LEMMA StepLoads == Counted /\ LoadsNumbered /\ [Next]_vars => LoadsNumbered'
<1> SUFFICES ASSUME Counted, LoadsNumbered, [Next]_vars PROVE LoadsNumbered'
  OBVIOUS
<1>1. left'["load"] \in Int /\ left'["load"] <= left["load"] /\ left["load"] \in Int
  <2>1. left["load"] \in Int /\ (UNCHANGED left \/ \E e \in Happenings : Once(e))
    BY StepSpends DEF Counted, Spent, Others, Opened, Happenings, set_blocking, vars
  <2> QED
    BY <2>1, SpendingCounts DEF Happenings, Counted
<1>2. CASE UNCHANGED load
  BY <1>1, <1>2 DEF LoadsNumbered
<1>3. CASE LoadBegins
  <2>1. load' = Put(load, left["load"], [at |-> "clear", rows |-> db.clients]) /\ left'["load"] = left["load"] - 1
    BY <1>3, SpendingCounts DEF LoadBegins, Loading, Happenings
  <2>2. DOMAIN load' = DOMAIN load \cup {left["load"]}
    BY <2>1, Zenon DEF Put
  <2> QED
    BY <1>1, <2>1, <2>2 DEF LoadsNumbered
<1>4. ASSUME NEW l \in DOMAIN load,
             ClientsCleared(l) \/ ClientInserted(l) \/ SubnetsRead(l) \/ SubnetsStored(l)
               \/ GroupsExpired(l) \/ DecisionsCleared(l) \/ DecisionsExpired(l)
      PROVE  LoadsNumbered'
  BY <1>1, <1>4, LoadMoves DEF LoadsNumbered
<1>5. load_client_groups \/ UNCHANGED load
  <2>1. CASE Next
    BY <2>1, GroupFrame DEF GroupStore, grouping
  <2> QED
    BY <2>1 DEF vars, groupVars
<1> QED
  BY <1>2, <1>3, <1>4, <1>5 DEF load_client_groups

\* A load changes the maps only between its first statement and the step that raises the epoch.
LEMMA LoadGroups ==
    ASSUME LoadsNumbered, Counted, GroupInv, load_client_groups
    PROVE  GroupInv'
<1>1. UNCHANGED <<groupL0, task>>
  BY DEF load_client_groups
<1>2. ASSUME UNCHANGED <<groupEpoch, clientGroups, subnets>>, Settled' => Settled
      PROVE  GroupInv'
  <2>1. \A ip : resolve_group_uncached(ip)' = resolve_group_uncached(ip)
    BY <1>2 DEF resolve_group_uncached
  <2> QED
    BY <1>1, <1>2, <2>1 DEF GroupInv, GroupEntriesHold, GroupLookupsHold, EpochRead
<1>3. ASSUME groupEpoch' = groupEpoch, ~Settled'
      PROVE  GroupInv'
  BY <1>1, <1>3 DEF GroupInv, GroupEntriesHold, GroupLookupsHold, EpochRead
<1>4. CASE LoadBegins
  <2>1. UNCHANGED <<groupEpoch, clientGroups, subnets, cutShort>>
    BY <1>4 DEF LoadBegins
  <2>2. PICK step : load' = Put(load, left["load"], step)
    BY <1>4 DEF LoadBegins, Loading
  <2>3. left["load"] \in Int
    BY DEF Counted, Happenings
  <2>4. left["load"] \notin DOMAIN load
    BY <2>3 DEF LoadsNumbered
  <2>5. \A m \in DOMAIN load : m \in DOMAIN load' /\ load'[m] = load[m]
    BY <2>2, <2>4, Zenon DEF Put
  <2> QED
    BY <1>2, <2>1, <2>5 DEF Settled
<1>5. ASSUME NEW l \in DOMAIN load, NEW at \in {"insert", "match", "bump"}, NEW todo, load' = Put(load, l, [at |-> at, rows |-> todo]),
             UNCHANGED groupEpoch
      PROVE  GroupInv'
  <2>1. PICK step : step = [at |-> at, rows |-> todo]
    OBVIOUS
  <2>2. l \in DOMAIN load' /\ load'[l] = step
    BY <1>5, <2>1, Zenon DEF Put
  <2>3. step.at = at
    BY <2>1
  <2> QED
    BY <1>3, <1>5, <2>2, <2>3 DEF Settled
<1>6. ASSUME NEW l \in DOMAIN load, ClientsCleared(l) \/ ClientInserted(l) \/ SubnetsStored(l) PROVE GroupInv'
  BY <1>5, <1>6 DEF ClientsCleared, ClientInserted, SubnetsStored, Loading
<1>7. ASSUME NEW l \in DOMAIN load, SubnetsRead(l) PROVE GroupInv'
  <2>1. CASE Loading(l, [at |-> "match", rows |-> db.subnets])
    BY <1>5, <1>7, <2>1 DEF SubnetsRead, Loading
  <2>2. CASE cutShort' = TRUE
    BY <1>3, <1>7, <2>2 DEF SubnetsRead, Settled
  <2> QED
    BY <1>7, <2>1, <2>2 DEF SubnetsRead
<1>8. ASSUME NEW l \in DOMAIN load, GroupsExpired(l) PROVE GroupInv'
  <2>1. groupEpoch' = groupEpoch + 1
    BY <1>8 DEF GroupsExpired
  <2>2. \A e : EpochRead(e) => EpochRead(e)' /\ e # groupEpoch'
    BY <2>1 DEF EpochRead, GroupInv
  <2> QED
    BY <1>1, <2>1, <2>2 DEF GroupInv, GroupEntriesHold, GroupLookupsHold
<1>9. ASSUME NEW l \in DOMAIN load, DecisionsCleared(l) \/ DecisionsExpired(l) PROVE GroupInv'
  <2>1. /\ load[l].at \in {"decisions", "epoch"} /\ UNCHANGED <<groupEpoch, clientGroups, subnets, cutShort>>
        /\ (\E step : load' = Put(load, l, step)) \/ load' = Without(load, {l})
    BY <1>9 DEF DecisionsCleared, DecisionsExpired, Loading
  <2>2. \A m \in DOMAIN load \ {l} : m \in DOMAIN load' /\ load'[m] = load[m]
    BY <2>1 DEF Put, Without
  <2> QED
    BY <1>2, <2>1, <2>2 DEF Settled
<1> QED
  BY <1>4, <1>6, <1>7, <1>8, <1>9 DEF load_client_groups

\* A lookup is remembered with the epoch that was read before it.
LEMMA StoreGroups ==
    ASSUME TasksShaped, GroupInv, NEW w \in Workers, GroupStore(w)
    PROVE  GroupInv'
<1> DEFINE t == task[w]
           ip == t.q.client
           e == group_entry(t, t.group)
<1>1. /\ t.at = "remember" /\ groupL0' = [groupL0 EXCEPT ![w] = Put(@, ip, e)]
      /\ task' = [task EXCEPT ![w] = [t EXCEPT !.at = IF t.fast THEN "check" ELSE "admit"]]
      /\ UNCHANGED <<load, clientGroups, subnets, groupEpoch, cutShort>>
  BY DEF GroupStore
<1>2. \A x : resolve_group_uncached(x)' = resolve_group_uncached(x) /\ EpochRead(x)' = EpochRead(x)
  BY <1>1 DEF resolve_group_uncached, EpochRead
<1>3. Settled' = Settled
  BY <1>1 DEF Settled
<1>4. e.epoch = t.epoch /\ e.group = t.group
  BY DEF group_entry
<1>5. EpochRead(e.epoch) /\ (Settled /\ e.epoch = groupEpoch => e.group = resolve_group_uncached(ip))
  BY <1>1, <1>4 DEF GroupInv, GroupLookupsHold
<1> HIDE DEF e, ip
<1>6. /\ groupL0'[w] = Put(groupL0[w], ip, e) /\ DOMAIN groupL0' = Workers
      /\ \A v \in Workers \ {w} : groupL0'[v] = groupL0[v]
  BY <1>1 DEF GroupInv
<1>9. /\ DOMAIN groupL0'[w] = DOMAIN groupL0[w] \cup {ip} /\ groupL0'[w][ip] = e
      /\ \A x \in DOMAIN groupL0[w] \ {ip} : groupL0'[w][x] = groupL0[w][x]
  BY <1>6, Zenon DEF Put
<1>7. GroupEntriesHold'
  <2> SUFFICES ASSUME NEW v \in Workers, NEW x \in DOMAIN groupL0'[v]
               PROVE  /\ EpochRead(groupL0'[v][x].epoch)
                      /\ Settled /\ groupL0'[v][x].epoch = groupEpoch =>
                            groupL0'[v][x].group = resolve_group_uncached(x)
    BY <1>1, <1>2, <1>3 DEF GroupEntriesHold
  <2>1. CASE v = w /\ x = ip
    BY <1>5, <1>9, <2>1
  <2>2. CASE ~(v = w /\ x = ip)
    <3>1. x \in DOMAIN groupL0[v] /\ groupL0'[v][x] = groupL0[v][x]
      BY <1>6, <1>9, <2>2
    <3> QED
      BY <3>1 DEF GroupInv, GroupEntriesHold
  <2> QED
    BY <2>1, <2>2
<1>8. GroupLookupsHold'
  <2>1. task'[w].at \in {"check", "admit"} /\ \A v \in Workers \ {w} : task'[v] = task[v]
    BY <1>1 DEF TasksShaped, TaskFields
  <2> QED
    BY <1>1, <1>2, <1>3, <2>1 DEF GroupInv, GroupLookupsHold
<1> QED
  BY <1>1, <1>6, <1>7, <1>8 DEF GroupInv

\* A step of a thread that stores no group keeps what it knows of the maps.
LEMMA WorkerGroups ==
    ASSUME TasksShaped, GroupInv, NEW w \in Workers, WorkerStep(w), UNCHANGED grouping
    PROVE  GroupInv'
<1>1. PICK t : task' = [task EXCEPT ![w] = t] /\ TaskMoves(w, t)
  BY TaskStep
<1>2. \A x : resolve_group_uncached(x)' = resolve_group_uncached(x) /\ EpochRead(x)' = EpochRead(x)
  BY DEF resolve_group_uncached, EpochRead, grouping
<1>3. Settled' = Settled
  BY DEF Settled, grouping
<1>4. GroupEntriesHold'
  BY <1>2, <1>3 DEF GroupInv, GroupEntriesHold, grouping
<1>5. TaskFields(task[w])
  BY DEF TasksShaped
<1>6. /\ t.at \in {"group", "remember"} => EpochRead(t.epoch)
      /\ t.at = "remember" => t.group = resolve_group_uncached(t.q.client)
  <2>1. CASE Ended(t)
    BY <2>1, EndedFields
  <2>2. CASE Entered(w, t)
    <3>1. t.at \in {"group", "check", "admit"} /\ t.epoch = groupEpoch
      BY <2>2, EnteredFields DEF Entered
    <3> QED
      BY <3>1 DEF EpochRead, GroupInv
  <2>3. CASE GroupLookup(w) /\ t = Over([at |-> "remember", group |-> resolve_group_uncached(task[w].q.client)], task[w])
    <3> DEFINE b == [at |-> "remember", group |-> resolve_group_uncached(task[w].q.client)]
    <3>1. DOMAIN b = {"at", "group"} /\ t = Over(b, task[w]) /\ task[w].at = "group"
      BY <2>3 DEF GroupLookup
    <3>2. {"epoch", "q"} \subseteq DOMAIN task[w] \ DOMAIN b
      BY <1>5, <3>1 DEF TaskFields
    <3> HIDE DEF b
    <3>5. /\ \A x \in DOMAIN b : t[x] = b[x]
          /\ \A x \in DOMAIN task[w] \ DOMAIN b : t[x] = task[w][x]
      BY <3>1, Zenon DEF Over
    <3>3. t.epoch = task[w].epoch /\ t.q = task[w].q /\ t.group = b.group
      BY <3>1, <3>2, <3>5
    <3>4. b.group = resolve_group_uncached(task[w].q.client)
      BY DEF b
    <3> QED
      BY <3>1, <3>3, <3>4 DEF GroupInv, GroupLookupsHold
  <2>4. CASE CheckLookup(w)
    <3>1. PICK b : t = Over(b, task[w]) /\ CheckFields(w, b)
      BY <2>4, <1>1, CheckMoves
    <3>2. "at" \in DOMAIN b /\ b.at \in {"fast", "decide", "store", "keep"}
      BY <3>1 DEF CheckFields
    <3>3. t.at = b.at
      BY <3>1, <3>2, OverFields
    <3> QED
      BY <3>2, <3>3
  <2>5. CASE \E ask, plain : t = Over([at |-> "resolving", ask |-> ask, plain |-> plain], task[w])
    <3>1. PICK b : t = Over(b, task[w]) /\ \E ask, plain : b = [at |-> "resolving", ask |-> ask, plain |-> plain]
      BY <2>5
    <3>2. "at" \in DOMAIN b /\ b.at = "resolving"
      BY <3>1
    <3>3. t.at = b.at
      BY <3>1, <3>2, OverFields
    <3> QED
      BY <3>2, <3>3
  <2>6. CASE \E at \in {"check", "admit", "fast", "decide"} : t = [task[w] EXCEPT !.at = at]
    BY <1>5, <2>6 DEF TaskFields
  <2>7. CASE \E x : t = [task[w] EXCEPT !.at = "keep", !.expires = x]
    BY <1>5, <2>7 DEF TaskFields
  <2> QED
    BY <1>1, <2>1, <2>2, <2>3, <2>4, <2>5, <2>6, <2>7 DEF TaskMoves
<1>7. GroupLookupsHold'
  <2>1. task'[w] = t /\ \A v \in Workers \ {w} : task'[v] = task[v]
    BY <1>1 DEF TasksShaped
  <2> QED
    BY <1>2, <1>3, <1>6, <2>1 DEF GroupInv, GroupLookupsHold, grouping
<1> QED
  BY <1>4, <1>7 DEF GroupInv, grouping

\* Every step keeps GroupInv.
LEMMA StepGroups == Counted /\ TasksShaped /\ LoadsNumbered /\ GroupInv /\ [Next]_vars => GroupInv'
<1> SUFFICES ASSUME Counted, TasksShaped, LoadsNumbered, GroupInv, [Next]_vars PROVE GroupInv'
  OBVIOUS
<1>1. CASE UNCHANGED <<grouping, task>>
  <2>1. \A x : resolve_group_uncached(x)' = resolve_group_uncached(x) /\ EpochRead(x)' = EpochRead(x)
    BY <1>1 DEF resolve_group_uncached, EpochRead, grouping
  <2>2. Settled' = Settled
    BY <1>1 DEF Settled, grouping
  <2> QED
    BY <1>1, <2>1, <2>2 DEF GroupInv, GroupEntriesHold, GroupLookupsHold, grouping
<1>2. CASE UNCHANGED vars
  BY <1>1, <1>2 DEF vars, groupVars, grouping
<1>3. CASE Next
  <2>1. CASE load_client_groups
    BY <2>1, LoadGroups
  <2>2. Now("workers") \subseteq Workers
    BY MixAssumption DEF Now, Settings, Counted
  <2>3. CASE \E w \in Now("workers") : GroupStore(w)
    BY <2>2, <2>3, StoreGroups
  <2>4. CASE UNCHANGED grouping
    BY <1>1, <1>3, <2>4, TaskFrame, WorkerGroups
  <2> QED
    BY <1>3, <2>1, <2>3, <2>4, GroupFrame
<1> QED
  BY <1>2, <1>3

\* A group read from a thread's own cache is the group of the maps, though the cache is filled by
\* queries that overlap loads, and loads overlap each other: the epoch is read before the maps and
\* raised after them (resolve_group, load_client_groups).  A load that fails after its first
\* statement is excepted.
THEOREM GroupsStayFresh == Spec => []GroupsFresh
<1>1. Init => Counted /\ TasksShaped /\ LoadsNumbered /\ GroupInv
  BY InitCounts, InitShapes, InitGroups DEF Init, LoadsNumbered
<1>2. (Counted /\ TasksShaped /\ LoadsNumbered /\ GroupInv) /\ [Next]_vars => (Counted /\ TasksShaped /\ LoadsNumbered /\ GroupInv)'
  BY StepCounts, StepShapes, StepLoads, StepGroups
<1>3. GroupInv => GroupsFresh
  BY DEF GroupInv, GroupEntriesHold, GroupsFresh, Settled, GroupHit
<1> QED
  BY <1>1, <1>2, <1>3, PTL DEF Spec

(***************************************************************************)
(* The verdicts in the caches                                              *)
(***************************************************************************)
\* An entry as it is shared, and as a thread keeps it.
Shared(e) == DOMAIN e = {"verdict", "ver", "late", "expires"} /\ e.ver \in Nat /\ e.late \in BOOLEAN
Kept(e) == {"verdict", "ver", "late", "expires", "epoch"} \subseteq DOMAIN e /\ e.ver \in Nat /\ e.late \in BOOLEAN
Since(e, ver) == e.ver >= ver \/ e.late

\* The version a shared entry is of: the caches are cleared after the index is swapped.
Floor == IF publish = 2 THEN index.ver ELSE published

VersionsTyped ==
    /\ published \in Nat /\ publish \in 0..2 /\ epoch \in Nat /\ DOMAIN l0 = Workers
    /\ index.ver = IF publish = 0 THEN published ELSE published + 1
SharedHold == \A k \in DOMAIN l1 : Shared(l1[k]) /\ Since(l1[k], Floor)
KeptHold ==
    \A w \in Workers : \A k \in DOMAIN l0[w] :
        /\ Kept(l0[w][k]) /\ l0[w][k].epoch \in Nat /\ l0[w][k].epoch <= epoch
        /\ l0[w][k].epoch = epoch => Since(l0[w][k], published)
ActsOn(t) ==
    /\ t.at # "idle" => t.since \in Nat /\ t.since <= published
    /\ t.at \in {"store", "keep", "fast", "decide"} =>
          t.entry.ver \in Nat /\ t.entry.late \in BOOLEAN /\ Since(t.entry, t.since)
MemosHold ==
    /\ DOMAIN memo = Workers
    /\ \A w \in Workers :
          /\ \A k \in DOMAIN memo[w].share : Shared(memo[w].share[k])
          /\ \A k \in DOMAIN memo[w].keep : Shared(memo[w].keep[k])
VerdictInv == VersionsTyped /\ SharedHold /\ KeptHold /\ MemosHold /\ \A w \in Workers : ActsOn(task[w])

verdicts == <<index, publish, published, epoch, l1, l0, memo>>

\* Only a publication, a load, the stores of a check and the memo of a chain touch the verdicts.
LEMMA VerdictFrame ==
    ASSUME Counted, Next
    PROVE  \/ Publish \/ load_client_groups
           \/ \E w \in Workers : WorkerStep(w) /\ (CheckStore(w) \/ CheckKeep(w) \/ (\E t, r, c : Remember(w, t, r, c)) \/ UNCHANGED verdicts)
           \/ \E w \in Workers : MemoStep(w)
           \/ UNCHANGED <<verdicts, task>>
<1> USE DEF verdicts, filterVars
<1>0. Now("workers") \subseteq Workers
  BY MixAssumption DEF Now, Settings, Counted
<1>1. ASSUME NEW w, WorkerStep(w) PROVE CheckStore(w) \/ CheckKeep(w) \/ (\E t, r, c : Remember(w, t, r, c)) \/ UNCHANGED verdicts
  <2>1. CASE Receive(w) \/ GroupLookup(w) \/ GroupStore(w) \/ Admit(w) \/ CheckLookup(w)
    BY <2>1 DEF Receive, GroupLookup, GroupStore, Admit, CheckLookup
  <2>2. CASE FastAnswer(w)
    BY <2>2 DEF FastAnswer
  <2>3. CASE Decide(w)
    BY <2>3 DEF Decide
  <2>4. CASE Resolved(w)
    BY <2>4 DEF Resolved
  <2> QED
    BY <1>1, <2>1, <2>2, <2>3, <2>4 DEF WorkerStep
<1> QED
  BY <1>0, <1>1 DEF Next, LogSteps, EditGroups, set_blocking, TimerWakes, TimerFlips, ScheduleChanges,
              ConnectionStep, Tick, RateEviction, CacheDrop, DetectorStep

\* The decision caches start empty.
LEMMA InitVerdicts == Init => VerdictInv
<1> SUFFICES ASSUME Init PROVE VerdictInv
  OBVIOUS
<1>1. /\ published = 0 /\ publish = 0 /\ epoch = 0 /\ index.ver = 0 /\ DOMAIN l0 = Workers /\ l1 = <<>>
      /\ DOMAIN memo = Workers
      /\ \A w \in Workers : l0[w] = <<>> /\ task[w].at = "idle" /\ memo[w].share = <<>> /\ memo[w].keep = <<>>
  BY DEF Init, NoReply, Idle, NoMemo
<1> QED
  BY <1>1 DEF VerdictInv, VersionsTyped, SharedHold, KeptHold, MemosHold, ActsOn

\* An entry made of the index in use is of its version.
LEMMA EntryHolds ==
    ASSUME index.ver \in Nat, NEW verdict, NEW ver \in Nat, NEW late \in BOOLEAN, NEW expires
    PROVE  /\ Shared(Entry(verdict, ver, late, expires)) /\ Since(Entry(verdict, ver, late, expires), index.ver)
           /\ Entry(verdict, ver, late, expires).ver = ver
<1> DEFINE e == Entry(verdict, ver, late, expires)
<1>1. DOMAIN e = {"verdict", "ver", "late", "expires"} /\ e.ver = ver /\ e.late = (late \/ ver < index.ver)
  BY DEF Entry
<1> HIDE DEF e
<1>2. e.late \in BOOLEAN /\ (e.late \/ ver >= index.ver)
  <2>1. CASE ver < index.ver
    BY <1>1, <2>1
  <2>2. CASE ~(ver < index.ver)
    <3>1. e.late = late
      BY <1>1, <2>2, Zenon
    <3>2. ver >= index.ver
      BY <2>2
    <3> QED
      BY <3>1, <3>2
  <2> QED
    BY <2>1, <2>2
<1>3. Shared(e) /\ Since(e, index.ver)
  BY <1>1, <1>2 DEF Shared, Since
<1> QED
  BY <1>1, <1>3 DEF e

\* What a lookup finds is of the last publication, or late; what is not a thread's own may be shared.
LEMMA VerdictFound ==
    ASSUME VerdictInv, NEW w \in Workers, NEW name, NEW group, NEW skip
    PROVE  /\ resolve_verdict(w, name, group, skip).entry.ver \in Nat
           /\ resolve_verdict(w, name, group, skip).entry.late \in BOOLEAN
           /\ Since(resolve_verdict(w, name, group, skip).entry, published)
           /\ resolve_verdict(w, name, group, skip).from # "l0" =>
                 Shared(resolve_verdict(w, name, group, skip).entry) /\ Since(resolve_verdict(w, name, group, skip).entry, Floor)
<1> DEFINE v == resolve_verdict(w, name, group, skip)
           k == decision_key(name, group)
<1>1. index.ver \in Nat /\ published \in Nat /\ index.ver >= published /\ Floor \in {index.ver, published}
  BY DEF VerdictInv, VersionsTyped, Floor
<1>2. CASE ~skip /\ decision_l0_get(w, k)
  <2>1. v = [from |-> "l0", entry |-> l0[w][k]]
    BY <1>2 DEF resolve_verdict
  <2>2. k \in DOMAIN l0[w] /\ l0[w][k].epoch = epoch
    BY <1>2 DEF decision_l0_get
  <2> QED
    BY <2>1, <2>2 DEF VerdictInv, KeptHold, Kept
<1>3. CASE ~skip /\ ~decision_l0_get(w, k) /\ decision_l1_get(k)
  <2>1. v = [from |-> "l1", entry |-> l1[k]]
    BY <1>3 DEF resolve_verdict
  <2>2. k \in DOMAIN l1
    BY <1>3 DEF decision_l1_get
  <2>3. Shared(l1[k]) /\ Since(l1[k], Floor)
    BY <2>2 DEF VerdictInv, SharedHold
  <2>4. Since(l1[k], published)
    BY <1>1, <2>3 DEF Since, Shared
  <2> QED
    BY <2>1, <2>3, <2>4 DEF Shared
<1>4. CASE ~(~skip /\ decision_l0_get(w, k)) /\ ~(~skip /\ ~decision_l0_get(w, k) /\ decision_l1_get(k))
  <2> DEFINE e == Entry(evaluate(name, group), index.ver, FALSE, now + DecisionTtl)
  <2>1. v = [from |-> "index", entry |-> e]
    BY <1>4 DEF resolve_verdict
  <2>2. Shared(e) /\ Since(e, index.ver) /\ e.ver = index.ver
    BY <1>1, EntryHolds
  <2> HIDE DEF e
  <2>3. Since(e, published) /\ Since(e, Floor)
    BY <1>1, <2>2 DEF Since
  <2> QED
    BY <2>1, <2>2, <2>3 DEF Shared
<1> QED
  BY <1>2, <1>3, <1>4

\* Each of the three steps of rebuild_through keeps VerdictInv: swap, clear, raise the epoch.
LEMMA PublishVerdicts ==
    ASSUME VerdictInv, Publish
    PROVE  VerdictInv'
<1>0. UNCHANGED <<l0, memo, task>>
  BY DEF Publish
<1>1. publish \in 0..2 /\ Len(publish_order) = 3
  BY DEF VerdictInv, VersionsTyped, publish_order
<1>2. CASE publish = 0
  <2>1. publish_order[publish + 1] = "index" /\ (publish + 1) % Len(publish_order) = 1
    BY <1>2 DEF publish_order
  <2>2. index'.ver = index.ver + 1 /\ UNCHANGED <<l1, epoch, published>> /\ publish' = 1
    BY <2>1 DEF Publish
  <2> QED
    BY <1>0, <1>2, <2>2 DEF VerdictInv, VersionsTyped, SharedHold, KeptHold, MemosHold, ActsOn, Floor
<1>3. CASE publish = 1
  <2>1. publish_order[publish + 1] = "clear" /\ (publish + 1) % Len(publish_order) = 2
    BY <1>3 DEF publish_order
  <2>2. l1' = <<>> /\ UNCHANGED <<index, epoch, published>> /\ publish' = 2
    BY <2>1 DEF Publish
  <2> QED
    BY <1>0, <1>3, <2>2 DEF VerdictInv, VersionsTyped, SharedHold, KeptHold, MemosHold, ActsOn, Floor
<1>4. CASE publish = 2
  <2>1. publish_order[publish + 1] = "epoch" /\ (publish + 1) % Len(publish_order) = 0
    BY <1>4 DEF publish_order
  <2>2. epoch' = epoch + 1 /\ UNCHANGED <<l1, index>> /\ publish' = 0 /\ published' = index.ver
    BY <2>1 DEF Publish
  <2>3. VersionsTyped' /\ published' = published + 1
    BY <1>0, <1>4, <2>2 DEF VerdictInv, VersionsTyped
  <2>4. SharedHold'
    BY <1>4, <2>2 DEF VerdictInv, SharedHold, Floor
  <2>5. KeptHold'
    BY <1>0, <2>2 DEF VerdictInv, VersionsTyped, KeptHold
  <2>6. \A w \in Workers : ActsOn(task[w])'
    BY <1>0, <2>3 DEF VerdictInv, VersionsTyped, ActsOn
  <2> QED
    BY <1>0, <2>3, <2>4, <2>5, <2>6 DEF VerdictInv, MemosHold
<1> QED
  BY <1>1, <1>2, <1>3, <1>4

\* A load of client groups clears the decisions and raises their epoch, so it keeps VerdictInv.
LEMMA LoadVerdicts ==
    ASSUME VerdictInv, load_client_groups
    PROVE  VerdictInv'
<1>1. UNCHANGED <<index, publish, published, l0, memo, task>>
  BY DEF load_client_groups
<1>2. l1' \in {l1, <<>>} /\ epoch' \in {epoch, epoch + 1}
  BY DEF load_client_groups, LoadBegins, ClientsCleared, ClientInserted, SubnetsRead, SubnetsStored, GroupsExpired,
         DecisionsCleared, DecisionsExpired
<1> QED
  BY <1>1, <1>2 DEF VerdictInv, VersionsTyped, SharedHold, KeptHold, MemosHold, ActsOn, Floor

\* A thread keeps an entry with the epoch of the step that stores it.
LEMMA KeptEntry ==
    ASSUME NEW e, Shared(e)
    PROVE  /\ Kept(decision_l0_set(e)) /\ decision_l0_set(e).epoch = epoch
           /\ decision_l0_set(e).ver = e.ver /\ decision_l0_set(e).late = e.late
<1> DEFINE b == [epoch |-> epoch]
           d == decision_l0_set(e)
<1>1. DOMAIN b = {"epoch"} /\ b.epoch = epoch /\ d = Over(e, b)
  BY DEF decision_l0_set
<1>2. DOMAIN e = {"verdict", "ver", "late", "expires"} /\ e.ver \in Nat /\ e.late \in BOOLEAN
  BY DEF Shared
<1> HIDE DEF b, d
<1>3. /\ DOMAIN d = DOMAIN e \cup DOMAIN b
      /\ \A x \in DOMAIN e : d[x] = e[x]
      /\ \A x \in DOMAIN b \ DOMAIN e : d[x] = b[x]
  BY <1>1, Zenon DEF Over
<1>4. d.ver = e.ver /\ d.late = e.late /\ d.epoch = epoch
  BY <1>1, <1>2, <1>3
<1>5. Kept(d)
  BY <1>1, <1>2, <1>3, <1>4 DEF Kept
<1> QED
  BY <1>4, <1>5 DEF d

\* Sharing entries that are not older than the floor.
LEMMA SharingHolds ==
    ASSUME VerdictInv, NEW new,
           UNCHANGED <<index, publish, published, epoch, l0>>,
           \A k \in DOMAIN new : Shared(new[k]) /\ Since(new[k], Floor),
           \A k \in DOMAIN l1' : (k \in DOMAIN new /\ l1'[k] = new[k]) \/ (k \in DOMAIN l1 /\ l1'[k] = l1[k])
    PROVE  VersionsTyped' /\ SharedHold' /\ KeptHold'
<1>1. VersionsTyped' /\ Floor' = Floor
  BY DEF VerdictInv, VersionsTyped, Floor
<1>2. SharedHold'
  BY <1>1 DEF VerdictInv, SharedHold
<1>3. KeptHold'
  BY DEF VerdictInv, KeptHold
<1> QED
  BY <1>1, <1>2, <1>3

\* Keeping entries that are not older than the last publication, by a thread.
LEMMA KeepingHolds ==
    ASSUME VerdictInv, NEW w \in Workers, NEW own,
           UNCHANGED <<index, publish, published, epoch, l1>>,
           \A k \in DOMAIN own : Shared(own[k]) /\ Since(own[k], published),
           DOMAIN l0' = Workers, \A v \in Workers \ {w} : l0'[v] = l0[v],
           \A k \in DOMAIN l0'[w] : \/ k \in DOMAIN own /\ l0'[w][k] = decision_l0_set(own[k])
                                    \/ k \in DOMAIN l0[w] /\ l0'[w][k] = l0[w][k]
    PROVE  VersionsTyped' /\ SharedHold' /\ KeptHold'
<1>1. VersionsTyped' /\ Floor' = Floor
  BY DEF VerdictInv, VersionsTyped, Floor
<1>2. SharedHold'
  BY <1>1 DEF VerdictInv, SharedHold
<1>3. ASSUME NEW k \in DOMAIN own
      PROVE  LET d == decision_l0_set(own[k])
             IN  Kept(d) /\ d.epoch = epoch /\ Since(d, published)
  BY <1>3, KeptEntry DEF Since
<1>4. ASSUME NEW v \in Workers, NEW k \in DOMAIN l0'[v]
      PROVE  /\ Kept(l0'[v][k]) /\ l0'[v][k].epoch \in Nat /\ l0'[v][k].epoch <= epoch
             /\ l0'[v][k].epoch = epoch => Since(l0'[v][k], published)
  <2>1. CASE v = w /\ k \in DOMAIN own /\ l0'[w][k] = decision_l0_set(own[k])
    BY <1>3, <2>1 DEF VerdictInv, VersionsTyped
  <2>2. CASE k \in DOMAIN l0[v] /\ l0'[v][k] = l0[v][k]
    BY <2>2 DEF VerdictInv, KeptHold
  <2> QED
    BY <2>1, <2>2
<1>5. KeptHold'
  BY <1>4 DEF KeptHold
<1> QED
  BY <1>1, <1>2, <1>5

\* What is stored is stamped at the store: it is of the version in use, or marked late.
LEMMA StampHolds ==
    ASSUME VerdictInv, NEW verdict, NEW ver \in Nat, NEW late \in BOOLEAN, NEW expires, NEW e,
           e = Entry(verdict, ver, late, expires)
    PROVE  Shared(e) /\ Since(e, Floor) /\ Since(e, published)
<1>1. index.ver \in Nat /\ published \in Nat /\ index.ver >= published /\ Floor \in {index.ver, published}
  BY DEF VerdictInv, VersionsTyped, Floor
<1>2. Shared(e) /\ Since(e, index.ver)
  BY <1>1, EntryHolds
<1> QED
  BY <1>1, <1>2 DEF Since, Shared

\* A check shares its verdict.
LEMMA CheckStores ==
    ASSUME TasksShaped, VerdictInv, NEW w \in Workers, CheckStore(w)
    PROVE  VersionsTyped' /\ SharedHold' /\ KeptHold' /\ MemosHold'
<1> DEFINE t == task[w]
           k == decision_key(t.q.name, t.group)
           e == Stored(t, now + DecisionTtl)
           one == [x \in {k} |-> e]
<1>1. l1' = Put(l1, k, e) /\ UNCHANGED <<index, publish, published, epoch, l0, memo>>
  BY DEF CheckStore
<1>2. t.entry.ver \in Nat /\ t.entry.late \in BOOLEAN
  BY DEF CheckStore, VerdictInv, ActsOn
<1>3. Shared(e) /\ Since(e, Floor)
  BY <1>2, StampHolds DEF Stored
<1> HIDE DEF e, k, t
<1>4. DOMAIN one = {k} /\ one[k] = e
  OBVIOUS
<1> HIDE DEF one
<1>5. \A x \in DOMAIN l1' : (x \in DOMAIN one /\ l1'[x] = one[x]) \/ (x \in DOMAIN l1 /\ l1'[x] = l1[x])
  BY <1>1, <1>4 DEF Put
<1>6. MemosHold'
  BY <1>1 DEF VerdictInv, MemosHold
<1> QED
  BY <1>1, <1>3, <1>4, <1>5, <1>6, SharingHolds

\* Then its thread keeps it.
LEMMA CheckKeeps ==
    ASSUME TasksShaped, VerdictInv, NEW w \in Workers, CheckKeep(w)
    PROVE  VersionsTyped' /\ SharedHold' /\ KeptHold' /\ MemosHold'
<1> DEFINE t == task[w]
           k == decision_key(t.q.name, t.group)
           e == Stored(t, t.expires)
           one == [x \in {k} |-> e]
<1>1. l0' = [l0 EXCEPT ![w] = Put(@, k, decision_l0_set(e))] /\ UNCHANGED <<index, publish, published, epoch, l1, memo>>
  BY DEF CheckKeep
<1>2. t.entry.ver \in Nat /\ t.entry.late \in BOOLEAN
  BY DEF CheckKeep, VerdictInv, ActsOn
<1>3. Shared(e) /\ Since(e, published)
  BY <1>2, StampHolds DEF Stored
<1> HIDE DEF e, k, t
<1>4. DOMAIN one = {k} /\ one[k] = e
  OBVIOUS
<1> HIDE DEF one
<1>5. DOMAIN l0' = Workers /\ (\A v \in Workers \ {w} : l0'[v] = l0[v]) /\ l0'[w] = Put(l0[w], k, decision_l0_set(e))
  BY <1>1 DEF VerdictInv, VersionsTyped
<1>6. \A x \in DOMAIN l0'[w] : \/ x \in DOMAIN one /\ l0'[w][x] = decision_l0_set(one[x])
                               \/ x \in DOMAIN l0[w] /\ l0'[w][x] = l0[w][x]
  BY <1>4, <1>5 DEF Put
<1>7. MemosHold'
  BY <1>1 DEF VerdictInv, MemosHold
<1>8. \A x \in DOMAIN one : Shared(one[x]) /\ Since(one[x], published)
  BY <1>3, <1>4
<1> QED
  BY <1>1, <1>5, <1>6, <1>7, <1>8, KeepingHolds

\* The entries that the checks of a chain find and do not have.
LEMMA CheckedHolds ==
    ASSUME VerdictInv, NEW w \in Workers, NEW chain, NEW group, NEW where, "l0" \notin where,
           NEW x \in DOMAIN Checked(w, chain, group, where)
    PROVE  Shared(Checked(w, chain, group, where)[x])
<1>1. PICK i : x = decision_key(chain[i], group) /\ Found(w, chain[i], group).from \in where
  BY DEF Checked
<1>2. Checked(w, chain, group, where)[x] = Found(w, x[1], group).entry
  BY DEF Checked
<1>3. x[1] = chain[i]
  BY <1>1 DEF decision_key
<1> QED
  BY <1>1, <1>2, <1>3, VerdictFound DEF Found

\* The checks of a chain and the block they end in leave a memo of such entries.
LEMMA Remembers ==
    ASSUME VerdictInv, NEW w \in Workers, NEW t, NEW r, NEW cloaked, Remember(w, t, r, cloaked)
    PROVE  VersionsTyped' /\ SharedHold' /\ KeptHold' /\ MemosHold'
<1> DEFINE checked(where) == IF Screening(t).cloaking THEN Checked(w, r.chain, t.group, where) ELSE <<>>
           block == IF cloaked THEN store_cname_decision(w, t.q.name, r.chain, t.group) ELSE <<>>
           keep == Over(block, checked({"l1", "index"}))
           share == Over(block, checked({"index"}))
<1>1. /\ memo' = [memo EXCEPT ![w] = IF keep = <<>> THEN NoMemo ELSE [at |-> "share", share |-> share, keep |-> keep]]
      /\ UNCHANGED <<index, publish, published, epoch, l1, l0>>
  BY DEF Remember
<1>2. VersionsTyped' /\ SharedHold' /\ KeptHold'
  BY <1>1 DEF VerdictInv, VersionsTyped, SharedHold, KeptHold, Floor
<1>3. ASSUME NEW where, "l0" \notin where, NEW k \in DOMAIN checked(where)
      PROVE  Shared(checked(where)[k])
  BY <1>3, CheckedHolds
<1>4. \A k \in DOMAIN block : Shared(block[k])
  <2>1. CASE cloaked
    <3>1. PICK name : name = r.chain[Blocker(w, r.chain, t.group)]
      OBVIOUS
    <3>2. PICK e : e = Found(w, name, t.group).entry
      OBVIOUS
    <3>3. e.ver \in Nat /\ e.late \in BOOLEAN
      BY <3>2, VerdictFound DEF Found
    <3>4. PICK d : d = Entry("Block", e.ver, e.late, now + ChainTtl)
      OBVIOUS
    <3>5. Shared(d)
      BY <3>3, <3>4, StampHolds
    <3>6. block = [k \in {decision_key(t.q.name, t.group)} |-> d]
      BY <2>1, <3>1, <3>2, <3>4 DEF store_cname_decision
    <3> QED
      BY <3>5, <3>6
  <2>2. CASE ~cloaked
    BY <2>2
  <2> QED
    BY <2>1, <2>2
<1> HIDE DEF checked, block
<1>5. ASSUME NEW where, "l0" \notin where
      PROVE  \A k \in DOMAIN Over(block, checked(where)) : Shared(Over(block, checked(where))[k])
  BY <1>3, <1>4, <1>5 DEF Over
<1>6. (\A k \in DOMAIN keep : Shared(keep[k])) /\ (\A k \in DOMAIN share : Shared(share[k]))
  BY <1>5
<1> HIDE DEF keep, share
<1>7. PICK m : /\ m = IF keep = <<>> THEN NoMemo ELSE [at |-> "share", share |-> share, keep |-> keep]
               /\ memo' = [memo EXCEPT ![w] = m]
  BY <1>1
<1>8. (\A k \in DOMAIN m.keep : Shared(m.keep[k])) /\ (\A k \in DOMAIN m.share : Shared(m.share[k]))
  BY <1>6, <1>7 DEF NoMemo
<1>9. MemosHold'
  BY <1>7, <1>8 DEF VerdictInv, MemosHold
<1> QED
  BY <1>2, <1>9

\* Entries are stamped again when they are stored.
LEMMA RestampHolds ==
    ASSUME VerdictInv, NEW entries, \A k \in DOMAIN entries : Shared(entries[k]), NEW new, new = Restamped(entries)
    PROVE  /\ DOMAIN new = DOMAIN entries
           /\ \A k \in DOMAIN new : Shared(new[k]) /\ Since(new[k], Floor) /\ Since(new[k], published)
<1>1. DOMAIN new = DOMAIN entries
  BY DEF Restamped
<1>2. ASSUME NEW k \in DOMAIN entries PROVE Shared(new[k]) /\ Since(new[k], Floor) /\ Since(new[k], published)
  <2>1. new[k] = Entry(entries[k].verdict, entries[k].ver, entries[k].late, entries[k].expires)
    BY DEF Restamped
  <2>2. entries[k].ver \in Nat /\ entries[k].late \in BOOLEAN
    BY DEF Shared
  <2> QED
    BY <2>1, <2>2, StampHolds
<1> QED
  BY <1>1, <1>2

\* Storing what the checks of a chain found, for everyone and then for the thread.
LEMMA MemoStores ==
    ASSUME VerdictInv, NEW w \in Workers, MemoStep(w)
    PROVE  VersionsTyped' /\ SharedHold' /\ KeptHold' /\ MemosHold'
<1>1. UNCHANGED <<index, publish, published, epoch>> /\ DOMAIN memo = Workers /\ DOMAIN l0 = Workers
  BY DEF MemoStep, VerdictInv, VersionsTyped, MemosHold
<1>2. CASE memo[w].at = "share"
  <2>1. PICK new : new = Restamped(memo[w].share)
    OBVIOUS
  <2>2. l1' = Over(new, l1) /\ UNCHANGED l0
    BY <1>2, <2>1 DEF MemoStep
  <2>3. \A k \in DOMAIN new : Shared(new[k]) /\ Since(new[k], Floor)
    BY <2>1, RestampHolds DEF VerdictInv, MemosHold
  <2>4. \A k \in DOMAIN l1' : (k \in DOMAIN new /\ l1'[k] = new[k]) \/ (k \in DOMAIN l1 /\ l1'[k] = l1[k])
    BY <2>2 DEF Over
  <2>5. MemosHold'
    <3>1. PICK m : m = [at |-> "keep", share |-> <<>>, keep |-> memo[w].keep] /\ memo' = [memo EXCEPT ![w] = m]
      BY <1>2 DEF MemoStep
    <3>2. m.share = <<>> /\ m.keep = memo[w].keep
      BY <3>1
    <3> QED
      BY <1>1, <3>1, <3>2 DEF VerdictInv, MemosHold
  <2> QED
    BY <1>1, <2>2, <2>3, <2>4, <2>5, SharingHolds
<1>3. CASE memo[w].at = "keep"
  <2>1. PICK own : own = Restamped(memo[w].keep)
    OBVIOUS
  <2>2. PICK kept : kept = [k \in DOMAIN own |-> decision_l0_set(own[k])]
    OBVIOUS
  <2>3. l0' = [l0 EXCEPT ![w] = Over(kept, @)] /\ UNCHANGED l1
    BY <1>3, <2>1, <2>2 DEF MemoStep
  <2>4. \A k \in DOMAIN own : Shared(own[k]) /\ Since(own[k], published)
    BY <2>1, RestampHolds DEF VerdictInv, MemosHold
  <2>5. DOMAIN l0' = Workers /\ (\A v \in Workers \ {w} : l0'[v] = l0[v]) /\ l0'[w] = Over(kept, l0[w])
    BY <1>1, <2>3
  <2>6. \A k \in DOMAIN l0'[w] : \/ k \in DOMAIN own /\ l0'[w][k] = decision_l0_set(own[k])
                                 \/ k \in DOMAIN l0[w] /\ l0'[w][k] = l0[w][k]
    BY <2>2, <2>5 DEF Over
  <2>7. MemosHold'
    <3>1. memo' = [memo EXCEPT ![w] = NoMemo] /\ NoMemo.share = <<>> /\ NoMemo.keep = <<>>
      BY <1>3 DEF MemoStep, NoMemo
    <3> QED
      BY <1>1, <3>1 DEF VerdictInv, MemosHold
  <2> QED
    BY <1>1, <2>3, <2>4, <2>5, <2>6, <2>7, KeepingHolds
<1> QED
  BY <1>2, <1>3 DEF MemoStep

\* A query acts on what its lookup found; the rest of its steps keep it.
LEMMA WorkerActs ==
    ASSUME TasksShaped, VerdictInv, NEW w \in Workers, NEW t, task' = [task EXCEPT ![w] = t], TaskMoves(w, t)
    PROVE  ActsOn(t)
<1>1. TaskFields(task[w]) /\ ActsOn(task[w]) /\ published \in Nat
  BY DEF TasksShaped, VerdictInv, VersionsTyped
<1>2. CASE Ended(t)
  BY <1>2, EndedFields DEF ActsOn
<1>3. CASE Entered(w, t)
  <2>1. t.at \in {"group", "check", "admit"} /\ t.since = published
    BY <1>3, EnteredFields DEF Entered
  <2> QED
    BY <1>1, <2>1 DEF ActsOn
<1>4. ASSUME NEW b, t = Over(b, task[w]), "at" \in DOMAIN b, "since" \notin DOMAIN b, task[w].at # "idle"
      PROVE  t.at = b.at /\ t.since = task[w].since /\ \A x \in DOMAIN b : t[x] = b[x]
  <2>1. "since" \in DOMAIN task[w]
    BY <1>1, <1>4 DEF TaskFields
  <2>2. /\ \A x \in DOMAIN b : t[x] = b[x]
        /\ \A x \in DOMAIN task[w] \ DOMAIN b : t[x] = task[w][x]
    BY <1>4, Zenon DEF Over
  <2> QED
    BY <1>4, <2>1, <2>2
<1>5. CASE GroupLookup(w) /\ t = Over([at |-> "remember", group |-> resolve_group_uncached(task[w].q.client)], task[w])
  <2> DEFINE b == [at |-> "remember", group |-> resolve_group_uncached(task[w].q.client)]
  <2>1. "at" \in DOMAIN b /\ "since" \notin DOMAIN b /\ b.at = "remember" /\ task[w].at = "group" /\ t = Over(b, task[w])
    BY <1>5 DEF GroupLookup
  <2> HIDE DEF b
  <2>2. t.at = b.at /\ t.since = task[w].since
    BY <1>4, <2>1
  <2> QED
    BY <1>1, <2>1, <2>2 DEF ActsOn
<1>6. CASE task[w].at = "decide" /\ \E ask, plain : t = Over([at |-> "resolving", ask |-> ask, plain |-> plain], task[w])
  <2>1. PICK ask, plain : t = Over([at |-> "resolving", ask |-> ask, plain |-> plain], task[w])
    BY <1>6
  <2> DEFINE b == [at |-> "resolving", ask |-> ask, plain |-> plain]
  <2>2. "at" \in DOMAIN b /\ "since" \notin DOMAIN b /\ b.at = "resolving" /\ task[w].at # "idle" /\ t = Over(b, task[w])
    BY <1>6, <2>1
  <2> HIDE DEF b
  <2>3. t.at = b.at /\ t.since = task[w].since
    BY <1>4, <2>2
  <2> QED
    BY <1>1, <2>2, <2>3 DEF ActsOn
<1>7. CASE CheckLookup(w)
  <2> DEFINE o == Override(task[w].group)
             v == resolve_verdict(w, task[w].q.name, task[w].group, skip_decision_cache(o))
  <2>0. PICK at : at = CASE v.from = "l0" -> IF task[w].fast THEN "fast" ELSE "decide"
                         [] v.from = "l1" -> "keep"
                         [] v.from = "index" -> "store"
    OBVIOUS
  <2> DEFINE b == [at |-> at, entry |-> v.entry, override |-> o, expires |-> v.entry.expires]
  <2>1. t = Over(b, task[w]) /\ task[w].at = "check"
    BY <1>7, <2>0 DEF CheckLookup, TasksShaped
  <2>2. v.entry.ver \in Nat /\ v.entry.late \in BOOLEAN /\ Since(v.entry, published)
    BY VerdictFound
  <2> HIDE DEF v, o
  <2>3. DOMAIN b = {"at", "entry", "override", "expires"} /\ b.entry = v.entry
    OBVIOUS
  <2> HIDE DEF b
  <2>4. t.at = b.at /\ t.since = task[w].since /\ t.entry = b.entry
    BY <1>4, <2>1, <2>3
  <2>5. task[w].since \in Nat /\ task[w].since <= published
    BY <1>1, <2>1 DEF ActsOn
  <2>6. Since(v.entry, task[w].since)
    BY <1>1, <2>2, <2>5 DEF Since
  <2> QED
    BY <2>2, <2>3, <2>4, <2>5, <2>6 DEF ActsOn
<1>8. ASSUME NEW at, t = [task[w] EXCEPT !.at = at], task[w].at # "idle",
             at \in {"store", "keep", "fast", "decide"} => task[w].at = "keep"
      PROVE  ActsOn(t)
  <2>1. t.at = at /\ t.since = task[w].since /\ t.entry = task[w].entry
    BY <1>1, <1>8 DEF TaskFields
  <2> QED
    BY <1>1, <1>8, <2>1 DEF ActsOn
<1>9. CASE task[w].at = "remember" /\ t = [task[w] EXCEPT !.at = IF task[w].fast THEN "check" ELSE "admit"]
  BY <1>8, <1>9
<1>10. CASE task[w].at = "admit" /\ t = [task[w] EXCEPT !.at = "check"]
  BY <1>8, <1>10
<1>11. CASE task[w].at = "keep" /\ t = [task[w] EXCEPT !.at = IF task[w].fast THEN "fast" ELSE "decide"]
  BY <1>8, <1>11
<1>12. CASE task[w].at = "store" /\ \E x : t = [task[w] EXCEPT !.at = "keep", !.expires = x]
  <2>1. t.at = "keep" /\ t.since = task[w].since /\ t.entry = task[w].entry
    BY <1>1, <1>12 DEF TaskFields
  <2> QED
    BY <1>1, <1>12, <2>1 DEF ActsOn
<1> QED
  BY <1>2, <1>3, <1>5, <1>6, <1>7, <1>9, <1>10, <1>11, <1>12 DEF TaskMoves

\* Every step keeps VerdictInv.
LEMMA StepVerdicts == Counted /\ TasksShaped /\ VerdictInv /\ [Next]_vars => VerdictInv'
<1> SUFFICES ASSUME Counted, TasksShaped, VerdictInv, [Next]_vars PROVE VerdictInv'
  OBVIOUS
<1>1. CASE UNCHANGED <<verdicts, task>>
  BY <1>1 DEF VerdictInv, VersionsTyped, SharedHold, KeptHold, MemosHold, ActsOn, Floor, verdicts
<1>2. ASSUME NEW w \in Workers, WorkerStep(w),
             CheckStore(w) \/ CheckKeep(w) \/ (\E t, r, c : Remember(w, t, r, c)) \/ UNCHANGED verdicts
      PROVE  VerdictInv'
  <2>1. PICK t : task' = [task EXCEPT ![w] = t] /\ TaskMoves(w, t)
    BY <1>2, TaskStep
  <2>2. VersionsTyped' /\ SharedHold' /\ KeptHold' /\ MemosHold'
    <3>1. CASE UNCHANGED verdicts
      BY <3>1 DEF VerdictInv, VersionsTyped, SharedHold, KeptHold, MemosHold, Floor, verdicts
    <3> QED
      BY <1>2, <3>1, CheckStores, CheckKeeps, Remembers
  <2>3. UNCHANGED published
    BY <1>2 DEF CheckStore, CheckKeep, Remember, verdicts
  <2>4. \A v \in Workers : ActsOn(task'[v])
    BY <2>1, WorkerActs DEF TasksShaped, VerdictInv
  <2> QED
    BY <2>2, <2>3, <2>4 DEF VerdictInv, ActsOn
<1>3. ASSUME NEW w \in Workers, MemoStep(w) PROVE VerdictInv'
  <2>1. UNCHANGED <<published, task>>
    BY <1>3 DEF MemoStep
  <2> QED
    BY <1>3, <2>1, MemoStores DEF VerdictInv, ActsOn
<1> QED
  BY <1>1, <1>2, <1>3, VerdictFrame, PublishVerdicts, LoadVerdicts DEF vars, filterVars, verdicts

\* A query that begins after a publication acts on a verdict of the published index or of a later
\* one, whatever the caches of the threads held and however checks and publications overlap; only
\* what a check that overlapped a publication stored late is excepted (rebuild_through,
\* resolve_verdict).
THEOREM VerdictsStayFresh == Spec => []VerdictsFresh
<1>1. Init => Counted /\ TasksShaped /\ VerdictInv
  BY InitCounts, InitShapes, InitVerdicts
<1>2. (Counted /\ TasksShaped /\ VerdictInv) /\ [Next]_vars => (Counted /\ TasksShaped /\ VerdictInv)'
  BY StepCounts, StepShapes, StepVerdicts
<1>3. VerdictInv => VerdictsFresh
  BY DEF VerdictInv, ActsOn, VerdictsFresh, Since
<1> QED
  BY <1>1, <1>2, <1>3, PTL DEF Spec

(***************************************************************************)
(* What the resolver answers, and what it leaves in the cache              *)
(***************************************************************************)
Fields == {"addrs", "wire", "chain", "local", "lnx", "nx", "hit", "status"}
Answer(r) == IsResolution(r) /\ (r.addrs # {} => ~r.nx)
Errors == {"NxDomain", "LocalNxDomain", "QueryTimeout", "ServFail"}
Met(x) == x.err \in {""} \cup Errors /\ Answer(x.r)
CacheHolds(c) == \A k \in DOMAIN c : Cacheable(c[k])

\* A resolution is a record of eight fields, five of them flags.
LEMMA ResolutionFields ==
    ASSUME NEW r
    PROVE  IsResolution(r) <=>
              /\ DOMAIN r = Fields
              /\ r.wire \in BOOLEAN /\ r.local \in BOOLEAN /\ r.lnx \in BOOLEAN /\ r.nx \in BOOLEAN /\ r.hit \in BOOLEAN
<1>1. DOMAIN NotCached = Fields
  BY DEF NotCached, Resolution, Fields
<1> QED
  BY <1>1, Zenon DEF IsResolution

\* A resolution as it is built is an answer, with the flags cleared.
LEMMA PlainAnswer ==
    ASSUME NEW addrs, NEW wire \in BOOLEAN, NEW chain
    PROVE  /\ Answer(Resolution(addrs, wire, chain)) /\ Resolution(addrs, wire, chain).nx = FALSE
           /\ Resolution(addrs, wire, chain).addrs = addrs /\ Resolution(addrs, wire, chain).wire = wire
<1> DEFINE r == Resolution(addrs, wire, chain)
<1>1. /\ DOMAIN r = Fields /\ r.wire = wire /\ r.local = FALSE /\ r.lnx = FALSE /\ r.nx = FALSE /\ r.hit = FALSE
      /\ r.addrs = addrs
  BY DEF Resolution, Fields
<1> HIDE DEF r
<1>2. Answer(r)
  BY <1>1, ResolutionFields DEF Answer
<1> QED
  BY <1>1, <1>2 DEF r

\* A miss is an answer without addresses.
LEMMA NoAnswer == Answer(NotCached) /\ Cacheable(NotCached) /\ NotCached.addrs = {} /\ NotCached.hit = FALSE
<1>1. Answer(NotCached) /\ NotCached.addrs = {} /\ NotCached.hit = FALSE
  BY PlainAnswer DEF NotCached, Resolution
<1> QED
  BY <1>1 DEF Answer, Cacheable

\* An error of the resolver is one of Errors.
LEMMA ErrMet == ASSUME NEW e \in Errors PROVE Met(Err(e)) /\ Err(e).err = e /\ e # ""
<1>1. Err(e).err = e /\ Err(e).r = NotCached
  BY DEF Err
<1> QED
  BY <1>1, NoAnswer DEF Met, Errors

\* A success is met.
LEMMA OkMet == ASSUME NEW r, Answer(r) PROVE Met(Ok(r)) /\ Ok(r).err = "" /\ Ok(r).r = r
<1>1. Ok(r).err = "" /\ Ok(r).r = r
  BY DEF Ok
<1> QED
  BY <1>1 DEF Met

\* Setting a field of an answer: a flag, or what is not one.
SetField(r, f, v) == [r EXCEPT ![f] = v]

\* Setting one field of a resolution leaves the others.
LEMMA FieldSet ==
    ASSUME NEW r, IsResolution(r), NEW f \in Fields, NEW v,
           f \in {"wire", "local", "lnx", "nx", "hit"} => v \in BOOLEAN
    PROVE  /\ IsResolution(SetField(r, f, v)) /\ SetField(r, f, v)[f] = v
           /\ \A x \in Fields \ {f} : SetField(r, f, v)[x] = r[x]
<1> DEFINE s == SetField(r, f, v)
<1>1. DOMAIN r = Fields
  BY ResolutionFields
<1>2. DOMAIN s = Fields /\ s[f] = v /\ \A x \in Fields \ {f} : s[x] = r[x]
  BY <1>1 DEF SetField
<1>3. r.wire \in BOOLEAN /\ r.local \in BOOLEAN /\ r.lnx \in BOOLEAN /\ r.nx \in BOOLEAN /\ r.hit \in BOOLEAN
  BY ResolutionFields
<1> HIDE DEF s
<1>4. \A x \in {"wire", "local", "lnx", "nx", "hit"} : s[x] \in BOOLEAN
  BY <1>2, <1>3 DEF Fields
<1>5. IsResolution(s)
  BY <1>2, <1>4, ResolutionFields
<1> QED
  BY <1>2, <1>5 DEF s

WorldHolds(s) ==
    /\ \A k \in DOMAIN s.world : \A x \in s.world[k] : IsOutcome(x)
    /\ \A k \in DOMAIN s.localWorld : \A x \in s.localWorld[k] : IsOutcome(x)

\* What an upstream may answer is an outcome.
LEMMA MeetsOutcome ==
    ASSUME NEW world, \A k \in DOMAIN world : \A x \in world[k] : IsOutcome(x), NEW q, NEW x \in Meets(world, q)
    PROVE  (x.err # "" => Met(x)) /\ (x.err = "" => IsResolution(x.r))
<1>1. x = Err("NxDomain") \/ IsOutcome(x)
  BY DEF Meets
<1>2. CASE x = Err("NxDomain")
  BY <1>2, ErrMet DEF Errors
<1>3. CASE x = Ok(x.r) /\ IsResolution(x.r)
  <2>1. \A r : Ok(r).err = ""
    BY DEF Ok
  <2> QED
    BY <1>3, <2>1
<1>4. CASE x = Err(x.err) /\ x.err \in {"NxDomain", "QueryTimeout", "ServFail"}
  BY <1>4, ErrMet DEF Errors
<1> QED
  BY <1>1, <1>2, <1>3, <1>4 DEF IsOutcome

\* What the local TLD server answers.
LEMMA LocalMet ==
    ASSUME NEW s, WorldHolds(s), NEW q, NEW y \in resolve_local_tld(s, q)
    PROVE  Met(y)
<1>1. CASE y = Err("NxDomain") \/ y = Err("LocalNxDomain")
  BY <1>1, ErrMet DEF Errors
<1>2. ASSUME NEW x \in Meets(s.localWorld, q), x.err = "", ~x.r.nx,
             y = Ok([x.r EXCEPT !.local = TRUE, !.wire = TRUE, !.chain = <<>>])
      PROVE  Met(y)
  <2> DEFINE yes == TRUE
             r0 == x.r
             r1 == SetField(r0, "local", yes)
             r2 == SetField(r1, "wire", yes)
             r3 == SetField(r2, "chain", <<>>)
  <2>1. IsResolution(r0) /\ ~r0.nx
    BY <1>2, MeetsOutcome DEF WorldHolds
  <2>2. y = Ok(r3) /\ yes \in BOOLEAN
    BY <1>2 DEF SetField
  <2> HIDE DEF yes, r0
  <2>3. IsResolution(r1) /\ r1.nx = r0.nx
    BY <2>1, <2>2, FieldSet DEF Fields
  <2> HIDE DEF r1
  <2>4. IsResolution(r2) /\ r2.nx = r1.nx
    BY <2>2, <2>3, FieldSet DEF Fields
  <2> HIDE DEF r2
  <2>5. IsResolution(r3) /\ r3.nx = r2.nx
    BY <2>4, FieldSet DEF Fields
  <2> HIDE DEF r3
  <2>6. Answer(r3)
    BY <2>1, <2>3, <2>4, <2>5 DEF Answer
  <2> QED
    BY <2>2, <2>6, OkMet
<1>3. CASE ~s.server
  BY <1>1, <1>3 DEF resolve_local_tld
<1>4. CASE s.server
  <2>1. PICK x \in Meets(s.localWorld, q) :
          y = IF x.err # "" THEN Err("NxDomain")
              ELSE IF x.r.nx THEN Err("LocalNxDomain")
              ELSE Ok([x.r EXCEPT !.local = TRUE, !.wire = TRUE, !.chain = <<>>])
    BY <1>4 DEF resolve_local_tld
  <2> QED
    BY <1>1, <1>2, <2>1
<1> QED
  BY <1>3, <1>4

\* What the pools answer.
LEMMA UpstreamMet ==
    ASSUME NEW s, WorldHolds(s), NEW q, NEW y \in query_for(s, q)
    PROVE  Met(y)
<1>1. PICK x \in Meets(s.world, q) :
        y = IF x.err # "" THEN x ELSE Ok([x.r EXCEPT !.wire = TRUE, !.nx = @ /\ x.r.addrs = {}])
  BY DEF query_for
<1>2. (x.err # "" => Met(x)) /\ (x.err = "" => IsResolution(x.r))
  BY MeetsOutcome DEF WorldHolds
<1>3. CASE x.err = ""
  <2> DEFINE nx == x.r.nx /\ x.r.addrs = {}
             yes == TRUE
             r0 == x.r
             r1 == SetField(r0, "wire", yes)
             r2 == SetField(r1, "nx", nx)
  <2>1. nx \in BOOLEAN /\ (nx => r0.addrs = {}) /\ yes \in BOOLEAN
    BY Zenon
  <2>2. y = Ok([x.r EXCEPT !.wire = TRUE, !.nx = nx])
    BY <1>1, <1>3
  <2> HIDE DEF nx
  <2>3. y = Ok(r2)
    BY <2>2 DEF SetField
  <2>7. IsResolution(r0)
    BY <1>2, <1>3
  <2> HIDE DEF yes, r0
  <2>4. IsResolution(r1) /\ r1.addrs = r0.addrs
    BY <2>7, <2>1, FieldSet DEF Fields
  <2> HIDE DEF r1
  <2>5. IsResolution(r2) /\ r2.addrs = r1.addrs /\ r2.nx = nx
    BY <2>1, <2>4, FieldSet DEF Fields
  <2> HIDE DEF r2
  <2>6. Answer(r2)
    BY <2>1, <2>4, <2>5 DEF Answer
  <2> QED
    BY <2>3, <2>6, OkMet
<1> QED
  BY <1>1, <1>2, <1>3

\* What the validator makes of it.
LEMMA ValidatedMet ==
    ASSUME NEW s, WorldHolds(s), NEW q, NEW y \in dnssec_resolve(s, q)
    PROVE  Met(y)
<1>1. ASSUME NEW x \in core_resolve(s, q) PROVE Met(x)
  BY <1>1, LocalMet, UpstreamMet DEF core_resolve
<1>2. ASSUME NEW x \in core_resolve(s, q), NEW v, y = Ok([x.r EXCEPT !.status = v]) PROVE Met(y)
  <2> DEFINE r == SetField(x.r, "status", v)
  <2>1. Answer(x.r)
    BY <1>1, <1>2 DEF Met
  <2>2. IsResolution(r) /\ r.addrs = x.r.addrs /\ r.nx = x.r.nx
    BY <2>1, FieldSet DEF Fields, Answer
  <2>3. y = Ok(r)
    BY <1>2 DEF SetField
  <2> HIDE DEF r
  <2>4. Answer(r)
    BY <2>1, <2>2 DEF Answer
  <2> QED
    BY <2>3, <2>4, OkMet
<1>3. CASE ~s.dnssec
  BY <1>1, <1>3 DEF dnssec_resolve
<1>4. CASE s.dnssec
  <2>1. PICK x \in core_resolve(s, q) :
          y \in IF x.err # "" \/ x.r.hit \/ x.r.local \/ (x.r.addrs = {} /\ ~x.r.wire) THEN {x}
                ELSE {Ok([x.r EXCEPT !.status = IF v = "error" THEN "Indeterminate" ELSE v]) : v \in Validator(s, q)}
    BY <1>4 DEF dnssec_resolve
  <2> QED
    BY <1>1, <1>2, <2>1
<1> QED
  BY <1>3, <1>4

\* What DNS64 makes of that.
LEMMA SynthesizedMet ==
    ASSUME NEW s, WorldHolds(s), NEW q, NEW y \in dns64_resolve(s, q)
    PROVE  Met(y)
<1>1. ASSUME NEW o, NEW x \in dnssec_resolve(s, o) PROVE Met(x)
  BY <1>1, ValidatedMet
<1>2. ASSUME NEW addrs, NEW wire \in BOOLEAN, NEW chain, y = Ok(Resolution(addrs, wire, chain)) PROVE Met(y)
  BY <1>2, PlainAnswer, OkMet
<1>3. CASE y \in resolve_aaaa(s, q)
  <2>1. PICK x \in dnssec_resolve(s, q) :
          y \in IF x.err # "" \/ ~is_nodata(x.r) THEN {x}
                ELSE {IF a.err # "" \/ is_unvalidated(a.r.status) \/ synthesize(s, a.r.addrs) = {} THEN x
                      ELSE Ok(Resolution(synthesize(s, a.r.addrs), FALSE, a.r.chain)) :
                      a \in dnssec_resolve(s, Ask(q.name, "A"))}
    BY <1>3 DEF resolve_aaaa
  <2>2. y = x \/ \E a : y = Ok(Resolution(synthesize(s, a.r.addrs), FALSE, a.r.chain))
    BY <2>1
  <2> QED
    BY <1>1, <1>2, <2>2
<1>4. CASE y \in resolve_ptr(s, q)
  <2>1. y \in dnssec_resolve(s, q) \/ y = Ok(Resolution({}, TRUE, <<>>))
    BY <1>4 DEF resolve_ptr
  <2> QED
    BY <1>1, <1>2, <2>1
<1> QED
  BY <1>1, <1>3, <1>4 DEF dns64_resolve

\* Flags, chain and status may be set on what the cache may hold.
LEMMA FlaggedCacheable ==
    ASSUME NEW r, Cacheable(r), NEW f \in {"local", "lnx", "hit", "chain", "status"}, NEW v,
           f \in {"local", "lnx", "hit"} => v \in BOOLEAN
    PROVE  Cacheable(SetField(r, f, v)) /\ SetField(r, f, v)[f] = v /\ SetField(r, f, v).addrs = r.addrs
<1> DEFINE s == SetField(r, f, v)
<1>0. f \in Fields /\ {"addrs", "wire", "nx"} \subseteq Fields \ {f} /\ (f \in {"wire", "local", "lnx", "nx", "hit"} => v \in BOOLEAN)
  BY DEF Fields
<1>2. IsResolution(r) /\ (r.addrs # {} => ~r.wire /\ ~r.nx)
  BY DEF Cacheable
<1>1. IsResolution(s) /\ s[f] = v /\ \A x \in Fields \ {f} : s[x] = r[x]
  BY <1>0, <1>2, FieldSet
<1> HIDE DEF s
<1>3. s.addrs = r.addrs /\ s.wire = r.wire /\ s.nx = r.nx
  BY <1>0, <1>1
<1>4. Cacheable(s)
  BY <1>1, <1>2, <1>3 DEF Cacheable
<1> QED
  BY <1>1, <1>3, <1>4 DEF s

\* A lookup yields what the cache may hold.
LEMMA LookupHolds ==
    ASSUME NEW s, NEW c, CacheHolds(c), NEW q
    PROVE  Cacheable(check_cache_str(s, c, q))
<1> DEFINE k == <<q.name, q.type>>
           yes == TRUE
<1>0. yes \in BOOLEAN
  OBVIOUS
<1>1. CASE MissingType(s, q)
  <2> DEFINE r1 == SetField(NotCached, "hit", yes)
             r2 == SetField(r1, "local", yes)
  <2>1. check_cache_str(s, c, q) = r2
    BY <1>1 DEF check_cache_str, SetField
  <2> HIDE DEF yes
  <2>2. Cacheable(r1)
    BY <1>0, NoAnswer, FlaggedCacheable
  <2> HIDE DEF r1
  <2>3. Cacheable(r2)
    BY <1>0, <2>2, FlaggedCacheable
  <2> QED
    BY <2>1, <2>3
<1>2. CASE ~MissingType(s, q) /\ k \in DOMAIN c
  <2> DEFINE r0 == c[k]
             r1 == SetField(r0, "hit", yes)
  <2>1. check_cache_str(s, c, q) = r1 /\ Cacheable(r0)
    BY <1>2 DEF check_cache_str, SetField, CacheHolds
  <2> HIDE DEF yes, r0
  <2>2. Cacheable(r1)
    BY <1>0, <2>1, FlaggedCacheable
  <2> QED
    BY <2>1, <2>2
<1>3. CASE ~MissingType(s, q) /\ k \notin DOMAIN c
  BY <1>3, NoAnswer DEF check_cache_str
<1> QED
  BY <1>1, <1>2, <1>3

\* So does try_cache, which adds the flags of a hit.
LEMMA CachedHolds ==
    ASSUME NEW s, NEW c, CacheHolds(c), NEW q
    PROVE  Cacheable(try_cache(s, c, q))
  BY LookupHolds, NoAnswer DEF try_cache

\* A negative entry may be held.
LEMMA NegativeCacheable == ASSUME NEW local \in BOOLEAN PROVE Cacheable(insert_negative(local))
<1> DEFINE r1 == SetField(NotCached, "status", "Insecure")
           r2 == SetField(r1, "lnx", local)
<1>1. insert_negative(local) = r2
  BY DEF insert_negative, SetField
<1>2. Cacheable(r1)
  BY NoAnswer, FlaggedCacheable
<1> HIDE DEF r1
<1>3. Cacheable(r2)
  BY <1>2, FlaggedCacheable
<1> QED
  BY <1>1, <1>3

\* What is stored of a resolution may be held.
LEMMA StoredCacheable == ASSUME NEW r, Answer(r) PROVE Cacheable(from_resolution(r))
<1>1. CASE r.addrs # {}
  <2> DEFINE no == FALSE
             r1 == SetField(r, "wire", no)
             r2 == SetField(r1, "nx", no)
  <2>1. from_resolution(r) = r2
    BY <1>1 DEF from_resolution, SetField
  <2>2. IsResolution(r) /\ no \in BOOLEAN
    BY DEF Answer
  <2>7. ~no
    OBVIOUS
  <2> HIDE DEF no
  <2>3. IsResolution(r1) /\ r1.wire = no
    BY <2>2, FieldSet DEF Fields
  <2> HIDE DEF r1
  <2>4. IsResolution(r2) /\ r2.wire = r1.wire /\ r2.nx = no
    <3>1. "nx" \in Fields /\ "wire" \in Fields \ {"nx"}
      BY DEF Fields
    <3> QED
      BY <2>2, <2>3, <3>1, FieldSet
  <2> HIDE DEF r2
  <2>5. Cacheable(r2)
    BY <2>3, <2>4, <2>7 DEF Cacheable
  <2> QED
    BY <2>1, <2>5
<1>2. CASE r.addrs = {}
  BY <1>2 DEF from_resolution, Answer, Cacheable
<1> QED
  BY <1>1, <1>2

\* A store keeps the cache.
LEMMA StoreHolds ==
    ASSUME NEW c, CacheHolds(c), NEW q, NEW x, Met(x)
    PROVE  CacheHolds(store_in_cache(c, q, x))
<1> DEFINE k == <<q.name, q.type>>
<1>1. ASSUME NEW r, Cacheable(r) PROVE CacheHolds(Put(c, k, r))
  BY <1>1 DEF CacheHolds, Put
<1>2. Cacheable(insert_negative(FALSE)) /\ Cacheable(insert_negative(TRUE))
  BY NegativeCacheable
<1>3. Cacheable(insert_negative(x.r.local)) /\ Cacheable(from_resolution(x.r))
  BY NegativeCacheable, StoredCacheable, ResolutionFields DEF Met, Answer
<1>4. \/ store_in_cache(c, q, x) = c
      \/ \E r \in {insert_negative(FALSE), insert_negative(TRUE), insert_negative(x.r.local), from_resolution(x.r)} :
            store_in_cache(c, q, x) = Put(c, k, r)
  BY DEF store_in_cache
<1> QED
  BY <1>1, <1>2, <1>3, <1>4

Ends(y) == Met(y.out) /\ CacheHolds(y.cache)

\* A hit ends the query and leaves the cache.
LEMMA HitEnds ==
    ASSUME NEW c, CacheHolds(c), NEW r, Cacheable(r)
    PROVE  Ends([out |-> Ok(r), cache |-> c]) /\ Ends([out |-> cached_outcome(r), cache |-> c])
<1>1. Answer(r)
  BY DEF Answer, Cacheable
<1>2. Met(Ok(r)) /\ Met(cached_outcome(r))
  BY <1>1, OkMet, ErrMet DEF cached_outcome, Errors
<1> QED
  BY <1>2 DEF Ends

\* A leader ends with an answer or an error and keeps the cache.
LEMMA LeaderEnds ==
    ASSUME NEW s, WorldHolds(s), NEW c, CacheHolds(c), NEW q, NEW y \in resolve_as_leader(s, c, q)
    PROVE  Ends(y)
<1> DEFINE held == check_cache_str(s, c, q)
<1>1. CASE held.hit
  <2>1. y = [out |-> cached_outcome(held), cache |-> c]
    BY <1>1 DEF resolve_as_leader
  <2> QED
    BY <2>1, LookupHolds, HitEnds
<1>2. CASE ~held.hit
  <2>1. PICK x \in dns64_resolve(s, q) : y = [out |-> x, cache |-> store_in_cache(c, q, x)]
    BY <1>2 DEF resolve_as_leader
  <2>2. Met(x)
    BY SynthesizedMet
  <2> QED
    BY <2>1, <2>2, StoreHolds DEF Ends
<1> QED
  BY <1>1, <1>2

\* An answer from a local record.
LEMMA LocalAnswer == ASSUME NEW addrs, NEW wire \in BOOLEAN PROVE Met(Ok([Resolution(addrs, wire, <<>>) EXCEPT !.local = TRUE]))
<1> DEFINE yes == TRUE
           r0 == Resolution(addrs, wire, <<>>)
           r1 == SetField(r0, "local", yes)
<1>1. Answer(r0)
  BY PlainAnswer
<1>6. ~r0.nx
  BY DEF Resolution
<1>2. Ok([Resolution(addrs, wire, <<>>) EXCEPT !.local = TRUE]) = Ok(r1) /\ yes \in BOOLEAN
  BY DEF SetField
<1> HIDE DEF yes, r0
<1>3. IsResolution(r0) /\ "local" \in Fields /\ "nx" \in Fields \ {"local"}
  BY <1>1 DEF Fields, Answer
<1>4. IsResolution(r1) /\ r1.nx = r0.nx
  BY <1>2, <1>3, FieldSet
<1> HIDE DEF r1
<1>5. Answer(r1)
  BY <1>4, <1>6 DEF Answer
<1> QED
  BY <1>2, <1>5, OkMet

\* The wildcard layer, over the leader.
LEMMA WildcardEnds ==
    ASSUME NEW s, WorldHolds(s), NEW c, CacheHolds(c), NEW q, NEW y \in wildcard_resolve(s, c, q)
    PROVE  Ends(y)
<1> DEFINE i == wildcard_lookup(s, q.name)
           held == check_cache_str(s, c, q)
<1>1. \/ y \in resolve_as_leader(s, c, q)
      \/ y = [out |-> Ok(held), cache |-> c]
      \/ \E addrs : y = [out |-> Ok(local_answer(addrs)), cache |-> c]
  BY DEF wildcard_resolve
<1>2. ASSUME NEW addrs, y = [out |-> Ok(local_answer(addrs)), cache |-> c] PROVE Ends(y)
  <2>1. Met(Ok(local_answer(addrs)))
    BY LocalAnswer DEF local_answer
  <2> QED
    BY <1>2, <2>1 DEF Ends
<1> QED
  BY <1>1, <1>2, LeaderEnds, HitEnds, LookupHolds

\* Every way a query may end, and the cache it leaves: a name that is filtered changes nothing.
Refused(s, c, q, y) == y.out.err = "Filtered" /\ y.cache = c /\ decide(s, q.name).err # ""

\* The whole stack of layers, but for a name the query filters refuse.
LEMMA ResolveEnds ==
    ASSUME NEW s, WorldHolds(s), NEW c, CacheHolds(c), NEW q, NEW y \in resolve(s, c, q)
    PROVE  Ends(y) \/ Refused(s, c, q, y)
<1>1. CASE y = [out |-> Ok([Resolution({}, TRUE, <<>>) EXCEPT !.local = TRUE]), cache |-> c]
  <2>1. Met(Ok([Resolution({}, TRUE, <<>>) EXCEPT !.local = TRUE]))
    BY LocalAnswer
  <2> QED
    BY <1>1, <2>1 DEF Ends
<1>2. CASE y = [out |-> Err("Filtered"), cache |-> c] /\ decide(s, q.name).err # ""
  BY <1>2 DEF Err, Refused
<1>3. CASE \E o : y \in wildcard_resolve(s, c, o)
  BY <1>3, WildcardEnds
<1> QED
  BY <1>1, <1>2, <1>3 DEF resolve, filtered_resolve

\* What MixAssumption says of the mix in use.
LEMMA MixWorld ==
    ASSUME Counted
    PROVE  /\ WorldHolds(Settings) /\ CacheHolds(Now("cache"))
           /\ Now("policy") \in {"NullIp", "NoData", "NxDomain", "Refused"}
           /\ \A k \in DOMAIN Now("safe") : Now("safe")[k] \notin Now("privatePtr") \cup Now("hostnames")
  BY MixAssumption DEF Counted, WorldHolds, CacheHolds, Settings, Now

\* Only an eviction and the end of a resolution touch the cache.
LEMMA CacheFrame ==
    ASSUME Next
    PROVE  CacheDrop \/ (\E w \in Now("workers") : Resolved(w)) \/ UNCHANGED cache
<1>1. ASSUME NEW w, WorkerStep(w) PROVE Resolved(w) \/ UNCHANGED cache
  BY <1>1 DEF WorkerStep, Receive, GroupLookup, GroupStore, Admit, CheckLookup, CheckStore, CheckKeep, FastAnswer, Decide
<1> QED
  BY <1>1 DEF Next, LogSteps, Publish, EditGroups, load_client_groups, set_blocking, TimerWakes, TimerFlips,
              ScheduleChanges, ConnectionStep, Tick, RateEviction, DetectorStep, MemoStep

\* Every step keeps the cache.
LEMMA StepCache == Counted /\ CacheHolds(cache) /\ [Next]_vars => CacheHolds(cache')
<1> SUFFICES ASSUME Counted, CacheHolds(cache), [Next]_vars PROVE CacheHolds(cache')
  OBVIOUS
<1>1. CASE UNCHANGED cache
  BY <1>1
<1>2. CASE CacheDrop
  BY <1>2 DEF CacheDrop, Without, CacheHolds
<1>3. ASSUME NEW w, Resolved(w) PROVE CacheHolds(cache')
  <2>1. PICK x \in resolve(Settings, cache, task[w].ask) : cache' = x.cache
    BY <1>3 DEF Resolved
  <2>2. WorldHolds(Settings)
    BY MixWorld
  <2>3. Ends(x) \/ Refused(Settings, cache, task[w].ask, x)
    BY <2>1, <2>2, ResolveEnds
  <2> QED
    BY <2>1, <2>3 DEF Ends, Refused
<1> QED
  BY <1>1, <1>2, <1>3, CacheFrame DEF vars

\* The fast path takes only what execute answers at once from the cache: the gate is execute's
\* first half, and an answer with addresses has neither a message nor an NXDOMAIN to charge.
LEMMA FastAgrees ==
    ASSUME CacheHolds(cache), NEW w, NEW t, Fast(w, t), cname_for(t.q.name, t.group) = ""
    PROVE  /\ execute_outcome(w, t).err = "" /\ execute_outcome(w, t).r = try_cache(Settings, cache, t.q)
           /\ execute_outcome(w, t).charge => ~limits_nxdomain(Now("limits"))
<1> DEFINE r == try_cache(Settings, cache, t.q)
           x == execute_outcome(w, t)
<1>1. /\ cache_gate(t) /\ r.hit
      /\ IF t.q.type \in {"A", "AAAA"} THEN try_cache_direct(w, t, r) ELSE try_cache_wire_direct(w, t, r)
  BY DEF Fast
<1>2. Decision(t) # "Block" /\ ~(Screening(t).detectors /\ screen_name(t.q))
  BY <1>1 DEF cache_gate
<1>3. ~(Screening(t).detectors /\ NameRefused(t.q))
  BY <1>2 DEF screen_name, NameRefused
<1>4. x = cache_outcome(w, t)
  BY <1>2, <1>3 DEF execute_outcome
<1>5. Cacheable(r)
  BY CachedHolds
<1> HIDE DEF r
<1>6. has_response_data(r) /\ ~Cloaked(w, t, r)
  BY <1>1 DEF try_cache_direct, try_cache_wire_direct, has_response_data
<1>7. ~(Screening(t).detectors /\ is_suspicious_cached_answer(t.q, r))
  <2>1. CASE t.q.type \in {"A", "AAAA"}
    BY <1>1, <2>1 DEF try_cache_direct
  <2>2. CASE t.q.type \notin {"A", "AAAA"}
    <3>1. r.addrs = {}
      BY <1>1, <1>5, <2>2 DEF try_cache_wire_direct, Cacheable
    <3> QED
      BY <3>1 DEF is_suspicious_cached_answer, is_hijacked_response, has_blocked_ip, is_rebinding_attempt
  <2> QED
    BY <2>1, <2>2
<1>8. spends_nxdomain_budget(r) => ~limits_nxdomain(Now("limits"))
  <2>1. CASE t.q.type \in {"A", "AAAA"}
    BY <1>1, <1>5, <2>1 DEF try_cache_direct, Cacheable, spends_nxdomain_budget
  <2>2. CASE t.q.type \notin {"A", "AAAA"}
    BY <1>1, <2>2 DEF try_cache_wire_direct
  <2> QED
    BY <2>1, <2>2
<1>9. x = Reply("", spends_nxdomain_budget(r), r, CachedLog(t.q, r))
  BY <1>1, <1>4, <1>6, <1>7 DEF cache_outcome, r
<1> HIDE DEF x
<1>10. CASE ~spends_nxdomain_budget(r)
  <2>1. x = Reply("", FALSE, r, CachedLog(t.q, r))
    BY <1>9, <1>10, Zenon DEF spends_nxdomain_budget
  <2>2. x.err = "" /\ x.r = r /\ x.charge = FALSE
    BY <2>1 DEF Reply
  <2> QED
    BY <2>2 DEF r, x
<1>11. CASE spends_nxdomain_budget(r)
  <2>1. x = Reply("", TRUE, r, CachedLog(t.q, r))
    BY <1>9, <1>11, Zenon DEF spends_nxdomain_budget
  <2>2. x.err = "" /\ x.r = r
    BY <2>1 DEF Reply
  <2> QED
    BY <1>8, <1>11, <2>2 DEF r, x
<1> QED
  BY <1>10, <1>11

(***************************************************************************)
(* The connections an address holds open                                   *)
(***************************************************************************)
\* A connection is named by its listener and a number not used again.
Conn(c, r) ==
    /\ DOMAIN r = {"over", "ip", "client", "at"}
    /\ c[1] \in Opened /\ r.over = c[1] /\ r.ip \in DOMAIN Subnet
Numbered(c) == c[2] \in Int /\ (c[2] = 0 \/ c[2] > left[c[1]])
ConnsTyped == IsFiniteSet(DOMAIN conns) /\ \A c \in DOMAIN conns : Conn(c, conns[c]) /\ Numbered(c)

Holding(over, ip) == {c \in DOMAIN conns : conns[c].at # "forget" /\ conns[c].over = over /\ conns[c].ip = ip}
Tally(k) == IF k \in DOMAIN counts THEN counts[k] ELSE 0
Tallied == MaxConns > 0 => \A over \in Opened, ip \in DOMAIN Subnet : Cardinality(Holding(over, ip)) = Tally(<<over, ip>>)
ConnInv == ConnsTyped /\ Tallied

\* The connections of an address are finitely many.
LEMMA HoldingFinite ==
    ASSUME ConnInv, NEW over, NEW ip
    PROVE  IsFiniteSet(Holding(over, ip)) /\ Cardinality(Holding(over, ip)) \in Nat
<1>1. Holding(over, ip) \in SUBSET DOMAIN conns /\ IsFiniteSet(DOMAIN conns)
  BY DEF Holding, ConnInv, ConnsTyped
<1>2. IsFiniteSet(Holding(over, ip))
  BY <1>1, FS_Subset
<1> QED
  BY <1>2, FS_CardinalityType

\* One tally and the connections it counts change, at most.
LEMMA TallyMoves ==
    ASSUME ConnInv, NEW over0, NEW ip0,
           \A over \in Opened, ip \in DOMAIN Subnet :
              (over = over0 /\ ip = ip0) \/ (Holding(over, ip)' = Holding(over, ip) /\ Tally(<<over, ip>>)' = Tally(<<over, ip>>)),
           MaxConns > 0 => Cardinality(Holding(over0, ip0)') = Tally(<<over0, ip0>>)'
    PROVE  Tallied'
<1> SUFFICES ASSUME MaxConns > 0, NEW over \in Opened, NEW ip \in DOMAIN Subnet
             PROVE  Cardinality(Holding(over, ip)') = Tally(<<over, ip>>)'
  BY DEF Tallied
<1>1. CASE over = over0 /\ ip = ip0
  BY <1>1
<1>2. CASE ~(over = over0 /\ ip = ip0)
  <2>1. Holding(over, ip)' = Holding(over, ip) /\ Tally(<<over, ip>>)' = Tally(<<over, ip>>)
    BY <1>2
  <2>2. Cardinality(Holding(over, ip)) = Tally(<<over, ip>>)
    BY DEF ConnInv, Tallied
  <2> QED
    BY <2>1, <2>2
<1> QED
  BY <1>1, <1>2

\* The listeners start without connections.
LEMMA InitConns == Init => ConnInv
<1> SUFFICES ASSUME Init PROVE ConnInv
  OBVIOUS
<1>0. Counted
  BY InitCounts
<1>1. /\ conns = Now("conns")
      /\ counts = [k \in {<<conns[c].over, conns[c].ip>> : c \in DOMAIN conns} |-> 1]
  BY DEF Init
<1>2. \A c \in DOMAIN conns :
        /\ c \in Opened \X {0}
        /\ \E ip \in DOMAIN Subnet : \E client :
              conns[c] = [over |-> c[1], ip |-> ip, client |-> client, at |-> "open"]
  <2>1. conns = Mixes[mix].conns /\ mix \in DOMAIN Mixes
    BY <1>0, <1>1 DEF Counted, Now, Settings
  <2>2. \A c \in DOMAIN Mixes[mix].conns :
          /\ c \in {"tcp", "dot", "doq"} \X {0}
          /\ \E ip \in DOMAIN Subnet : \E client \in {Mixes[mix].conns[c].client} :
                Mixes[mix].conns[c] = [over |-> c[1], ip |-> ip, client |-> client, at |-> "open"]
    BY <2>1, MixAssumption, Zenon
  <2> QED
    BY <2>1, <2>2 DEF Opened
<1>3. \A c \in DOMAIN conns : Conn(c, conns[c]) /\ conns[c].at = "open" /\ c[2] = 0 /\ c = <<c[1], 0>>
  BY <1>2 DEF Conn
<1>4. IsFiniteSet(DOMAIN conns)
  <2>1. IsFiniteSet(Opened) /\ IsFiniteSet({0})
    <3>1. IsFiniteSet({"tcp"}) /\ IsFiniteSet({0})
      BY FS_Singleton
    <3>2. IsFiniteSet({"tcp"} \cup {"dot"})
      BY <3>1, FS_AddElement
    <3>3. IsFiniteSet(({"tcp"} \cup {"dot"}) \cup {"doq"})
      BY <3>2, FS_AddElement
    <3>4. Opened = ({"tcp"} \cup {"dot"}) \cup {"doq"}
      BY DEF Opened
    <3> QED
      BY <3>1, <3>3, <3>4
  <2>2. DOMAIN conns \in SUBSET (Opened \X {0})
    BY <1>2
  <2> QED
    BY <2>1, <2>2, FS_Product, FS_Subset
<1>5. ConnsTyped
  BY <1>3, <1>4 DEF ConnsTyped, Numbered
<1>6. ASSUME NEW over \in Opened, NEW ip \in DOMAIN Subnet
      PROVE  Cardinality(Holding(over, ip)) = Tally(<<over, ip>>)
  <2> DEFINE c == <<over, 0>>
  <2>1. CASE c \in DOMAIN conns /\ conns[c].ip = ip
    <3>1. Holding(over, ip) = {c}
      BY <1>3, <2>1 DEF Holding, Conn
    <3>2. Tally(<<over, ip>>) = 1
      BY <1>1, <1>3, <2>1 DEF Tally, Conn
    <3> QED
      BY <3>1, <3>2, FS_Singleton
  <2>2. CASE ~(c \in DOMAIN conns /\ conns[c].ip = ip)
    <3>1. Holding(over, ip) = {}
      BY <1>3, <2>2 DEF Holding, Conn
    <3>2. <<over, ip>> \notin DOMAIN counts
      BY <1>1, <1>3, <2>2 DEF Conn
    <3> QED
      BY <3>1, <3>2, FS_EmptySet DEF Tally
  <2> QED
    BY <2>1, <2>2
<1> QED
  BY <1>5, <1>6 DEF ConnInv, Tallied

\* What stays of the names of connections when something is spent.
LEMMA NumbersStay ==
    ASSUME Counted, NEW c, c[1] \in Opened, Numbered(c),
           UNCHANGED left \/ \E e \in Happenings : Once(e)
    PROVE  Numbered(c)'
<1>1. c[1] \in Happenings /\ left[c[1]] \in Int
  BY DEF Counted, Opened, Happenings
<1>2. left'[c[1]] = left[c[1]] \/ left'[c[1]] = left[c[1]] - 1
  BY <1>1, SpendingCounts
<1> QED
  BY <1>1, <1>2 DEF Numbered

\* An accepted connection is counted, or refused at the limit; it has a number of its own.
LEMMA AcceptTallies ==
    ASSUME Counted, ConnInv, NEW over \in Opened, NEW first, first # "forget", Accept(over, first)
    PROVE  ConnInv'
<1>1. PICK ip \in DOMAIN Subnet :
        LET got == try_acquire(counts, <<over, ip>>)
        IN  /\ counts' = got.counts
            /\ conns' = IF got.ok THEN Put(conns, <<over, left[over]>>,
                                           [over |-> over, ip |-> ip, client |-> ip, at |-> first])
                        ELSE conns
  BY DEF Accept
<1>0. PICK new : new = <<over, left[over]>>
  OBVIOUS
<1> DEFINE k == <<over, ip>>
           r == [over |-> over, ip |-> ip, client |-> ip, at |-> first]
<1>2. over \in Happenings /\ left[over] \in Int /\ left[over] > 0 /\ left'[over] = left[over] - 1 /\ Once(over)
  BY SpendingCounts DEF Accept, May, Counted, Opened, Happenings
<1>3. \A c \in DOMAIN conns : Conn(c, conns[c]) /\ Numbered(c) /\ Numbered(c)'
  BY <1>2, NumbersStay DEF ConnInv, ConnsTyped, Conn
<1>4. new \notin DOMAIN conns
  BY <1>0, <1>2, <1>3 DEF Numbered
<1>5. Conn(new, r) /\ Numbered(new)' /\ r.over = over /\ r.ip = ip /\ r.at = first
  BY <1>0, <1>2 DEF Conn, Numbered
<1>6. IsFiniteSet(DOMAIN conns) /\ IsFiniteSet(DOMAIN conns \cup {new})
  BY FS_AddElement DEF ConnInv, ConnsTyped
<1>7. \A o \in Opened, i \in DOMAIN Subnet : IsFiniteSet(Holding(o, i)) /\ Cardinality(Holding(o, i)) \in Nat
  BY HoldingFinite
<1> DEFINE n == Tally(k)
<1>8. MaxConns \in Nat
  BY BudgetAssumption
<1>9. MaxConns > 0 => n = Cardinality(Holding(over, ip)) /\ n \in Nat
  BY <1>7 DEF ConnInv, Tallied
<1>10. ASSUME NEW x PROVE MaxConns > 0 => Tally(x)' = IF x = k THEN IF n < MaxConns THEN n + 1 ELSE n ELSE Tally(x)
  <2>1. MaxConns > 0 => counts' = Put(counts, k, IF n < MaxConns THEN n + 1 ELSE n)
    BY <1>1, <1>8 DEF try_acquire, Tally
  <2> HIDE DEF n, k
  <2> QED
    BY <2>1 DEF Tally, Put
<1> HIDE DEF r
<1>11. CASE MaxConns = 0 \/ n < MaxConns
  <2>1. conns' = Put(conns, new, r)
    BY <1>0, <1>1, <1>8, <1>11 DEF try_acquire, Tally, r
  <2>2. /\ DOMAIN conns' = DOMAIN conns \cup {new} /\ conns'[new] = r
        /\ \A c \in DOMAIN conns : conns'[c] = conns[c]
    BY <2>1, <1>4, Zenon DEF Put
  <2>3. ConnsTyped'
    BY <1>3, <1>5, <1>6, <2>2 DEF ConnsTyped
  <2>4. ASSUME NEW o, NEW i, ~(o = over /\ i = ip)
        PROVE  Holding(o, i)' = Holding(o, i)
    BY <1>4, <1>5, <2>2, <2>4 DEF Holding
  <2>5. Holding(over, ip)' = Holding(over, ip) \cup {new} /\ new \notin Holding(over, ip)
    BY <1>4, <1>5, <2>2 DEF Holding
  <2>6. MaxConns > 0 => Cardinality(Holding(over, ip)') = Tally(<<over, ip>>)'
    <3>1. Cardinality(Holding(over, ip) \cup {new}) = Cardinality(Holding(over, ip)) + 1
      BY <1>7, <2>5, FS_AddElement
    <3> QED
      BY <1>9, <1>10, <1>11, <2>5, <3>1
  <2>7. CASE MaxConns > 0
    <3>1. \A o \in Opened, i \in DOMAIN Subnet : ~(o = over /\ i = ip) => Tally(<<o, i>>)' = Tally(<<o, i>>)
      BY <1>10, <2>7
    <3>2. Tallied'
      BY <2>4, <2>6, <3>1, TallyMoves
    <3> QED
      BY <2>3, <3>2 DEF ConnInv
  <2> QED
    BY <1>8, <2>3, <2>7 DEF ConnInv, Tallied
<1>12. CASE ~(MaxConns = 0 \/ n < MaxConns)
  <2>1. conns' = conns
    BY <1>1, <1>8, <1>12 DEF try_acquire, Tally
  <2>2. ConnsTyped'
    BY <1>3, <1>6, <2>1 DEF ConnsTyped
  <2>3. \A o, i : Holding(o, i)' = Holding(o, i) /\ Tally(<<o, i>>)' = Tally(<<o, i>>)
    BY <1>8, <1>10, <1>12, <2>1 DEF Holding
  <2> QED
    BY <2>2, <2>3 DEF ConnInv, Tallied
<1> QED
  BY <1>11, <1>12

\* The end of a connection: its count goes down, and it no longer holds.
LEMMA DropTallies ==
    ASSUME Counted, ConnInv, NEW c \in DOMAIN conns, conns[c].at # "forget", Drop(c)
    PROVE  ConnInv'
<1>0. PICK over, ip : over = conns[c].over /\ ip = conns[c].ip
  OBVIOUS
<1> DEFINE k == <<over, ip>>
<1>1. /\ counts' = release(counts, k)
      /\ conns' = IF k \in DOMAIN counts /\ counts[k] <= 1 THEN [conns EXCEPT ![c].at = "forget"] ELSE Without(conns, {c})
      /\ UNCHANGED left
  BY <1>0 DEF Drop
<1>2. /\ \A d \in DOMAIN conns : Conn(d, conns[d]) /\ Numbered(d) /\ Numbered(d)'
      /\ over \in Opened /\ ip \in DOMAIN Subnet
  BY <1>0, <1>1 DEF ConnInv, ConnsTyped, Conn, Numbered
<1>3. IsFiniteSet(Holding(over, ip)) /\ Cardinality(Holding(over, ip)) \in Nat /\ c \in Holding(over, ip)
  <2>1. c \in Holding(over, ip)
    BY <1>0 DEF Holding
  <2> QED
    BY <2>1, HoldingFinite
<1>4. /\ DOMAIN conns' \subseteq DOMAIN conns
      /\ \A d \in DOMAIN conns \ {c} : d \in DOMAIN conns' /\ conns'[d] = conns[d]
      /\ c \in DOMAIN conns' => Conn(c, conns'[c]) /\ conns'[c].at = "forget"
  <2>1. CASE conns' = Without(conns, {c})
    BY <2>1 DEF Without
  <2>2. CASE conns' = [conns EXCEPT ![c].at = "forget"]
    BY <1>2, <2>2 DEF Conn
  <2> QED
    BY <1>1, <2>1, <2>2
<1>5. ConnsTyped'
  <2>1. IsFiniteSet(DOMAIN conns')
    BY <1>4, FS_Subset DEF ConnInv, ConnsTyped
  <2> QED
    BY <1>2, <1>4, <2>1 DEF ConnsTyped
<1>6. \A o, i : Holding(o, i)' = Holding(o, i) \ {c}
  BY <1>4 DEF Holding
<1>7. \A o, i : ~(o = over /\ i = ip) => c \notin Holding(o, i)
  BY <1>0 DEF Holding
<1>8. Cardinality(Holding(over, ip)') = Cardinality(Holding(over, ip)) - 1 /\ Cardinality(Holding(over, ip)) # 0
  BY <1>3, <1>6, FS_RemoveElement, FS_EmptySet
<1>9. CASE MaxConns > 0
  <2>1. Tally(k) = Cardinality(Holding(over, ip))
    BY <1>2, <1>9 DEF ConnInv, Tallied
  <2>2. k \in DOMAIN counts /\ counts[k] = Tally(k)
    BY <1>8, <2>1 DEF Tally
  <2>3. counts' = [counts EXCEPT ![k] = @ - 1]
    BY <1>1, <2>2 DEF release
  <2>4. Tally(k)' = Tally(k) - 1 /\ \A x : x # k => Tally(x)' = Tally(x)
    BY <2>2, <2>3 DEF Tally
  <2>5. \A o, i : ~(o = over /\ i = ip) => Holding(o, i)' = Holding(o, i) /\ Tally(<<o, i>>)' = Tally(<<o, i>>)
    BY <1>6, <1>7, <2>4
  <2>6. Tallied'
    BY <1>8, <2>1, <2>4, <2>5, TallyMoves
  <2> QED
    BY <1>5, <2>6 DEF ConnInv
<1> QED
  BY <1>5, <1>9 DEF ConnInv, Tallied

\* A connection that goes on to its next state stays counted.
LEMMA GreetTallies ==
    ASSUME Counted, ConnInv, NEW c \in DOMAIN conns, conns[c].at # "forget", NEW at, at # "forget", NEW client,
           Greeted(c, at, client)
    PROVE  ConnInv'
<1>1. conns' = [conns EXCEPT ![c].at = at, ![c].client = client] /\ UNCHANGED <<counts, left>>
  BY DEF Greeted
<1>2. \A d \in DOMAIN conns : Conn(d, conns[d]) /\ Numbered(d)
  BY DEF ConnInv, ConnsTyped
<1>3. /\ DOMAIN conns' = DOMAIN conns
      /\ \A d \in DOMAIN conns : /\ conns'[d].over = conns[d].over /\ conns'[d].ip = conns[d].ip
                                 /\ DOMAIN conns'[d] = DOMAIN conns[d]
                                 /\ conns'[d].at = IF d = c THEN at ELSE conns[d].at
  BY <1>1, <1>2 DEF Conn
<1>4. \A d \in DOMAIN conns : Conn(d, conns'[d]) /\ Numbered(d)'
  BY <1>1, <1>2, <1>3 DEF Conn, Numbered
<1>5. \A o, i : Holding(o, i)' = Holding(o, i) /\ Tally(<<o, i>>)' = Tally(<<o, i>>)
  BY <1>1, <1>3 DEF Holding, Tally
<1>6. ConnsTyped'
  BY <1>3, <1>4 DEF ConnInv, ConnsTyped
<1> QED
  BY <1>5, <1>6 DEF ConnInv, Tallied

\* An idle entry goes only while it counts nothing.
LEMMA ForgetTallies ==
    ASSUME Counted, ConnInv, Forget
    PROVE  ConnInv'
<1>1. PICK c \in DOMAIN conns :
        /\ conns[c].at = "forget"
        /\ counts' = forget_idle(counts, <<conns[c].over, conns[c].ip>>) /\ conns' = Without(conns, {c})
        /\ UNCHANGED left
  BY DEF Forget
<1>2. \A d \in DOMAIN conns : Conn(d, conns[d]) /\ Numbered(d) /\ Numbered(d)'
  BY <1>1 DEF ConnInv, ConnsTyped, Numbered
<1>3. DOMAIN conns' = DOMAIN conns \ {c} /\ \A d \in DOMAIN conns \ {c} : conns'[d] = conns[d]
  BY <1>1 DEF Without
<1>4. IsFiniteSet(DOMAIN conns')
  BY <1>3, FS_Subset DEF ConnInv, ConnsTyped
<1>5. ConnsTyped'
  BY <1>2, <1>3, <1>4 DEF ConnsTyped
<1>6. \A o, i : Holding(o, i)' = Holding(o, i)
  BY <1>1, <1>3 DEF Holding
<1>7. \A x : Tally(x)' = Tally(x)
  BY <1>1 DEF Tally, forget_idle, Without
<1> QED
  BY <1>5, <1>6, <1>7 DEF ConnInv, Tallied

\* Every step keeps ConnInv.
LEMMA StepConns == Counted /\ ConnInv /\ [Next]_vars => ConnInv'
<1> SUFFICES ASSUME Counted, ConnInv, [Next]_vars PROVE ConnInv'
  OBVIOUS
<1>1. ASSUME UNCHANGED <<counts, conns>>, UNCHANGED left \/ \E e \in Happenings : Once(e) PROVE ConnInv'
  <2>1. \A c \in DOMAIN conns : Conn(c, conns[c]) /\ Numbered(c)'
    BY <1>1, NumbersStay DEF ConnInv, ConnsTyped, Conn
  <2>2. \A o, i : Holding(o, i)' = Holding(o, i) /\ Tally(<<o, i>>)' = Tally(<<o, i>>)
    BY <1>1 DEF Holding, Tally
  <2> QED
    BY <1>1, <2>1, <2>2 DEF ConnInv, ConnsTyped, Tallied
<1>2. CASE UNCHANGED vars
  BY <1>1, <1>2 DEF vars, listenerVars
<1>3. CASE ConnectionStep
  <2>1. CASE run_tcp_worker \/ run_dot_accept_loop \/ serve_doq
    <3>1. \E over \in Opened, first \in {"proxy", "open", "tls"} : Accept(over, first)
      BY <2>1 DEF run_tcp_worker, run_dot_accept_loop, serve_doq, Opened
    <3> QED
      BY <3>1, AcceptTallies
  <2>2. CASE ProxyHeader
    <3>1. PICK c \in DOMAIN conns :
            /\ conns[c].at = "proxy"
            /\ Drop(c) \/ \E at \in {"tls", "open"} : \E ip : Greeted(c, at, ip)
      BY <2>2 DEF ProxyHeader
    <3> QED
      BY <3>1, DropTallies, GreetTallies
  <2>3. CASE Handshake
    <3>1. PICK c \in DOMAIN conns : conns[c].at = "tls" /\ (Greeted(c, "open", conns[c].client) \/ Drop(c))
      BY <2>3 DEF Handshake
    <3>2. \E client : Greeted(c, "open", client) \/ Drop(c)
      BY <3>1
    <3> QED
      BY <3>1, <3>2, DropTallies, GreetTallies
  <2>4. CASE Close
    <3>1. PICK c \in DOMAIN conns : conns[c].at = "open" /\ Drop(c)
      BY <2>4 DEF Close
    <3> QED
      BY <3>1, DropTallies
  <2> QED
    BY <1>3, <2>1, <2>2, <2>3, <2>4, ForgetTallies DEF ConnectionStep
<1>4. CASE Next /\ ~ConnectionStep
  <2>1. UNCHANGED left \/ \E e \in Happenings : Once(e)
    BY <1>4, StepSpends DEF Spent, Others, Happenings, set_blocking
  <2>2. UNCHANGED <<counts, conns>>
    <3>1. ASSUME NEW w, WorkerStep(w) PROVE UNCHANGED <<counts, conns>>
      BY <3>1 DEF WorkerStep, Receive, GroupLookup, GroupStore, Admit, CheckLookup, CheckStore, CheckKeep, FastAnswer, Decide,
                  Resolved, listenerVars
    <3>2. ASSUME NEW w, MemoStep(w) PROVE UNCHANGED <<counts, conns>>
      BY <3>2 DEF MemoStep, listenerVars
    <3>3. CASE LogSteps \/ Publish \/ EditGroups \/ load_client_groups \/ set_blocking \/ TimerWakes \/ TimerFlips
      BY <3>3 DEF LogSteps, Publish, EditGroups, load_client_groups, set_blocking, TimerWakes, TimerFlips, listenerVars
    <3>4. CASE ScheduleChanges \/ Tick \/ RateEviction \/ CacheDrop \/ DetectorStep
      BY <3>4 DEF ScheduleChanges, Tick, RateEviction, CacheDrop, DetectorStep, listenerVars
    <3> QED
      BY <1>4, <3>1, <3>2, <3>3, <3>4 DEF Next
  <2> QED
    BY <1>1, <2>1, <2>2
<1> QED
  BY <1>2, <1>3, <1>4

\* ConnInv implies the part of RationsHold about connections.
LEMMA ConnsCounted == ConnInv => ConnectionsCounted
  BY DEF ConnInv, Tallied, ConnectionsCounted, Opened, Holding, Tally

(***************************************************************************)
(* The tokens a bucket gives                                               *)
(***************************************************************************)
Buckets == [tokens : Nat, nx : Nat, last : Nat]

\* The rates and their products are naturals, and a stale bucket lacks no more than the shortfall.
LEMMA Products ==
    /\ Milli \in Nat /\ Milli > 0 /\ Qps \in Nat /\ NxQps \in Nat /\ StaleTtl \in Nat /\ Burst * Milli \in Nat
    /\ nx_burst_milli \in Nat /\ Shortfall \in Nat /\ Burst * Milli <= Shortfall + StaleTtl * Qps
    /\ \A a \in Nat : a * Qps \in Nat /\ a * NxQps \in Nat /\ a * Milli \in Nat /\ a * Shortfall \in Nat /\ a * StaleTtl \in Nat
<1>1. Milli \in Nat /\ Milli > 0 /\ Burst \in Nat /\ Qps \in Nat /\ NxQps \in Nat /\ StaleTtl \in Nat
  BY BudgetAssumption
<1>2. \A a, b \in Nat : a * b \in Nat
  OBVIOUS
<1>3. PICK full, back \in Nat : full = Burst * Milli /\ back = StaleTtl * Qps
  BY <1>1, <1>2
<1>4. Shortfall = IF back >= full THEN 0 ELSE full - back
  BY <1>3 DEF Shortfall
<1>5. Shortfall \in Nat /\ full <= Shortfall + back
  BY <1>3, <1>4
<1> QED
  BY <1>1, <1>2, <1>3, <1>5 DEF nx_burst_milli

\* A new bucket is full.
LEMMA NewBucket ==
    ASSUME NEW n \in Nat
    PROVE  new_bucket(n) \in Buckets /\ new_bucket(n).last = n /\ new_bucket(n).tokens = Burst * Milli
<1>1. Burst * Milli \in Nat /\ nx_burst_milli \in Nat
  BY Products
<1> QED
  BY <1>1 DEF new_bucket, Buckets

\* What time brings is at most its share of tokens.
LEMMA Refilled ==
    ASSUME NEW b \in Buckets, NEW n \in Nat, b.last <= n
    PROVE  /\ refill(b, n) \in Buckets /\ refill(b, n).last = n /\ refill(b, n).tokens <= Burst * Milli
           /\ refill(b, n).tokens + b.last * Qps <= b.tokens + n * Qps
<1>1. PICK d \in Nat : d = n - b.last
  BY DEF Buckets
<1>2. d * Qps \in Nat /\ d * NxQps \in Nat /\ n * Qps \in Nat /\ b.last * Qps \in Nat
  BY Products DEF Buckets
<1>3. d * Qps = n * Qps - b.last * Qps
  <2>1. \A x, y, z \in Nat : (x - y) * z = x * z - y * z
    OBVIOUS
  <2> QED
    BY <1>1, <2>1, Products DEF Buckets
<1>4. PICK e : e = d * Qps
  OBVIOUS
<1>5. PICK f : f = d * NxQps
  OBVIOUS
<1>6. PICK cap : cap = Burst * Milli
  OBVIOUS
<1>7. e \in Nat /\ f \in Nat /\ cap \in Nat /\ nx_burst_milli \in Nat
  BY <1>2, <1>4, <1>5, <1>6, Products
<1>8. refill(b, n) = [tokens |-> Least(b.tokens + e, cap), nx |-> Least(b.nx + f, nx_burst_milli), last |-> n]
  BY <1>1, <1>4, <1>5, <1>6 DEF refill, add_capped
<1>9. b.tokens \in Nat /\ b.nx \in Nat
  BY DEF Buckets
<1>10. Least(b.tokens + e, cap) \in Nat /\ Least(b.tokens + e, cap) <= cap /\ Least(b.tokens + e, cap) <= b.tokens + e
       /\ Least(b.nx + f, nx_burst_milli) \in Nat
  BY <1>7, <1>9 DEF Least
<1>11. PICK t, x : t = Least(b.tokens + e, cap) /\ x = Least(b.nx + f, nx_burst_milli)
  OBVIOUS
<1>12. refill(b, n) = [tokens |-> t, nx |-> x, last |-> n]
  BY <1>8, <1>11
<1>13. refill(b, n) \in Buckets /\ refill(b, n).last = n /\ refill(b, n).tokens = t
  BY <1>10, <1>11, <1>12 DEF Buckets
<1>14. t <= cap /\ t <= b.tokens + e /\ t \in Nat
  BY <1>10, <1>11
<1>15. t + b.last * Qps <= b.tokens + n * Qps
  BY <1>2, <1>3, <1>4, <1>7, <1>9, <1>14
<1> QED
  BY <1>6, <1>13, <1>14, <1>15

\* A bucket gives a token it has or has earned since it was last touched, and no more than it holds.
LEMMA Consumed ==
    ASSUME NEW b \in Buckets, NEW n \in Nat, b.last <= n
    PROVE  LET c == try_consume(b, n) IN
           /\ c.ok \in BOOLEAN /\ c.bucket \in Buckets /\ c.bucket.last = n /\ c.bucket.tokens <= Burst * Milli
           /\ c.bucket.tokens + b.last * Qps <= b.tokens + n * Qps
           /\ c.ok => Milli + c.bucket.tokens + b.last * Qps <= b.tokens + n * Qps
<1>1. PICK r : r = refill(b, n)
  OBVIOUS
<1>2. r \in Buckets /\ r.last = n /\ r.tokens <= Burst * Milli /\ r.tokens + b.last * Qps <= b.tokens + n * Qps
  BY <1>1, Refilled
<1>3. Milli \in Nat /\ Burst * Milli \in Nat /\ b.last * Qps \in Nat /\ n * Qps \in Nat /\ b.tokens \in Nat
  BY Products DEF Buckets
<1>4. PICK t : t = try_decrement(r.tokens)
  OBVIOUS
<1>5. t \in Nat /\ t <= r.tokens /\ (r.tokens >= Milli => t = r.tokens - Milli) /\ r.tokens \in Nat
  BY <1>2, <1>3, <1>4 DEF try_decrement, Buckets
<1>6. PICK c : c = try_consume(b, n)
  OBVIOUS
<1>7. c.bucket = [r EXCEPT !.tokens = t] /\ c.ok = (r.tokens >= Milli)
  BY <1>1, <1>4, <1>6 DEF try_consume
<1>8. c.bucket = [r EXCEPT !.tokens = t] /\ c.ok \in BOOLEAN /\ (c.ok => r.tokens >= Milli)
  <2>1. CASE r.tokens >= Milli
    BY <1>7, <2>1
  <2>2. CASE ~(r.tokens >= Milli)
    <3>1. (r.tokens >= Milli) = FALSE
      BY <2>2, <1>3, <1>5
    <3>2. c.ok = FALSE
      BY <1>7, <3>1, Zenon
    <3> QED
      BY <1>7, <3>2
  <2> QED
    BY <2>1, <2>2
<1>9. c.bucket \in Buckets /\ c.bucket.last = n /\ c.bucket.tokens = t
  BY <1>2, <1>5, <1>8 DEF Buckets
<1>10. /\ t <= Burst * Milli /\ t + b.last * Qps <= b.tokens + n * Qps
       /\ c.ok => Milli + t + b.last * Qps <= b.tokens + n * Qps
  BY <1>2, <1>3, <1>5, <1>8
<1> QED
  BY <1>6, <1>8, <1>9, <1>10

\* A charge for an NXDOMAIN gives nothing from the bucket of queries.
LEMMA Charged ==
    ASSUME NEW b \in Buckets, NEW n \in Nat, b.last <= n
    PROVE  LET c == try_charge_nxdomain(b, n) IN
           /\ c.bucket \in Buckets /\ c.bucket.last = n /\ c.bucket.tokens <= Burst * Milli
           /\ c.bucket.tokens + b.last * Qps <= b.tokens + n * Qps
<1>1. PICK r : r = refill(b, n)
  OBVIOUS
<1>2. r \in Buckets /\ r.last = n /\ r.tokens <= Burst * Milli /\ r.tokens + b.last * Qps <= b.tokens + n * Qps
  BY <1>1, Refilled
<1>3. PICK t : t = try_decrement(r.nx)
  OBVIOUS
<1>4. t \in Nat
  BY <1>2, <1>3, Products DEF try_decrement, Buckets
<1>5. PICK c : c = try_charge_nxdomain(b, n)
  OBVIOUS
<1>6. c.bucket = [r EXCEPT !.nx = t]
  BY <1>1, <1>3, <1>5 DEF try_charge_nxdomain
<1>7. c.bucket \in Buckets /\ c.bucket.last = n /\ c.bucket.tokens = r.tokens
  BY <1>2, <1>4, <1>6 DEF Buckets
<1> QED
  BY <1>2, <1>5, <1>7

\* The bucket a query spends from, and what spending from it says.
BucketOf(k) == IF k \in DOMAIN buckets THEN buckets[k] ELSE new_bucket(now)
Verdicts == {"Allow", "Slip", "Refuse"}

\* A query over its budget is slipped or refused where limits are on.
LEMMA OverBudget ==
    ASSUME NEW on, NEW s, NEW stream
    PROVE  LET o == over_budget(on, s, stream)
           IN  DOMAIN o = {"verdict", "slips"} /\ o.verdict \in Verdicts /\ (on = "on" => o.verdict # "Allow")
  BY DEF over_budget, Verdicts

\* The buckets are those the refusal left.
LEMMA OverBudgetLeft ==
    ASSUME NEW left0, NEW on, NEW s, NEW stream
    PROVE  LET o == Over([buckets |-> left0], over_budget(on, s, stream))
           IN  o.buckets = left0 /\ o.verdict \in Verdicts /\ (on = "on" => o.verdict # "Allow")
<1> DEFINE b == [buckets |-> left0]
           v == over_budget(on, s, stream)
           o == Over(b, v)
<1>1. DOMAIN b = {"buckets"} /\ b.buckets = left0
  OBVIOUS
<1>2. DOMAIN v = {"verdict", "slips"} /\ v.verdict \in Verdicts /\ (on = "on" => v.verdict # "Allow")
  BY OverBudget
<1> HIDE DEF b, v
<1>3. (\A x \in DOMAIN b : o[x] = b[x]) /\ (\A x \in DOMAIN v \ DOMAIN b : o[x] = v[x])
  BY Zenon DEF Over
<1>4. o.buckets = left0 /\ o.verdict = v.verdict
  BY <1>1, <1>2, <1>3
<1> QED
  BY <1>2, <1>4 DEF b, v

\* A verdict of a query, and what it does to the buckets.
Spends(s, k, bucket, ok) ==
    /\ s.buckets = Put(buckets, k, bucket) /\ s.verdict \in Verdicts
    /\ Now("limits") = "on" /\ s.verdict = "Allow" => ok

\* check lets a query of an exempt client through, or takes from its subnet's bucket.
LEMMA CheckSpends ==
    ASSUME NEW ip, NEW stream
    PROVE  LET s == check_rate(Now("limits"), buckets, slips, ip, stream, now)
               k == <<key(ip), stream>>
               c == try_consume(BucketOf(k), now)
           IN  \/ s.buckets = buckets /\ s.verdict = "Allow" /\ (Now("limits") = "on" => contains(ip))
               \/ Spends(s, k, c.bucket, c.ok)
<1> DEFINE s == check_rate(Now("limits"), buckets, slips, ip, stream, now)
           k == <<key(ip), stream>>
           c == try_consume(BucketOf(k), now)
<1>1. CASE Now("limits") = "off" \/ contains(ip)
  <2>1. s = Free(buckets, slips)
    BY <1>1 DEF check_rate
  <2> QED
    BY <1>1, <2>1 DEF Free
<1>2. CASE ~(Now("limits") = "off" \/ contains(ip))
  <2>1. s = IF c.ok THEN [verdict |-> "Allow", buckets |-> Put(buckets, k, c.bucket), slips |-> slips]
            ELSE Over([buckets |-> Put(buckets, k, c.bucket)], over_budget(Now("limits"), slips, stream))
    BY <1>2 DEF check_rate, spend, BucketOf
  <2> HIDE DEF s, k, c
  <2>2. CASE c.ok
    <3>1. s = [verdict |-> "Allow", buckets |-> Put(buckets, k, c.bucket), slips |-> slips]
      BY <2>1, <2>2
    <3>2. Spends(s, k, c.bucket, c.ok)
      BY <2>2, <3>1 DEF Spends, Verdicts
    <3> QED
      BY <3>2 DEF s, k, c
  <2>3. CASE ~c.ok
    <3>1. s = Over([buckets |-> Put(buckets, k, c.bucket)], over_budget(Now("limits"), slips, stream))
      BY <2>1, <2>3
    <3>2. Spends(s, k, c.bucket, c.ok)
      BY <3>1, OverBudgetLeft DEF Spends
    <3> QED
      BY <3>2 DEF s, k, c
  <2> QED
    BY <2>2, <2>3
<1> QED
  BY <1>1, <1>2

\* charge touches no other bucket than the subnet's.
LEMMA ChargeSpends ==
    ASSUME NEW ip, NEW stream
    PROVE  LET s == charge_rate(Now("limits"), buckets, slips, ip, stream, now)
               k == <<key(ip), stream>>
               c == try_charge_nxdomain(BucketOf(k), now)
           IN  (s.buckets = buckets \/ s.buckets = Put(buckets, k, c.bucket)) /\ s.verdict \in Verdicts
<1> DEFINE s == charge_rate(Now("limits"), buckets, slips, ip, stream, now)
           k == <<key(ip), stream>>
           c == try_charge_nxdomain(BucketOf(k), now)
<1>1. \/ s = Free(buckets, slips)
      \/ s = [verdict |-> "Allow", buckets |-> Put(buckets, k, c.bucket), slips |-> slips]
      \/ s = Over([buckets |-> Put(buckets, k, c.bucket)], over_budget(Now("limits"), slips, stream))
  BY DEF charge_rate, spend, BucketOf
<1> HIDE DEF s, k, c
<1>2. (s.buckets = buckets \/ s.buckets = Put(buckets, k, c.bucket)) /\ s.verdict \in Verdicts
  <2>1. CASE s = Free(buckets, slips)
    BY <2>1 DEF Free, Verdicts
  <2>2. CASE s = [verdict |-> "Allow", buckets |-> Put(buckets, k, c.bucket), slips |-> slips]
    BY <2>2 DEF Verdicts
  <2>3. CASE s = Over([buckets |-> Put(buckets, k, c.bucket)], over_budget(Now("limits"), slips, stream))
    BY <2>3, OverBudgetLeft
  <2> QED
    BY <1>1, <2>1, <2>2, <2>3
<1> QED
  BY <1>2 DEF s, k, c

\* What a bucket has given and still holds is what it was born with and earned by its last use, and
\* what its evictions forgave; one that is not there has given no more than time has brought.
Given(k) == IF k \in DOMAIN granted THEN granted[k] ELSE 0
Forgiven(k) == Evictions(k) * Shortfall
Spell(k) == Evictions(k) * StaleTtl
Earned(k) ==
    IF k \in DOMAIN buckets
    THEN /\ Given(k) * Milli + buckets[k].tokens <= Burst * Milli + buckets[k].last * Qps + Forgiven(k)
         /\ Spell(k) <= buckets[k].last
    ELSE Given(k) * Milli <= now * Qps + Forgiven(k) /\ Spell(k) <= now
BucketsTyped ==
    \A k \in DOMAIN buckets : buckets[k] \in Buckets /\ buckets[k].last <= now /\ buckets[k].tokens <= Burst * Milli
GrantsTyped == (\A k \in DOMAIN granted : granted[k] \in Nat) /\ (\A k \in DOMAIN evicted : evicted[k] \in Nat)
GrantInv == BucketsTyped /\ GrantsTyped /\ (Now("limits") = "on" => \A k : Earned(k))

\* What was granted and forgiven is a natural.
LEMMA GivenNat ==
    ASSUME GrantInv, NEW k
    PROVE  Given(k) \in Nat /\ Given(k) * Milli \in Nat /\ Evictions(k) \in Nat /\ Forgiven(k) \in Nat /\ Spell(k) \in Nat
<1>1. Given(k) \in Nat /\ Evictions(k) \in Nat
  BY DEF GrantInv, GrantsTyped, Given, Evictions
<1> QED
  BY <1>1, Products DEF Forgiven, Spell

\* The refill grows with the time.
LEMMA ScaleUp == ASSUME NEW a \in Nat, NEW b \in Nat, a <= b PROVE a * Qps <= b * Qps
<1>1. Qps \in Nat
  BY Products
<1>2. PICK d \in Nat : b = a + d
  BY Z3, b - a \in Nat, b = a + (b - a)
<1>3. b * Qps = a * Qps + d * Qps /\ d * Qps \in Nat /\ a * Qps \in Nat
  BY <1>1, <1>2, Products
<1> QED
  BY <1>3

\* GrantInv implies the part of RationsHold about tokens.
LEMMA EarnedBounds == Counted /\ GrantInv => GrantsBounded
<1> SUFFICES ASSUME Counted, GrantInv, Now("limits") = "on", NEW k \in DOMAIN granted
             PROVE  granted[k] * Milli <= Burst * Milli + now * Qps + Forgiven(k) /\ Spell(k) <= now
  BY DEF GrantsBounded, Forgiven, Spell
<1>1. Earned(k) /\ Given(k) = granted[k] /\ Given(k) * Milli \in Nat /\ Forgiven(k) \in Nat /\ Spell(k) \in Nat
  BY GivenNat DEF GrantInv, Given
<1>2. Burst * Milli \in Nat /\ now * Qps \in Nat /\ now \in Nat
  BY Products DEF Counted
<1>3. CASE k \in DOMAIN buckets
  <2>1. buckets[k].tokens \in Nat /\ buckets[k].last \in Nat /\ buckets[k].last <= now
    BY <1>3 DEF GrantInv, BucketsTyped, Buckets
  <2>2. buckets[k].last * Qps <= now * Qps /\ buckets[k].last * Qps \in Nat
    BY <1>2, <2>1, ScaleUp, Products
  <2>3. /\ Given(k) * Milli + buckets[k].tokens <= Burst * Milli + buckets[k].last * Qps + Forgiven(k)
        /\ Spell(k) <= buckets[k].last
    BY <1>1, <1>3 DEF Earned
  <2> QED
    BY <1>1, <1>2, <2>1, <2>2, <2>3
<1>4. CASE k \notin DOMAIN buckets
  BY <1>1, <1>2, <1>4 DEF Earned
<1> QED
  BY <1>3, <1>4

\* The bucket that is spent from, old or new.
LEMMA BucketHolds ==
    ASSUME Counted, GrantInv, NEW k
    PROVE  /\ BucketOf(k) \in Buckets /\ BucketOf(k).last <= now
           /\ Now("limits") = "on" =>
                 /\ Given(k) * Milli + BucketOf(k).tokens <= Burst * Milli + BucketOf(k).last * Qps + Forgiven(k)
                 /\ Spell(k) <= BucketOf(k).last
<1>1. CASE k \in DOMAIN buckets
  BY <1>1 DEF BucketOf, GrantInv, BucketsTyped, Earned
<1>2. CASE k \notin DOMAIN buckets
  <2>1. BucketOf(k) = new_bucket(now) /\ now \in Nat
    BY <1>2 DEF BucketOf, Counted
  <2>2. BucketOf(k) \in Buckets /\ BucketOf(k).last = now /\ BucketOf(k).tokens = Burst * Milli
    BY <2>1, NewBucket
  <2>3. Now("limits") = "on" => Given(k) * Milli <= now * Qps + Forgiven(k) /\ Spell(k) <= now
    BY <1>2 DEF GrantInv, Earned
  <2>4. Given(k) * Milli \in Nat /\ now * Qps \in Nat /\ Burst * Milli \in Nat /\ Forgiven(k) \in Nat
    BY <2>1, GivenNat, Products
  <2> QED
    BY <2>1, <2>2, <2>3, <2>4
<1> QED
  BY <1>1, <1>2

\* A grant within what the bucket held and earned keeps GrantInv.
LEMMA SpendEarns ==
    ASSUME Counted, GrantInv, UNCHANGED <<mix, now, evicted>>, NEW k, NEW c \in Buckets, c.last = now, c.tokens <= Burst * Milli,
           c.tokens + BucketOf(k).last * Qps <= BucketOf(k).tokens + now * Qps,
           buckets' = Put(buckets, k, c),
           \/ granted' = granted
           \/ /\ granted' = Put(granted, k, 1 + Given(k))
              /\ Now("limits") = "on" => Milli + c.tokens + BucketOf(k).last * Qps <= BucketOf(k).tokens + now * Qps
    PROVE  GrantInv'
<1>1. /\ DOMAIN buckets' = DOMAIN buckets \cup {k} /\ buckets'[k] = c
      /\ \A x \in DOMAIN buckets \ {k} : buckets'[x] = buckets[x]
  BY Zenon DEF Put
<1>2. BucketsTyped'
  BY <1>1 DEF GrantInv, BucketsTyped, Counted, Buckets
<1>3. Given(k) \in Nat /\ Given(k) * Milli \in Nat
  BY GivenNat
<1>4. /\ GrantsTyped' /\ \A x : x # k => Given(x)' = Given(x)
      /\ Given(k)' = Given(k) \/ Given(k)' = 1 + Given(k)
  BY <1>3 DEF GrantInv, GrantsTyped, Given, Put
<1>7. \A x : Forgiven(x)' = Forgiven(x) /\ Spell(x)' = Spell(x)
  BY DEF Forgiven, Spell, Evictions
<1>5. ASSUME Now("limits") = "on", NEW x PROVE Earned(x)'
  <2>1. CASE x # k
    <3>1. Given(x)' = Given(x) /\ (x \in DOMAIN buckets' <=> x \in DOMAIN buckets)
      BY <1>1, <1>4, <2>1
    <3> QED
      BY <1>1, <1>5, <1>7, <2>1, <3>1 DEF GrantInv, Earned
  <2>2. CASE x = k
    <3>1. /\ Given(k) * Milli + BucketOf(k).tokens <= Burst * Milli + BucketOf(k).last * Qps + Forgiven(k)
          /\ BucketOf(k) \in Buckets /\ Spell(k) <= BucketOf(k).last /\ BucketOf(k).last <= now
      BY <1>5, BucketHolds
    <3>2. PICK g, b, e, n, full, d : /\ g = Given(k) * Milli /\ b = BucketOf(k).tokens /\ e = BucketOf(k).last * Qps
                                     /\ n = now * Qps /\ full = Burst * Milli /\ d = Forgiven(k)
      OBVIOUS
    <3>3. g \in Nat /\ b \in Nat /\ e \in Nat /\ n \in Nat /\ full \in Nat /\ Milli \in Nat /\ c.tokens \in Nat /\ d \in Nat
      BY <1>3, <3>1, <3>2, GivenNat, Products DEF Buckets, Counted
    <3>6. Spell(k) <= now
      BY <3>1, GivenNat DEF Buckets, Counted
    <3>4. CASE granted' = granted
      <4>1. Given(k)' = Given(k)
        BY <3>4 DEF Given
      <4>2. g + c.tokens <= full + n + d
        BY <3>1, <3>2, <3>3
      <4> QED
        BY <1>1, <1>7, <2>2, <3>2, <3>6, <4>1, <4>2 DEF Earned
    <3>5. CASE granted' = Put(granted, k, 1 + Given(k)) /\ Milli + c.tokens + e <= b + n
      <4>1. Given(k)' = 1 + Given(k)
        BY <3>5 DEF Given, Put
      <4>2. (1 + Given(k)) * Milli = Milli + g
        BY <1>3, <3>2, <3>3
      <4>3. Milli + g + c.tokens <= full + n + d
        BY <3>1, <3>2, <3>3, <3>5
      <4> QED
        BY <1>1, <1>7, <2>2, <3>2, <3>3, <3>6, <4>1, <4>2, <4>3 DEF Earned
    <3> QED
      BY <1>5, <3>2, <3>4, <3>5
  <2> QED
    BY <2>1, <2>2
<1>6. Now("limits")' = Now("limits")
  BY DEF Now, Settings
<1> QED
  BY <1>2, <1>4, <1>5, <1>6 DEF GrantInv

\* No bucket and no grant to start with.
LEMMA InitGrants == Init => GrantInv
<1> SUFFICES ASSUME Init PROVE GrantInv
  OBVIOUS
<1>1. DOMAIN buckets = {} /\ DOMAIN granted = {} /\ DOMAIN evicted = {}
  BY DEF Init
<1>2. now = 0
  BY DEF Init
<1>3. ASSUME NEW k PROVE Earned(k)
  <2>1. Given(k) = 0 /\ Evictions(k) = 0 /\ k \notin DOMAIN buckets
    BY <1>1 DEF Given, Evictions
  <2>2. Given(k) * Milli = 0 /\ now * Qps = 0 /\ Forgiven(k) = 0 /\ Spell(k) = 0
    BY <1>2, <2>1, Products DEF Forgiven, Spell
  <2> QED
    BY <1>2, <2>1, <2>2 DEF Earned
<1> QED
  BY <1>1, <1>3 DEF GrantInv, BucketsTyped, GrantsTyped

\* What is neither spent, evicted nor waited for stays as it was.
LEMMA GrantFrame == ASSUME GrantInv, UNCHANGED <<mix, now, buckets, granted, evicted>> PROVE GrantInv'
<1>1. Now("limits")' = Now("limits")
  BY DEF Now, Settings
<1>2. \A k : Earned(k)' <=> Earned(k)
  BY DEF Earned, Given, Forgiven, Spell, Evictions
<1> QED
  BY <1>1, <1>2 DEF GrantInv, BucketsTyped, GrantsTyped

\* The limiter's check keeps GrantInv.
LEMMA AdmitGrants == ASSUME Counted, GrantInv, NEW w \in Workers, Admit(w) PROVE GrantInv'
<1> DEFINE ip == task[w].q.client
           stream == is_stream(task[w].q)
           k == <<key(ip), stream>>
           s == check_rate(Now("limits"), buckets, slips, ip, stream, now)
           c == try_consume(BucketOf(k), now)
<1>1. /\ buckets' = s.buckets /\ UNCHANGED <<mix, now, evicted>>
      /\ granted' = IF s.verdict = "Allow" /\ k \in DOMAIN s.buckets /\ ~contains(ip)
                    THEN Put(granted, k, 1 + Given(k)) ELSE granted
  BY DEF Admit, rate_check, Given
<1>2. \/ s.buckets = buckets /\ s.verdict = "Allow" /\ (Now("limits") = "on" => contains(ip))
      \/ Spends(s, k, c.bucket, c.ok)
  BY CheckSpends
<1>3. BucketOf(k) \in Buckets /\ BucketOf(k).last <= now /\ now \in Nat
  BY BucketHolds DEF Counted
<1>4. /\ c.ok \in BOOLEAN /\ c.bucket \in Buckets /\ c.bucket.last = now /\ c.bucket.tokens <= Burst * Milli
      /\ c.bucket.tokens + BucketOf(k).last * Qps <= BucketOf(k).tokens + now * Qps
      /\ c.ok => Milli + c.bucket.tokens + BucketOf(k).last * Qps <= BucketOf(k).tokens + now * Qps
  BY <1>3, Consumed
<1> HIDE DEF ip, stream, k, s, c
<1>5. CASE Spends(s, k, c.bucket, c.ok)
  <2>1. buckets' = Put(buckets, k, c.bucket) /\ (Now("limits") = "on" /\ s.verdict = "Allow" => c.ok)
    BY <1>1, <1>5 DEF Spends
  <2>2. \/ granted' = granted
        \/ granted' = Put(granted, k, 1 + Given(k)) /\ s.verdict = "Allow"
    BY <1>1
  <2>3. PICK b : b = c.bucket
    OBVIOUS
  <2> QED
    BY <1>1, <1>4, <2>1, <2>2, <2>3, SpendEarns
<1>6. CASE s.buckets = buckets /\ s.verdict = "Allow" /\ (Now("limits") = "on" => contains(ip))
  <2>1. CASE granted' = granted
    BY <1>1, <1>6, <2>1, GrantFrame
  <2>2. CASE Now("limits") # "on" /\ granted' = Put(granted, k, 1 + Given(k))
    <3>1. Given(k) \in Nat
      BY GivenNat
    <3>2. GrantsTyped'
      BY <1>1, <2>2, <3>1 DEF GrantInv, GrantsTyped, Put
    <3>3. BucketsTyped' /\ Now("limits")' = Now("limits")
      BY <1>1, <1>6 DEF GrantInv, BucketsTyped, Now, Settings
    <3> QED
      BY <2>2, <3>2, <3>3 DEF GrantInv
  <2> QED
    BY <1>1, <1>6, <2>1, <2>2
<1> QED
  BY <1>2, <1>5, <1>6

\* So does its charge.
LEMMA ChargeGrants ==
    ASSUME Counted, GrantInv, UNCHANGED <<mix, now, granted, evicted>>, NEW w, NEW t, NEW err, NEW charge, NEW r, NEW e,
           Charge(w, t, err, charge, r, e)
    PROVE  GrantInv'
<1> DEFINE k == <<key(t.q.client), is_stream(t.q)>>
           s == charge_rate(Now("limits"), buckets, slips, t.q.client, is_stream(t.q), now)
           c == try_charge_nxdomain(BucketOf(k), now)
<1>1. buckets' = buckets \/ buckets' = s.buckets
  BY DEF Charge
<1>2. s.buckets = buckets \/ s.buckets = Put(buckets, k, c.bucket)
  BY ChargeSpends
<1>3. BucketOf(k) \in Buckets /\ BucketOf(k).last <= now /\ now \in Nat
  BY BucketHolds DEF Counted
<1>4. /\ c.bucket \in Buckets /\ c.bucket.last = now /\ c.bucket.tokens <= Burst * Milli
      /\ c.bucket.tokens + BucketOf(k).last * Qps <= BucketOf(k).tokens + now * Qps
  BY <1>3, Charged
<1> HIDE DEF k, s, c
<1>5. CASE buckets' = Put(buckets, k, c.bucket)
  BY <1>4, <1>5, SpendEarns
<1> QED
  BY <1>1, <1>2, <1>5, GrantFrame

\* An evicted bucket has earned its tokens back but for the shortfall, and lived for StaleTtl.
LEMMA EvictionGrants == ASSUME Counted, GrantInv, RateEviction PROVE GrantInv'
<1>0. PICK gone : gone = StaleBuckets(buckets, now)
  OBVIOUS
<1>1. /\ DOMAIN buckets' = DOMAIN buckets \ gone
      /\ \A k \in DOMAIN buckets \ gone : buckets'[k] = buckets[k]
      /\ UNCHANGED <<mix, now, granted>>
  BY <1>0 DEF RateEviction, Without
<1>5. evicted' = [k \in DOMAIN evicted \cup gone |-> Evictions(k) + IF k \in gone THEN 1 ELSE 0]
  BY <1>0 DEF RateEviction
<1>6. \A k : Evictions(k) \in Nat
  BY GivenNat
<1>7. \A k : Evictions(k)' = IF k \in gone THEN Evictions(k) + 1 ELSE Evictions(k)
  <2> SUFFICES ASSUME NEW k PROVE Evictions(k)' = IF k \in gone THEN Evictions(k) + 1 ELSE Evictions(k)
    OBVIOUS
  <2>1. k \in DOMAIN evicted' <=> k \in DOMAIN evicted \/ k \in gone
    BY <1>5
  <2>2. k \in DOMAIN evicted' => evicted'[k] = Evictions(k) + IF k \in gone THEN 1 ELSE 0
    BY <1>5
  <2>3. k \notin DOMAIN evicted => Evictions(k) = 0
    BY DEF Evictions
  <2>4. Evictions(k)' = IF k \in DOMAIN evicted' THEN evicted'[k] ELSE 0
    BY DEF Evictions
  <2> QED
    BY <1>6, <2>1, <2>2, <2>3, <2>4
<1>8. \A k \in DOMAIN evicted' : evicted'[k] \in Nat
  BY <1>5, <1>6
<1>2. BucketsTyped' /\ GrantsTyped' /\ \A k : Given(k)' = Given(k)
  BY <1>1, <1>8 DEF GrantInv, BucketsTyped, GrantsTyped, Given
<1>3. Now("limits")' = Now("limits")
  BY <1>1 DEF Now, Settings
<1>4. ASSUME Now("limits") = "on", NEW k PROVE Earned(k)'
  <2>1. Earned(k)
    BY <1>4 DEF GrantInv
  <2>2. CASE k \notin gone
    <3>1. (k \in DOMAIN buckets' <=> k \in DOMAIN buckets) /\ (k \in DOMAIN buckets => buckets'[k] = buckets[k])
      BY <1>1, <2>2
    <3>2. Forgiven(k)' = Forgiven(k) /\ Spell(k)' = Spell(k)
      BY <1>7, <2>2 DEF Forgiven, Spell
    <3> QED
      BY <1>1, <1>2, <2>1, <3>1, <3>2 DEF Earned
  <2>3. CASE k \in gone
    <3>0. k \in DOMAIN buckets /\ now - buckets[k].last >= StaleTtl
      BY <1>0, <2>3 DEF StaleBuckets
    <3>1. PICK b \in Buckets : b = buckets[k]
      BY <3>0 DEF GrantInv, BucketsTyped
    <3>2. b.tokens \in Nat /\ b.last \in Nat /\ now \in Nat /\ StaleTtl \in Nat /\ Shortfall \in Nat
      BY <3>1, Products DEF Buckets, Counted
    <3>3. b.last + StaleTtl <= now
      BY <3>0, <3>1, <3>2
    <3>4. (b.last + StaleTtl) * Qps <= now * Qps
      BY <3>2, <3>3, ScaleUp
    <3>5. (b.last + StaleTtl) * Qps = b.last * Qps + StaleTtl * Qps
      BY <3>2, Products
    <3>6. /\ Burst * Milli <= Shortfall + StaleTtl * Qps /\ Burst * Milli \in Nat /\ StaleTtl * Qps \in Nat
          /\ b.last * Qps \in Nat /\ now * Qps \in Nat
      BY <3>2, Products
    <3>7. /\ Given(k) * Milli + b.tokens <= Burst * Milli + b.last * Qps + Forgiven(k) /\ Given(k) * Milli \in Nat
          /\ Spell(k) <= b.last /\ Forgiven(k) \in Nat /\ Spell(k) \in Nat
      BY <2>1, <3>0, <3>1, GivenNat DEF Earned
    <3>8. Given(k) * Milli <= now * Qps + Forgiven(k) + Shortfall /\ Spell(k) + StaleTtl <= now
      BY <3>2, <3>3, <3>4, <3>5, <3>6, <3>7
    <3>9. k \notin DOMAIN buckets'
      BY <1>1, <2>3
    <3>10. Forgiven(k)' = Forgiven(k) + Shortfall /\ Spell(k)' = Spell(k) + StaleTtl
      <4>1. PICK n \in Nat : n = Evictions(k) /\ Evictions(k)' = n + 1
        BY <1>6, <1>7, <2>3
      <4>2. (n + 1) * Shortfall = n * Shortfall + Shortfall /\ (n + 1) * StaleTtl = n * StaleTtl + StaleTtl
        BY <3>2
      <4> QED
        BY <4>1, <4>2 DEF Forgiven, Spell
    <3>11. Given(k) * Milli <= now * Qps + (Forgiven(k) + Shortfall)
      BY <3>2, <3>6, <3>7, <3>8
    <3> QED
      BY <1>1, <1>2, <3>8, <3>9, <3>10, <3>11 DEF Earned
  <2> QED
    BY <2>2, <2>3
<1> QED
  BY <1>2, <1>3, <1>4 DEF GrantInv

\* Time only lets more be granted.
LEMMA TickGrants == ASSUME Counted, GrantInv, Tick PROVE GrantInv'
<1>1. now \in Nat /\ now' = now + 1 /\ UNCHANGED <<mix, buckets, granted, evicted>>
  BY DEF Tick, budgetVars, Counted
<1>2. BucketsTyped' /\ GrantsTyped' /\ \A k : Given(k)' = Given(k)
  BY <1>1 DEF GrantInv, BucketsTyped, GrantsTyped, Given, Buckets
<1>3. Now("limits")' = Now("limits")
  BY <1>1 DEF Now, Settings
<1>4. now * Qps <= now' * Qps /\ now * Qps \in Nat /\ now' * Qps \in Nat
  <2>1. now' \in Nat /\ now <= now'
    BY <1>1
  <2>2. PICK n \in Nat : n = now'
    BY <2>1
  <2> QED
    BY <1>1, <2>1, <2>2, ScaleUp, Products
<1>5. ASSUME Now("limits") = "on", NEW k PROVE Earned(k)'
  <2>1. Earned(k) /\ Given(k) * Milli \in Nat /\ Forgiven(k) \in Nat /\ Spell(k) \in Nat
    BY <1>5, GivenNat DEF GrantInv
  <2>2. Forgiven(k)' = Forgiven(k) /\ Spell(k)' = Spell(k)
    BY <1>1 DEF Forgiven, Spell, Evictions
  <2> QED
    BY <1>1, <1>2, <1>4, <2>1, <2>2 DEF Earned
<1> QED
  BY <1>2, <1>3, <1>5 DEF GrantInv

\* Every step keeps GrantInv.
LEMMA StepGrants == Counted /\ GrantInv /\ [Next]_vars => GrantInv'
<1> SUFFICES ASSUME Counted, GrantInv, [Next]_vars PROVE GrantInv'
  OBVIOUS
<1>1. CASE UNCHANGED vars
  BY <1>1, GrantFrame DEF vars, budgetVars
<1>2. ASSUME NEW w \in Workers, WorkerStep(w) PROVE GrantInv'
  <2>1. CASE Admit(w)
    BY <2>1, AdmitGrants
  <2>2. CASE Decide(w)
    <3>1. UNCHANGED <<mix, now, granted, evicted>>
      BY <2>2 DEF Decide
    <3>2. UNCHANGED buckets \/ \E t, err, charge, r, e : Charge(w, t, err, charge, r, e)
      BY <2>2 DEF Decide
    <3> QED
      BY <3>1, <3>2, ChargeGrants, GrantFrame
  <2>3. CASE Resolved(w)
    <3>1. UNCHANGED <<mix, now, granted, evicted>>
      BY <2>3 DEF Resolved
    <3>2. \E t, err, charge, r, e : Charge(w, t, err, charge, r, e)
      BY <2>3 DEF Resolved
    <3> QED
      BY <3>1, <3>2, ChargeGrants
  <2>4. CASE Receive(w) \/ GroupLookup(w) \/ GroupStore(w) \/ CheckLookup(w) \/ CheckStore(w) \/ CheckKeep(w) \/ FastAnswer(w)
    <3>1. UNCHANGED <<mix, now, buckets, granted, evicted>>
      BY <2>4 DEF Receive, GroupLookup, GroupStore, CheckLookup, CheckStore, CheckKeep, FastAnswer, budgetVars
    <3> QED
      BY <3>1, GrantFrame
  <2> QED
    BY <1>2, <2>1, <2>2, <2>3, <2>4 DEF WorkerStep
<1>3. CASE LogSteps \/ Publish \/ EditGroups \/ load_client_groups \/ set_blocking \/ TimerWakes \/ TimerFlips
           \/ ScheduleChanges \/ ConnectionStep \/ CacheDrop \/ DetectorStep
  <2>1. UNCHANGED <<mix, now, buckets, granted, evicted>>
    BY <1>3 DEF LogSteps, Publish, EditGroups, load_client_groups, set_blocking, TimerWakes, TimerFlips,
                ScheduleChanges, ConnectionStep, CacheDrop, DetectorStep, budgetVars
  <2> QED
    BY <2>1, GrantFrame
<1>5. ASSUME NEW w, MemoStep(w) PROVE GrantInv'
  BY <1>5, GrantFrame DEF MemoStep, budgetVars
<1>4. Now("workers") \subseteq Workers
  BY MixAssumption DEF Now, Settings, Counted
<1> QED
  BY <1>1, <1>2, <1>3, <1>4, <1>5, TickGrants, EvictionGrants DEF Next

\* What is rationed is neither given twice nor lost, whatever is evicted, refilled, dropped or opened
\* meanwhile: a bucket gives no more tokens than it held and earned, and the count of an address is
\* the number of its open connections (DnsRateLimiter, ConnectionLimiter).
THEOREM RationsStayHeld == Spec => []RationsHold
<1>1. Init => Counted /\ ConnInv /\ GrantInv
  BY InitCounts, InitConns, InitGrants
<1>2. Counted /\ ConnInv /\ GrantInv /\ [Next]_vars => (Counted /\ ConnInv /\ GrantInv)'
  BY StepCounts, StepConns, StepGrants
<1>3. Counted /\ ConnInv /\ GrantInv => RationsHold
  BY ConnsCounted, EarnedBounds DEF RationsHold
<1> QED
  BY <1>1, <1>2, <1>3, PTL DEF Spec

(***************************************************************************)
(* The fast path, its admission included                                   *)
(***************************************************************************)
\* Only a datagram is tried on the fast path.
FastFields(t) ==
    /\ t.at = "fast" => t.fast
    /\ t.at # "idle" /\ t.fast => ~is_stream(t.q)
TasksFast == \A w \in Workers : FastFields(task[w])

\* Each move of a query keeps it so.
LEMMA FastMoves ==
    ASSUME TasksShaped, TasksFast, NEW w \in Workers, NEW t, task' = [task EXCEPT ![w] = t], TaskMoves(w, t)
    PROVE  FastFields(t)
<1> DEFINE o == task[w]
<1>0. TaskFields(o) /\ FastFields(o)
  BY DEF TasksShaped, TasksFast
<1>1. CASE Ended(t)
  BY <1>1, EndedFields DEF FastFields
<1>2. CASE Entered(w, t)
  <2>1. PICK q, conn, fast : fast \in BOOLEAN /\ t = Enter(w, q, conn, fast) /\ (fast => ~is_stream(q))
    BY <1>2 DEF Entered
  <2>2. t.q = q /\ t.fast = fast /\ t.at \in {"group", "check", "admit"}
    BY <2>1, EnteredFields
  <2> QED
    BY <2>1, <2>2 DEF FastFields
<1>3. ASSUME NEW b, t = Over(b, o), o.at # "idle", "at" \in DOMAIN b, "q" \notin DOMAIN b, "fast" \notin DOMAIN b,
             b.at = "fast" => o.fast
      PROVE  FastFields(t)
  <2>1. {"q", "fast"} \subseteq DOMAIN o
    BY <1>0, <1>3 DEF TaskFields
  <2> HIDE DEF o
  <2>2. /\ \A x \in DOMAIN b : t[x] = b[x]
        /\ \A x \in DOMAIN o \ DOMAIN b : t[x] = o[x]
    BY <1>3, Zenon DEF Over
  <2>3. t.at = b.at /\ t.q = o.q /\ t.fast = o.fast
    BY <1>3, <2>1, <2>2
  <2> QED
    BY <1>0, <1>3, <2>3 DEF FastFields
<1>4. ASSUME NEW at, t.at = at, t.q = o.q, t.fast = o.fast, o.at # "idle", at = "fast" => o.fast
      PROVE  FastFields(t)
  BY <1>0, <1>4 DEF FastFields
<1>5. CASE GroupLookup(w) /\ t = Over([at |-> "remember", group |-> resolve_group_uncached(task[w].q.client)], task[w])
  <2> DEFINE b == [at |-> "remember", group |-> resolve_group_uncached(task[w].q.client)]
  <2>1. DOMAIN b = {"at", "group"} /\ b.at = "remember" /\ o.at = "group" /\ t = Over(b, o)
    BY <1>5 DEF GroupLookup
  <2> HIDE DEF b, o
  <2> QED
    BY <1>3, <2>1
<1>6. CASE CheckLookup(w)
  <2>1. PICK b : t = Over(b, o) /\ CheckFields(w, b)
    BY <1>6, CheckMoves
  <2>2. PICK at, entry, override, expires :
            b = [at |-> at, entry |-> entry, override |-> override, expires |-> expires] /\ (at = "fast" => task[w].fast)
    BY <2>1 DEF CheckFields
  <2>3. DOMAIN b = {"at", "entry", "override", "expires"} /\ b.at = at /\ (b.at = "fast" => o.fast) /\ o.at # "idle"
    BY <1>6, <2>2 DEF CheckLookup
  <2> HIDE DEF o
  <2> QED
    BY <1>3, <2>1, <2>3
<1>7. CASE task[w].at = "decide" /\ \E ask, plain : t = Over([at |-> "resolving", ask |-> ask, plain |-> plain], task[w])
  <2>1. PICK b : t = Over(b, o) /\ \E ask, plain : b = [at |-> "resolving", ask |-> ask, plain |-> plain]
    BY <1>7
  <2>2. DOMAIN b = {"at", "ask", "plain"} /\ b.at = "resolving" /\ o.at # "idle"
    BY <1>7, <2>1
  <2> HIDE DEF o
  <2> QED
    BY <1>3, <2>1, <2>2
<1>8. ASSUME NEW at, t = [o EXCEPT !.at = at], o.at # "idle", at = "fast" => o.fast
      PROVE  FastFields(t)
  <2>1. t.at = at /\ t.q = o.q /\ t.fast = o.fast
    BY <1>0, <1>8 DEF TaskFields
  <2> QED
    BY <1>4, <1>8, <2>1
<1>9. CASE task[w].at = "store" /\ \E x : t = [task[w] EXCEPT !.at = "keep", !.expires = x]
  <2>1. t.at = "keep" /\ t.q = o.q /\ t.fast = o.fast
    BY <1>0, <1>9 DEF TaskFields
  <2> QED
    BY <1>4, <1>9, <2>1
<1>10. CASE task[w].at = "remember" /\ t = [task[w] EXCEPT !.at = IF task[w].fast THEN "check" ELSE "admit"]
  BY <1>8, <1>10
<1>11. CASE task[w].at = "admit" /\ t = [task[w] EXCEPT !.at = "check"]
  BY <1>8, <1>11
<1>12. CASE task[w].at = "keep" /\ t = [task[w] EXCEPT !.at = IF task[w].fast THEN "fast" ELSE "decide"]
  BY <1>8, <1>12
<1> QED
  BY <1>1, <1>2, <1>5, <1>6, <1>7, <1>9, <1>10, <1>11, <1>12 DEF TaskMoves

\* Every step keeps TasksFast.
LEMMA StepFast == Counted /\ TasksShaped /\ TasksFast /\ [Next]_vars => TasksFast'
<1> SUFFICES ASSUME Counted, TasksShaped, TasksFast, [Next]_vars PROVE TasksFast'
  OBVIOUS
<1>1. CASE UNCHANGED task
  BY <1>1 DEF TasksFast
<1>2. ASSUME NEW w \in Workers, WorkerStep(w) PROVE TasksFast'
  <2>1. PICK t : task' = [task EXCEPT ![w] = t] /\ TaskMoves(w, t)
    BY <1>2, TaskStep
  <2>2. FastFields(t)
    BY <2>1, FastMoves
  <2> QED
    BY <2>1, <2>2 DEF TasksFast, TasksShaped
<1> QED
  BY <1>1, <1>2, TaskFrame DEF vars

\* A full bucket holds a token.
LEMMA FullBucket == Burst * Milli >= Milli
<1>1. Milli \in Nat /\ Burst \in Nat /\ Burst >= 1
  BY BudgetAssumption
<1>2. PICK d \in Nat : Burst = 1 + d
  BY <1>1, Z3, Burst - 1 \in Nat, Burst = 1 + (Burst - 1)
<1>3. (1 + d) * Milli = Milli + d * Milli /\ d * Milli \in Nat
  BY <1>1, Products
<1> QED
  BY <1>1, <1>2, <1>3

\* A bucket that holds a token when the fast path looks holds it when execute would take it.
LEMMA TokenTaken ==
    ASSUME NEW b \in Buckets, NEW n \in Nat, b.last <= n, b.tokens >= Milli
    PROVE  try_consume(b, n).ok = TRUE
<1>1. Milli \in Nat /\ Burst * Milli \in Nat /\ Burst * Milli >= Milli
  BY Products, FullBucket
<1>2. PICK d \in Nat : d = n - b.last
  BY DEF Buckets
<1>3. PICK e, cap : e = d * Qps /\ cap = Burst * Milli
  OBVIOUS
<1>4. e \in Nat /\ cap \in Nat /\ cap >= Milli /\ b.tokens \in Nat
  BY <1>1, <1>3, Products DEF Buckets
<1>5. refill(b, n).tokens = Least(b.tokens + e, cap)
  BY <1>2, <1>3 DEF refill, add_capped
<1>6. Least(b.tokens + e, cap) >= Milli
  BY <1>1, <1>4 DEF Least
<1>7. PICK r : r = refill(b, n)
  OBVIOUS
<1>8. r.tokens >= Milli
  BY <1>5, <1>6, <1>7
<1>9. try_consume(b, n).ok = (r.tokens >= Milli)
  BY <1>7 DEF try_consume
<1> QED
  BY <1>8, <1>9

\* What is_allowed lets through, the rate limit of execute would.
LEMMA AllowedPasses ==
    ASSUME Counted, GrantInv, NEW q, is_allowed(Now("limits"), buckets, q.client), ~is_stream(q)
    PROVE  rate_check(q).verdict = "Allow"
<1> DEFINE k == <<key(q.client), FALSE>>
           b == IF k \in DOMAIN buckets THEN buckets[k] ELSE new_bucket(now)
<1>1. is_stream(q) = FALSE
  BY Zenon DEF is_stream
<1>2. PICK c : c = rate_check(q) /\ c = check_rate(Now("limits"), buckets, slips, q.client, FALSE, now)
  BY <1>1, Zenon DEF rate_check
<1>3. CASE Now("limits") = "off" \/ contains(q.client)
  <2>1. c = Free(buckets, slips)
    BY <1>2, <1>3 DEF check_rate
  <2>2. c.verdict = "Allow"
    BY <2>1 DEF Free
  <2> QED
    BY <1>2, <2>2, Zenon
<1>4. CASE ~(Now("limits") = "off" \/ contains(q.client))
  <2>1. now \in Nat
    BY DEF Counted
  <2>2. b \in Buckets /\ b.last <= now /\ b.tokens >= Milli
    <3>1. CASE k \in DOMAIN buckets
      BY <1>4, <3>1 DEF is_allowed, has_tokens, GrantInv, BucketsTyped
    <3>2. CASE k \notin DOMAIN buckets
      <4>1. new_bucket(now) \in Buckets /\ new_bucket(now).last = now /\ new_bucket(now).tokens = Burst * Milli
        BY <2>1, NewBucket
      <4> QED
        BY <2>1, <3>2, <4>1, FullBucket
    <3> QED
      BY <3>1, <3>2
  <2>3. try_consume(b, now).ok = TRUE
    BY <2>1, <2>2, TokenTaken
  <2>4. PICK rest : c = [verdict |-> "Allow", buckets |-> rest, slips |-> slips]
    BY <1>2, <1>4, <2>3 DEF check_rate, spend
  <2>5. c.verdict = "Allow"
    BY <2>4
  <2> QED
    BY <1>2, <2>5, Zenon
<1> QED
  BY <1>3, <1>4

\* What the fast path answers, execute would answer from the same state: its rate limit and its
\* cookie check would let the query pass, and it would neither block, charge nor resolve it, whatever
\* other threads, publications, feeds and answers did to what both read; only a name that safe
\* search rewrites is excepted (try_fast_path, execute).
THEOREM FastPathStaysTrue == Spec => []FastPathAgrees
<1> DEFINE Inv == Counted /\ CacheHolds(cache) /\ TasksShaped /\ TasksFast /\ GrantInv
<1>1. Init => Inv
  <2>1. Init => TasksFast
    BY DEF Init, TasksFast, FastFields, NoReply, Idle
  <2> QED
    BY <2>1, InitCounts, InitShapes, InitGrants, MixWorld DEF Init
<1>2. Inv /\ [Next]_vars => Inv'
  BY StepCounts, StepCache, StepShapes, StepFast, StepGrants DEF CacheHolds
<1>3. Inv => FastPathAgrees
  <2> SUFFICES ASSUME Inv, NEW w \in Workers, task[w].at = "fast", Fast(w, task[w]),
                      cname_for(task[w].q.name, task[w].group) = ""
               PROVE  /\ rate_check(task[w].q).verdict = "Allow" /\ ~CookieRefused(task[w].q)
                      /\ \E x \in {execute_outcome(w, task[w])} :
                            /\ x.err = "" /\ x.r = try_cache(Settings, cache, task[w].q)
                            /\ x.charge => ~limits_nxdomain(Now("limits"))
    BY DEF FastPathAgrees
  <2>1. CookieGate /\ is_allowed(Now("limits"), buckets, task[w].q.client)
    BY DEF Fast, cache_gate
  <2>2. ~is_stream(task[w].q)
    BY DEF TasksFast, FastFields
  <2>3. rate_check(task[w].q).verdict = "Allow"
    BY <2>1, <2>2, AllowedPasses
  <2>4. ~CookieRefused(task[w].q)
    BY <2>1 DEF CookieGate, CookieRefused, requires_cookie
  <2> QED
    BY <2>3, <2>4, FastAgrees
<1> QED
  BY <1>1, <1>2, <1>3, PTL DEF Spec

(***************************************************************************)
(* What the log shows of a reply                                           *)
(***************************************************************************)
Agree(reply, sent, shown) ==
    \/ reply \in {"none", "FORMERR"}
    \/ shown \in {sent, "UNKNOWN"}
    \/ shown = "NONE" /\ sent = "SERVFAIL"
    \/ shown = "CNAME"
    \/ shown = "unlogged" /\ sent \in {"SERVFAIL", "NXDOMAIN"}

\* The log entry of an outcome tells the reply it becomes.
ShownAs(e) == IF e = NoLog THEN "unlogged" ELSE reply_kind(row_to_query_log(e), Now("policy"))
Replied(q, err) == answer(q, Now("policy"), Now("big"), err)
Honest(q, err, r, e) == Agree(Replied(q, err), SentKind(q, Replied(q, err), err, r), ShownAs(e))

\* What the reader needs of an entry.
Logged(e) == {"blocked", "status", "block", "type", "answers"} \subseteq DOMAIN e /\ e.status # "none"
Logs(e, q, blocked0, status, block, answers) ==
    /\ Logged(e)
    /\ e.blocked = blocked0 /\ e.status = status /\ e.block = block /\ e.type = q.type /\ e.answers = answers
RowOf(e, row) ==
    /\ ShownAs(e) = reply_kind(row, Now("policy")) /\ row.status = to_static_response_status(e.status)
    /\ row.blocked = e.blocked /\ row.block = e.block /\ row.type = e.type /\ row.answers = e.answers

\* An entry becomes a row with its own columns, but for a status the column cannot hold.
LEMMA LogsRow == ASSUME NEW e, Logged(e) PROVE \E row : RowOf(e, row)
<1>1. e # NoLog
  BY DEF Logged, NoLog
<1>2. PICK row : row = row_to_query_log(e)
  OBVIOUS
<1>3. row = [e EXCEPT !.status = to_static_response_status(e.status)]
  BY <1>2 DEF row_to_query_log, Logged
<1>4. /\ row.blocked = e.blocked /\ row.status = to_static_response_status(e.status) /\ row.block = e.block
      /\ row.type = e.type /\ row.answers = e.answers
  BY <1>3 DEF Logged
<1> QED
  BY <1>1, <1>2, <1>4 DEF ShownAs, RowOf

\* The entry every path starts from.
LEMMA BaseLogs ==
    ASSUME NEW q
    PROVE  /\ Logs(base_query_log(q), q, FALSE, "NOERROR", "none", FALSE)
           /\ DOMAIN base_query_log(q) = {"source", "domain", "type", "client", "blocked", "hit", "refresh", "status", "block",
                                          "up", "dnssec", "answers"}
  BY DEF base_query_log, Logs, Logged

\* The entry of a blocked query.
LEMMA BlockedLogs ==
    ASSUME NEW q, NEW status, status # "none", NEW block
    PROVE  Logs(BlockedLog(q, status, block), q, TRUE, status, block, FALSE)
<1>1. PICK b : b = base_query_log(q)
  OBVIOUS
<1>2. BlockedLog(q, status, block) = [b EXCEPT !.blocked = TRUE, !.status = status, !.block = block]
  BY <1>1 DEF BlockedLog
<1> QED
  BY <1>1, <1>2, BaseLogs, ZenonT(60) DEF Logs, Logged

\* A block is shown as the reply of the policy, whatever refused the query.
LEMMA BlockHonest ==
    ASSUME Counted, NEW q, NEW err \in {"Blocked", "Cloaked", "Filtered"}, NEW r,
           NEW status, status \notin {"none", "RATE_LIMITED", "RATE_LIMITED_TC"},
           NEW block, block \notin {"nxdomain_hijack", "dns_cookie"}
    PROVE  Honest(q, err, r, BlockedLog(q, status, block))
<1>1. PICK policy : policy = Now("policy")
  OBVIOUS
<1>2. policy \in {"NullIp", "NoData", "NxDomain", "Refused"}
  BY <1>1, MixWorld
<1>3. PICK e : e = BlockedLog(q, status, block)
  OBVIOUS
<1>4. Logs(e, q, TRUE, status, block, FALSE)
  BY <1>3, BlockedLogs
<1>5. PICK row : /\ ShownAs(e) = reply_kind(row, Now("policy")) /\ row.blocked = TRUE
                 /\ row.status = to_static_response_status(status) /\ row.block = block
                 /\ row.type = q.type /\ row.answers = FALSE
  <2>1. PICK row : RowOf(e, row)
    BY <1>4, LogsRow DEF Logs
  <2> QED
    BY <1>4, <2>1 DEF RowOf, Logs
<1>6. row.status \notin {"RATE_LIMITED", "RATE_LIMITED_TC"}
  BY <1>5 DEF to_static_response_status
<1>7. ShownAs(e) = blocked_reply_kind(policy, q.type)
  BY <1>1, <1>5, <1>6 DEF reply_kind
<1>8. Replied(q, err) = build_blocked_wire(policy, q.type)
  BY <1>1 DEF Replied, answer, error_response
<1>9. PICK reply : reply = Replied(q, err)
  OBVIOUS
<1>10. SentKind(q, reply, err, r) = IF reply = "SINKHOLE" THEN "IP" ELSE IF reply \in {"TC", "BADCOOKIE"} THEN "OTHER" ELSE reply
  BY DEF SentKind
<1>11. ShownAs(e) = SentKind(q, reply, err, r)
  BY <1>2, <1>7, <1>8, <1>9, <1>10 DEF blocked_reply_kind, build_blocked_wire
<1> QED
  BY <1>3, <1>9, <1>11 DEF Honest, Agree

\* A hijacked NXDOMAIN is logged as the block that was sent.
LEMMA HijackHonest ==
    ASSUME NEW q, NEW r PROVE Honest(q, "NxDomain", r, BlockedLog(q, "NXDOMAIN_HIJACK", "nxdomain_hijack"))
<1>1. PICK e : e = BlockedLog(q, "NXDOMAIN_HIJACK", "nxdomain_hijack")
  OBVIOUS
<1>2. Logs(e, q, TRUE, "NXDOMAIN_HIJACK", "nxdomain_hijack", FALSE)
  BY <1>1, BlockedLogs
<1>3. PICK row : ShownAs(e) = reply_kind(row, Now("policy")) /\ row.blocked = TRUE /\ row.block = "nxdomain_hijack"
  <2>1. PICK row : RowOf(e, row)
    BY <1>2, LogsRow DEF Logs
  <2> QED
    BY <1>2, <2>1 DEF RowOf, Logs
<1>4. ShownAs(e) = "NXDOMAIN"
  BY <1>3 DEF reply_kind
<1>5. Replied(q, "NxDomain") = "NXDOMAIN"
  BY DEF Replied, answer, error_response
<1>6. SentKind(q, "NXDOMAIN", "NxDomain", r) = "NXDOMAIN"
  BY DEF SentKind
<1> QED
  BY <1>1, <1>4, <1>5, <1>6 DEF Honest, Agree

\* A slip is logged as truncated, a refusal as refused.
LEMMA RateHonest ==
    ASSUME NEW q, NEW verdict \in {"Slip", "Refuse"}, NEW r
    PROVE  Honest(q, verdict, r, apply_rate_limit(q, verdict))
<1>1. PICK status : status = IF verdict = "Slip" THEN "RATE_LIMITED_TC" ELSE "RATE_LIMITED"
  OBVIOUS
<1>2. PICK e : e = apply_rate_limit(q, verdict)
  OBVIOUS
<1>3. Logs(e, q, TRUE, status, "rate_limit", FALSE)
  BY <1>1, <1>2, BlockedLogs DEF apply_rate_limit
<1>4. PICK row : /\ ShownAs(e) = reply_kind(row, Now("policy")) /\ row.blocked = TRUE /\ row.block = "rate_limit"
                 /\ row.status = to_static_response_status(status)
  <2>1. PICK row : RowOf(e, row)
    BY <1>3, LogsRow DEF Logs
  <2> QED
    BY <1>3, <2>1 DEF RowOf, Logs
<1>5. row.status = status
  BY <1>1, <1>4 DEF to_static_response_status
<1>6. ShownAs(e) = IF verdict = "Slip" THEN "OTHER" ELSE "REFUSED"
  BY <1>1, <1>4, <1>5 DEF reply_kind
<1>7. Replied(q, verdict) = IF verdict = "Slip" THEN "TC" ELSE "REFUSED"
  BY DEF Replied, answer, error_response
<1>8. SentKind(q, Replied(q, verdict), verdict, r) = IF verdict = "Slip" THEN "OTHER" ELSE "REFUSED"
  BY <1>7 DEF SentKind
<1> QED
  BY <1>2, <1>6, <1>8 DEF Honest, Agree

\* A bad cookie is logged as it was answered.
LEMMA CookieHonest == ASSUME NEW q, NEW r PROVE Honest(q, "CookieInvalid", r, CookieLog(q))
<1>1. PICK status : status = IF response_cookie(q) THEN "BADCOOKIE" ELSE "REFUSED"
  OBVIOUS
<1>2. PICK e : e = CookieLog(q)
  OBVIOUS
<1>3. Logs(e, q, TRUE, status, "dns_cookie", FALSE)
  BY <1>1, <1>2, BlockedLogs DEF CookieLog
<1>4. PICK row : /\ ShownAs(e) = reply_kind(row, Now("policy")) /\ row.blocked = TRUE /\ row.block = "dns_cookie"
                 /\ row.status = to_static_response_status(status)
  <2>1. PICK row : RowOf(e, row)
    BY <1>3, LogsRow DEF Logs
  <2> QED
    BY <1>3, <2>1 DEF RowOf, Logs
<1>5. row.status = status
  BY <1>1, <1>4 DEF to_static_response_status
<1>6. ShownAs(e) = IF response_cookie(q) THEN "OTHER" ELSE "REFUSED"
  BY <1>1, <1>4, <1>5 DEF reply_kind
<1>7. Replied(q, "CookieInvalid") = IF response_cookie(q) THEN "BADCOOKIE" ELSE "REFUSED"
  BY DEF Replied, answer, error_response
<1>8. SentKind(q, Replied(q, "CookieInvalid"), "CookieInvalid", r) = IF response_cookie(q) THEN "OTHER" ELSE "REFUSED"
  BY <1>7 DEF SentKind
<1> QED
  BY <1>2, <1>6, <1>8 DEF Honest, Agree

\* An answer is shown by its code and whether it has addresses; one of a local record only by the latter.
LEMMA AnswerHonest ==
    ASSUME NEW q, NEW r, NEW e, NEW block, NEW answers \in BOOLEAN, answers <=> r.addrs # {},
           \/ Logs(e, q, FALSE, rcode_name(r), block, answers)
           \/ Answer(r) /\ Logs(e, q, FALSE, "LOCAL_DNS", block, answers)
    PROVE  Honest(q, "", r, e)
<1>1. PICK status : /\ Logs(e, q, FALSE, status, block, answers)
                    /\ status = rcode_name(r) \/ (status = "LOCAL_DNS" /\ Answer(r))
  OBVIOUS
<1>2. PICK row : /\ ShownAs(e) = reply_kind(row, Now("policy")) /\ row.blocked = FALSE
                 /\ row.status = to_static_response_status(status) /\ row.type = q.type /\ row.answers = answers
  <2>1. PICK row : RowOf(e, row)
    BY <1>1, LogsRow DEF Logs
  <2> QED
    BY <1>1, <2>1 DEF RowOf, Logs
<1>3. row.status = status
  BY <1>1, <1>2 DEF to_static_response_status, rcode_name
<1>4. PICK sent : sent = SentKind(q, Replied(q, ""), "", r)
  OBVIOUS
<1>5. sent = IF r.nx THEN "NXDOMAIN" ELSE IF r.addrs # {} THEN "IP"
             ELSE IF q.type \in {"A", "AAAA"} THEN "NODATA" ELSE "OTHER"
  BY <1>4 DEF SentKind
<1>6. CASE status = rcode_name(r)
  <2>1. CASE r.nx
    <3>1. status = "NXDOMAIN" /\ sent = "NXDOMAIN"
      BY <1>5, <1>6, <2>1 DEF rcode_name
    <3>2. ShownAs(e) = "NXDOMAIN"
      BY <1>2, <1>3, <3>1 DEF reply_kind
    <3> QED
      BY <1>4, <3>1, <3>2 DEF Honest, Agree
  <2>2. CASE ~r.nx
    <3>1. status = "NOERROR"
      BY <1>6, <2>2 DEF rcode_name
    <3>2. ShownAs(e) = sent
      BY <1>2, <1>3, <1>5, <2>2, <3>1 DEF reply_kind
    <3> QED
      BY <1>4, <3>2 DEF Honest, Agree
  <2> QED
    BY <2>1, <2>2
<1>7. CASE status = "LOCAL_DNS" /\ Answer(r)
  <2>1. ShownAs(e) = IF answers THEN "IP" ELSE "UNKNOWN"
    BY <1>2, <1>3, <1>7 DEF reply_kind
  <2>2. answers => sent = "IP"
    BY <1>5, <1>7 DEF Answer
  <2> QED
    BY <1>4, <2>1, <2>2 DEF Honest, Agree
<1> QED
  BY <1>1, <1>6, <1>7

\* The entry of a hit has its response code, and answers if it has addresses.
LEMMA CachedLogs ==
    ASSUME NEW q, NEW r
    PROVE  \E answers \in BOOLEAN : (answers <=> r.addrs # {}) /\ Logs(CachedLog(q, r), q, FALSE, rcode_name(r), "none", answers)
<1>1. PICK b : b = base_query_log(q)
  OBVIOUS
<1>2. PICK status : status = rcode_name(r) /\ status # "none"
  BY DEF rcode_name
<1>3. CASE r.addrs # {}
  <2>1. (r.addrs # {}) = TRUE
    BY <1>3
  <2>2. CachedLog(q, r) = [[b EXCEPT !.hit = TRUE, !.dnssec = r.status, !.answers = TRUE] EXCEPT !.status = status]
    BY <1>1, <1>2, <2>1 DEF CachedLog, cache_hit_log
  <2>3. Logs(CachedLog(q, r), q, FALSE, status, "none", TRUE)
    <3>1. PICK c : c = [b EXCEPT !.hit = TRUE, !.dnssec = r.status, !.answers = TRUE]
      OBVIOUS
    <3>2. Logs(c, q, FALSE, "NOERROR", "none", TRUE) /\ DOMAIN c = DOMAIN b
      BY <1>1, <3>1, BaseLogs DEF Logs, Logged
    <3>3. PICK e : e = [c EXCEPT !.status = status]
      OBVIOUS
    <3>4. Logs(e, q, FALSE, status, "none", TRUE)
      BY <1>2, <3>2, <3>3 DEF Logs, Logged
    <3> QED
      BY <2>2, <3>1, <3>3, <3>4
  <2> QED
    BY <1>2, <1>3, <2>3
<1>4. CASE r.addrs = {}
  <2>1. (r.addrs # {}) = FALSE
    BY <1>4
  <2>2. CachedLog(q, r) = [[b EXCEPT !.hit = TRUE, !.dnssec = r.status, !.answers = FALSE] EXCEPT !.status = status]
    BY <1>1, <1>2, <2>1 DEF CachedLog, cache_hit_log
  <2>3. Logs(CachedLog(q, r), q, FALSE, status, "none", FALSE)
    <3>1. PICK c : c = [b EXCEPT !.hit = TRUE, !.dnssec = r.status, !.answers = FALSE]
      OBVIOUS
    <3>2. Logs(c, q, FALSE, "NOERROR", "none", FALSE) /\ DOMAIN c = DOMAIN b
      BY <1>1, <3>1, BaseLogs DEF Logs, Logged
    <3>3. PICK e : e = [c EXCEPT !.status = status]
      OBVIOUS
    <3>4. Logs(e, q, FALSE, status, "none", FALSE)
      BY <1>2, <3>2, <3>3 DEF Logs, Logged
    <3> QED
      BY <2>2, <3>1, <3>3, <3>4
  <2> QED
    BY <1>2, <1>4, <2>3
<1> QED
  BY <1>3, <1>4

\* A hit is logged as it was answered.
LEMMA CachedHonest == ASSUME NEW q, NEW r PROVE Honest(q, "", r, CachedLog(q, r))
  BY CachedLogs, AnswerHonest

\* A resolution is logged as it was answered.
LEMMA ResolvedHonest == ASSUME NEW q, NEW r, Answer(r) PROVE Honest(q, "", r, ResolvedLog(q, r))
<1>1. PICK b : b = base_query_log(q)
  OBVIOUS
<1>2. PICK status : status = (IF r.local THEN "LOCAL_DNS" ELSE rcode_name(r)) /\ status # "none"
  BY DEF rcode_name
<1>3. PICK e : e = ResolvedLog(q, r)
  OBVIOUS
<1>4. CASE r.addrs # {}
  <2>1. (r.addrs # {}) = TRUE
    BY <1>4
  <2>2. e = [b EXCEPT !.hit = r.hit, !.dnssec = r.status, !.answers = TRUE, !.up = UpstreamOf(r), !.status = status]
    BY <1>1, <1>2, <1>3, <2>1 DEF ResolvedLog
  <2>3. Logs(e, q, FALSE, status, "none", TRUE)
    BY <1>1, <1>2, <2>2, BaseLogs DEF Logs, Logged
  <2>4. \E answers \in BOOLEAN : (answers <=> r.addrs # {}) /\ Logs(e, q, FALSE, status, "none", answers)
    BY <1>4, <2>3
  <2> QED
    BY <1>2, <1>3, <2>4, AnswerHonest
<1>5. CASE r.addrs = {}
  <2>1. (r.addrs # {}) = FALSE
    BY <1>5
  <2>2. e = [b EXCEPT !.hit = r.hit, !.dnssec = r.status, !.answers = FALSE, !.up = UpstreamOf(r), !.status = status]
    BY <1>1, <1>2, <1>3, <2>1 DEF ResolvedLog
  <2>3. Logs(e, q, FALSE, status, "none", FALSE)
    BY <1>1, <1>2, <2>2, BaseLogs DEF Logs, Logged
  <2>4. \E answers \in BOOLEAN : (answers <=> r.addrs # {}) /\ Logs(e, q, FALSE, status, "none", answers)
    BY <1>5, <2>3
  <2> QED
    BY <1>2, <1>3, <2>4, AnswerHonest
<1> QED
  BY <1>4, <1>5

\* The failures that are logged, those that are not, and the name of a safe search.
LEMMA FailHonest ==
    ASSUME NEW q, NEW err, NEW r, NEW e, NEW status, Logs(e, q, FALSE, status, "none", FALSE),
           \/ err = "NxDomain" /\ status \in {"NXDOMAIN", "LOCAL_DNS"}
           \/ err = "QueryTimeout" /\ status = "TIMEOUT"
           \/ err = "ServFail" /\ status = "SERVFAIL"
           \/ err \in {"Bogus", "Indeterminate"} /\ status \in {"SERVFAIL_BOGUS", "SERVFAIL_INDETERMINATE"}
    PROVE  Honest(q, err, r, e)
<1>1. PICK row : RowOf(e, row)
  BY LogsRow DEF Logs
<1>2. /\ ShownAs(e) = reply_kind(row, Now("policy")) /\ row.blocked = FALSE
      /\ row.status = to_static_response_status(status) /\ row.answers = FALSE
  BY <1>1 DEF RowOf, Logs
<1>3. ShownAs(e) = CASE status = "NXDOMAIN" -> "NXDOMAIN" [] status = "TIMEOUT" -> "NONE" [] status = "SERVFAIL" -> "SERVFAIL"
                   [] OTHER -> "UNKNOWN"
  BY <1>2 DEF reply_kind, to_static_response_status
<1>4. PICK reply : reply = Replied(q, err)
  OBVIOUS
<1>5. reply = IF err = "NxDomain" THEN "NXDOMAIN" ELSE "SERVFAIL"
  BY <1>4 DEF Replied, answer, error_response
<1>6. SentKind(q, reply, err, r) = reply
  BY <1>5 DEF SentKind
<1> QED
  BY <1>3, <1>4, <1>5, <1>6 DEF Honest, Agree

\* What is not logged is a failure or a name that does not exist.
LEMMA UnloggedHonest ==
    ASSUME NEW q, NEW err \in Errors \cup {"UpstreamCapacityExhausted"}, NEW r
    PROVE  Honest(q, err, r, NoLog)
<1>1. ShownAs(NoLog) = "unlogged"
  BY DEF ShownAs
<1>2. PICK reply : reply = Replied(q, err)
  OBVIOUS
<1>3. reply = "none" \/ reply = "NXDOMAIN" \/ reply = "SERVFAIL"
  BY <1>2 DEF Replied, answer, error_response, Errors
<1>4. reply # "none" => SentKind(q, reply, err, r) = reply
  BY <1>3 DEF SentKind, Errors
<1> QED
  BY <1>1, <1>2, <1>3, <1>4 DEF Honest, Agree

\* A safe search is logged as its CNAME.
LEMMA SafeHonest == ASSUME NEW q, NEW s, NEW r PROVE Honest(q, "", r, SafeSearchLog(q, s))
<1>1. PICK b : b = base_query_log(q)
  OBVIOUS
<1>2. PICK e : e = SafeSearchLog(q, s)
  OBVIOUS
<1>3. e = [b EXCEPT !.hit = s.hit, !.up = UpstreamOf(s), !.status = "SAFE_SEARCH"]
  BY <1>1, <1>2 DEF SafeSearchLog
<1>4. Logs(e, q, FALSE, "SAFE_SEARCH", "none", FALSE)
  BY <1>1, <1>3, BaseLogs DEF Logs, Logged
<1>5. PICK row : RowOf(e, row)
  BY <1>4, LogsRow DEF Logs
<1>6. /\ ShownAs(e) = reply_kind(row, Now("policy")) /\ row.blocked = FALSE
      /\ row.status = to_static_response_status("SAFE_SEARCH") /\ row.answers = FALSE
  BY <1>4, <1>5 DEF RowOf, Logs
<1>7. ShownAs(e) = "CNAME"
  BY <1>6 DEF reply_kind, to_static_response_status
<1> QED
  BY <1>2, <1>7 DEF Honest, Agree

\* An entry of a failure is a base entry with a status.
LEMMA StatusLogs ==
    ASSUME NEW q, NEW status, status # "none"
    PROVE  Logs([base_query_log(q) EXCEPT !.status = status], q, FALSE, status, "none", FALSE)
<1>1. PICK b : b = base_query_log(q)
  OBVIOUS
<1> QED
  BY <1>1, BaseLogs DEF Logs, Logged

\* The entry of a negative hit.
LEMMA HitStatusLogs ==
    ASSUME NEW q
    PROVE  Logs([base_query_log(q) EXCEPT !.hit = TRUE, !.status = "NXDOMAIN"], q, FALSE, "NXDOMAIN", "none", FALSE)
<1>1. PICK b : b = base_query_log(q)
  OBVIOUS
<1> QED
  BY <1>1, BaseLogs DEF Logs, Logged

\* The entry of a failure with its DNSSEC status.
LEMMA DnssecStatusLogs ==
    ASSUME NEW q, NEW v, NEW status, status # "none"
    PROVE  Logs([base_query_log(q) EXCEPT !.dnssec = v, !.status = status], q, FALSE, status, "none", FALSE)
<1>1. PICK b : b = base_query_log(q)
  OBVIOUS
<1> QED
  BY <1>1, BaseLogs DEF Logs, Logged

\* What execute makes of a query is answered as it is logged, or asked upstream: as it is, or the
\* target of a safe search.
Safe(name) == \E k \in DOMAIN Now("safe") : name = Now("safe")[k]
Answers(q, x) == x.err # "upstream" /\ Honest(q, x.err, x.r, x.log)
Asks(x) == x.err = "upstream" /\ (x.plain \/ Safe(x.ask.name))

\* The safe-search branch answers honestly or asks the resolver for a safe name.
LEMMA SafeOutcome ==
    ASSUME NEW t, NEW target, Safe(target)
    PROVE  Answers(t.q, safe_search_outcome(t, target)) \/ Asks(safe_search_outcome(t, target))
<1>1. PICK q : q = Ask(target, t.q.type)
  OBVIOUS
<1>2. PICK r : r = try_cache(Settings, cache, q)
  OBVIOUS
<1>3. PICK x : x = safe_search_outcome(t, target)
  OBVIOUS
<1>4. CASE r.hit /\ has_response_data(r)
  <2>1. x = Reply("", FALSE, [r EXCEPT !.chain = <<>>], SafeSearchLog(t.q, r))
    BY <1>1, <1>2, <1>3, <1>4 DEF safe_search_outcome
  <2>2. PICK s : s = [r EXCEPT !.chain = <<>>]
    OBVIOUS
  <2>3. x.err = "" /\ x.r = s /\ x.log = SafeSearchLog(t.q, r)
    BY <2>1, <2>2 DEF Reply
  <2>4. Honest(t.q, "", s, SafeSearchLog(t.q, r))
    BY SafeHonest
  <2> QED
    BY <1>3, <2>3, <2>4 DEF Answers
<1>5. CASE ~(r.hit /\ has_response_data(r))
  <2>1. x = Upstream(q, FALSE, NotCached)
    BY <1>1, <1>2, <1>3, <1>5 DEF safe_search_outcome
  <2>2. x.err = "upstream" /\ x.ask = q
    BY <2>1 DEF Upstream
  <2>3. q.name = target
    BY <1>1 DEF Ask
  <2> QED
    BY <1>3, <2>2, <2>3 DEF Asks
<1> QED
  BY <1>4, <1>5

\* So does the cache's branch, or it asks for the name itself.
LEMMA CacheOutcome ==
    ASSUME Counted, NEW w, NEW t
    PROVE  Answers(t.q, cache_outcome(w, t)) \/ Asks(cache_outcome(w, t))
<1>1. PICK r : r = try_cache(Settings, cache, t.q)
  OBVIOUS
<1>2. PICK x : x = cache_outcome(w, t)
  OBVIOUS
<1>3. CASE r.hit /\ has_response_data(r) /\ Cloaked(w, t, r)
  <2>1. x = Reply("Cloaked", FALSE, r, CloakedLog(t.q))
    BY <1>1, <1>2, <1>3 DEF cache_outcome
  <2>2. Honest(t.q, "Cloaked", r, CloakedLog(t.q))
    BY BlockHonest DEF CloakedLog
  <2>3. x.err = "Cloaked" /\ x.r = r /\ x.log = CloakedLog(t.q)
    BY <2>1 DEF Reply
  <2> QED
    BY <1>2, <2>2, <2>3 DEF Answers
<1>4. CASE r.hit /\ has_response_data(r) /\ ~Cloaked(w, t, r)
           /\ ~(Screening(t).detectors /\ is_suspicious_cached_answer(t.q, r))
  <2>1. x = Reply("", spends_nxdomain_budget(r), r, CachedLog(t.q, r))
    BY <1>1, <1>2, <1>4 DEF cache_outcome
  <2>2. x.err = "" /\ x.r = r /\ x.log = CachedLog(t.q, r)
    <3>1. CASE spends_nxdomain_budget(r)
      <4>1. x = Reply("", TRUE, r, CachedLog(t.q, r))
        BY <2>1, <3>1, Zenon DEF spends_nxdomain_budget
      <4> QED
        BY <4>1 DEF Reply
    <3>2. CASE ~spends_nxdomain_budget(r)
      <4>1. x = Reply("", FALSE, r, CachedLog(t.q, r))
        BY <2>1, <3>2, Zenon DEF spends_nxdomain_budget
      <4> QED
        BY <4>1 DEF Reply
    <3> QED
      BY <3>1, <3>2
  <2>3. Honest(t.q, "", r, CachedLog(t.q, r))
    BY CachedHonest
  <2> QED
    BY <1>2, <2>2, <2>3 DEF Answers
<1>5. CASE r.hit /\ ~has_response_data(r)
  <2>1. PICK e : e = [base_query_log(t.q) EXCEPT !.hit = TRUE, !.status = "NXDOMAIN"]
    OBVIOUS
  <2>2. x = Reply("NxDomain", ~r.lnx, NotCached, e)
    BY <1>1, <1>2, <1>5, <2>1 DEF cache_outcome
  <2>3. x.err = "NxDomain" /\ x.r = NotCached /\ x.log = e
    <3>1. CASE r.lnx
      <4>1. x = Reply("NxDomain", FALSE, NotCached, e)
        BY <2>2, <3>1, Zenon
      <4> QED
        BY <4>1 DEF Reply
    <3>2. CASE ~r.lnx
      <4>1. x = Reply("NxDomain", TRUE, NotCached, e)
        BY <2>2, <3>2, Zenon
      <4> QED
        BY <4>1 DEF Reply
    <3> QED
      BY <3>1, <3>2
  <2>4. Logs(e, t.q, FALSE, "NXDOMAIN", "none", FALSE)
    BY <2>1, HitStatusLogs
  <2>5. Honest(t.q, "NxDomain", NotCached, e)
    BY <2>4, FailHonest
  <2> QED
    BY <1>2, <2>3, <2>5 DEF Answers
<1>6. CASE ~(r.hit /\ has_response_data(r) /\ Cloaked(w, t, r))
           /\ ~(r.hit /\ has_response_data(r) /\ ~Cloaked(w, t, r)
                  /\ ~(Screening(t).detectors /\ is_suspicious_cached_answer(t.q, r)))
           /\ ~(r.hit /\ ~has_response_data(r))
  <2>1. x = Upstream(Ask(t.q.name, t.q.type), TRUE, r)
    BY <1>1, <1>2, <1>6 DEF cache_outcome
  <2>2. x.err = "upstream" /\ x.plain
    BY <2>1 DEF Upstream
  <2> QED
    BY <1>2, <2>2 DEF Asks
<1> QED
  BY <1>3, <1>4, <1>5, <1>6

\* So does execute up to the resolver.
LEMMA OutcomeHonest ==
    ASSUME Counted, NEW w, NEW t
    PROVE  Answers(t.q, execute_outcome(w, t)) \/ Asks(execute_outcome(w, t))
<1>1. PICK x : x = execute_outcome(w, t)
  OBVIOUS
<1>2. CASE Decision(t) = "Block"
  <2>1. PICK e : e = BlockedLog(t.q, "BLOCKED", block_source(t))
    OBVIOUS
  <2>2. x = Reply("Blocked", FALSE, NotCached, e)
    BY <1>1, <1>2, <2>1 DEF execute_outcome
  <2>3. block_source(t) \notin {"nxdomain_hijack", "dns_cookie"}
    BY DEF block_source
  <2>4. Honest(t.q, "Blocked", NotCached, e)
    BY <2>1, <2>3, BlockHonest
  <2>5. x.err = "Blocked" /\ x.r = NotCached /\ x.log = e
    BY <2>2 DEF Reply
  <2> QED
    BY <1>1, <2>4, <2>5 DEF Answers
<1>3. CASE Decision(t) # "Block" /\ Screening(t).detectors /\ NameRefused(t.q)
  <2>1. PICK e : e = NameLog(t.q)
    OBVIOUS
  <2>2. x = Reply("Blocked", FALSE, NotCached, e)
    BY <1>1, <1>3, <2>1 DEF execute_outcome
  <2>3. e = BlockedLog(t.q, "TUNNELING_BLOCKED", "dns_tunneling") \/ e = BlockedLog(t.q, "DGA_BLOCKED", "dga_detection")
    BY <2>1 DEF NameLog
  <2>4. Honest(t.q, "Blocked", NotCached, e)
    BY <2>3, BlockHonest
  <2>5. x.err = "Blocked" /\ x.r = NotCached /\ x.log = e
    BY <2>2 DEF Reply
  <2> QED
    BY <1>1, <2>4, <2>5 DEF Answers
<1>4. CASE ~(Decision(t) = "Block") /\ ~(Decision(t) # "Block" /\ Screening(t).detectors /\ NameRefused(t.q))
  <2>1. PICK target : target = cname_for(t.q.name, t.group)
    OBVIOUS
  <2>2. x = IF target # "" THEN safe_search_outcome(t, target) ELSE cache_outcome(w, t)
    BY <1>1, <1>4, <2>1 DEF execute_outcome
  <2>3. target # "" => Safe(target)
    BY <2>1 DEF cname_for, Safe
  <2> QED
    BY <1>1, <2>2, <2>3, SafeOutcome, CacheOutcome
<1> QED
  BY <1>2, <1>3, <1>4

\* What an answer from upstream becomes is answered as it is logged.
Judges(q, r, j) == Honest(q, j.err, r, j.log)

\* What the guards make of an answer is logged as it is sent.
LEMMA AnswerJudged ==
    ASSUME Counted, NEW w, NEW t, NEW r, Answer(r)
    PROVE  Judges(t.q, r, judge_answer(w, t, r))
<1>1. PICK j : j = judge_answer(w, t, r)
  OBVIOUS
<1>2. PICK guarded : guarded = Screening(t).detectors
  OBVIOUS
<1>3. ASSUME NEW err, NEW e, j = Judged(err, FALSE, FALSE, e) \/ j = Judged(err, TRUE, FALSE, e), Honest(t.q, err, r, e)
      PROVE  Judges(t.q, r, j)
  <2>1. j.err = err /\ j.log = e
    BY <1>3 DEF Judged
  <2> QED
    BY <1>3, <2>1 DEF Judges
<1>4. ASSUME NEW status, status \in {"BLOCKED", "RESPONSE_IP_BLOCKED"}, NEW block,
             block \in {"cname_cloaking", "dns_rebinding", "response_ip_filter"}, NEW err \in {"Blocked", "Cloaked"}
      PROVE  Honest(t.q, err, r, BlockedLog(t.q, status, block))
  BY <1>4, BlockHonest
<1>5. CASE Cloaked(w, t, r)
  <2>1. j = Judged("Cloaked", FALSE, FALSE, CloakedLog(t.q))
    BY <1>1, <1>5 DEF judge_answer
  <2>2. Honest(t.q, "Cloaked", r, CloakedLog(t.q))
    BY <1>4 DEF CloakedLog
  <2> QED
    BY <1>1, <1>3, <2>1, <2>2
<1>6. CASE ~Cloaked(w, t, r) /\ guarded /\ is_rebinding_attempt(t.q, r)
  <2>1. PICK e : e = BlockedLog(t.q, "BLOCKED", "dns_rebinding")
    OBVIOUS
  <2>2. j = Judged("Blocked", FALSE, FALSE, e)
    BY <1>1, <1>2, <1>6, <2>1 DEF judge_answer
  <2>3. Honest(t.q, "Blocked", r, e)
    BY <1>4, <2>1
  <2> QED
    BY <1>1, <1>3, <2>2, <2>3
<1>7. CASE ~Cloaked(w, t, r) /\ guarded /\ ~is_rebinding_attempt(t.q, r) /\ is_hijacked_response(r) /\ Now("hijack") = "Block"
  <2>1. PICK e : e = BlockedLog(t.q, "NXDOMAIN_HIJACK", "nxdomain_hijack")
    OBVIOUS
  <2>2. j = Judged("NxDomain", TRUE, FALSE, e)
    BY <1>1, <1>2, <1>7, <2>1 DEF judge_answer
  <2>3. Honest(t.q, "NxDomain", r, e)
    BY <2>1, HijackHonest
  <2> QED
    BY <1>1, <1>3, <2>2, <2>3
<1>8. CASE ~Cloaked(w, t, r) /\ guarded /\ ~is_rebinding_attempt(t.q, r)
           /\ ~(is_hijacked_response(r) /\ Now("hijack") = "Block") /\ has_blocked_ip(r) /\ Now("responseIp") = "Block"
  <2>1. PICK e : e = BlockedLog(t.q, "RESPONSE_IP_BLOCKED", "response_ip_filter")
    OBVIOUS
  <2>2. j = Judged("Blocked", FALSE, FALSE, e)
    BY <1>1, <1>2, <1>8, <2>1 DEF judge_answer
  <2>3. Honest(t.q, "Blocked", r, e)
    BY <1>4, <2>1
  <2> QED
    BY <1>1, <1>3, <2>2, <2>3
<1>9. CASE /\ ~Cloaked(w, t, r) /\ ~(guarded /\ is_rebinding_attempt(t.q, r))
           /\ ~(guarded /\ is_hijacked_response(r) /\ Now("hijack") = "Block")
           /\ ~(guarded /\ has_blocked_ip(r) /\ Now("responseIp") = "Block")
  <2>1. PICK e : e = [base_query_log(t.q) EXCEPT !.dnssec = r.status,
                        !.status = IF r.status = "Bogus" THEN "SERVFAIL_BOGUS" ELSE "SERVFAIL_INDETERMINATE"]
    OBVIOUS
  <2>2. CASE dnssec_refusal(t, r)
    <3>1. j = Judged(r.status, FALSE, FALSE, e)
      BY <1>1, <1>2, <1>9, <2>1, <2>2 DEF judge_answer
    <3>2. PICK status : status = IF r.status = "Bogus" THEN "SERVFAIL_BOGUS" ELSE "SERVFAIL_INDETERMINATE"
      OBVIOUS
    <3>3. Logs(e, t.q, FALSE, status, "none", FALSE)
      BY <2>1, <3>2, DnssecStatusLogs
    <3>4. r.status \in {"Bogus", "Indeterminate"}
      BY <2>2 DEF dnssec_refusal, is_unvalidated
    <3>5. PICK err : err = r.status
      OBVIOUS
    <3>6. Honest(t.q, err, r, e)
      BY <3>2, <3>3, <3>4, <3>5, FailHonest
    <3> QED
      BY <1>1, <1>3, <3>1, <3>5, <3>6
  <2>3. CASE ~dnssec_refusal(t, r)
    <3>1. PICK l : l = ResolvedLog(t.q, r)
      OBVIOUS
    <3>2. j = Judged("", spends_nxdomain_budget(r), guarded, l)
      BY <1>1, <1>2, <1>9, <2>3, <3>1 DEF judge_answer
    <3>3. j.err = "" /\ j.log = l
      <4>1. CASE spends_nxdomain_budget(r)
        <5>1. j = Judged("", TRUE, guarded, l)
          BY <3>2, <4>1, Zenon DEF spends_nxdomain_budget
        <5> QED
          BY <5>1 DEF Judged
      <4>2. CASE ~spends_nxdomain_budget(r)
        <5>1. j = Judged("", FALSE, guarded, l)
          BY <3>2, <4>2, Zenon DEF spends_nxdomain_budget
        <5> QED
          BY <5>1 DEF Judged
      <4> QED
        BY <4>1, <4>2
    <3>4. Honest(t.q, "", r, l)
      BY <3>1, ResolvedHonest
    <3> QED
      BY <1>1, <3>3, <3>4 DEF Judges
  <2> QED
    BY <2>2, <2>3
<1> QED
  BY <1>5, <1>6, <1>7, <1>8, <1>9

\* What execute makes of an error is logged as it is sent.
LEMMA ErrorJudged ==
    ASSUME Counted, NEW t, NEW e \in Errors \cup {"Filtered"}, NEW r
    PROVE  Judges(t.q, r, judge_error(t, e))
<1>1. PICK j : j = judge_error(t, e)
  OBVIOUS
<1>2. ASSUME NEW status, status # "none", NEW err, NEW charge, NEW emit,
             j = Judged(err, charge, emit, [base_query_log(t.q) EXCEPT !.status = status]),
             \/ err = "NxDomain" /\ status \in {"NXDOMAIN", "LOCAL_DNS"}
             \/ err = "QueryTimeout" /\ status = "TIMEOUT"
             \/ err = "ServFail" /\ status = "SERVFAIL"
      PROVE  Judges(t.q, r, j)
  <2>1. PICK l : l = [base_query_log(t.q) EXCEPT !.status = status]
    OBVIOUS
  <2>2. j.err = err /\ j.log = l
    BY <1>2, <2>1 DEF Judged
  <2>3. Logs(l, t.q, FALSE, status, "none", FALSE)
    BY <1>2, <2>1, StatusLogs
  <2>4. Honest(t.q, err, r, l)
    BY <1>2, <2>3, FailHonest
  <2> QED
    BY <2>2, <2>4 DEF Judges
<1>3. CASE e = "LocalNxDomain"
  <2>1. \E no : j = Judged("NxDomain", no, no, [base_query_log(t.q) EXCEPT !.status = "LOCAL_DNS"])
    BY <1>1, <1>3, Zenon DEF judge_error
  <2> QED
    BY <1>1, <1>2, <2>1
<1>4. CASE e = "Filtered"
  <2>1. PICK block \in {"private_ptr", "non_fqdn"} : block = IF t.q.type = "PTR" THEN "private_ptr" ELSE "non_fqdn"
    OBVIOUS
  <2>2. j = Judged("Filtered", FALSE, FALSE, BlockedLog(t.q, "BLOCKED", block))
    BY <1>1, <1>4, <2>1 DEF judge_error
  <2>3. j.err = "Filtered" /\ j.log = BlockedLog(t.q, "BLOCKED", block)
    BY <2>2 DEF Judged
  <2>4. Honest(t.q, "Filtered", r, BlockedLog(t.q, "BLOCKED", block))
    BY BlockHonest
  <2> QED
    BY <1>1, <2>3, <2>4 DEF Judges
<1>5. CASE e = "NxDomain"
  <2>1. \E yes, emit : j = Judged("NxDomain", yes, emit, [base_query_log(t.q) EXCEPT !.status = "NXDOMAIN"])
    BY <1>1, <1>5 DEF judge_error
  <2> QED
    BY <1>1, <1>2, <2>1
<1>6. CASE e = "QueryTimeout"
  <2>1. \E no : j = Judged("QueryTimeout", no, no, [base_query_log(t.q) EXCEPT !.status = "TIMEOUT"])
    BY <1>1, <1>6 DEF judge_error
  <2> QED
    BY <1>1, <1>2, <2>1
<1>7. CASE e = "ServFail"
  <2>1. \E no : j = Judged("ServFail", no, no, [base_query_log(t.q) EXCEPT !.status = "SERVFAIL"])
    BY <1>1, <1>7 DEF judge_error
  <2> QED
    BY <1>1, <1>2, <2>1
<1> QED
  BY <1>3, <1>4, <1>5, <1>6, <1>7 DEF Errors

\* So is what it makes of either.
LEMMA JudgeHonest ==
    ASSUME Counted, NEW w, NEW t, NEW plain, NEW out, Met(out) \/ (out.err = "Filtered" /\ plain)
    PROVE  Judges(t.q, out.r, judge(w, t, plain, out))
<1>1. PICK j : j = judge(w, t, plain, out)
  OBVIOUS
<1>2. PICK err, r : err = out.err /\ r = out.r
  OBVIOUS
<1>3. CASE ~plain
  <2>1. PICK e : e = IF err = "" THEN SafeSearchLog(t.q, r) ELSE NoLog
    OBVIOUS
  <2>2. j = Judged(err, FALSE, FALSE, e)
    BY <1>1, <1>2, <1>3, <2>1 DEF judge
  <2>3. j.err = err /\ j.log = e
    BY <2>2 DEF Judged
  <2>4. err = "" \/ err \in Errors
    BY <1>2, <1>3 DEF Met
  <2>5. Honest(t.q, err, r, e)
    BY <2>1, <2>4, SafeHonest, UnloggedHonest DEF Errors
  <2> QED
    BY <1>1, <1>2, <2>3, <2>5 DEF Judges
<1>4. CASE plain /\ err = ""
  <2>1. j = judge_answer(w, t, r)
    BY <1>1, <1>2, <1>4 DEF judge
  <2>2. Answer(r)
    BY <1>2, <1>4 DEF Met
  <2> QED
    BY <1>1, <1>2, <2>1, <2>2, AnswerJudged
<1>5. CASE plain /\ err # ""
  <2>1. j = judge_error(t, err)
    BY <1>1, <1>2, <1>5 DEF judge
  <2>2. err \in Errors \cup {"Filtered"}
    BY <1>2, <1>5 DEF Met
  <2> QED
    BY <1>1, <1>2, <2>1, <2>2, ErrorJudged
<1> QED
  BY <1>3, <1>4, <1>5

\* What is known of the query of a thread: its end is told, and a name asked in its place is public.
Tells(t) ==
    /\ t.at = "idle" => Agree(t.reply, t.sent, t.shown)
    /\ t.at = "resolving" => t.plain \/ Safe(t.ask.name)
Told(w) == \E t : task' = [task EXCEPT ![w] = t] /\ Tells(t)
TellInv == \A w \in Workers : Tells(task[w])

\* A reply with an honest entry tells.
LEMMA FinishTells ==
    ASSUME NEW w, NEW t, NEW err, NEW r, NEW e, Finish(w, t, err, r, e), Honest(t.q, err, r, e)
    PROVE  Told(w)
<1>1. PICK x : x = Idle(Replied(t.q, err), SentKind(t.q, Replied(t.q, err), err, r), ShownAs(e))
  OBVIOUS
<1>2. task' = [task EXCEPT ![w] = x]
  BY <1>1 DEF Finish, Replied, ShownAs
<1>3. PICK reply, sent, shown : reply = Replied(t.q, err) /\ sent = SentKind(t.q, Replied(t.q, err), err, r) /\ shown = ShownAs(e)
  OBVIOUS
<1>4. x.at = "idle" /\ x.reply = reply /\ x.sent = sent /\ x.shown = shown
  BY <1>1, <1>3 DEF Idle
<1>5. Agree(reply, sent, shown)
  BY <1>3 DEF Honest
<1> QED
  BY <1>2, <1>4, <1>5 DEF Told, Tells

\* So does a charged one.
LEMMA ChargeTells ==
    ASSUME NEW w, NEW t, NEW err, NEW charge, NEW r, NEW e, Charge(w, t, err, charge, r, e), Honest(t.q, err, r, e)
    PROVE  Told(w)
<1>1. PICK s : s = charge_rate(Now("limits"), buckets, slips, t.q.client, is_stream(t.q), now)
  OBVIOUS
<1>2. s.verdict \in Verdicts
  BY <1>1, ChargeSpends
<1>3. \/ Finish(w, t, err, r, e)
      \/ s.verdict # "Allow" /\ Finish(w, t, s.verdict, NotCached, apply_rate_limit(t.q, s.verdict))
  BY <1>1 DEF Charge
<1>4. CASE Finish(w, t, err, r, e)
  BY <1>4, FinishTells
<1>5. CASE s.verdict # "Allow" /\ Finish(w, t, s.verdict, NotCached, apply_rate_limit(t.q, s.verdict))
  <2>1. PICK verdict : verdict = s.verdict
    OBVIOUS
  <2>2. verdict \in {"Slip", "Refuse"}
    BY <1>2, <1>5, <2>1 DEF Verdicts
  <2> QED
    BY <1>5, <2>1, <2>2, RateHonest, FinishTells
<1> QED
  BY <1>3, <1>4, <1>5

\* No reply, or FORMERR to what did not parse, is not logged.
LEMMA EndedTells == ASSUME NEW reply \in {"none", "FORMERR"} PROVE Tells(NoReply(reply))
  BY DEF NoReply, Idle, Tells, Agree

\* A query on its way is neither told nor asked.
LEMMA OnItsWay == ASSUME NEW t, t.at \notin {"idle", "resolving"} PROVE Tells(t)
  BY DEF Tells

\* So it is where a listener answers by itself.
LEMMA RawTells == ASSUME NEW w, NEW q, NEW conn PROVE Tells(handle_raw(w, q, conn))
<1>1. CASE handle_raw(w, q, conn) = Enter(w, q, conn, FALSE)
  <2>1. PICK t : t = Enter(w, q, conn, FALSE)
    OBVIOUS
  <2>2. t.at \in {"group", "check", "admit"}
    BY <2>1, EnteredFields
  <2> QED
    BY <1>1, <2>1, <2>2, OnItsWay
<1>2. CASE handle_raw(w, q, conn) = NoReply("none") \/ handle_raw(w, q, conn) = NoReply("FORMERR")
  BY <1>2, EndedTells
<1> QED
  BY <1>1, <1>2 DEF handle_raw

\* A fallback tells.
LEMMA SpawnTells == ASSUME NEW w, NEW q, spawn_fallback(w, q) PROVE Told(w)
<1>1. PICK t : t = IF Cardinality(fallback) < FallbackSlots THEN handle_raw(w, q, NoConn) ELSE NoReply("none")
  OBVIOUS
<1>2. task' = [task EXCEPT ![w] = t]
  BY <1>1 DEF spawn_fallback
<1>3. Tells(t)
  BY <1>1, RawTells, EndedTells
<1> QED
  BY <1>2, <1>3 DEF Told

\* A listener that reads a query tells.
LEMMA ReceiveTells == ASSUME NEW w, Receive(w) PROVE Told(w)
<1>1. PICK q : run_udp_worker(w, q) \/ handle_tcp_query(w, q) \/ handle_dot_query(w, q)
                 \/ handle_doq_stream(w, q) \/ dns_query_handler(w, q)
  BY DEF Receive
<1>2. CASE run_udp_worker(w, q)
  <2>1. \/ task' = [task EXCEPT ![w] = Enter(w, q, NoConn, TRUE)]
        \/ spawn_fallback(w, q)
    BY <1>2 DEF run_udp_worker
  <2>2. Tells(Enter(w, q, NoConn, TRUE))
    <3>1. PICK t : t = Enter(w, q, NoConn, TRUE)
      OBVIOUS
    <3>2. t.at \in {"group", "check", "admit"}
      BY <3>1, EnteredFields
    <3> QED
      BY <3>1, <3>2, OnItsWay
  <2> QED
    BY <2>1, <2>2, SpawnTells DEF Told
<1>3. ASSUME NEW c, OnConnection(w, q, c) PROVE Told(w)
  BY <1>3, RawTells DEF OnConnection, Told
<1>4. CASE dns_query_handler(w, q)
  BY <1>4, RawTells DEF dns_query_handler, Told
<1> QED
  BY <1>1, <1>2, <1>3, <1>4 DEF handle_tcp_query, handle_dot_query, handle_doq_stream

\* The gates tell: limiter, cookies, admission.
LEMMA AdmitTells == ASSUME TasksShaped, NEW w \in Workers, Admit(w) PROVE Told(w)
<1>1. PICK t : t = task[w]
  OBVIOUS
<1>2. PICK s : s = check_rate(Now("limits"), buckets, slips, t.q.client, is_stream(t.q), now)
  OBVIOUS
<1>3. s.verdict \in Verdicts
  BY <1>2, CheckSpends DEF Spends, Verdicts
<1>4. \/ s.verdict # "Allow" /\ Finish(w, t, s.verdict, NotCached, apply_rate_limit(t.q, s.verdict))
      \/ Finish(w, t, "CookieInvalid", NotCached, CookieLog(t.q))
      \/ task' = [task EXCEPT ![w].at = "check"]
  BY <1>1, <1>2 DEF Admit, rate_check
<1>5. CASE s.verdict # "Allow" /\ Finish(w, t, s.verdict, NotCached, apply_rate_limit(t.q, s.verdict))
  <2>1. PICK verdict : verdict = s.verdict
    OBVIOUS
  <2>2. verdict \in {"Slip", "Refuse"}
    BY <1>3, <1>5, <2>1 DEF Verdicts
  <2> QED
    BY <1>5, <2>1, <2>2, RateHonest, FinishTells
<1>6. CASE Finish(w, t, "CookieInvalid", NotCached, CookieLog(t.q))
  BY <1>6, CookieHonest, FinishTells
<1>7. CASE task' = [task EXCEPT ![w].at = "check"]
  <2>1. PICK x : x = [t EXCEPT !.at = "check"]
    OBVIOUS
  <2>2. x.at = "check" /\ task' = [task EXCEPT ![w] = x]
    BY <1>1, <1>7, <2>1 DEF TasksShaped, TaskFields
  <2> QED
    BY <2>2, OnItsWay DEF Told
<1> QED
  BY <1>4, <1>5, <1>6, <1>7

\* execute up to the resolver tells.
LEMMA DecideTells == ASSUME Counted, TasksShaped, NEW w \in Workers, Decide(w) PROVE Told(w)
<1>1. PICK t : t = task[w]
  OBVIOUS
<1>2. PICK x : x = execute_outcome(w, t)
  OBVIOUS
<1>3. \/ x.err # "upstream" /\ Charge(w, t, x.err, x.charge, x.r, x.log)
      \/ x.err = "upstream" /\ task' = [task EXCEPT ![w] = Over([at |-> "resolving", ask |-> x.ask, plain |-> x.plain], t)]
      \/ Finish(w, t, "UpstreamCapacityExhausted", NotCached, NoLog)
  BY <1>1, <1>2 DEF Decide
<1>4. Answers(t.q, x) \/ Asks(x)
  BY <1>2, OutcomeHonest
<1>5. CASE x.err # "upstream" /\ Charge(w, t, x.err, x.charge, x.r, x.log)
  <2>1. PICK err, charge, r, e : err = x.err /\ charge = x.charge /\ r = x.r /\ e = x.log
    OBVIOUS
  <2>2. Honest(t.q, err, r, e)
    BY <1>4, <1>5, <2>1 DEF Answers, Asks
  <2> QED
    BY <1>5, <2>1, <2>2, ChargeTells
<1>6. CASE x.err = "upstream" /\ task' = [task EXCEPT ![w] = Over([at |-> "resolving", ask |-> x.ask, plain |-> x.plain], t)]
  <2>1. PICK b : b = [at |-> "resolving", ask |-> x.ask, plain |-> x.plain]
    OBVIOUS
  <2>2. DOMAIN b = {"at", "ask", "plain"} /\ b.at = "resolving" /\ b.ask = x.ask /\ b.plain = x.plain
    BY <2>1
  <2>3. PICK y : y = Over(b, t)
    OBVIOUS
  <2>4. \A f \in DOMAIN b : y[f] = b[f]
    BY <2>3, Zenon DEF Over
  <2>5. y.at = "resolving" /\ y.ask = x.ask /\ y.plain = x.plain
    BY <2>2, <2>4
  <2>6. x.plain \/ Safe(x.ask.name)
    BY <1>4, <1>6 DEF Answers, Asks
  <2>7. Tells(y)
    BY <2>5, <2>6 DEF Tells
  <2> QED
    BY <1>6, <2>1, <2>3, <2>7 DEF Told
<1>7. CASE Finish(w, t, "UpstreamCapacityExhausted", NotCached, NoLog)
  BY <1>7, UnloggedHonest, FinishTells
<1> QED
  BY <1>3, <1>5, <1>6, <1>7

\* The target of a safe search is not filtered.
LEMMA SafePasses == ASSUME Counted, NEW name, Safe(name) PROVE decide(Settings, name).err = ""
<1>1. name \notin Settings.privatePtr /\ name \notin Settings.hostnames
  BY MixWorld DEF Safe, Now
<1> QED
  BY <1>1 DEF decide, is_private_ptr_query

\* execute after the resolver tells.
LEMMA ResolvedTells ==
    ASSUME Counted, CacheHolds(cache), TellInv, NEW w \in Workers, Resolved(w)
    PROVE  Told(w)
<1>1. PICK t : t = task[w]
  OBVIOUS
<1>2. PICK y \in resolve(Settings, cache, t.ask) :
         \E j \in {judge(w, t, t.plain, y.out)} : Charge(w, t, j.err, j.charge, y.out.r, j.log)
  BY <1>1 DEF Resolved
<1>3. PICK j : j = judge(w, t, t.plain, y.out) /\ Charge(w, t, j.err, j.charge, y.out.r, j.log)
  BY <1>2
<1>4. t.plain \/ Safe(t.ask.name)
  BY <1>1 DEF TellInv, Tells, Resolved
<1>5. Ends(y) \/ Refused(Settings, cache, t.ask, y)
  BY <1>2, MixWorld, ResolveEnds
<1>6. PICK out, plain : out = y.out /\ plain = t.plain
  OBVIOUS
<1>7. Met(out) \/ (out.err = "Filtered" /\ plain)
  BY <1>4, <1>5, <1>6, SafePasses DEF Ends, Refused
<1>8. Judges(t.q, out.r, judge(w, t, plain, out))
  BY <1>7, JudgeHonest
<1>9. PICK err, charge, r, e : err = j.err /\ charge = j.charge /\ r = out.r /\ e = j.log
  OBVIOUS
<1>10. Honest(t.q, err, r, e)
  BY <1>3, <1>6, <1>8, <1>9 DEF Judges
<1> QED
  BY <1>3, <1>6, <1>9, <1>10, ChargeTells

\* Every step of a thread tells.
LEMMA WorkerTells ==
    ASSUME Counted, TasksShaped, CacheHolds(cache), TellInv, NEW w \in Workers, WorkerStep(w)
    PROVE  Told(w)
<1>0. TaskFields(task[w]) /\ DOMAIN task = Workers
  BY DEF TasksShaped
<1>1. CASE GroupLookup(w)
  <2>1. PICK b : b = [at |-> "remember", group |-> resolve_group_uncached(task[w].q.client)]
    OBVIOUS
  <2>2. PICK t : t = Over(b, task[w])
    OBVIOUS
  <2>3. task' = [task EXCEPT ![w] = t]
    BY <1>1, <2>1, <2>2 DEF GroupLookup
  <2>4. "at" \in DOMAIN b /\ b.at = "remember"
    BY <2>1
  <2>5. t.at = "remember"
    BY <2>2, <2>4, OverFields
  <2> QED
    BY <2>3, <2>5, OnItsWay DEF Told
<1>2. CASE GroupStore(w)
  <2>1. PICK at \in {"check", "admit"} : task' = [task EXCEPT ![w].at = at]
    BY <1>2 DEF GroupStore
  <2>2. PICK t : t = [task[w] EXCEPT !.at = at]
    OBVIOUS
  <2>3. t.at = at /\ task' = [task EXCEPT ![w] = t]
    BY <1>0, <2>1, <2>2 DEF TaskFields
  <2> QED
    BY <2>3, OnItsWay DEF Told
<1>6. CASE CheckStore(w)
  <2>1. PICK t : t = [task[w] EXCEPT !.at = "keep", !.expires = now + DecisionTtl]
    OBVIOUS
  <2>2. t.at = "keep" /\ task' = [task EXCEPT ![w] = t]
    BY <1>0, <1>6, <2>1 DEF TaskFields, CheckStore
  <2> QED
    BY <2>2, OnItsWay DEF Told
<1>3. CASE CheckKeep(w)
  <2>1. PICK at \in {"fast", "decide"} : task' = [task EXCEPT ![w].at = at]
    BY <1>3 DEF CheckKeep
  <2>2. PICK t : t = [task[w] EXCEPT !.at = at]
    OBVIOUS
  <2>3. t.at = at /\ task' = [task EXCEPT ![w] = t]
    BY <1>0, <2>1, <2>2 DEF TaskFields
  <2> QED
    BY <2>3, OnItsWay DEF Told
<1>4. CASE CheckLookup(w)
  <2>1. PICK t : task' = [task EXCEPT ![w] = t]
    BY <1>4 DEF CheckLookup
  <2>2. PICK b : t = Over(b, task[w]) /\ CheckFields(w, b)
    BY <1>4, <2>1, CheckMoves
  <2>3. "at" \in DOMAIN b /\ b.at \in {"fast", "decide", "store", "keep"}
    BY <2>2 DEF CheckFields
  <2>4. t.at = b.at
    BY <2>2, <2>3, OverFields
  <2> QED
    BY <2>1, <2>3, <2>4, OnItsWay DEF Told
<1>5. CASE FastAnswer(w)
  <2>1. PICK t, r : t = task[w] /\ r = try_cache(Settings, cache, t.q)
    OBVIOUS
  <2>2. Finish(w, t, "", r, CachedLog(t.q, r)) \/ spawn_fallback(w, t.q)
    BY <1>5, <2>1 DEF FastAnswer
  <2> QED
    BY <2>2, CachedHonest, FinishTells, SpawnTells
<1> QED
  BY <1>1, <1>2, <1>3, <1>4, <1>5, <1>6, ReceiveTells, AdmitTells, DecideTells, ResolvedTells DEF WorkerStep

\* The mix is chosen once.
LEMMA MixStays == ASSUME Next PROVE UNCHANGED mix
<1>1. ASSUME NEW w, WorkerStep(w) PROVE UNCHANGED mix
  BY <1>1 DEF WorkerStep, Receive, GroupLookup, GroupStore, Admit, CheckLookup, CheckStore, CheckKeep, FastAnswer, Decide, Resolved
<1>2. ASSUME NEW w, MemoStep(w) PROVE UNCHANGED mix
  BY <1>2 DEF MemoStep
<1>3. CASE LogSteps \/ Publish \/ EditGroups \/ load_client_groups \/ set_blocking \/ TimerWakes \/ TimerFlips
  BY <1>3 DEF LogSteps, Publish, EditGroups, load_client_groups, set_blocking, TimerWakes, TimerFlips
<1>4. CASE ScheduleChanges \/ ConnectionStep \/ Tick \/ RateEviction \/ CacheDrop \/ DetectorStep
  BY <1>4 DEF ScheduleChanges, ConnectionStep, Tick, RateEviction, CacheDrop, DetectorStep
<1> QED
  BY <1>1, <1>2, <1>3, <1>4 DEF Next

\* The threads start without a reply.
LEMMA InitTells == Init => TellInv
<1> SUFFICES ASSUME Init, NEW w \in Workers PROVE Tells(task[w])
  BY DEF TellInv
<1>1. task[w] = NoReply("none")
  BY DEF Init
<1> QED
  BY <1>1, EndedTells

\* Every step keeps TellInv.
LEMMA StepTells == Counted /\ TasksShaped /\ CacheHolds(cache) /\ TellInv /\ [Next]_vars => TellInv'
<1> SUFFICES ASSUME Counted, TasksShaped, CacheHolds(cache), TellInv, [Next]_vars PROVE TellInv'
  OBVIOUS
<1>1. UNCHANGED mix
  BY MixStays DEF vars
<1>2. CASE UNCHANGED task
  BY <1>1, <1>2 DEF TellInv, Tells, Safe, Now, Settings
<1>3. ASSUME NEW w \in Workers, WorkerStep(w) PROVE TellInv'
  <2>1. PICK t : task' = [task EXCEPT ![w] = t] /\ Tells(t)
    BY <1>3, WorkerTells DEF Told
  <2>2. \A v \in Workers : Tells(task'[v])
    BY <2>1 DEF TellInv, TasksShaped
  <2> QED
    BY <1>1, <2>2 DEF TellInv, Tells, Safe, Now, Settings
<1> QED
  BY <1>2, <1>3, TaskFrame DEF vars

\* What the log shows a client was sent, it was sent, on every path through execute, the limiter, the
\* cookie guard and the detectors; what it cannot say is unknown, a timeout or the name of a safe
\* search, and only a failure without an upstream slot or of a safe search is not logged (the calls
\* of log in execute, QueryLog::reply_kind).
THEOREM LogTells == Spec => []LogTellsReply
<1>1. Init => Counted /\ TasksShaped /\ CacheHolds(cache) /\ TellInv
  BY InitCounts, InitShapes, InitTells, MixWorld DEF Init
<1>2. (Counted /\ TasksShaped /\ CacheHolds(cache) /\ TellInv) /\ [Next]_vars
        => (Counted /\ TasksShaped /\ CacheHolds(cache) /\ TellInv)'
  BY StepCounts, StepShapes, StepCache, StepTells DEF CacheHolds
<1>3. TellInv => LogTellsReply
  BY DEF TellInv, Tells, Agree, LogTellsReply
<1> QED
  BY <1>1, <1>2, <1>3, PTL DEF Spec

(***************************************************************************)
(* The order of the pages                                                  *)
(***************************************************************************)
\* A finite set of rows that their ids tell apart.
Table(S) ==
    /\ IsFiniteSet(S) /\ \A r \in S : r.at \in Int /\ r.id \in Int
    /\ \A r, s \in S : r.id = s.id => r = s

\* How many rows of the list come before the row.
Ahead(S, r) == {s \in S : Before(s, r)}
Rank(S, r) == Cardinality(Ahead(S, r))

\* A nonempty set of naturals has a least element.
LEMMA LeastNat ==
    ASSUME NEW N, N \subseteq Nat, N # {}
    PROVE  \E i \in N : \A j \in N : i <= j
<1> DEFINE R == OpToRel(<, Nat)
<1>1. IsWellFoundedOn(R, Nat)
  BY NatLessThanWellFounded
<1>2. PICK i \in N : \A j \in N : ~(<<j, i>> \in R)
  <2> HIDE DEF R
  <2> QED
    BY <1>1, WFMin
<1>3. ASSUME NEW j \in N PROVE i <= j
  <2>1. i \in Nat /\ j \in Nat
    OBVIOUS
  <2>2. j < i => <<j, i>> \in R
    BY <2>1 DEF OpToRel
  <2> HIDE DEF R
  <2> QED
    BY <1>2, <2>1, <2>2
<1> QED
  BY <1>3

\* Before is a strict total order on a table.
LEMMA BeforeOrders ==
    ASSUME NEW S, Table(S)
    PROVE  /\ \A r \in S : ~Before(r, r)
           /\ \A r, s \in S : r = s \/ Before(r, s) \/ Before(s, r)
           /\ \A r, s, t \in S : Before(r, s) /\ Before(s, t) => Before(r, t)
           /\ \A r, s \in S : Before(r, s) => ~Before(s, r)
  BY DEF Table, Before

\* A row has finitely many ahead of it, fewer than the list has.
LEMMA RankBounds ==
    ASSUME NEW S, Table(S), NEW r \in S
    PROVE  /\ IsFiniteSet(Ahead(S, r)) /\ Rank(S, r) \in Nat
           /\ Cardinality(S) \in Nat /\ Rank(S, r) < Cardinality(S)
<1>1. IsFiniteSet(S) /\ Cardinality(S) \in Nat
  BY FS_CardinalityType DEF Table
<1>2. Ahead(S, r) \in SUBSET S /\ r \notin Ahead(S, r)
  BY BeforeOrders DEF Ahead
<1>3. /\ IsFiniteSet(Ahead(S, r)) /\ Cardinality(Ahead(S, r)) <= Cardinality(S)
      /\ Cardinality(S) = Cardinality(Ahead(S, r)) => S = Ahead(S, r)
  BY <1>1, <1>2, FS_Subset
<1>4. Cardinality(Ahead(S, r)) \in Nat
  BY <1>3, FS_CardinalityType
<1> QED
  BY <1>1, <1>2, <1>3, <1>4 DEF Rank

\* Ranks follow the order.
LEMMA RankOrders ==
    ASSUME NEW S, Table(S), NEW r \in S, NEW s \in S
    PROVE  /\ Before(s, r) <=> Rank(S, s) < Rank(S, r)
           /\ Rank(S, s) = Rank(S, r) => s = r
<1>1. ASSUME NEW x \in S, NEW y \in S, Before(x, y) PROVE Rank(S, x) < Rank(S, y)
  <2>1. Ahead(S, x) \in SUBSET Ahead(S, y)
    BY <1>1, BeforeOrders DEF Ahead
  <2>2. x \in Ahead(S, y) /\ x \notin Ahead(S, x)
    BY <1>1, BeforeOrders DEF Ahead
  <2>3. IsFiniteSet(Ahead(S, y)) /\ Rank(S, x) \in Nat /\ Rank(S, y) \in Nat
    BY RankBounds
  <2>4. /\ Cardinality(Ahead(S, x)) <= Cardinality(Ahead(S, y))
        /\ Cardinality(Ahead(S, y)) = Cardinality(Ahead(S, x)) => Ahead(S, y) = Ahead(S, x)
    BY <2>1, <2>3, FS_Subset
  <2> QED
    BY <2>2, <2>3, <2>4 DEF Rank
<1>2. Rank(S, r) \in Nat /\ Rank(S, s) \in Nat
  BY RankBounds
<1>3. r = s \/ Before(r, s) \/ Before(s, r)
  BY BeforeOrders
<1>4. ~Before(r, r)
  BY BeforeOrders
<1> QED
  BY <1>1, <1>2, <1>3, <1>4

\* Some row of a part of the list comes first in it.
LEMMA FirstRow ==
    ASSUME NEW S, Table(S), NEW T \in SUBSET S, T # {}
    PROVE  \E m \in T : \A r \in T : r = m \/ Before(m, r)
<1>1. {Rank(S, r) : r \in T} \subseteq Nat /\ {Rank(S, r) : r \in T} # {}
  BY RankBounds
<1>2. PICK i \in {Rank(S, r) : r \in T} : \A j \in {Rank(S, r) : r \in T} : i <= j
  BY <1>1, LeastNat
<1>3. PICK m \in T : i = Rank(S, m)
  BY <1>2
<1>4. ASSUME NEW r \in T PROVE r = m \/ Before(m, r)
  <2>1. Rank(S, m) <= Rank(S, r)
    BY <1>2, <1>3
  <2>2. Rank(S, m) \in Nat /\ Rank(S, r) \in Nat
    BY RankBounds
  <2>3. Before(r, m) => Rank(S, r) < Rank(S, m)
    BY RankOrders
  <2> QED
    BY <2>1, <2>2, <2>3, BeforeOrders
<1> QED
  BY <1>4

\* And one comes last.
LEMMA LastRow ==
    ASSUME NEW S, Table(S), NEW T \in SUBSET S, T # {}
    PROVE  \E m \in T : \A r \in T \ {m} : Before(r, m)
<1> DEFINE Left(r) == Cardinality(S) - Rank(S, r)
<1>1. \A r \in T : Left(r) \in Nat /\ Rank(S, r) \in Nat /\ Cardinality(S) \in Nat
  BY RankBounds
<1>2. {Left(r) : r \in T} \subseteq Nat /\ {Left(r) : r \in T} # {}
  <2> HIDE DEF Left
  <2> QED
    BY <1>1
<1>3. PICK i \in {Left(r) : r \in T} : \A j \in {Left(r) : r \in T} : i <= j
  <2> HIDE DEF Left
  <2> QED
    BY <1>2, LeastNat
<1>4. PICK m \in T : i = Left(m)
  BY <1>3
<1>5. ASSUME NEW r \in T \ {m} PROVE Before(r, m)
  <2>1. Left(m) <= Left(r)
    BY <1>3, <1>4
  <2>2. ~(Rank(S, m) < Rank(S, r))
    BY <2>1, <1>1
  <2>3. Before(m, r) => Rank(S, m) < Rank(S, r)
    BY RankOrders
  <2> QED
    BY <2>2, <2>3, BeforeOrders
<1> QED
  BY <1>5

\* No more rows than ranks.
LEMMA FewRows ==
    ASSUME NEW S, Table(S), NEW o \in Nat, NEW l \in Nat,
           NEW P \in SUBSET S, \A r \in P : o <= Rank(S, r) /\ Rank(S, r) < o + l
    PROVE  IsFiniteSet(P) /\ Cardinality(P) \in Nat /\ Cardinality(P) <= l
<1> DEFINE f == [r \in P |-> Rank(S, r)]
           I == o..(o + l - 1)
<1>1. \A r \in P : Rank(S, r) \in I
  BY RankBounds
<1>2. \A r, s \in P : Rank(S, r) = Rank(S, s) => r = s
  BY RankOrders
<1>3. f \in Injection(P, I)
  <2>1. f \in [P -> I]
    BY <1>1
  <2>2. \A r, s \in P : f[r] = f[s] => r = s
    BY <1>2
  <2> HIDE DEF f, I
  <2> QED
    BY <2>1, <2>2 DEF Injection, IsInjective
<1>4. IsFiniteSet(I) /\ Cardinality(I) = l
  <2>1. o \in Int /\ o + l - 1 \in Int
    OBVIOUS
  <2>2. IsFiniteSet(I) /\ Cardinality(I) = IF o > o + l - 1 THEN 0 ELSE o + l - 1 - o + 1
    BY <2>1, FS_Interval
  <2> HIDE DEF I
  <2> QED
    BY <2>2
<1> HIDE DEF f, I
<1>5. IsFiniteSet(P) /\ Cardinality(P) <= l
  BY <1>3, <1>4, FS_Injection
<1> QED
  BY <1>5, FS_CardinalityType

\* A list with a row of a rank has rows of all the ranks before.
LEMMA LowRows ==
    ASSUME NEW S, Table(S), NEW x \in S, NEW o \in Nat, Rank(S, x) >= o
    PROVE  LET low == {r \in S : Rank(S, r) < o}
           IN  IsFiniteSet(low) /\ Cardinality(low) = o /\ \E m \in S : Rank(S, m) = o
<1> DEFINE low == {r \in S : Rank(S, r) < o}
           T == S \ low
<1>1. \A r \in S : Rank(S, r) \in Nat
  BY RankBounds
<1>2. x \in T
  BY <1>1
<1>3. PICK m \in T : \A r \in T : r = m \/ Before(m, r)
  BY <1>2, FirstRow
<1>4. Rank(S, m) >= o /\ m \in S
  BY <1>1
<1>5. Ahead(S, m) = low
  <2>1. ASSUME NEW r \in S, Before(r, m) PROVE r \in low
    <3>1. r \in T => r = m \/ Before(m, r)
      BY <1>3
    <3>2. ~(r = m) /\ ~Before(m, r)
      BY <2>1, <1>4, BeforeOrders
    <3> QED
      BY <3>1, <3>2
  <2>2. ASSUME NEW r \in low PROVE r \in S /\ Before(r, m)
    <3>1. r \in S /\ Rank(S, r) < o /\ o <= Rank(S, m)
      BY <2>2, <1>4, <1>1
    <3>2. Rank(S, r) < Rank(S, m)
      BY <3>1, <1>1, <1>4
    <3> QED
      BY <3>1, <3>2, <1>4, RankOrders
  <2> HIDE DEF low
  <2> QED
    BY <2>1, <2>2 DEF Ahead
<1>6. IsFiniteSet(low) /\ Cardinality(low) = Rank(S, m)
  BY <1>4, <1>5, RankBounds DEF Rank
<1>7. Cardinality(low) <= o
  <2>1. low \in SUBSET S /\ 0 \in Nat /\ \A r \in low : 0 <= Rank(S, r) /\ Rank(S, r) < 0 + o
    BY <1>1
  <2> HIDE DEF low
  <2> QED
    BY <2>1, FewRows
<1>8. Rank(S, m) = o
  BY <1>1, <1>4, <1>6, <1>7
<1> QED
  BY <1>4, <1>6, <1>8

\* The rows of l ranks from o on.
OfRanks(S, o, l) == {r \in S : o <= Rank(S, r) /\ Rank(S, r) < o + l}

\* They are what a slice of the list is.
LEMMA SliceRanks ==
    ASSUME NEW S, Table(S), NEW o \in Nat, NEW l \in Nat
    PROVE  Slice(S, o, l) = OfRanks(S, o, l)
<1>1. \A r \in S : Rank(S, r) \in Nat
  BY RankBounds
<1>2. ASSUME NEW n \in Nat PROVE n \in o..(o + l - 1) <=> o <= n /\ n < o + l
  OBVIOUS
<1>3. Slice(S, o, l) = {r \in S : Rank(S, r) \in o..(o + l - 1)}
  BY DEF Slice, Rank, Ahead
<1> QED
  BY <1>1, <1>2, <1>3 DEF OfRanks

\* A part of a table is one.
LEMMA PartTable == ASSUME NEW S, Table(S), NEW T \in SUBSET S PROVE Table(T)
  BY FS_Subset DEF Table

\* The rows of a page, of which one more was fetched: those of its ranks.
LEMMA PageRanks ==
    ASSUME NEW S, Table(S), NEW o \in Nat, NEW l \in Nat
    PROVE  /\ Slice(Slice(S, o, l + 1), 0, l) = OfRanks(S, o, l)
           /\ Slice(S, o, l + 1) = OfRanks(S, o, l + 1)
<1> DEFINE F == OfRanks(S, o, l + 1)
<1>1. Slice(S, o, l + 1) = F
  BY SliceRanks
<1>2. F \in SUBSET S /\ Table(F)
  BY PartTable DEF OfRanks
<1>3. ASSUME NEW x \in F PROVE Rank(F, x) = Rank(S, x) - o
  <2> DEFINE low == {r \in S : Rank(S, r) < o}
  <2>1. x \in S /\ o <= Rank(S, x) /\ Rank(S, x) < o + (l + 1)
    BY <1>3 DEF OfRanks
  <2>2. \A r \in S : Rank(S, r) \in Nat
    BY RankBounds
  <2>3. IsFiniteSet(low) /\ Cardinality(low) = o
    BY <2>1, <2>2, LowRows
  <2>4. \A r \in S : Before(r, x) <=> Rank(S, r) < Rank(S, x)
    BY <2>1, RankOrders
  <2>5. Ahead(F, x) = Ahead(S, x) \ low
    <3>1. ASSUME NEW r \in S, Rank(S, r) < Rank(S, x), ~(Rank(S, r) < o) PROVE o <= Rank(S, r) /\ Rank(S, r) < o + (l + 1)
      BY <3>1, <2>1, <2>2
    <3>2. ASSUME NEW r \in S, o <= Rank(S, r) PROVE ~(Rank(S, r) < o)
      BY <3>2, <2>2
    <3> QED
      BY <3>1, <3>2, <2>4 DEF Ahead, OfRanks
  <2>6. Ahead(S, x) \cap low = low
    <3>1. ASSUME NEW r \in low PROVE Rank(S, r) < Rank(S, x)
      <4>1. Rank(S, r) < o /\ Rank(S, r) \in Nat /\ Rank(S, x) \in Nat
        BY <2>1, <2>2
      <4> QED
        BY <4>1, <2>1
    <3> QED
      BY <3>1, <2>4 DEF Ahead
  <2>7. IsFiniteSet(Ahead(S, x))
    BY <2>1, RankBounds
  <2> HIDE DEF low
  <2>8. Cardinality(Ahead(S, x) \ low) = Cardinality(Ahead(S, x)) - Cardinality(Ahead(S, x) \cap low)
    BY <2>7, FS_Difference
  <2> QED
    BY <2>3, <2>5, <2>6, <2>8 DEF Rank
<1>4. Slice(F, 0, l) = OfRanks(F, 0, l)
  BY <1>2, SliceRanks
<1>5. OfRanks(F, 0, l) = OfRanks(S, o, l)
  <2>1. \A r \in S : Rank(S, r) \in Nat
    BY RankBounds
  <2>2. ASSUME NEW r \in F PROVE 0 <= Rank(F, r) /\ Rank(F, r) < 0 + l <=> o <= Rank(S, r) /\ Rank(S, r) < o + l
    <3>1. r \in S /\ o <= Rank(S, r) /\ Rank(F, r) = Rank(S, r) - o
      BY <2>2, <1>3 DEF OfRanks
    <3> QED
      BY <3>1, <2>1
  <2>3. ASSUME NEW r \in OfRanks(S, o, l) PROVE r \in F
    BY <2>3, <2>1 DEF OfRanks
  <2>4. ASSUME NEW r \in F PROVE r \in S
    BY <1>2
  <2> HIDE DEF F
  <2> QED
    BY <2>2, <2>3, <2>4 DEF OfRanks
<1> QED
  BY <1>1, <1>4, <1>5

\* When the page has all that was fetched, nothing comes after it; if not, there is a row after it.
LEMMA NoneAfter ==
    ASSUME NEW S, Table(S), NEW o \in Nat, NEW l \in Nat, NEW y \in S, Rank(S, y) >= o + l
    PROVE  OfRanks(S, o, l + 1) # OfRanks(S, o, l)
<1>1. \A r \in S : Rank(S, r) \in Nat
  BY RankBounds
<1>2. PICK m \in S : Rank(S, m) = o + l
  BY LowRows, o + l \in Nat
<1>3. m \in OfRanks(S, o, l + 1) /\ m \notin OfRanks(S, o, l)
  BY <1>1, <1>2 DEF OfRanks
<1> QED
  BY <1>3

(***************************************************************************)
(* The walk of the pages                                                   *)
(***************************************************************************)
IsRow(r) == DOMAIN r = {"id", "at", "e"} /\ r.id \in 1..newest /\ r.at \in Nat
RowsTyped ==
    /\ newest \in Nat /\ \A r \in rows : IsRow(r)
    /\ \A r, s \in rows : r.id = s.id => r = s

\* The rows are a table.
LEMMA RowsTable == ASSUME RowsTyped PROVE Table(rows) /\ \A S \in SUBSET rows : Table(S)
<1> DEFINE f == [r \in rows |-> r.id]
<1>1. f \in Injection(rows, 1..newest)
  <2>1. f \in [rows -> 1..newest]
    BY DEF RowsTyped, IsRow
  <2>2. \A r, s \in rows : f[r] = f[s] => r = s
    BY DEF RowsTyped
  <2> HIDE DEF f
  <2> QED
    BY <2>1, <2>2 DEF Injection, IsInjective
<1>2. IsFiniteSet(1..newest)
  BY FS_Interval DEF RowsTyped
<1> HIDE DEF f
<1>3. IsFiniteSet(rows)
  BY <1>1, <1>2, FS_Injection
<1>4. Table(rows)
  BY <1>3 DEF Table, RowsTyped, IsRow
<1> QED
  BY <1>4, PartTable

\* A list without a filter has every row of its window.
LEMMA NoFilterMatches == ASSUME NEW r, NEW mode PROVE Matches(r, NoFilter, mode)
<1>1. InCategory(r.e, "")
  BY DEF InCategory
<1>2. /\ NoFilter.domain = "" /\ NoFilter.category = "" /\ NoFilter.client = "" /\ NoFilter.type = ""
      /\ NoFilter.excluded = {} /\ NoFilter.upstream = "" /\ NoFilter.dnssec = "" /\ NoFilter.reply = ""
      /\ NoFilter.until = 0
  BY DEF NoFilter
<1> HIDE DEF NoFilter
<1> QED
  BY <1>1, <1>2 DEF Matches

\* The list a page is of: for a cursor, what is after it; and how many rows it has.
ListOf(page, start) ==
    {r \in RawRows(start) :
        /\ page.kind = "snapshot" => r.id <= page.id
        /\ page.kind = "cursor" => AfterCursor(r, page.id)}
Kinds == {"offset", "cursor", "snapshot"}
IsPage(page) ==
    /\ DOMAIN page = {"kind", "id", "offset"} /\ page.kind \in Kinds /\ page.offset \in Nat
    /\ page.kind # "snapshot" => page.offset = 0

LastOf(P) == CHOOSE r \in P : \A s \in P \ {r} : Before(s, r)

\* What a page shows, for a reader without a filter.
LEMMA PageShows ==
    ASSUME RowsTyped, NEW page, IsPage(page), NEW start, NEW mode
    PROVE  LET got == execute_paged(PageLimit, page, start, NoFilter, mode)
               S == ListOf(page, start)
               P == OfRanks(S, page.offset, PageLimit)
           IN  /\ {r.id : r \in got.rows} = {r.id : r \in P}
               /\ page.kind = "snapshot" => got.filtered = Cardinality(S)
               /\ (\A r \in S : Rank(S, r) < page.offset + PageLimit) => got.next = 0
               /\ (\E r \in S : Rank(S, r) >= page.offset + PageLimit) =>
                     got.next = LastOf(P).id
<1> DEFINE l == PageLimit
           S == ListOf(page, start)
           P == OfRanks(S, page.offset, l)
           listable == Listable(page, start, NoFilter, mode)
           fetched == Fetched(l, page, listable)
           shown == Slice(fetched, 0, l)
           got == get_recent_paged(l, page, start, NoFilter, mode)
<1>1. l \in Nat /\ page.offset \in Nat
  BY LogAssumption DEF IsPage
<1>2. Min({l, MaxPage(page)}) = l
  <2>1. MaxPage(page) \in Nat /\ l <= MaxPage(page)
    BY <1>1, LogAssumption, ViewAssumption DEF MaxPage
  <2>2. PICK n : n = MaxPage(page)
    OBVIOUS
  <2> QED
    BY <1>1, <2>1, <2>2 DEF Min
<1>3. execute_paged(PageLimit, page, start, NoFilter, mode) = got
  BY <1>2 DEF execute_paged
<1>4. S \in SUBSET rows /\ Table(S)
  BY RowsTable DEF ListOf, RawRows
<1>5. listable = IF page.kind = "snapshot" THEN {r \in RawRows(start) : r.id <= page.id} ELSE RawRows(start)
  <2>1. {r \in RawRows(start) : Matches(r, NoFilter, mode)} = RawRows(start)
    BY NoFilterMatches
  <2> QED
    BY <2>1 DEF Listable, WithinSnapshot
<1>6. fetched = Slice(S, page.offset, l + 1)
  <2>1. CASE page.kind = "cursor"
    BY <1>5, <2>1 DEF Fetched, ListOf, IsPage
  <2>2. CASE page.kind # "cursor"
    BY <1>5, <2>2 DEF Fetched, ListOf
  <2> QED
    BY <2>1, <2>2
<1>7. fetched = OfRanks(S, page.offset, l + 1) /\ shown = P
  <2> HIDE DEF fetched, S, l
  <2> QED
    BY <1>1, <1>4, <1>6, PageRanks
<1>8. /\ got.rows = {[r EXCEPT !.e = row_to_query_log(@)] : r \in shown}
      /\ got.filtered = IF NoFilter = NoFilter /\ page.kind # "snapshot" THEN count_client_rows_since(start)
                        ELSE Cardinality(listable)
      /\ got.next = IF fetched = shown THEN 0 ELSE (CHOOSE r \in shown : \A s \in shown \ {r} : Before(s, r)).id
  <2> HIDE DEF listable, fetched, NoFilter
  <2> QED
    BY DEF get_recent_paged, listable, fetched
<1> HIDE DEF got, fetched, shown, listable
<1>9. {r.id : r \in got.rows} = {r.id : r \in P}
  <2>1. \A r \in P : r \in rows /\ [r EXCEPT !.e = row_to_query_log(@)].id = r.id
    <3>1. \A r \in P : r \in rows
      BY <1>4 DEF OfRanks
    <3> QED
      BY <3>1 DEF RowsTyped, IsRow
  <2> HIDE DEF P
  <2>2. got.rows = {[r EXCEPT !.e = row_to_query_log(@)] : r \in P}
    BY <1>7, <1>8
  <2>3. ASSUME NEW x \in got.rows PROVE x.id \in {r.id : r \in P}
    <3>1. PICK r \in P : x = [r EXCEPT !.e = row_to_query_log(@)]
      BY <2>2
    <3>2. x.id = r.id
      BY <2>1, <3>1
    <3> QED
      BY <3>2
  <2>4. ASSUME NEW r \in P PROVE r.id \in {x.id : x \in got.rows}
    <3>1. PICK x : x = [r EXCEPT !.e = row_to_query_log(@)]
      OBVIOUS
    <3>2. x \in got.rows /\ x.id = r.id
      BY <2>1, <2>2, <3>1
    <3> QED
      BY <3>2
  <2>5. \A i : i \in {x.id : x \in got.rows} => i \in {r.id : r \in P}
    BY <2>3
  <2>6. \A i : i \in {r.id : r \in P} => i \in {x.id : x \in got.rows}
    BY <2>4
  <2> QED
    BY <2>5, <2>6
<1>10. page.kind = "snapshot" => got.filtered = Cardinality(S)
  BY <1>5, <1>8 DEF ListOf
<1>11. ASSUME \A r \in S : Rank(S, r) < page.offset + PageLimit PROVE got.next = 0
  <2>1. \A r \in S : Rank(S, r) \in Nat
    BY <1>4, RankBounds
  <2>2. OfRanks(S, page.offset, l + 1) = P
    <3> HIDE DEF S
    <3> QED
      BY <1>1, <1>11, <2>1 DEF OfRanks
  <2> QED
    BY <1>7, <1>8, <2>2
<1>12. ASSUME NEW y \in S, Rank(S, y) >= page.offset + PageLimit
       PROVE  got.next = LastOf(P).id
  <2>1. OfRanks(S, page.offset, l + 1) # P
    <3> HIDE DEF S
    <3> QED
      BY <1>1, <1>4, <1>12, NoneAfter
  <2> HIDE DEF P
  <2> QED
    BY <1>7, <1>8, <2>1 DEF LastOf
<1> QED
  BY <1>3, <1>9, <1>10, <1>11, <1>12

WalkFields == {"at", "page", "start", "seen", "again", "lost", "base"}
IsWalk(w) == DOMAIN w = WalkFields /\ IsPage(w.page) /\ w.again \in BOOLEAN /\ w.lost \in BOOLEAN
From == wall - Now("window")
Shows(w) == OfRanks(ListOf(w.page, From), w.page.offset, PageLimit)
Ids(P) == {r.id : r \in P}

\* What a turn leaves and adds.
LEMMA TurnAdds ==
    ASSUME RowsTyped, NEW w, IsWalk(w)
    PROVE  /\ DOMAIN Turn(w) = WalkFields /\ Turn(w).base = w.base /\ Turn(w).start = From
           /\ Turn(w).seen = w.seen \cup Ids(Shows(w))
           /\ Turn(w).again = (w.again \/ Ids(Shows(w)) \cap w.seen # {})
           /\ Turn(w).lost = (w.lost \/ (w.page.kind = "cursor" /\ \A r \in rows : r.id # w.page.id))
<1>1. PICK got : got = execute_paged(PageLimit, w.page, From, NoFilter, Now("policy"))
  OBVIOUS
<1>2. {r.id : r \in got.rows} = Ids(Shows(w))
  BY <1>1, PageShows, SMTT(30) DEF IsWalk, Shows, Ids
<1>3. PICK ids : ids = Ids(Shows(w))
  OBVIOUS
<1>4. PICK ended, page :
         Turn(w) = [w EXCEPT !.at = IF ended THEN "end" ELSE "page", !.start = From, !.seen = @ \cup ids,
                             !.again = @ \/ ids \cap w.seen # {},
                             !.lost = @ \/ (w.page.kind = "cursor" /\ \A r \in rows : r.id # w.page.id),
                             !.page = page]
  BY <1>1, <1>2, <1>3, ZenonT(60) DEF Turn, From
<1> QED
  BY <1>3, <1>4 DEF IsWalk, WalkFields

\* A turn that follows the cursors ends the walk with the whole list shown, or leaves the cursor at a row that comes
\* after all that was shown and before all that was not.
LEMMA TurnFollows ==
    ASSUME RowsTyped, NEW w, IsWalk(w), w.page.kind # "snapshot"
    PROVE  LET S == ListOf(w.page, From)
               P == Shows(w)
           IN  \/ Turn(w).at = "end" /\ IsPage(Turn(w).page) /\ P = S
               \/ /\ Turn(w).at = "page"
                  /\ \E c \in P : /\ Turn(w).page = Page("cursor", c.id, 0)
                                  /\ \A x \in P : x = c \/ Before(x, c)
                                  /\ \A y \in S \ P : Before(c, y)
<1> DEFINE S == ListOf(w.page, From)
           P == Shows(w)
           l == PageLimit
<1>1. PICK got : got = execute_paged(PageLimit, w.page, From, NoFilter, Now("policy"))
  OBVIOUS
<1>2. /\ Turn(w).at = IF got.next = 0 THEN "end" ELSE "page"
      /\ Turn(w).page = Page("cursor", got.next, 0)
  <2>1. PICK ids, again, lost :
           Turn(w) = [w EXCEPT !.at = IF got.next = 0 THEN "end" ELSE "page", !.start = From, !.seen = @ \cup ids,
                             !.again = again, !.lost = lost, !.page = Page("cursor", got.next, 0)]
    BY <1>1, ZenonT(60) DEF Turn, From
  <2>2. PICK at : at = IF got.next = 0 THEN "end" ELSE "page"
    OBVIOUS
  <2>3. Turn(w).at = at /\ Turn(w).page = Page("cursor", got.next, 0)
    BY <2>1, <2>2 DEF IsWalk, WalkFields
  <2> QED
    BY <2>2, <2>3
<1>3. S \in SUBSET rows /\ Table(S)
  BY RowsTable DEF ListOf, RawRows
<1>4. w.page.offset = 0 /\ l \in Nat /\ l > 0
  BY LogAssumption DEF IsWalk, IsPage
<1>5. P = OfRanks(S, 0, l)
  BY <1>4 DEF Shows
<1>6. \A r \in S : Rank(S, r) \in Nat
  BY <1>3, RankBounds
<1>7. /\ (\A r \in S : Rank(S, r) < 0 + l) => got.next = 0
      /\ (\E r \in S : Rank(S, r) >= 0 + l) => got.next = LastOf(P).id
  <2>1. /\ (\A r \in S : Rank(S, r) < w.page.offset + l) => got.next = 0
        /\ (\E r \in S : Rank(S, r) >= w.page.offset + l) =>
              got.next = LastOf(P).id
    BY <1>1, PageShows DEF IsWalk, Shows
  <2> HIDE DEF S, P, l
  <2> QED
    BY <1>4, <2>1
<1>8. CASE \A r \in S : Rank(S, r) < l
  <2>1. P = S
    BY <1>4, <1>5, <1>6, <1>8 DEF OfRanks
  <2>2. got.next = 0
    BY <1>4, <1>7, <1>8
  <2>3. IsPage(Page("cursor", 0, 0))
    BY DEF IsPage, Page, Kinds
  <2> QED
    BY <1>2, <2>1, <2>2, <2>3
<1>9. CASE \E r \in S : ~(Rank(S, r) < l)
  <2>1. PICK y \in S : Rank(S, y) >= 0 + l
    BY <1>4, <1>6, <1>9
  <2>2. P # {}
    <3>1. Rank(S, y) >= 0 /\ 0 \in Nat
      BY <1>6
    <3>2. PICK m \in S : Rank(S, m) = 0
      BY <1>3, <3>1, LowRows
    <3>3. m \in P
      BY <1>4, <1>5, <3>2 DEF OfRanks
    <3> QED
      BY <3>3
  <2>3. P \in SUBSET S
    BY <1>5 DEF OfRanks
  <2>4. \E m \in P : \A r \in P \ {m} : Before(r, m)
    <3> HIDE DEF P, S
    <3> QED
      BY <1>3, <2>2, <2>3, LastRow
  <2>5. PICK c : c = LastOf(P)
    OBVIOUS
  <2>6. c \in P /\ \A x \in P \ {c} : Before(x, c)
    <3> HIDE DEF P
    <3> QED
      BY <2>4, <2>5 DEF LastOf
  <2>7. got.next = c.id
    BY <1>7, <2>1, <2>5
  <2>8. c.id # 0
    BY <1>3, <2>3, <2>6 DEF RowsTyped, IsRow
  <2>9. ASSUME NEW z \in S \ P PROVE Before(c, z)
    <3>1. Rank(S, c) < l /\ c \in S
      BY <1>4, <1>5, <2>6 DEF OfRanks
    <3>2. ~(Rank(S, z) < l)
      BY <1>4, <1>5, <1>6 DEF OfRanks
    <3>3. Rank(S, c) < Rank(S, z)
      BY <3>1, <3>2, <1>4, <1>6
    <3> QED
      BY <1>3, <3>1, <3>3, RankOrders
  <2> HIDE DEF P, S
  <2> QED
    BY <1>2, <2>6, <2>7, <2>8, <2>9 DEF P, S
<1> QED
  BY <1>8, <1>9

\* A turn of a snapshot ends the walk when no row is left after the page, and moves on by a page.
LEMMA TurnSkips ==
    ASSUME RowsTyped, NEW w, IsWalk(w), w.page.kind = "snapshot"
    PROVE  LET S == ListOf(w.page, From)
               o == w.page.offset + PageLimit
           IN  /\ Turn(w).page = Page("snapshot", w.page.id, o)
               /\ \/ Turn(w).at = "end" /\ \A r \in S : Rank(S, r) < o
                  \/ Turn(w).at = "page" /\ \E r \in S : Rank(S, r) >= o
<1> DEFINE S == ListOf(w.page, From)
           P == Shows(w)
           l == PageLimit
           o == w.page.offset
<1>1. PICK got : got = execute_paged(PageLimit, w.page, From, NoFilter, Now("policy"))
  OBVIOUS
<1>2. PICK ids : ids = Ids(P)
  OBVIOUS
<1>3. {r.id : r \in got.rows} = ids /\ got.filtered = Cardinality(S)
  <2>1. {r.id : r \in got.rows} = Ids(Shows(w))
    BY <1>1, PageShows DEF IsWalk, Shows, Ids
  <2>2. got.filtered = Cardinality(S)
    BY <1>1, PageShows DEF IsWalk
  <2> QED
    BY <1>2, <2>1, <2>2
<1>4. PICK ended : ended = (o + Cardinality(ids) >= Cardinality(S))
  OBVIOUS
<1>5. /\ Turn(w).at = IF ended THEN "end" ELSE "page"
      /\ Turn(w).page = Page("snapshot", w.page.id, o + l)
  <2>1. PICK at : at = IF (IF w.page.kind = "snapshot" THEN o + Cardinality(ids) >= got.filtered ELSE got.next = 0)
                      THEN "end" ELSE "page"
    OBVIOUS
  <2>2. PICK next : next = IF w.page.kind = "snapshot" THEN Page("snapshot", w.page.id, w.page.offset + PageLimit)
                           ELSE Page("cursor", got.next, 0)
    BY SMTT(30)
  <2>3. PICK seen, again, lost :
           Turn(w) = [w EXCEPT !.at = at, !.start = From, !.seen = seen, !.again = again, !.lost = lost, !.page = next]
    BY <1>1, <1>3, <2>1, <2>2, ZenonT(60) DEF Turn, From
  <2>4. Turn(w).at = at /\ Turn(w).page = next
    BY <2>3 DEF IsWalk, WalkFields
  <2>5. next = Page("snapshot", w.page.id, w.page.offset + l)
    BY <2>2
  <2>6. at = IF ended THEN "end" ELSE "page"
    BY <2>1, <1>3, <1>4
  <2> QED
    BY <2>4, <2>5, <2>6
<1>6. S \in SUBSET rows /\ Table(S)
  BY RowsTable DEF ListOf, RawRows
<1>7. o \in Nat /\ l \in Nat
  BY LogAssumption DEF IsWalk, IsPage
<1>8. P = OfRanks(S, o, l) /\ P \in SUBSET S
  BY DEF Shows, OfRanks
<1>9. \A r \in S : Rank(S, r) \in Nat /\ Rank(S, r) < Cardinality(S) /\ Cardinality(S) \in Nat
  BY <1>6, RankBounds
<1> HIDE DEF S, P, o, l
<1>10. IsFiniteSet(P) /\ Cardinality(P) \in Nat /\ Cardinality(P) <= l
  BY <1>6, <1>7, <1>8, FewRows DEF OfRanks
<1>11. Cardinality(ids) = Cardinality(P)
  <2> DEFINE f == [r \in P |-> r.id]
  <2>1. f \in Surjection(P, ids)
    <3>1. f \in [P -> ids] /\ \A i \in ids : \E r \in P : f[r] = i
      BY <1>2 DEF Ids
    <3> HIDE DEF f
    <3> QED
      BY <3>1 DEF Surjection
  <2>2. f \in Injection(P, ids)
    <3>1. f \in [P -> ids] /\ \A r, s \in P : f[r] = f[s] => r = s
      BY <1>2, <1>6, <1>8 DEF Ids, RowsTyped
    <3> HIDE DEF f
    <3> QED
      BY <3>1 DEF Injection, IsInjective
  <2> HIDE DEF f
  <2> QED
    BY <2>1, <2>2, <1>10, FS_Surjection
<1>12. IsFiniteSet(S) /\ Cardinality(S) \in Nat
  BY <1>6, FS_CardinalityType DEF Table
<1>13. CASE \A r \in S : Rank(S, r) < o + l
  <2> DEFINE low == {r \in S : Rank(S, r) < o}
  <2>1. low \in SUBSET S /\ \A r \in low : 0 <= Rank(S, r) /\ Rank(S, r) < 0 + o
    BY <1>7, <1>9
  <2>2. IsFiniteSet(low) /\ Cardinality(low) \in Nat /\ Cardinality(low) <= o
    <3> HIDE DEF low
    <3> QED
      BY <1>6, <1>7, <2>1, 0 \in Nat, FewRows
  <2>3. S = low \cup P
    BY <1>7, <1>8, <1>9, <1>13 DEF OfRanks
  <2> HIDE DEF low
  <2>4. Cardinality(low \cup P) = Cardinality(low) + Cardinality(P) - Cardinality(low \cap P)
    BY <2>2, <1>10, FS_Union
  <2>5. Cardinality(low \cap P) \in Nat
    BY <2>2, FS_Intersection, FS_CardinalityType
  <2>6. o + Cardinality(ids) >= Cardinality(S)
    BY <1>7, <1>10, <1>11, <1>12, <2>2, <2>3, <2>4, <2>5
  <2> QED
    BY <1>4, <1>5, <1>13, <2>6 DEF S, o, l
<1>14. CASE \E r \in S : ~(Rank(S, r) < o + l)
  <2>1. PICK y \in S : Rank(S, y) >= o + l
    BY <1>14, <1>7, <1>9
  <2>2. ~(o + Cardinality(ids) >= Cardinality(S))
    BY <2>1, <1>7, <1>9, <1>10, <1>11, <1>12
  <2> QED
    BY <1>4, <1>5, <2>1, <2>2 DEF S, o, l
<1> QED
  BY <1>13, <1>14

\* A row that no purge under way is to delete, and one that the walk has still to show.
Lasting(r) == \A p \in DOMAIN purge : r.at >= purge[p].cutoff
Owed(w, r) ==
    /\ r \in rows /\ r.e.source = "client" /\ r.id \in w.base /\ r.id \notin w.seen
    /\ Lasting(r)
Pinned(id) == {r \in rows : r.e.source = "client" /\ r.id <= id}

\* A walk by cursors: what is owed is after the cursor, and while no cursor's row was lost, what was shown is not.
CursorOK(w) ==
    /\ w.page.id \in 1..newest
    /\ \A r \in rows : Owed(w, r) => AfterCursor(r, w.page.id)
    /\ ~w.lost =>
          /\ ~w.again
          /\ \A c \in rows : c.id = w.page.id => \A r \in rows : r.id \in w.seen => r = c \/ Before(r, c)

\* A walk over a snapshot: what is owed has a rank from the offset on, and what was shown a lower one.
SnapshotOK(w) ==
    /\ ~w.again /\ w.page.id \in 0..newest /\ \A i \in w.base : i <= w.page.id
    /\ \A r \in rows : Owed(w, r) => Rank(Pinned(w.page.id), r) >= w.page.offset
    /\ \A r \in Pinned(w.page.id) : r.id \in w.seen => Rank(Pinned(w.page.id), r) < w.page.offset

OffsetOK(w) == ~w.again /\ w.seen = {}

EndOK(w) == (\A r \in rows : Owed(w, r) => ~(r.at >= w.start)) /\ (w.again => w.lost)

WalkOK(w) ==
    /\ IsWalk(w) /\ w.base \subseteq 1..newest /\ w.seen \subseteq 1..newest
    /\ w.at = "page" =>
          /\ w.page.kind = "cursor" => CursorOK(w)
          /\ w.page.kind = "snapshot" => SnapshotOK(w)
          /\ w.page.kind = "offset" => OffsetOK(w)
    /\ w.at = "end" => EndOK(w)

\* What a turn shows are rows of the window; what is owed after it was owed before.
LEMMA TurnOwes ==
    ASSUME RowsTyped, NEW w, WalkOK(w)
    PROVE  LET t == Turn(w) IN
           /\ Shows(w) \in SUBSET ListOf(w.page, From) /\ ListOf(w.page, From) \in SUBSET rows
           /\ t.base \subseteq 1..newest /\ t.seen \subseteq 1..newest
           /\ \A r \in rows : Owed(t, r) => Owed(w, r) /\ r \notin Shows(w)
           /\ \A r \in rows : r.id \in t.seen => r.id \in w.seen \/ r \in Shows(w)
<1>1. PICK t, P, S : t = Turn(w) /\ P = Shows(w) /\ S = ListOf(w.page, From)
  OBVIOUS
<1>2. P \in SUBSET S /\ S \in SUBSET rows
  BY <1>1 DEF Shows, OfRanks, ListOf, RawRows
<1>3. t.base = w.base /\ t.seen = w.seen \cup Ids(P)
  BY <1>1, TurnAdds DEF WalkOK
<1>4. Ids(P) \subseteq 1..newest
  BY <1>2 DEF Ids, RowsTyped, IsRow
<1>5. \A r \in rows : r.id \in Ids(P) <=> r \in P
  BY <1>2 DEF Ids, RowsTyped
<1>6. t.base \subseteq 1..newest /\ t.seen \subseteq 1..newest
  BY <1>3, <1>4 DEF WalkOK
<1>7. \A r \in rows : Owed(t, r) => Owed(w, r) /\ r \notin P
  BY <1>3, <1>5 DEF Owed
<1>8. \A r \in rows : r.id \in t.seen => r.id \in w.seen \/ r \in P
  BY <1>3, <1>5
<1> QED
  BY <1>1, <1>2, <1>6, <1>7, <1>8

\* A turn by cursors keeps the walk.
LEMMA CursorTurns ==
    ASSUME RowsTyped, From \in Int, NEW w, WalkOK(w), w.at = "page", w.page.kind # "snapshot"
    PROVE  WalkOK(Turn(w))
<1>1. PICK t, P, S : t = Turn(w) /\ P = Shows(w) /\ S = ListOf(w.page, From)
  OBVIOUS
<1>2. /\ P \in SUBSET S /\ S \in SUBSET rows /\ t.base \subseteq 1..newest /\ t.seen \subseteq 1..newest
      /\ \A r \in rows : Owed(t, r) => Owed(w, r) /\ r \notin P
      /\ \A r \in rows : r.id \in t.seen => r.id \in w.seen \/ r \in P
  BY <1>1, TurnOwes
<1>3. /\ DOMAIN t = WalkFields /\ t.start = From
      /\ t.again = (w.again \/ Ids(P) \cap w.seen # {})
      /\ t.lost = (w.lost \/ (w.page.kind = "cursor" /\ \A r \in rows : r.id # w.page.id))
  BY <1>1, TurnAdds DEF WalkOK
<1>4. \/ t.at = "end" /\ IsPage(t.page) /\ P = S
      \/ /\ t.at = "page"
         /\ \E c \in P : /\ t.page = Page("cursor", c.id, 0)
                         /\ \A x \in P : x = c \/ Before(x, c)
                         /\ \A y \in S \ P : Before(c, y)
  BY <1>1, TurnFollows DEF WalkOK
<1>5. w.page.kind \in {"offset", "cursor"} /\ w.again \in BOOLEAN /\ w.lost \in BOOLEAN
  BY DEF WalkOK, IsWalk, IsPage, Kinds
<1>6. Table(rows)
  BY RowsTable
<1>7. \A r \in rows : r.at \in Int
  BY DEF RowsTyped, IsRow
<1>8. \A r \in S : r \in rows /\ r.at >= From /\ (w.page.kind = "cursor" => AfterCursor(r, w.page.id))
  BY <1>1 DEF ListOf, RawRows
<1>9. \A r \in rows : Owed(w, r) /\ r.at >= From => r \in S
  BY <1>1, <1>5 DEF WalkOK, CursorOK, Owed, ListOf, RawRows
<1>10. ASSUME ~t.lost
       PROVE  /\ ~t.again
              /\ \A c \in S, r \in rows : r.id \in w.seen => Before(r, c)
  <2>1. ~w.lost /\ (w.page.kind = "cursor" => \E c \in rows : c.id = w.page.id)
    BY <1>3, <1>5, <1>10
  <2>2. ~w.again /\ \A c \in S, r \in rows : r.id \in w.seen => Before(r, c)
    <3>1. CASE w.page.kind = "offset"
      BY <3>1 DEF WalkOK, OffsetOK
    <3>2. CASE w.page.kind = "cursor"
      <4>1. PICK c \in rows : c.id = w.page.id
        BY <2>1, <3>2
      <4>2. ~w.again /\ \A r \in rows : r.id \in w.seen => r = c \/ Before(r, c)
        BY <2>1, <3>2, <4>1 DEF WalkOK, CursorOK
      <4>3. ASSUME NEW y \in S PROVE Before(c, y)
        BY <1>8, <3>2, <4>1 DEF AfterCursor, RowsTyped
      <4>4. \A r, y \in rows : Before(r, c) /\ Before(c, y) => Before(r, y)
        BY <1>6, BeforeOrders
      <4> QED
        BY <1>2, <4>2, <4>3, <4>4
    <3> QED
      BY <1>5, <3>1, <3>2
  <2>3. Ids(P) \cap w.seen = {}
    <3>1. ASSUME NEW r \in P, r.id \in w.seen PROVE FALSE
      <4>1. r \in S /\ r \in rows
        BY <1>2
      <4>2. Before(r, r)
        BY <2>2, <3>1, <4>1
      <4> QED
        BY <1>6, <4>1, <4>2, BeforeOrders
    <3> QED
      BY <3>1 DEF Ids
  <2> QED
    BY <1>3, <2>2, <2>3
<1>11. t.lost \in BOOLEAN /\ t.again \in BOOLEAN
  BY <1>3, <1>5, Zenon
<1>12. CASE t.at = "end" /\ IsPage(t.page) /\ P = S
  <2>1. IsWalk(t)
    BY <1>3, <1>11, <1>12 DEF IsWalk
  <2>2. EndOK(t)
    BY <1>2, <1>3, <1>9, <1>10, <1>12 DEF EndOK
  <2> QED
    BY <1>1, <1>2, <1>12, <2>1, <2>2 DEF WalkOK
<1>13. ASSUME t.at = "page", NEW c \in P, t.page = Page("cursor", c.id, 0),
              \A x \in P : x = c \/ Before(x, c), \A y \in S \ P : Before(c, y)
       PROVE  WalkOK(t)
  <2>1. IsPage(t.page) /\ t.page.kind = "cursor" /\ t.page.id = c.id
    BY <1>13 DEF IsPage, Page, Kinds
  <2>2. IsWalk(t)
    BY <1>3, <1>11, <2>1 DEF IsWalk
  <2>3. c \in rows /\ c \in S /\ c.id \in 1..newest /\ \A d \in rows : d.id = c.id => d = c
    BY <1>2 DEF RowsTyped, IsRow
  <2>4. ASSUME NEW r \in rows, Owed(t, r) PROVE AfterCursor(r, c.id)
    <3>1. Owed(w, r) /\ r \notin P
      BY <1>2, <2>4
    <3>2. CASE r.at >= From
      <4>1. r \in S \ P
        BY <1>9, <3>1, <3>2
      <4> QED
        BY <1>13, <2>3, <4>1 DEF AfterCursor
    <3>3. CASE ~(r.at >= From)
      <4>1. Before(c, r)
        BY <1>7, <1>8, <2>3, <3>3 DEF Before
      <4> QED
        BY <2>3, <4>1 DEF AfterCursor
    <3> QED
      BY <3>2, <3>3
  <2>5. ASSUME ~t.lost, NEW r \in rows, r.id \in t.seen PROVE r = c \/ Before(r, c)
    BY <1>2, <1>10, <1>13, <2>3, <2>5
  <2>6. CursorOK(t)
    BY <1>10, <2>1, <2>3, <2>4, <2>5 DEF CursorOK
  <2> QED
    BY <1>2, <1>13, <2>1, <2>2, <2>6 DEF WalkOK
<1> QED
  BY <1>1, <1>4, <1>12, <1>13

\* So does a turn of a snapshot.
LEMMA SnapshotTurns ==
    ASSUME RowsTyped, From \in Int, NEW w, WalkOK(w), w.at = "page", w.page.kind = "snapshot"
    PROVE  WalkOK(Turn(w))
<1>1. PICK t, P, S, N, o, l :
          /\ t = Turn(w) /\ P = Shows(w) /\ S = ListOf(w.page, From)
          /\ N = Pinned(w.page.id) /\ o = w.page.offset /\ l = PageLimit
  OBVIOUS
<1>2. /\ P \in SUBSET S /\ S \in SUBSET rows /\ t.base \subseteq 1..newest /\ t.seen \subseteq 1..newest
      /\ \A r \in rows : Owed(t, r) => Owed(w, r) /\ r \notin P
      /\ \A r \in rows : r.id \in t.seen => r.id \in w.seen \/ r \in P
  BY <1>1, TurnOwes
<1>3. /\ DOMAIN t = WalkFields /\ t.start = From /\ t.base = w.base
      /\ t.again = (w.again \/ Ids(P) \cap w.seen # {})
      /\ t.lost = (w.lost \/ (w.page.kind = "cursor" /\ \A r \in rows : r.id # w.page.id))
  BY <1>1, TurnAdds DEF WalkOK
<1>4. /\ t.page = Page("snapshot", w.page.id, o + l)
      /\ \/ t.at = "end" /\ \A r \in S : Rank(S, r) < o + l
         \/ t.at = "page" /\ \E r \in S : Rank(S, r) >= o + l
  BY <1>1, TurnSkips DEF WalkOK
<1>5. /\ o \in Nat /\ l \in Nat /\ w.again \in BOOLEAN /\ w.lost \in BOOLEAN /\ ~w.again
      /\ w.page.id \in 0..newest /\ \A i \in w.base : i <= w.page.id
      /\ \A r \in rows : Owed(w, r) => Rank(N, r) >= o
      /\ \A r \in N : r.id \in w.seen => Rank(N, r) < o
  BY <1>1, LogAssumption DEF WalkOK, SnapshotOK, IsWalk, IsPage
<1>6. Table(N) /\ Table(S) /\ N \in SUBSET rows
  BY <1>1, <1>2, RowsTable DEF Pinned
<1>7. \A r \in N : Rank(N, r) \in Nat
  BY <1>6, RankBounds
<1>8. \A r \in rows : r.at \in Int
  BY DEF RowsTyped, IsRow
<1>9. S = {r \in N : r.at >= From}
  BY <1>1 DEF ListOf, Pinned, RawRows
<1>10. ASSUME NEW r \in S PROVE Rank(S, r) = Rank(N, r)
  <2>1. ASSUME NEW s \in N, Before(s, r) PROVE s \in S
    BY <1>2, <1>6, <1>8, <1>9, <2>1 DEF Before
  <2>2. Ahead(S, r) = Ahead(N, r)
    BY <1>9, <2>1 DEF Ahead
  <2> QED
    BY <2>2 DEF Rank
<1>11. P = {r \in S : o <= Rank(N, r) /\ Rank(N, r) < o + l}
  BY <1>1, <1>10 DEF Shows, OfRanks
<1>12. \A r \in rows : Owed(w, r) => r \in N
  BY <1>1, <1>5 DEF Owed, Pinned
<1>13. ~t.again
  <2>1. ASSUME NEW r \in P, r.id \in w.seen PROVE FALSE
    BY <1>5, <1>7, <1>9, <1>11, <2>1
  <2>2. Ids(P) \cap w.seen = {}
    BY <2>1 DEF Ids
  <2> QED
    BY <1>3, <1>5, <2>2
<1>14. t.lost \in BOOLEAN /\ t.again \in BOOLEAN
  BY <1>3, <1>5, Zenon
<1>15. IsPage(t.page) /\ t.page.kind = "snapshot" /\ t.page.id = w.page.id /\ t.page.offset = o + l
  BY <1>4, <1>5 DEF IsPage, Page, Kinds
<1>16. IsWalk(t)
  BY <1>3, <1>14, <1>15 DEF IsWalk
<1>17. CASE t.at = "end" /\ \A r \in S : Rank(S, r) < o + l
  <2>1. ASSUME NEW r \in rows, Owed(t, r), r.at >= From PROVE FALSE
    <3>1. r \in S /\ r \notin P /\ Rank(N, r) >= o
      BY <1>2, <1>5, <1>9, <1>12, <2>1
    <3>2. Rank(N, r) < o + l
      BY <1>10, <1>17, <3>1
    <3> QED
      BY <1>11, <3>1, <3>2
  <2>2. EndOK(t)
    BY <1>3, <1>13, <2>1 DEF EndOK
  <2> QED
    BY <1>1, <1>2, <1>16, <1>17, <2>2 DEF WalkOK
<1>18. CASE t.at = "page" /\ \E r \in S : Rank(S, r) >= o + l
  <2>1. PICK x \in S : Rank(N, x) >= o + l
    BY <1>10, <1>18
  <2>2. ASSUME NEW r \in rows, Owed(t, r) PROVE Rank(N, r) >= o + l
    <3>1. r \in N /\ r \notin P /\ Rank(N, r) >= o
      BY <1>2, <1>5, <1>12, <2>2
    <3>2. CASE r.at >= From
      BY <1>5, <1>7, <1>9, <1>11, <3>1, <3>2
    <3>3. CASE ~(r.at >= From)
      <4>1. x \in N /\ x.at >= From
        BY <1>9
      <4>2. Before(x, r)
        BY <1>6, <1>8, <3>1, <3>3, <4>1 DEF Before
      <4>3. Rank(N, x) < Rank(N, r)
        BY <1>6, <3>1, <4>1, <4>2, RankOrders
      <4> QED
        BY <1>5, <1>7, <2>1, <3>1, <4>1, <4>3
    <3> QED
      BY <3>2, <3>3
  <2>3. ASSUME NEW r \in N, r.id \in t.seen PROVE Rank(N, r) < o + l
    BY <1>2, <1>5, <1>6, <1>7, <1>11, <2>3
  <2>4. SnapshotOK(t)
    BY <1>1, <1>3, <1>5, <1>13, <1>15, <2>2, <2>3 DEF SnapshotOK
  <2> QED
    BY <1>1, <1>2, <1>15, <1>16, <1>18, <2>4 DEF WalkOK
<1> QED
  BY <1>4, <1>17, <1>18

\* What the walk reads of its state: the same walk over the same table is as good.
LEMMA WalkMoves ==
    ASSUME NEW t, WalkOK(t), walk' = t, UNCHANGED <<rows, newest, purge>>
    PROVE  WalkOK(walk)'
<1>1. \A r : Owed(walk, r)' <=> Owed(t, r)
  BY DEF Owed, Lasting
<1>2. \A r, c : AfterCursor(r, c)' <=> AfterCursor(r, c)
  BY DEF AfterCursor, Before
<1>3. Pinned(walk.page.id)' = Pinned(t.page.id)
  BY DEF Pinned
<1>4. \A r : Rank(Pinned(walk.page.id), r)' = Rank(Pinned(t.page.id), r)
  BY <1>3 DEF Rank, Ahead, Before
<1>5. (IsWalk(walk) /\ walk.base \subseteq 1..newest /\ walk.seen \subseteq 1..newest)'
  BY DEF WalkOK, IsWalk, IsPage
<1>6. CASE t.at = "page" /\ t.page.kind = "cursor"
  <2>1. CursorOK(t)
    BY <1>6 DEF WalkOK
  <2>2. CursorOK(walk)'
    BY <1>1, <1>2, <2>1 DEF CursorOK, Before
  <2> QED
    BY <1>5, <1>6, <2>2 DEF WalkOK
<1>7. CASE t.at = "page" /\ t.page.kind = "snapshot"
  <2>1. SnapshotOK(t)
    BY <1>7 DEF WalkOK
  <2>2. SnapshotOK(walk)'
    BY <1>1, <1>3, <1>4, <2>1 DEF SnapshotOK
  <2> QED
    BY <1>5, <1>7, <2>2 DEF WalkOK
<1>8. CASE t.at = "page" /\ t.page.kind \notin {"cursor", "snapshot"}
  <2>1. OffsetOK(walk)' <=> OffsetOK(t)
    BY DEF OffsetOK
  <2> QED
    BY <1>5, <1>8, <2>1 DEF WalkOK
<1>9. CASE t.at # "page"
  <2>1. EndOK(walk)' <=> EndOK(t)
    BY <1>1 DEF EndOK
  <2> QED
    BY <1>5, <1>9, <2>1 DEF WalkOK
<1> QED
  BY <1>6, <1>7, <1>8, <1>9

\* Rows that come have new ids; rows that go are older than any that lasts; and what lasts has lasted.
Turnover ==
    /\ newest' \in Nat /\ newest' >= newest
    /\ \A r \in rows' : r \in rows \/ r.id > newest
    /\ \A r \in rows \cap rows' : Lasting(r)' => Lasting(r) /\ \A d \in rows \ rows' : d.at < r.at

\* The walk stays as it is over such a change of the table.
LEMMA WalkStays ==
    ASSUME RowsTyped, RowsTyped', WalkOK(walk), UNCHANGED walk, Turnover
    PROVE  WalkOK(walk)'
<1>1. PICK w : w = walk /\ w = walk'
  OBVIOUS
<1>2. /\ IsWalk(w) /\ w.base \subseteq 1..newest /\ w.seen \subseteq 1..newest /\ newest \in Nat
      /\ 1..newest \subseteq 1..newest'
  BY <1>1 DEF WalkOK, RowsTyped, Turnover
<1>3. (IsWalk(walk) /\ walk.base \subseteq 1..newest /\ walk.seen \subseteq 1..newest)'
  <2>1. IsWalk(walk)'
    BY <1>1, <1>2 DEF IsWalk, IsPage
  <2> QED
    BY <1>1, <1>2, <2>1
<1>4. \A r \in rows' : Owed(walk, r)' =>
          r \in rows /\ Owed(w, r) /\ \A d \in rows \ rows' : d.at < r.at
  BY <1>1, <1>2 DEF Owed, Turnover
<1>5. \A r \in rows' : r.id \in w.seen => r \in rows
  BY <1>2 DEF Turnover
<1>6. \A r \in rows : r.at \in Int /\ r.id \in Int
  BY DEF RowsTyped, IsRow
<1>7. CASE w.at = "page" /\ w.page.kind = "cursor"
  <2>1. /\ w.page.id \in 1..newest
        /\ \A r \in rows : Owed(w, r) => AfterCursor(r, w.page.id)
        /\ ~w.lost =>
              /\ ~w.again
              /\ \A c \in rows : c.id = w.page.id => \A r \in rows : r.id \in w.seen => r = c \/ Before(r, c)
    BY <1>1, <1>7 DEF WalkOK, CursorOK
  <2>2. \A c \in rows' : c.id = w.page.id => c \in rows
    BY <1>2, <2>1 DEF Turnover
  <2>3. ASSUME NEW r \in rows', Owed(walk, r)' PROVE AfterCursor(r, w.page.id)'
    <3>1. r \in rows /\ AfterCursor(r, w.page.id) /\ \A d \in rows \ rows' : d.at < r.at
      BY <1>4, <2>1, <2>3
    <3>2. CASE \E c \in rows : c.id = w.page.id
      <4>1. PICK c \in rows : c.id = w.page.id /\ Before(c, r)
        BY <3>1, <3>2 DEF AfterCursor
      <4>2. c \in rows'
        BY <1>6, <3>1, <4>1 DEF Before
      <4> QED
        BY <4>1, <4>2 DEF AfterCursor, Before
    <3>3. CASE ~\E c \in rows : c.id = w.page.id
      <4>1. r.id < w.page.id
        BY <3>1, <3>3 DEF AfterCursor
      <4>2. ~\E c \in rows' : c.id = w.page.id
        BY <2>2, <3>3
      <4> QED
        BY <4>1, <4>2 DEF AfterCursor
    <3> QED
      BY <3>2, <3>3
  <2>4. ASSUME ~w.lost, NEW c \in rows', c.id = w.page.id, NEW r \in rows', r.id \in w.seen
        PROVE  r = c \/ Before(r, c)'
    BY <1>5, <2>1, <2>2, <2>4 DEF Before
  <2>5. CursorOK(walk)'
    BY <1>1, <1>2, <2>1, <2>3, <2>4 DEF CursorOK
  <2> QED
    BY <1>1, <1>3, <1>7, <2>5 DEF WalkOK
<1>8. CASE w.at = "page" /\ w.page.kind = "snapshot"
  <2>1. PICK N, M : N = Pinned(w.page.id) /\ M = Pinned(walk.page.id)'
    OBVIOUS
  <2>2. /\ ~w.again /\ w.page.id \in 0..newest /\ \A i \in w.base : i <= w.page.id
        /\ \A r \in rows : Owed(w, r) => Rank(N, r) >= w.page.offset
        /\ \A r \in N : r.id \in w.seen => Rank(N, r) < w.page.offset
    BY <1>1, <1>8, <2>1 DEF WalkOK, SnapshotOK
  <2>3. M = N \cap rows'
    <3>1. M = {r \in rows' : r.e.source = "client" /\ r.id <= w.page.id}
      BY <1>1, <2>1 DEF Pinned
    <3>2. \A r \in rows' : r.id <= w.page.id => r \in rows
      <4>1. \A r \in rows' : r.id \in Int
        BY DEF RowsTyped, IsRow
      <4> QED
        BY <1>2, <2>2, <4>1 DEF Turnover
    <3> QED
      BY <2>1, <3>1, <3>2 DEF Pinned
  <2>4. \A r : Rank(Pinned(walk.page.id), r)' = Rank(M, r)
    BY <2>1 DEF Rank, Ahead, Before
  <2>5. Table(N) /\ N \in SUBSET rows
    BY <2>1, RowsTable DEF Pinned
  <2>6. w.page.offset \in Nat
    BY <1>2 DEF IsWalk, IsPage
  <2>7. ASSUME NEW r \in rows', Owed(walk, r)' PROVE Rank(M, r) >= w.page.offset
    <3>1. r \in rows /\ Owed(w, r) /\ \A d \in rows \ rows' : d.at < r.at
      BY <1>4, <2>7
    <3>2. \A d \in rows \ rows' : ~Before(d, r)
      BY <1>6, <3>1 DEF Before
    <3>3. Ahead(M, r) = Ahead(N, r)
      BY <2>3, <2>5, <3>2 DEF Ahead
    <3> QED
      BY <2>2, <3>1, <3>3 DEF Rank
  <2>8. ASSUME NEW r \in M, r.id \in w.seen PROVE Rank(M, r) < w.page.offset
    <3>1. r \in N /\ Rank(N, r) < w.page.offset
      BY <2>2, <2>3, <2>8
    <3>2. IsFiniteSet(Ahead(N, r)) /\ Cardinality(Ahead(N, r)) \in Nat
      BY <2>5, <3>1, RankBounds DEF Rank
    <3>3. Ahead(M, r) \in SUBSET Ahead(N, r)
      BY <2>3 DEF Ahead
    <3>4. /\ Cardinality(Ahead(M, r)) <= Cardinality(Ahead(N, r))
          /\ IsFiniteSet(Ahead(M, r))
      BY <3>2, <3>3, FS_Subset
    <3>5. Cardinality(Ahead(M, r)) \in Nat
      BY <3>4, FS_CardinalityType
    <3> QED
      BY <2>6, <3>1, <3>2, <3>4, <3>5 DEF Rank
  <2>9. w.page.id \in 0..newest'
    BY <1>2, <2>2 DEF Turnover
  <2>10. SnapshotOK(walk)'
    BY <1>1, <2>1, <2>2, <2>4, <2>7, <2>8, <2>9 DEF SnapshotOK
  <2> QED
    BY <1>1, <1>3, <1>8, <2>10 DEF WalkOK
<1>9. CASE w.at = "page" /\ w.page.kind \notin {"cursor", "snapshot"}
  <2>1. OffsetOK(walk)' <=> OffsetOK(w)
    BY <1>1 DEF OffsetOK
  <2>2. w.page.kind = "offset" => OffsetOK(w)
    BY <1>1, <1>9 DEF WalkOK
  <2> QED
    BY <1>1, <1>3, <1>9, <2>1, <2>2 DEF WalkOK
<1>10. CASE w.at # "page"
  <2>1. w.at = "end" => EndOK(w)
    BY <1>1 DEF WalkOK
  <2>2. w.at = "end" => EndOK(walk)'
    BY <1>1, <1>4, <2>1 DEF EndOK
  <2> QED
    BY <1>1, <1>3, <1>10, <2>2 DEF WalkOK
<1> QED
  BY <1>7, <1>8, <1>9, <1>10

(***************************************************************************)
(* What the log's steps keep                                               *)
(***************************************************************************)
IsSeq(s) == \E S : s \in Seq(S)
IsPurge(p) == DOMAIN p = {"at", "cutoff"} /\ p.cutoff \in Int /\ (p.at = "none" => p.cutoff = 0)
QueueTyped ==
    /\ wall \in Nat /\ IsSeq(channel) /\ IsSeq(batch) /\ Len(batch) <= MaxBatchSize
    /\ DOMAIN flush = {"at", "stamp"} /\ flush.stamp \in Nat
PurgesTyped == \A p \in DOMAIN purge : IsPurge(purge[p])
PagesInv == RowsTyped /\ QueueTyped /\ PurgesTyped /\ (walk.at = "none" \/ WalkOK(walk))

\* Sequences stay sequences.
LEMMA SeqFacts ==
    ASSUME NEW s, IsSeq(s)
    PROVE  /\ Len(s) \in Nat /\ DOMAIN s = 1..Len(s)
           /\ \A e : IsSeq(Append(s, e))
           /\ \A t : IsSeq(t) => IsSeq(s \o t) /\ Len(s \o t) = Len(s) + Len(t)
           /\ \A n \in 0..Len(s) : /\ IsSeq(SubSeq(s, 1, n)) /\ Len(SubSeq(s, 1, n)) = n
                                   /\ IsSeq(SubSeq(s, n + 1, Len(s)))
<1>1. PICK S : s \in Seq(S)
  BY DEF IsSeq
<1>2. Len(s) \in Nat /\ DOMAIN s = 1..Len(s)
  BY <1>1
<1>3. ASSUME NEW e PROVE IsSeq(Append(s, e))
  <2>1. PICK T : T = S \cup {e}
    OBVIOUS
  <2>2. s \in Seq(T) /\ e \in T
    BY <1>1, <2>1
  <2>3. Append(s, e) \in Seq(T)
    BY <2>2
  <2> QED
    BY <2>3 DEF IsSeq
<1>4. ASSUME NEW t, IsSeq(t) PROVE IsSeq(s \o t) /\ Len(s \o t) = Len(s) + Len(t)
  <2>1. PICK R : t \in Seq(R)
    BY <1>4 DEF IsSeq
  <2>2. PICK T : T = S \cup R
    OBVIOUS
  <2>3. s \in Seq(T) /\ t \in Seq(T)
    BY <1>1, <2>1, <2>2
  <2>4. s \o t \in Seq(T) /\ Len(s \o t) = Len(s) + Len(t)
    BY <2>3
  <2> QED
    BY <2>4 DEF IsSeq
<1>5. ASSUME NEW n \in 0..Len(s)
      PROVE  IsSeq(SubSeq(s, 1, n)) /\ Len(SubSeq(s, 1, n)) = n /\ IsSeq(SubSeq(s, n + 1, Len(s)))
  <2>1. SubSeq(s, 1, n) \in Seq(S) /\ Len(SubSeq(s, 1, n)) = n
    BY <1>1, <1>2
  <2>2. SubSeq(s, n + 1, Len(s)) \in Seq(S)
    BY <1>1, <1>2
  <2> QED
    BY <2>1, <2>2 DEF IsSeq
<1> QED
  BY <1>2, <1>3, <1>4, <1>5

\* What a query does to the log: it queues at most a row.
Queues ==
    /\ UNCHANGED <<mix, wall, batch, flush, rows, newest, purge, walk>>
    /\ channel' = channel \/ \E e : channel' = Append(channel, e)

\* Logging is queueing.
LEMMA LogQueues == ASSUME NEW e, log(e), UNCHANGED mix PROVE Queues
  BY DEF log, log_query_sync, Queues, storeVars

\* A step of a query logs once at most.
LEMMA WorkerQueues == ASSUME NEW w, WorkerStep(w) PROVE Queues
<1> USE DEF logVars, storeVars
<1>0. UNCHANGED mix
  BY WorkerSpends
<1>1. ASSUME NEW t, NEW err, NEW r, NEW e, Finish(w, t, err, r, e) PROVE Queues
  BY <1>0, <1>1, LogQueues DEF Finish
<1>2. ASSUME NEW t, NEW err, NEW charge, NEW r, NEW e, Charge(w, t, err, charge, r, e) PROVE Queues
  BY <1>1, <1>2 DEF Charge
<1>9. UNCHANGED logVars => Queues
  BY <1>0 DEF Queues
<1>3. CASE Receive(w)
  BY <1>3, <1>9 DEF Receive
<1>4. CASE GroupLookup(w) \/ GroupStore(w) \/ CheckLookup(w) \/ CheckStore(w) \/ CheckKeep(w)
  BY <1>4, <1>9 DEF GroupLookup, GroupStore, CheckLookup, CheckStore, CheckKeep
<1>5. CASE Admit(w)
  BY <1>5, <1>1, <1>9 DEF Admit
<1>6. CASE FastAnswer(w)
  BY <1>6, <1>1, <1>9 DEF FastAnswer
<1>7. CASE Decide(w)
  BY <1>7, <1>1, <1>2, <1>9 DEF Decide
<1>8. CASE Resolved(w)
  BY <1>8, <1>2, <1>9 DEF Resolved
<1> QED
  BY <1>3, <1>4, <1>5, <1>6, <1>7, <1>8 DEF WorkerStep

\* Whatever is not a step of the log queues at most a row.
LEMMA OthersQueue == ASSUME Next PROVE LogSteps \/ Queues
<1> USE DEF logVars, storeVars
<1>1. UNCHANGED <<mix, logVars>> => Queues
  BY DEF Queues
<1>2. CASE Publish \/ EditGroups \/ load_client_groups
  BY <1>1, <1>2 DEF Publish, EditGroups, load_client_groups
<1>3. CASE set_blocking \/ TimerWakes \/ TimerFlips \/ ScheduleChanges
  BY <1>1, <1>3 DEF set_blocking, TimerWakes, TimerFlips, ScheduleChanges
<1>4. CASE ConnectionStep \/ Tick \/ RateEviction \/ CacheDrop \/ DetectorStep
  BY <1>1, <1>4 DEF ConnectionStep, Tick, RateEviction, CacheDrop, DetectorStep, MemoStep
<1>5. CASE \E w \in Now("workers") : WorkerStep(w) \/ MemoStep(w)
  BY <1>1, <1>5, WorkerQueues DEF MemoStep
<1> QED
  BY <1>2, <1>3, <1>4, <1>5 DEF Next

\* A table that stays keeps the walk that stays.
LEMMA PagesStay ==
    ASSUME PagesInv, QueueTyped', PurgesTyped', UNCHANGED <<rows, newest, walk>>,
           \A r \in rows : Lasting(r)' => Lasting(r)
    PROVE  PagesInv'
<1>1. RowsTyped'
  BY DEF PagesInv, RowsTyped, IsRow
<1>2. CASE walk.at = "none"
  BY <1>1, <1>2 DEF PagesInv
<1>3. CASE WalkOK(walk)
  <2>1. Turnover
    BY DEF Turnover, PagesInv, RowsTyped
  <2>2. WalkOK(walk)'
    BY <1>1, <1>3, <2>1, WalkStays DEF PagesInv
  <2> QED
    BY <1>1, <2>2 DEF PagesInv
<1> QED
  BY <1>2, <1>3 DEF PagesInv

\* The steps of the queue and of the clock.
LEMMA QueueSteps ==
    ASSUME PagesInv, Counted, UNCHANGED mix,
           Queues \/ RefreshLogged \/ flush_loop \/ FlushTick \/ WallTicks \/ WallStepsBack
    PROVE  PagesInv'
<1> USE DEF storeVars
<1>1. UNCHANGED <<rows, newest, walk, purge>>
  BY DEF Queues, RefreshLogged, flush_loop, FlushTick, WallTicks, WallStepsBack
<1>2. PurgesTyped'
  BY <1>1 DEF PagesInv, PurgesTyped, IsPurge
<1>3. \A r \in rows : Lasting(r)' => Lasting(r)
  BY <1>1 DEF Lasting
<1>4. IsSeq(channel) /\ IsSeq(batch) /\ Len(batch) <= MaxBatchSize /\ wall \in Nat /\ flush.stamp \in Nat
      /\ DOMAIN flush = {"at", "stamp"}
  BY DEF PagesInv, QueueTyped
<1>5. QueueTyped'
  <2>1. CASE Queues \/ RefreshLogged
    <3>1. UNCHANGED <<wall, batch, flush>> /\ (channel' = channel \/ \E e : channel' = Append(channel, e))
      BY <2>1 DEF Queues, RefreshLogged, log_query_sync
    <3>2. IsSeq(channel')
      BY <1>4, <3>1, SeqFacts
    <3> QED
      BY <1>4, <3>1, <3>2 DEF QueueTyped, IsSeq
  <2>2. CASE flush_loop
    <3>1. PICK n : n = Took
      OBVIOUS
    <3>2. Len(batch) \in Nat /\ Len(channel) \in Nat /\ MaxBatchSize \in Nat
      BY <1>4, SeqFacts, LogAssumption
    <3>3. n \in 0..Len(channel) /\ Len(batch) + n <= MaxBatchSize
      BY <1>4, <3>1, <3>2 DEF Took
    <3>4. batch' = batch \o SubSeq(channel, 1, n) /\ channel' = SubSeq(channel, n + 1, Len(channel))
      BY <2>2, <3>1 DEF flush_loop
    <3>5. IsSeq(SubSeq(channel, 1, n)) /\ Len(SubSeq(channel, 1, n)) = n /\ IsSeq(channel')
      BY <1>4, <3>3, <3>4, SeqFacts
    <3>6. IsSeq(batch') /\ Len(batch') <= MaxBatchSize
      BY <1>4, <3>3, <3>4, <3>5, SeqFacts
    <3>7. wall' \in Nat /\ DOMAIN flush' = {"at", "stamp"} /\ flush'.stamp \in Nat
      BY <1>4, <2>2 DEF flush_loop
    <3> QED
      BY <3>5, <3>6, <3>7 DEF QueueTyped, IsSeq
  <2>3. CASE FlushTick
    BY <1>4, <2>3 DEF FlushTick, QueueTyped, IsSeq
  <2>4. CASE WallTicks
    BY <1>4, <2>4 DEF WallTicks, QueueTyped, IsSeq
  <2>5. CASE WallStepsBack
    <3>1. PICK by \in Now("steps") : wall - by >= CloseLag /\ wall' = wall - by
      BY <2>5 DEF WallStepsBack
    <3>2. by \in Nat /\ CloseLag \in Nat
      BY <3>1, HistoryAssumption, LogAssumption DEF Counted, Now, Settings
    <3>3. wall' \in Nat
      BY <1>4, <3>1, <3>2
    <3> QED
      BY <1>4, <2>5, <3>3 DEF WallStepsBack, QueueTyped, IsSeq
  <2> QED
    BY <2>1, <2>2, <2>3, <2>4, <2>5
<1> QED
  BY <1>1, <1>2, <1>3, <1>5, PagesStay

\* The hourly job reads the table.
LEMMA JobSteps ==
    ASSUME PagesInv, RollupJobStarts \/ roll_up_hours \/ give_back_open_hours \/ AggregateColumn \/ store_hour
    PROVE  PagesInv'
<1>1. UNCHANGED <<wall, channel, batch, flush, rows, newest, walk, purge>>
  BY DEF RollupJobStarts, roll_up_hours, give_back_open_hours, AggregateColumn, store_hour, storeVars
<1>2. QueueTyped' /\ PurgesTyped'
  BY <1>1 DEF PagesInv, QueueTyped, PurgesTyped, IsPurge, IsSeq
<1>3. \A r \in rows : Lasting(r)' => Lasting(r)
  BY <1>1 DEF Lasting
<1> QED
  BY <1>1, <1>2, <1>3, PagesStay

\* A purge that begins or goes on to delete: its cutoff was none.
LEMMA PurgeSteps ==
    ASSUME PagesInv, Counted, delete_older_than \/ prune_before
    PROVE  PagesInv'
<1>1. UNCHANGED <<wall, channel, batch, flush, rows, newest, walk>>
  BY DEF delete_older_than, prune_before, storeVars
<1>2. QueueTyped'
  BY <1>1 DEF PagesInv, QueueTyped, IsSeq
<1>3. ASSUME delete_older_than
      PROVE  PurgesTyped' /\ \A r \in rows : Lasting(r)' => Lasting(r)
  <2>1. PICK p, cutoff :
            /\ p \in DOMAIN purge /\ purge[p].at = "none" /\ purge' = [purge EXCEPT ![p] = [at |-> "prune", cutoff |-> cutoff]]
            /\ cutoff = wall - (IF p = "flush" THEN 0 ELSE Now("retain"))
    BY <1>3 DEF delete_older_than
  <2>2. Now("retain") \in Nat /\ wall \in Nat
    BY HistoryAssumption DEF Counted, Now, Settings, PagesInv, QueueTyped
  <2>3. cutoff \in Int
    BY <2>1, <2>2
  <2>4. PurgesTyped'
    BY <2>1, <2>3 DEF PagesInv, PurgesTyped, IsPurge
  <2>5. purge[p].cutoff = 0
    BY <2>1 DEF PagesInv, PurgesTyped, IsPurge
  <2>6. \A r \in rows : r.at >= 0
    BY DEF PagesInv, RowsTyped, IsRow
  <2>7. \A r \in rows : Lasting(r)' => Lasting(r)
    BY <2>1, <2>5, <2>6 DEF Lasting
  <2> QED
    BY <2>4, <2>7
<1>4. ASSUME prune_before
      PROVE  PurgesTyped' /\ \A r \in rows : Lasting(r)' => Lasting(r)
  <2>1. PICK p \in DOMAIN purge : purge' = [purge EXCEPT ![p].at = "delete"]
    BY <1>4 DEF prune_before
  <2>2. /\ DOMAIN purge' = DOMAIN purge
        /\ \A q \in DOMAIN purge : /\ DOMAIN purge'[q] = DOMAIN purge[q]
                                   /\ purge'[q].cutoff = purge[q].cutoff
                                   /\ purge'[q].at = "none" => purge[q].at = "none"
    BY <2>1 DEF PagesInv, PurgesTyped, IsPurge
  <2>3. PurgesTyped'
    BY <2>2 DEF PagesInv, PurgesTyped, IsPurge
  <2>4. \A r \in rows : Lasting(r)' => Lasting(r)
    BY <2>2 DEF Lasting
  <2> QED
    BY <2>3, <2>4
<1> QED
  BY <1>1, <1>2, <1>3, <1>4, PagesStay

\* A batch of deletions: what goes is older than the cutoff, and a purge ends when there is none such.
LEMMA DeleteSteps == ASSUME PagesInv, DeleteRows PROVE PagesInv'
<1>1. PICK p, old, gone :
          /\ p \in DOMAIN purge /\ old = {r \in rows : r.at < purge[p].cutoff} /\ gone \subseteq old /\ rows' = rows \ gone
          /\ purge' = IF old = {} THEN [purge EXCEPT ![p] = NoPurge] ELSE purge
  <2>1. PICK p \in DOMAIN purge :
            LET old == {r \in rows : r.at < purge[p].cutoff}
                size == IF Cardinality(old) < DeleteBatch THEN Cardinality(old) ELSE DeleteBatch
            IN  /\ \E gone \in kSubset(size, old) : rows' = rows \ gone
                /\ purge' = IF old = {} THEN [purge EXCEPT ![p] = NoPurge] ELSE purge
    BY DEF DeleteRows
  <2>2. PICK old : old = {r \in rows : r.at < purge[p].cutoff}
    OBVIOUS
  <2>3. PICK size, gone : gone \in kSubset(size, old) /\ rows' = rows \ gone
    BY <2>1, <2>2
  <2>4. gone \subseteq old
    BY <2>3 DEF kSubset
  <2> QED
    BY <2>1, <2>2, <2>3, <2>4
<1>2. UNCHANGED <<wall, channel, batch, flush, newest, walk>>
  BY DEF DeleteRows
<1>3. RowsTyped'
  BY <1>1, <1>2 DEF PagesInv, RowsTyped, IsRow
<1>4. QueueTyped'
  BY <1>2 DEF PagesInv, QueueTyped, IsSeq
<1>5. PurgesTyped'
  BY <1>1 DEF PagesInv, PurgesTyped, IsPurge, NoPurge
<1>6. \A r \in rows : r.at \in Int
  BY DEF PagesInv, RowsTyped, IsRow
<1>7. purge[p].cutoff \in Int /\ \A q \in DOMAIN purge : purge[q].cutoff \in Int
  BY <1>1 DEF PagesInv, PurgesTyped, IsPurge
<1>8. \A r \in rows \cap rows' : Lasting(r)' => Lasting(r) /\ \A d \in rows \ rows' : d.at < r.at
  <2>1. CASE old = {}
    <3>1. rows' = rows /\ purge' = [purge EXCEPT ![p] = NoPurge]
      BY <1>1, <2>1
    <3>2. \A r \in rows : r.at >= purge[p].cutoff
      BY <1>1, <1>6, <1>7, <2>1
    <3> QED
      BY <3>1, <3>2 DEF Lasting
  <2>2. CASE old # {}
    <3>1. purge' = purge /\ \A d \in rows \ rows' : d.at < purge[p].cutoff
      BY <1>1, <2>2
    <3>2. ASSUME NEW r \in rows, Lasting(r)' PROVE Lasting(r) /\ r.at >= purge[p].cutoff
      BY <1>1, <3>1, <3>2 DEF Lasting
    <3> QED
      BY <1>6, <1>7, <3>1, <3>2
  <2> QED
    BY <2>1, <2>2
<1>9. CASE walk.at = "none"
  BY <1>2, <1>3, <1>4, <1>5, <1>9 DEF PagesInv
<1>10. CASE WalkOK(walk)
  <2>1. Turnover
    BY <1>1, <1>2, <1>8 DEF Turnover, PagesInv, RowsTyped
  <2>2. WalkOK(walk)'
    BY <1>2, <1>3, <1>10, <2>1, WalkStays DEF PagesInv
  <2> QED
    BY <1>3, <1>4, <1>5, <2>2 DEF PagesInv
<1> QED
  BY <1>9, <1>10 DEF PagesInv

\* A flush: its rows have ids of their own, after all that were given.
LEMMA FlushSteps == ASSUME PagesInv, flush_batch PROVE PagesInv'
<1>1. PICK landed :
          LET ids == {i \in DOMAIN batch : Chunk(i) \in landed}
              id(i) == newest + Cardinality({j \in ids : j <= i})
          IN  /\ rows' = rows \cup {[id |-> id(i), at |-> flush.stamp, e |-> batch[i]] : i \in ids}
              /\ newest' = newest + Cardinality(ids)
  BY DEF flush_batch
<1> DEFINE ids == {i \in DOMAIN batch : Chunk(i) \in landed}
           Upto(i) == {j \in ids : j <= i}
<1>2. /\ rows' = rows \cup {[id |-> newest + Cardinality(Upto(i)), at |-> flush.stamp, e |-> batch[i]] : i \in ids}
      /\ newest' = newest + Cardinality(ids)
  BY <1>1
<1>3. UNCHANGED <<wall, channel, purge, walk>> /\ batch' = <<>> /\ flush' = [flush EXCEPT !.at = "none"]
  BY DEF flush_batch
<1>4. newest \in Nat /\ flush.stamp \in Nat /\ IsSeq(batch) /\ IsSeq(channel)
  BY DEF PagesInv, RowsTyped, QueueTyped
<1>5. DOMAIN batch = 1..Len(batch) /\ Len(batch) \in Nat
  BY <1>4, SeqFacts
<1>6. ids \subseteq 1..Len(batch) /\ ids \subseteq Int
  BY <1>5
<1>7. IsFiniteSet(ids) /\ Cardinality(ids) \in Nat
  <2>1. IsFiniteSet(1..Len(batch))
    BY <1>5, FS_Interval
  <2>2. IsFiniteSet(ids)
    <3> HIDE DEF ids
    <3> QED
      BY <1>6, <2>1, FS_Subset
  <2> QED
    BY <2>2, FS_CardinalityType
<1> HIDE DEF ids
<1>8. ASSUME NEW i \in ids
      PROVE  IsFiniteSet(Upto(i)) /\ Cardinality(Upto(i)) \in 1..Cardinality(ids)
  <2>1. Upto(i) \in SUBSET ids /\ i \in Upto(i)
    BY <1>6
  <2>2. IsFiniteSet(Upto(i)) /\ Cardinality(Upto(i)) <= Cardinality(ids)
    <3> HIDE DEF Upto
    <3> QED
      BY <1>7, <2>1, FS_Subset
  <2>3. Cardinality(Upto(i)) \in Nat /\ Cardinality(Upto(i)) # 0
    <3> HIDE DEF Upto
    <3> QED
      BY <2>1, <2>2, FS_CardinalityType, FS_EmptySet
  <2> HIDE DEF Upto
  <2> QED
    BY <1>7, <2>2, <2>3
<1>9. ASSUME NEW i \in ids, NEW k \in ids, i < k PROVE Cardinality(Upto(i)) < Cardinality(Upto(k))
  <2>a. i \in Int /\ k \in Int /\ \A j \in ids : j \in Int
    BY <1>6
  <2>b. k <= k /\ ~(k <= i) /\ \A j \in ids : j <= i => j <= k
    BY <1>9, <2>a
  <2>1. Upto(i) \in SUBSET Upto(k) /\ k \in Upto(k) /\ k \notin Upto(i)
    BY <2>b
  <2>2. IsFiniteSet(Upto(k)) /\ Cardinality(Upto(k)) \in Nat /\ Cardinality(Upto(i)) \in Nat
    <3> HIDE DEF Upto
    <3> QED
      BY <1>7, <1>8
  <2> HIDE DEF Upto
  <2>3. /\ Cardinality(Upto(i)) <= Cardinality(Upto(k))
        /\ Cardinality(Upto(k)) = Cardinality(Upto(i)) => Upto(k) = Upto(i)
    BY <2>1, <2>2, FS_Subset
  <2> QED
    BY <2>1, <2>2, <2>3
<1>10. PICK id : id = [i \in ids |-> newest + Cardinality(Upto(i))]
  OBVIOUS
<1>11. /\ \A i \in ids : id[i] \in (newest + 1)..newest'
       /\ \A i, k \in ids : id[i] = id[k] => i = k
  <2> HIDE DEF Upto
  <2>1. \A i \in ids : id[i] \in (newest + 1)..newest'
    BY <1>2, <1>4, <1>7, <1>8, <1>10
  <2>2. ASSUME NEW i \in ids, NEW k \in ids, id[i] = id[k] PROVE i = k
    <3>1. i \in Int /\ k \in Int /\ Cardinality(Upto(i)) = Cardinality(Upto(k))
      BY <1>4, <1>6, <1>7, <1>8, <1>10, <2>2
    <3>2. Cardinality(Upto(i)) \in Int /\ Cardinality(Upto(k)) \in Int
      BY <1>7, <1>8
    <3> QED
      BY <1>9, <3>1, <3>2
  <2> QED
    BY <2>1, <2>2
<1>12. \A r \in rows' : r \in rows \/ \E i \in ids : r = [id |-> id[i], at |-> flush.stamp, e |-> batch[i]]
  <2> HIDE DEF Upto
  <2> QED
    BY <1>2, <1>10
<1>13. newest' \in Nat /\ newest' >= newest
  BY <1>2, <1>4, <1>7
<1>14. rows \subseteq rows' /\ \A r \in rows' : r \in rows \/ r.id > newest
  <2>1. \A r \in rows' : r \in rows \/ r.id > newest
    BY <1>4, <1>11, <1>12, <1>13
  <2> QED
    BY <1>2, <2>1
<1>15. RowsTyped'
  <2>1. \A r \in rows : DOMAIN r = {"id", "at", "e"} /\ r.id \in 1..newest /\ r.at \in Nat
    BY DEF PagesInv, RowsTyped, IsRow
  <2>2. ASSUME NEW r \in rows' PROVE IsRow(r)'
    <3>1. CASE r \in rows
      BY <1>4, <1>13, <2>1, <3>1 DEF IsRow
    <3>2. CASE r \notin rows
      <4>1. PICK i \in ids : r = [id |-> id[i], at |-> flush.stamp, e |-> batch[i]]
        BY <1>12, <3>2
      <4> QED
        BY <1>4, <1>11, <1>13, <4>1 DEF IsRow
    <3> QED
      BY <3>1, <3>2
  <2>3. ASSUME NEW r \in rows', NEW s \in rows', r.id = s.id PROVE r = s
    <3>1. CASE r \in rows /\ s \in rows
      BY <2>3, <3>1 DEF PagesInv, RowsTyped
    <3>2. CASE r \notin rows /\ s \notin rows
      <4>1. PICK i \in ids : r = [id |-> id[i], at |-> flush.stamp, e |-> batch[i]]
        BY <1>12, <3>2
      <4>2. PICK k \in ids : s = [id |-> id[k], at |-> flush.stamp, e |-> batch[k]]
        BY <1>12, <3>2
      <4>3. i = k
        BY <1>11, <2>3, <4>1, <4>2
      <4> QED
        BY <4>1, <4>2, <4>3
    <3>3. CASE (r \in rows) # (s \in rows)
      BY <1>4, <1>14, <2>1, <2>3, <3>3
    <3> QED
      BY <3>1, <3>2, <3>3
  <2> QED
    BY <1>13, <2>2, <2>3 DEF RowsTyped
<1>16. QueueTyped' /\ PurgesTyped'
  <2>1. <<>> \in Seq({}) /\ Len(<<>>) = 0 /\ MaxBatchSize \in Nat
    BY LogAssumption
  <2> QED
    BY <1>3, <2>1 DEF PagesInv, QueueTyped, PurgesTyped, IsPurge, IsSeq
<1>17. CASE walk.at = "none"
  BY <1>3, <1>15, <1>16, <1>17 DEF PagesInv
<1>18. CASE WalkOK(walk)
  <2>1. \A r : Lasting(r)' => Lasting(r)
    BY <1>3 DEF Lasting
  <2>2. Turnover
    BY <1>13, <1>14, <2>1 DEF Turnover
  <2>3. WalkOK(walk)'
    BY <1>3, <1>15, <1>18, <2>2, WalkStays DEF PagesInv
  <2> QED
    BY <1>15, <1>16, <2>3 DEF PagesInv
<1> QED
  BY <1>17, <1>18 DEF PagesInv

\* The newest row a snapshot pins.
LEMMA NewestPinned ==
    ASSUME RowsTyped, NEW t
    PROVE  LET m == get_storage(t).newest_id IN m \in 0..newest /\ \A r \in RawRows(0) : r.id <= m
<1> DEFINE N == {0} \cup {r.id : r \in RawRows(0)}
<1>1. newest \in Nat /\ \A r \in RawRows(0) : r.id \in 1..newest
  BY DEF RowsTyped, IsRow, RawRows
<1>2. N \subseteq 0..newest /\ 0 \in N
  BY <1>1
<1>3. \A r \in RawRows(0) : r.id \in N
  OBVIOUS
<1>4. get_storage(t).newest_id = Max(N)
  BY DEF get_storage
<1> HIDE DEF N
<1>5. PICK i \in {newest - n : n \in N} : \A j \in {newest - n : n \in N} : i <= j
  <2>1. {newest - n : n \in N} \subseteq Nat /\ {newest - n : n \in N} # {}
    BY <1>1, <1>2
  <2> QED
    BY <2>1, LeastNat
<1>6. PICK m \in N : i = newest - m
  BY <1>5
<1>7. ASSUME NEW n \in N PROVE m >= n
  <2>1. newest - m <= newest - n
    BY <1>5, <1>6
  <2> QED
    BY <1>1, <1>2, <2>1
<1>8. Max(N) \in N /\ \A n \in N : Max(N) >= n
  BY <1>7 DEF Max
<1>9. PICK x : x = Max(N)
  OBVIOUS
<1>10. x \in 0..newest /\ \A r \in RawRows(0) : r.id <= x
  BY <1>1, <1>2, <1>3, <1>8, <1>9
<1> QED
  BY <1>4, <1>9, <1>10

\* A turn keeps the walk.
LEMMA Turns ==
    ASSUME RowsTyped, From \in Int, NEW w, WalkOK(w), w.at = "page"
    PROVE  WalkOK(Turn(w))
  BY CursorTurns, SnapshotTurns

\* The reader starts and goes on.
LEMMA WalkSteps ==
    ASSUME PagesInv, Counted, WalkStarts \/ NextPage
    PROVE  PagesInv'
<1> USE DEF storeVars
<1>1. UNCHANGED <<wall, channel, batch, flush, rows, newest, purge>>
  BY DEF WalkStarts, NextPage
<1>2. RowsTyped' /\ QueueTyped' /\ PurgesTyped'
  BY <1>1 DEF PagesInv, RowsTyped, IsRow, QueueTyped, PurgesTyped, IsPurge, IsSeq
<1>3. From \in Int
  <2>1. Now("window") \in Nat /\ wall \in Nat
    BY HistoryAssumption DEF Counted, Now, Settings, PagesInv, QueueTyped
  <2> QED
    BY <2>1 DEF From
<1>4. RowsTyped
  BY DEF PagesInv
<1>5. ASSUME NEW t, WalkOK(t), walk' = t PROVE PagesInv'
  <2>1. WalkOK(walk)'
    BY <1>1, <1>5, WalkMoves
  <2> QED
    BY <1>2, <2>1 DEF PagesInv
<1>6. CASE WalkStarts
  <2>1. PICK base, page :
            /\ base = {r.id : r \in RawRows(0)}
            /\ page = Page("offset", 0, 0) \/ page = Page("snapshot", get_storage(wall).newest_id, 0)
            /\ walk' = Turn([at |-> "page", page |-> page, start |-> 0, seen |-> {}, again |-> FALSE, lost |-> FALSE,
                             base |-> base])
    BY <1>6 DEF WalkStarts
  <2>2. PICK w : w = [at |-> "page", page |-> page, start |-> 0, seen |-> {}, again |-> FALSE, lost |-> FALSE,
                      base |-> base]
    OBVIOUS
  <2>3. /\ DOMAIN w = WalkFields /\ w.at = "page" /\ w.page = page /\ w.seen = {} /\ w.again = FALSE /\ w.lost = FALSE
        /\ w.base = base
    BY <2>2 DEF WalkFields
  <2>4. PICK m : m = get_storage(wall).newest_id /\ m \in 0..newest /\ \A r \in RawRows(0) : r.id <= m
    BY <1>4, NewestPinned
  <2>5. /\ IsPage(page) /\ page.offset = 0 /\ page.kind \in {"offset", "snapshot"}
        /\ page.kind = "snapshot" => page.id = m
    BY <2>1, <2>4 DEF IsPage, Page, Kinds
  <2>6. w.again \in BOOLEAN /\ w.lost \in BOOLEAN
    BY <2>3, Zenon
  <2>7. IsWalk(w)
    BY <2>3, <2>5, <2>6 DEF IsWalk
  <2>8. base \subseteq 1..newest
    BY <1>4, <2>1 DEF RowsTyped, IsRow, RawRows
  <2>9. w.page.kind = "snapshot" => SnapshotOK(w)
    <3>1. SUFFICES ASSUME w.page.kind = "snapshot" PROVE SnapshotOK(w)
      OBVIOUS
    <3>2. w.page.id = m /\ w.page.offset = 0 /\ \A i \in base : i <= m
      BY <2>1, <2>3, <2>4, <2>5, <3>1
    <3>3. Table(Pinned(m)) /\ \A r \in Pinned(m) : Rank(Pinned(m), r) \in Nat
      BY <1>4, RowsTable, RankBounds DEF Pinned
    <3>4. \A r \in rows : Owed(w, r) => r \in Pinned(m)
      BY <2>3, <3>2 DEF Owed, Pinned
    <3> QED
      BY <2>3, <2>4, <3>2, <3>3, <3>4 DEF SnapshotOK
  <2>10. WalkOK(w)
    BY <2>3, <2>5, <2>7, <2>8, <2>9 DEF WalkOK, OffsetOK
  <2>11. WalkOK(Turn(w))
    BY <1>3, <1>4, <2>3, <2>10, Turns
  <2> QED
    BY <1>5, <2>1, <2>2, <2>11
<1>7. CASE NextPage
  <2>1. PICK w : w = walk
    OBVIOUS
  <2>2. w.at = "page" /\ WalkOK(w)
    BY <1>7, <2>1 DEF NextPage, PagesInv
  <2>3. walk' = [w EXCEPT !.at = "refused"] \/ walk' = Turn(w)
    BY <1>7, <2>1 DEF NextPage
  <2>4. ASSUME NEW t, t = [w EXCEPT !.at = "refused"] PROVE WalkOK(t)
    <3>1. /\ DOMAIN t = DOMAIN w /\ t.at = "refused" /\ t.page = w.page /\ t.again = w.again /\ t.lost = w.lost
          /\ t.base = w.base /\ t.seen = w.seen
      BY <2>2, <2>4 DEF WalkOK, IsWalk, WalkFields
    <3> QED
      BY <2>2, <3>1 DEF WalkOK, IsWalk
  <2>5. WalkOK(Turn(w))
    BY <1>3, <1>4, <2>2, Turns
  <2> QED
    BY <1>5, <2>3, <2>4, <2>5
<1> QED
  BY <1>6, <1>7

\* A restart ends the walk.
LEMMA RestartSteps == ASSUME PagesInv, Restart PROVE PagesInv'
<1>1. /\ UNCHANGED <<wall, rows, newest>> /\ channel' = <<>> /\ batch' = <<>> /\ walk' = NoWalk
      /\ flush' = [flush EXCEPT !.at = "none"] /\ purge' = [p \in DOMAIN purge |-> NoPurge]
  BY DEF Restart, storeVars
<1>2. RowsTyped'
  BY <1>1 DEF PagesInv, RowsTyped, IsRow
<1>3. <<>> \in Seq({}) /\ Len(<<>>) = 0 /\ MaxBatchSize \in Nat
  BY LogAssumption
<1>4. QueueTyped'
  BY <1>1, <1>3 DEF PagesInv, QueueTyped, IsSeq
<1>5. PurgesTyped'
  BY <1>1 DEF PurgesTyped, IsPurge, NoPurge
<1> QED
  BY <1>1, <1>2, <1>4, <1>5 DEF PagesInv, NoWalk

\* The log a mix starts with (HistoryAssumption).
LEMMA InitPages == Init => PagesInv
<1> SUFFICES ASSUME Init PROVE PagesInv
  OBVIOUS
<1>1. PICK logged : logged = Mixes[mix].logged
  OBVIOUS
<1>2. /\ mix \in DOMAIN Mixes /\ wall = Mixes[mix].wall /\ channel = Mixes[mix].queued /\ batch = <<>>
      /\ flush = [at |-> "none", stamp |-> 0] /\ newest = Len(logged) /\ walk = NoWalk
      /\ rows = {[id |-> i, at |-> logged[i].at, e |-> logged[i].e] : i \in DOMAIN logged}
      /\ purge = [p \in {"retention", "flush"} |-> NoPurge]
  BY <1>1 DEF Init, LogInit, Now, Settings
<1>3. /\ wall \in Nat /\ IsSequence(channel) /\ IsSequence(logged)
      /\ \A i \in DOMAIN logged : logged[i].at \in Nat
  BY <1>1, <1>2, HistoryAssumption
<1>4. IsSeq(channel) /\ IsSeq(logged)
  BY <1>3 DEF IsSeq, IsSequence
<1>5. newest \in Nat /\ DOMAIN logged = 1..newest
  BY <1>2, <1>4, SeqFacts
<1>6. RowsTyped
  <2>1. \A r \in rows : \E i \in 1..newest : r = [id |-> i, at |-> logged[i].at, e |-> logged[i].e]
    BY <1>2, <1>5
  <2>2. \A r \in rows : IsRow(r)
    BY <1>3, <1>5, <2>1 DEF IsRow
  <2>3. \A r, s \in rows : r.id = s.id => r = s
    BY <2>1
  <2> QED
    BY <1>5, <2>2, <2>3 DEF RowsTyped
<1>7. <<>> \in Seq({}) /\ Len(<<>>) = 0 /\ MaxBatchSize \in Nat
  BY LogAssumption
<1>8. QueueTyped
  BY <1>2, <1>3, <1>4, <1>7 DEF QueueTyped, IsSeq
<1>9. PurgesTyped
  BY <1>2 DEF PurgesTyped, IsPurge, NoPurge
<1> QED
  BY <1>2, <1>6, <1>8, <1>9 DEF PagesInv, NoWalk

\* Every step keeps PagesInv.
LEMMA StepPages == Counted /\ PagesInv /\ [Next]_vars => PagesInv'
<1> SUFFICES ASSUME Counted, PagesInv, [Next]_vars PROVE PagesInv'
  OBVIOUS
<1>1. CASE UNCHANGED vars
  <2>1. Queues
    BY <1>1 DEF vars, logVars, storeVars, Queues
  <2> QED
    BY <2>1, QueueSteps DEF Queues
<1>2. CASE Queues
  BY <1>2, QueueSteps DEF Queues
<1>3. CASE LogSteps
  <2>1. LogStep /\ UNCHANGED mix
    BY <1>3 DEF LogSteps
  <2> QED
    BY <2>1, QueueSteps, JobSteps, PurgeSteps, DeleteSteps, FlushSteps, WalkSteps, RestartSteps DEF LogStep
<1> QED
  BY <1>1, <1>2, <1>3, OthersQueue

\* A reader that walks the pages of the log, by cursors or over a snapshot, is shown every row that was there when it started
\* and stays, whatever is flushed and deleted and however the clock steps meanwhile, and a row again only after a
\* cursor's row was deleted (get_recent_paged).
THEOREM PagesStayComplete == Spec => []PagesComplete
<1>1. Init => Counted /\ PagesInv
  BY InitCounts, InitPages
<1>2. (Counted /\ PagesInv) /\ [Next]_vars => (Counted /\ PagesInv)'
  BY StepCounts, StepPages
<1>3. PagesInv => PagesComplete
  <2> SUFFICES ASSUME PagesInv, walk.at = "end"
               PROVE  /\ \A r \in RawRows(walk.start) :
                            r.id \in walk.base /\ (\A p \in DOMAIN purge : r.at >= purge[p].cutoff) => r.id \in walk.seen
                      /\ walk.again => walk.lost
    BY DEF PagesComplete
  <2>1. EndOK(walk)
    BY DEF PagesInv, WalkOK
  <2> QED
    BY <2>1 DEF EndOK, Owed, Lasting, RawRows
<1> QED
  BY <1>1, <1>2, <1>3, PTL DEF Spec

===============================================================================
