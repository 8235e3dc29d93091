---------------------------- MODULE PoolProofs ----------------------------
(***************************************************************************)
(* Theorems about the servers of the upstream pools.                       *)
(*                                                                         *)
(* HealthChecker, for any servers, listings, thresholds and counter width: *)
(* a server leaves rotation after a full run of failures and comes back    *)
(* after a full run of answers, and only then.                             *)
(*                                                                         *)
(* UpstreamQuery, for any pool sets, names and groups, and whatever the    *)
(* checker says meanwhile: a query asks where its name is routed, reports  *)
(* no failure its servers did not earn, and fails open as a last resort.   *)
(***************************************************************************)
EXTENDS HealthChecker, UpstreamQuery, TLAPS, WellFoundedInduction, FiniteSetTheorems, SequenceTheorems

(***************************************************************************)
(* The inductive invariant of the health checker                           *)
(***************************************************************************)

\* A counter n and the results seen, the latest first, tell of the same run of
\* results r: the counter never claims more than there is, and never less but
\* for its width.
Counts(seen, n, r) ==
    /\ Least(n, Memory) <= Len(seen)
    /\ \A i \in 1..Least(n, Memory) : seen[i] = r
    /\ \A k \in 1..Len(seen) : (\A i \in 1..k : seen[i] = r) => n >= Least(k, CounterMax)

\* The entry of a server and the results written to it: both counters tell of
\* them, and a full run of either has decided.
Healths == [status : {"none", "unknown", "healthy", "unhealthy"},
            failures : 0..CounterMax, successes : 0..CounterMax]

IsRun(seen, n, r) == Len(seen) >= Most(1, n) /\ \A i \in 1..Most(1, n) : seen[i] = r

EntryInv(seen, h) ==
    /\ seen \in Seq(BOOLEAN) /\ h \in Healths
    /\ Len(seen) <= Memory
    /\ Counts(seen, h.failures, FALSE) /\ Counts(seen, h.successes, TRUE)
    /\ IsRun(seen, FailureThreshold, FALSE) => h.status = "unhealthy"
    /\ IsRun(seen, SuccessThreshold, TRUE) => h.status # "unhealthy"

HealthInv == TypeOK /\ \A s \in Servers : EntryInv(recent[s], health[s])

(***************************************************************************)
(* Counters and runs                                                       *)
(***************************************************************************)

\* The results once `r` came in.
Remembered(seen, r) == SubSeq(<<r>> \o seen, 1, Least(Len(seen) + 1, Memory))

\* Memory is long enough for either threshold.
LEMMA MemoryFacts ==
    /\ Memory \in Nat /\ Memory >= 1
    /\ FailureThreshold \in Nat /\ FailureThreshold <= Memory /\ FailureThreshold <= CounterMax
    /\ SuccessThreshold \in Nat /\ SuccessThreshold <= Memory /\ SuccessThreshold <= CounterMax
    /\ CounterMax \in Nat
BY HealthAssumption DEF Memory, Most

\* The new result is the first, and the others move down by one.
LEMMA RememberedFacts ==
    ASSUME NEW seen \in Seq(BOOLEAN), Len(seen) <= Memory, NEW r \in BOOLEAN
    PROVE  /\ Remembered(seen, r) \in Seq(BOOLEAN)
           /\ Len(Remembered(seen, r)) = Least(Len(seen) + 1, Memory)
           /\ Len(Remembered(seen, r)) \in 1..Memory
           /\ Remembered(seen, r)[1] = r
           /\ \A i \in 2..Len(Remembered(seen, r)) : Remembered(seen, r)[i] = seen[i - 1]
<1> DEFINE all == <<r>> \o seen
           n == Least(Len(seen) + 1, Memory)
<1>1. all \in Seq(BOOLEAN) /\ Len(all) = Len(seen) + 1
  OBVIOUS
<1>2. all[1] = r /\ \A i \in 2..Len(all) : all[i] = seen[i - 1]
  OBVIOUS
<1>3. n \in 1..Len(all) /\ n <= Memory
  BY <1>1, MemoryFacts DEF Least
<1> HIDE DEF all, n
<1>4. SubSeq(all, 1, n) \in Seq(BOOLEAN) /\ Len(SubSeq(all, 1, n)) = n
      /\ \A i \in 1..n : SubSeq(all, 1, n)[i] = all[i]
  BY <1>1, <1>3
<1> QED BY <1>1, <1>2, <1>3, <1>4 DEF Remembered, all, n

\* One more result of the run adds one to its counter (saturating_add) ...
LEMMA CountsOn ==
    ASSUME NEW seen \in Seq(BOOLEAN), Len(seen) <= Memory, NEW r \in BOOLEAN,
           NEW n \in 0..CounterMax, Counts(seen, n, r)
    PROVE  Counts(Remembered(seen, r), Saturating(n), r)
<1> DEFINE new == Remembered(seen, r)
<1>1. new \in Seq(BOOLEAN) /\ Len(new) = Least(Len(seen) + 1, Memory) /\ new[1] = r
      /\ \A i \in 2..Len(new) : new[i] = seen[i - 1]
  BY RememberedFacts
<1> HIDE DEF new
<1> USE MemoryFacts DEF Least, Saturating
<1>2. Least(Saturating(n), Memory) <= Len(new)
  BY <1>1 DEF Counts
<1>3. \A i \in 1..Least(Saturating(n), Memory) : new[i] = r
  <2> TAKE i \in 1..Least(Saturating(n), Memory)
  <2>1. CASE i = 1
    BY <2>1, <1>1
  <2>2. CASE i # 1
    <3>1. i - 1 \in 1..Least(n, Memory) /\ i \in 2..Len(new)
      BY <2>2, <1>2, <1>1
    <3> QED BY <3>1, <1>1 DEF Counts
  <2> QED BY <2>1, <2>2
<1>4. ASSUME NEW k \in 1..Len(new), \A i \in 1..k : new[i] = r
      PROVE  Saturating(n) >= Least(k, CounterMax)
  <2>1. CASE k = 1
    BY <2>1
  <2>2. CASE k # 1
    <3>1. k - 1 \in 1..Len(seen)
      BY <2>2, <1>1
    <3>2. \A i \in 1..(k - 1) : seen[i] = r
      <4> TAKE i \in 1..(k - 1)
      <4>1. i + 1 \in 2..Len(new) /\ i + 1 \in 1..k /\ (i + 1) - 1 = i
        BY <1>1
      <4> QED BY <4>1, <1>4, <1>1
    <3>3. n >= Least(k - 1, CounterMax)
      BY <3>1, <3>2 DEF Counts
    <3> QED BY <3>3
  <2> QED BY <2>1, <2>2
<1> QED BY <1>2, <1>3, <1>4 DEF Counts, new

\* ... and another result ends the run, whose counter goes back to zero.
LEMMA CountsOff ==
    ASSUME NEW seen \in Seq(BOOLEAN), Len(seen) <= Memory, NEW r \in BOOLEAN, NEW o \in BOOLEAN,
           o # r
    PROVE  Counts(Remembered(seen, o), 0, r)
<1> DEFINE new == Remembered(seen, o)
<1>1. Len(new) \in 1..Memory /\ new[1] = o
  BY RememberedFacts
<1> HIDE DEF new
<1>2. Least(0, Memory) = 0
  BY MemoryFacts DEF Least
<1>3. \A k \in 1..Len(new) : 1 \in 1..k
  BY <1>1, MemoryFacts
<1> QED BY <1>1, <1>2, <1>3, MemoryFacts DEF Counts, new

(***************************************************************************)
(* A probe that ends                                                       *)
(***************************************************************************)

\* What mark_healthy and mark_failed make of an entry: well-typed, and the
\* threshold decides.
LEMMA MarkFacts ==
    ASSUME NEW s \in Servers, health[s] \in Healths
    PROVE  /\ MarkHealthy(s) \in Healths /\ MarkFailed(s) \in Healths
           /\ MarkHealthy(s).failures = 0 /\ MarkFailed(s).successes = 0
           /\ MarkHealthy(s).successes = Saturating(health[s].successes)
           /\ MarkFailed(s).failures = Saturating(health[s].failures)
           /\ MarkHealthy(s).successes >= SuccessThreshold => MarkHealthy(s).status = "healthy"
           /\ MarkFailed(s).failures >= FailureThreshold => MarkFailed(s).status = "unhealthy"
           /\ health[s].status # "unhealthy" => MarkHealthy(s).status # "unhealthy"
           /\ health[s].status = "unhealthy" /\ MarkHealthy(s).status # "unhealthy" =>
                  MarkHealthy(s).successes >= SuccessThreshold
           /\ health[s].status # "unhealthy" /\ MarkFailed(s).status = "unhealthy" =>
                  MarkFailed(s).failures >= FailureThreshold
           /\ health[s].status = "unhealthy" => MarkFailed(s).status = "unhealthy"
<1> USE MemoryFacts
<1>1. /\ OrDefault(health[s]) \in Healths
      /\ OrDefault(health[s]).failures = health[s].failures
      /\ OrDefault(health[s]).successes = health[s].successes
      /\ OrDefault(health[s]).status = "unhealthy" <=> health[s].status = "unhealthy"
  BY DEF OrDefault, NoHealth, Unknown, Healths
<1>2. \A n \in 0..CounterMax : Saturating(n) \in 0..CounterMax
  BY DEF Saturating
<1> QED BY <1>1, <1>2 DEF MarkHealthy, MarkFailed, Healths

\* A counter reaches a threshold that a run of results reaches ...
LEMMA RunReachesThreshold ==
    ASSUME NEW seen \in Seq(BOOLEAN), NEW r \in BOOLEAN, NEW n \in 0..CounterMax,
           Counts(seen, n, r), NEW t \in 0..CounterMax, IsRun(seen, t, r)
    PROVE  n >= t
<1>1. Most(1, t) \in 1..Len(seen)
  BY MemoryFacts DEF IsRun, Most
<1>2. n >= Least(Most(1, t), CounterMax)
  BY <1>1 DEF Counts, IsRun
<1> QED BY <1>2, MemoryFacts DEF Least, Most

\* ... and only by such a run.
LEMMA ThresholdNeedsRun ==
    ASSUME NEW seen \in Seq(BOOLEAN), NEW r \in BOOLEAN, NEW n \in 0..CounterMax,
           Counts(seen, n, r), NEW t \in 0..CounterMax, t <= Memory, n >= t,
           Len(seen) >= 1, seen[1] = r
    PROVE  IsRun(seen, t, r)
<1>1. CASE t <= 1
  BY <1>1, MemoryFacts DEF IsRun, Most
<1>2. CASE t > 1
  BY <1>2, MemoryFacts DEF IsRun, Most, Counts, Least
<1> QED BY <1>1, <1>2, MemoryFacts

\* check_server ends with `answered`.
AfterProbe(s, answered) ==
    /\ health'[s] = IF answered THEN MarkHealthy(s) ELSE MarkFailed(s)
    /\ recent'[s] = Remembered(recent[s], answered)

\* The entry it writes is in order, and only a full run of results moves the server.
LEMMA ProbeKeepsEntry ==
    ASSUME NEW s \in Servers, EntryInv(recent[s], health[s]), NEW answered \in BOOLEAN,
           AfterProbe(s, answered)
    PROVE  /\ EntryInv(recent'[s], health'[s])
           /\ health[s].status # "unhealthy" /\ health'[s].status = "unhealthy" =>
                  IsRun(recent'[s], FailureThreshold, FALSE)
           /\ health[s].status = "unhealthy" /\ health'[s].status # "unhealthy" =>
                  IsRun(recent'[s], SuccessThreshold, TRUE)
<1> DEFINE seen == recent[s]
           new == Remembered(seen, answered)
<1>1. /\ new \in Seq(BOOLEAN) /\ Len(new) \in 1..Memory /\ new[1] = answered
      /\ recent'[s] = new
  BY RememberedFacts DEF EntryInv, AfterProbe
<1>2. health[s] \in Healths
  BY DEF EntryInv
<1>t. FailureThreshold \in 0..CounterMax /\ SuccessThreshold \in 0..CounterMax
  BY MemoryFacts
<1>3. CASE answered = TRUE
  <2>1. health'[s] = MarkHealthy(s) /\ health'[s] \in Healths
    BY <1>3, <1>2, MarkFacts DEF AfterProbe
  <2>2. Counts(new, health'[s].successes, TRUE)
    <3>1. health[s].successes \in 0..CounterMax /\ Counts(seen, health[s].successes, TRUE)
      BY <1>2 DEF EntryInv, Healths
    <3>2. Counts(Remembered(seen, TRUE), Saturating(health[s].successes), TRUE)
      BY <3>1, CountsOn DEF EntryInv
    <3> QED BY <1>2, <1>3, <2>1, <3>2, MarkFacts
  <2>3. Counts(new, health'[s].failures, FALSE)
    BY <1>2, <1>3, <2>1, MarkFacts, CountsOff DEF EntryInv
  <2>4. ~IsRun(new, FailureThreshold, FALSE)
    <3>1. 1 \in 1..Most(1, FailureThreshold) /\ new[1] = TRUE
      BY <1>1, <1>3, MemoryFacts DEF Most
    <3> QED BY <3>1 DEF IsRun
  <2>5. health'[s].successes \in 0..CounterMax
    BY <2>1 DEF Healths
  <2> HIDE DEF new, seen
  <2>6. IsRun(new, SuccessThreshold, TRUE) => health'[s].successes >= SuccessThreshold
    BY <1>1, <1>t, <2>2, <2>5, RunReachesThreshold
  <2>7. health'[s].successes >= SuccessThreshold => IsRun(new, SuccessThreshold, TRUE)
    <3>1. Len(new) >= 1 /\ new[1] = TRUE /\ SuccessThreshold <= Memory
      BY <1>1, <1>3, MemoryFacts
    <3> QED BY <1>1, <1>t, <2>2, <2>5, <3>1, ThresholdNeedsRun
  <2>8. IsRun(new, SuccessThreshold, TRUE) => health'[s].status # "unhealthy"
    BY <1>2, <2>1, <2>6, MarkFacts
  <2>9. health[s].status = "unhealthy" /\ health'[s].status # "unhealthy" =>
            IsRun(new, SuccessThreshold, TRUE)
    BY <1>2, <2>1, <2>7, MarkFacts
  <2>10. health[s].status # "unhealthy" => health'[s].status # "unhealthy"
    BY <1>2, <2>1, MarkFacts
  <2>11. new \in Seq(BOOLEAN) /\ Len(new) <= Memory /\ recent'[s] = new
    BY <1>1, MemoryFacts
  <2>12. EntryInv(new, health'[s])
    BY <2>1, <2>2, <2>3, <2>4, <2>8, <2>11 DEF EntryInv
  <2> QED BY <2>9, <2>10, <2>11, <2>12
<1>4. CASE answered = FALSE
  <2>1. health'[s] = MarkFailed(s) /\ health'[s] \in Healths
    BY <1>4, <1>2, MarkFacts DEF AfterProbe
  <2>2. Counts(new, health'[s].failures, FALSE)
    <3>1. health[s].failures \in 0..CounterMax /\ Counts(seen, health[s].failures, FALSE)
      BY <1>2 DEF EntryInv, Healths
    <3>2. Counts(Remembered(seen, FALSE), Saturating(health[s].failures), FALSE)
      BY <3>1, CountsOn DEF EntryInv
    <3> QED BY <1>2, <1>4, <2>1, <3>2, MarkFacts
  <2>3. Counts(new, health'[s].successes, TRUE)
    BY <1>2, <1>4, <2>1, MarkFacts, CountsOff DEF EntryInv
  <2>4. ~IsRun(new, SuccessThreshold, TRUE)
    <3>1. 1 \in 1..Most(1, SuccessThreshold) /\ new[1] = FALSE
      BY <1>1, <1>4, MemoryFacts DEF Most
    <3> QED BY <3>1 DEF IsRun
  <2>5. health'[s].failures \in 0..CounterMax
    BY <2>1 DEF Healths
  <2> HIDE DEF new, seen
  <2>6. IsRun(new, FailureThreshold, FALSE) => health'[s].failures >= FailureThreshold
    BY <1>1, <1>t, <2>2, <2>5, RunReachesThreshold
  <2>7. health'[s].failures >= FailureThreshold => IsRun(new, FailureThreshold, FALSE)
    <3>1. Len(new) >= 1 /\ new[1] = FALSE /\ FailureThreshold <= Memory
      BY <1>1, <1>4, MemoryFacts
    <3> QED BY <1>1, <1>t, <2>2, <2>5, <3>1, ThresholdNeedsRun
  <2>8. IsRun(new, FailureThreshold, FALSE) => health'[s].status = "unhealthy"
    BY <1>2, <2>1, <2>6, MarkFacts
  <2>9. health[s].status # "unhealthy" /\ health'[s].status = "unhealthy" =>
            IsRun(new, FailureThreshold, FALSE)
    BY <1>2, <2>1, <2>7, MarkFacts
  <2>10. health[s].status = "unhealthy" => health'[s].status = "unhealthy"
    BY <1>2, <2>1, MarkFacts
  <2>11. new \in Seq(BOOLEAN) /\ Len(new) <= Memory /\ recent'[s] = new
    BY <1>1, MemoryFacts
  <2>12. EntryInv(new, health'[s])
    BY <2>1, <2>2, <2>3, <2>4, <2>8, <2>11 DEF EntryInv
  <2> QED BY <2>9, <2>10, <2>11, <2>12
<1> QED BY <1>3, <1>4

(***************************************************************************)
(* HealthInv is inductive                                                  *)
(***************************************************************************)

\* An entry that is gone is in order.
LEMMA NoEntry == EntryInv(<<>>, NoHealth)
BY MemoryFacts DEF EntryInv, Healths, NoHealth, Counts, IsRun, Most, Least

\* The probes of a round (check_all) are well-typed.
LEMMA ProbesTyped ==
    ASSUME up \in [Servers -> BOOLEAN], NEW l \in Listings
    PROVE  ProbesOf(l) \in SUBSET Probes
BY HealthAssumption DEF ProbesOf, Probes

\* HealthInv holds before the first probe ends.
LEMMA HealthInit == Init => HealthInv
<1> SUFFICES ASSUME Init PROVE HealthInv
  OBVIOUS
<1>1. \A l \in Listings : ProbesOf(l) \in SUBSET Probes
  BY ProbesTyped DEF Init
<1>2. TypeOK
  BY <1>1, HealthAssumption DEF Init, TypeOK, NoHealth, Rounds
<1> QED BY <1>2, NoEntry DEF Init, HealthInv

\* No step breaks the types.
LEMMA HealthTyped ==
    ASSUME HealthInv, [Next]_vars
    PROVE  TypeOK'
<1> USE HealthAssumption DEF HealthInv, TypeOK
<1>1. CASE Tick
  <2>1. NoHealth \in Healths
    BY MemoryFacts DEF NoHealth, Healths
  <2>2. health' \in [Servers -> Healths] /\ recent' \in [Servers -> Seq(BOOLEAN)]
    <3>1. health \in [Servers -> Healths]
      BY DEF Healths
    <3>2. health' = [x \in Servers |-> IF x \in Listed THEN health[x] ELSE NoHealth]
          /\ recent' = [x \in Servers |-> IF x \in Listed THEN recent[x] ELSE <<>>]
      BY <1>1 DEF Tick
    <3>3. health' \in [Servers -> Healths]
      BY <2>1, <3>1, <3>2
    <3>4. recent' \in [Servers -> Seq(BOOLEAN)]
      <4> DEFINE Results == Seq(BOOLEAN)
      <4>1. <<>> \in Results /\ recent \in [Servers -> Results]
        OBVIOUS
      <4> HIDE DEF Results
      <4>2. recent' \in [Servers -> Results]
        BY <3>2, <4>1
      <4> QED BY <4>2 DEF Results
    <3> QED BY <3>3, <3>4
  <2>3. probing' \in [Rounds -> SUBSET Probes] /\ UNCHANGED <<listing, up, flips, reloads>>
    BY <1>1, ProbesTyped DEF Tick
  <2> QED BY <2>2, <2>3 DEF Healths
<1>2. CASE ProbeEnds
  <2>r. PICK r \in Rounds : \E p \in probing[r] : Probed(r, p)
    BY <1>2 DEF ProbeEnds
  <2>1. PICK p \in probing[r] : Probed(r, p)
    BY <2>r
  <2>2. p.server \in Servers /\ p.seen \subseteq BOOLEAN
    BY DEF Probes
  <2>3. PICK answered \in p.seen :
           /\ health' = [health EXCEPT ![p.server] = IF answered THEN MarkHealthy(p.server)
                                                     ELSE MarkFailed(p.server)]
           /\ recent' = [recent EXCEPT ![p.server] = Remembered(recent[p.server], answered)]
    BY <2>1 DEF Probed, Remembered
  <2>4. MarkHealthy(p.server) \in Healths /\ MarkFailed(p.server) \in Healths
    BY <2>2, MarkFacts DEF Healths
  <2>5. Remembered(recent[p.server], answered) \in Seq(BOOLEAN)
    BY <2>2, <2>3, RememberedFacts DEF EntryInv
  <2>6. probing' \in [Rounds -> SUBSET Probes] /\ UNCHANGED <<listing, up, flips, reloads>>
    BY <2>1 DEF Probed
  <2> QED BY <2>3, <2>4, <2>5, <2>6 DEF Healths
<1>3. CASE \E l \in Listings : Reload(l)
  BY <1>3 DEF Reload
<1>4. CASE \E s \in Servers : Flip(s)
  <2>1. PICK s \in Servers : Flip(s)
    BY <1>4
  <2>2. \A p \in Probes : [p EXCEPT !.seen = BOOLEAN] \in Probes
    BY DEF Probes
  <2>3. probing' \in [Rounds -> SUBSET Probes]
    BY <2>1, <2>2 DEF Flip
  <2> QED BY <2>1, <2>3, SMTT(30) DEF Flip
<1>5. CASE UNCHANGED vars
  BY <1>5 DEF vars
<1> QED BY <1>1, <1>2, <1>3, <1>4, <1>5 DEF Next

\* A step leaves an entry alone, drops it because its server is not listed any
\* more (retain_live), or writes a result to it.
LEMMA EntrySteps ==
    ASSUME HealthInv, [Next]_vars, NEW s \in Servers
    PROVE  \/ health'[s] = health[s] /\ recent'[s] = recent[s]
           \/ s \notin Listed /\ health'[s] = NoHealth /\ recent'[s] = <<>>
           \/ \E answered \in BOOLEAN : AfterProbe(s, answered)
<1> USE DEF HealthInv, TypeOK
<1>1. CASE Tick
  BY <1>1 DEF Tick
<1>2. CASE ProbeEnds
  <2>r. PICK r \in Rounds : \E p \in probing[r] : Probed(r, p)
    BY <1>2 DEF ProbeEnds
  <2>1. PICK p \in probing[r] : Probed(r, p)
    BY <2>r
  <2>2. p.server \in Servers /\ p.seen \subseteq BOOLEAN
    BY DEF Probes
  <2>3. PICK answered \in p.seen :
           /\ health' = [health EXCEPT ![p.server] = IF answered THEN MarkHealthy(p.server)
                                                     ELSE MarkFailed(p.server)]
           /\ recent' = [recent EXCEPT ![p.server] = Remembered(recent[p.server], answered)]
    BY <2>1 DEF Probed, Remembered
  <2>4. answered \in BOOLEAN
    BY <2>2, <2>3
  <2>5. CASE s = p.server
    BY <2>3, <2>4, <2>5 DEF AfterProbe
  <2>6. CASE s # p.server
    BY <2>3, <2>6
  <2> QED BY <2>5, <2>6
<1>3. CASE UNCHANGED <<health, recent>>
  BY <1>3
<1> QED BY <1>1, <1>2, <1>3 DEF Next, Reload, Flip, vars

\* No step breaks HealthInv.
LEMMA HealthStep ==
    ASSUME HealthInv, [Next]_vars
    PROVE  HealthInv'
<1>1. TypeOK'
  BY HealthTyped
<1>2. ASSUME NEW s \in Servers
      PROVE  EntryInv(recent'[s], health'[s])
  BY EntrySteps, NoEntry, ProbeKeepsEntry DEF HealthInv
<1> QED BY <1>1, <1>2 DEF HealthInv

(***************************************************************************)
(* Theorems                                                                *)
(***************************************************************************)

\* The verdict follows the runs of results: no server stays in rotation through
\* a full run of failures, nor out of it through a full run of answers, however
\* the first round, the loop and reloads overlap (mark_failed, mark_healthy).
THEOREM VerdictsFollowRuns == Spec => []VerdictFollowsRuns
<1>1. HealthInv => VerdictFollowsRuns
  BY DEF HealthInv, VerdictFollowsRuns, EntryInv, RunOf, IsRun, IsHealthy
<1> QED BY <1>1, HealthInit, HealthStep, PTL DEF Spec

\* "a server leaves only after failure_threshold failures" in a row, and comes
\* back only after success_threshold answers in a row or with its entry gone.
THEOREM OnlyRunsDecide == Spec => RunsDecide
<1>1. HealthInv /\ [Next]_vars =>
        [\A s \in Servers :
           /\ IsHealthy(s) /\ ~IsHealthy(s)' => RunOf(s, FailureThreshold, FALSE)'
           /\ ~IsHealthy(s) /\ IsHealthy(s)' =>
                  RunOf(s, SuccessThreshold, TRUE)' \/ s \notin Listed]_vars
  <2> SUFFICES ASSUME HealthInv, [Next]_vars, NEW s \in Servers
               PROVE  /\ IsHealthy(s) /\ ~IsHealthy(s)' => RunOf(s, FailureThreshold, FALSE)'
                      /\ ~IsHealthy(s) /\ IsHealthy(s)' =>
                             RunOf(s, SuccessThreshold, TRUE)' \/ s \notin Listed
    OBVIOUS
  <2>1. CASE health'[s] = health[s]
    BY <2>1 DEF IsHealthy
  <2>2. CASE s \notin Listed /\ health'[s] = NoHealth
    <3>1. health'[s].status = "none"
      BY <2>2 DEF NoHealth
    <3>2. IsHealthy(s)'
      BY <3>1 DEF IsHealthy
    <3> QED BY <2>2, <3>2
  <2>3. CASE \E answered \in BOOLEAN : AfterProbe(s, answered)
    BY <2>3, ProbeKeepsEntry DEF HealthInv, IsHealthy, RunOf, IsRun
  <2> QED BY <2>1, <2>2, <2>3, EntrySteps
<1> QED BY <1>1, HealthInit, HealthStep, PTL DEF Spec, RunsDecide

(***************************************************************************)
(* The inductive invariant of a query over the pools                       *)
(***************************************************************************)

\* Whether a query is under way, or one has ended.
Begun == pc # "idle" \/ result # "none"

\* The pools that this query is for.
Here == IF mode = "routed" THEN {route} ELSE DefaultPools(set)

\* The servers it may ask, and those of the pools the walk is past.
Askable == {q \in Questions : q[1] \in Here}
Passed  == {q \in Askable : q[1] < at}

\* The route is the one looked up, and nothing is asked off it.
RouteInv ==
    /\ Begun => route = Lookup(set, name, group) /\ (mode = "routed" <=> route # 0)
    /\ pc # "idle" => result = "none"
    /\ \A q \in asked : Begun /\ q[1] \in Here

\* The default walk has asked or skipped the servers of every pool it is past: it
\* has only skipped while it saw none in rotation, and asks before it goes on.
\* Without a checker it skips nobody.  An open walk has skipped everyone before.
WalkInv ==
    pc # "idle" =>
        /\ mode = "default" =>
               /\ Passed \subseteq asked \cup skipped
               /\ ~anyHealthy => pc = "look" /\ Passed \subseteq skipped
               /\ anyHealthy /\ pc = "look" => asked # {}
        /\ mode = "open" => failingOpen /\ Askable \subseteq skipped /\ (asked = {} => Passed = {})
        /\ ~checker => skipped = {}

\* A pool at work: each of its servers has been asked, was out of rotation, or is
\* still to be asked.
PoolInv ==
    IF pc = "ask"
    THEN /\ mode # "routed" => Ahead # {}
         /\ todo \subseteq DOMAIN Listing
         /\ asked # {} \/ todo # {}
         /\ \A s \in ServersOf(Pool) :
                <<Pool, s>> \in asked \cup skipped \/ \E k \in todo : Listing[k] = s
         /\ IF racing = 0 THEN todo = {} => errs # <<>> ELSE todo = {} /\ Len(errs) + out = racing
    ELSE todo = {} /\ racing = 0 /\ errs = <<>>

\* What has been heard: while every pool has failed with SERVFAIL, nothing else but
\* from the pool at work, and nobody was left unheard.
HeardInv ==
    pc # "idle" =>
        /\ heard \subseteq Errors /\ Range(errs) \subseteq heard
        /\ allServfail => ~silent /\ heard \subseteq {"servfail"} \cup Range(errs)
        /\ anyTried => asked # {} /\ (allServfail => heard # {})
        /\ mode = "routed" => allServfail

QueryInv ==
    /\ QueryTypeOK /\ RouteInv /\ WalkInv /\ PoolInv /\ HeardInv
    /\ ServfailIsUnanimous /\ FailureIsEarned

(***************************************************************************)
(* Routing                                                                 *)
(***************************************************************************)

\* A set of naturals that is not empty has a least member, which `First` names.
LEMMA FirstIsLeast ==
    ASSUME NEW S, S \subseteq Nat, S # {}
    PROVE  First(S) \in S /\ \A j \in S : First(S) <= j
<1> DEFINE R == OpToRel(<, Nat)
<1>1. IsWellFoundedOn(R, Nat)
  BY NatLessThanWellFounded
<1>2. PICK i \in S : \A j \in S : ~(<<j, i>> \in R)
  <2> HIDE DEF R
  <2> QED BY <1>1, WFMin
<1>3. \A j \in S : i <= j
  <2> SUFFICES ASSUME NEW j \in S PROVE i <= j
    OBVIOUS
  <2>1. i \in Nat /\ j \in Nat
    OBVIOUS
  <2>2. j < i => <<j, i>> \in R
    BY <2>1 DEF OpToRel
  <2> HIDE DEF R
  <2> QED BY <1>2, <2>1, <2>2
<1> HIDE DEF R
<1> QED BY <1>3 DEF First

\* Likewise the greatest of a bounded set.
LEMMA LastIsGreatest ==
    ASSUME NEW n \in Nat, NEW S, S \subseteq 1..n, S # {}
    PROVE  Last(S) \in S /\ \A j \in S : j <= Last(S)
<1> DEFINE T == {n - k : k \in S}
<1>1. T \subseteq Nat /\ T # {}
  <2>1. \A k \in S : n - k \in Nat
    OBVIOUS
  <2> QED BY <2>1
<1>2. First(T) \in T /\ \A j \in T : First(T) <= j
  BY <1>1, FirstIsLeast
<1>3. PICK k \in S : First(T) = n - k
  BY <1>2
<1>4. \A j \in S : j <= k
  <2> SUFFICES ASSUME NEW j \in S PROVE j <= k
    OBVIOUS
  <2>1. n - j \in T
    OBVIOUS
  <2>2. n - k <= n - j
    BY <1>2, <1>3, <2>1
  <2>3. j \in Nat /\ k \in Nat
    OBVIOUS
  <2> HIDE DEF T
  <2> QED BY <2>2, <2>3
<1> HIDE DEF T
<1> QED BY <1>4 DEF Last

\* A prefix of a sequence: its length, and its own prefixes.
LEMMA PrefixFacts ==
    ASSUME NEW s, IsSeq(s), NEW k \in 0..Len(s)
    PROVE  /\ Len(s) \in Nat /\ Len(Prefix(s, k)) = k
           /\ \A j \in 0..k : Prefix(Prefix(s, k), j) = Prefix(s, j)
<1> DEFINE R == Range(s)
<1>1. s \in Seq(R)
  BY DEF IsSeq
<1> HIDE DEF R
<1>2. Len(s) \in Nat /\ Prefix(s, k) = [i \in 1..k |-> s[i]] /\ Prefix(s, k) \in Seq(R) /\ Len(Prefix(s, k)) = k
  BY <1>1 DEF Prefix
<1>3. ASSUME NEW j \in 0..k PROVE Prefix(Prefix(s, k), j) = Prefix(s, j)
  <2>1. Prefix(s, j) = [i \in 1..j |-> s[i]]
    BY <1>1 DEF Prefix
  <2>2. Prefix(Prefix(s, k), j) = [i \in 1..j |-> Prefix(s, k)[i]]
    BY <1>2 DEF Prefix
  <2>3. \A i \in 1..j : Prefix(s, k)[i] = s[i]
    BY <1>2
  <2> QED BY <2>1, <2>2, <2>3
<1> QED BY <1>2, <1>3

\* What the snapshot is made of.
LEMMA SetFacts ==
    ASSUME set \in PoolSets
    PROVE  /\ Len(set) \in Nat /\ DOMAIN set = 1..Len(set)
           /\ \A i \in DOMAIN set :
                  /\ Len(set[i].servers) \in Nat
                  /\ DOMAIN set[i].servers = 1..Len(set[i].servers)
                  /\ set[i].strategy \in Strategies
                  /\ \A d \in set[i].domains : IsSeq(d) /\ Len(d) \in Nat \ {0}
<1>1. ASSUME NEW s, IsSeq(s) PROVE Len(s) \in Nat /\ DOMAIN s = 1..Len(s) /\ (s # <<>> => Len(s) # 0)
  <2> DEFINE R == Range(s)
  <2>1. s \in Seq(R)
    BY <1>1 DEF IsSeq
  <2> HIDE DEF R
  <2> QED BY <2>1
<1> QED BY <1>1, UpstreamQueryAssumption

\* The pool a name is routed to is the one with the best claim to it, and a name
\* without a route is nobody's: the map with its parents, and the walk down the
\* labels, find what comparing every pair of claims finds (PoolRoutes::lookup).
LEMMA RoutedRight ==
    ASSUME set \in PoolSets, name \in Names
    PROVE  RightPools = IF Lookup(set, name, group) = 0 THEN DefaultPools(set)
                        ELSE {Lookup(set, name, group)}
<1> DEFINE P(k)   == Prefix(name, k)
           M(k)   == Matching(set, P(k), group)
           own(k) == ClaimsFor(set, P(k), group)
           all(k) == ClaimsForAll(set, P(k))
           claims == {c \in (DOMAIN set) \X RoutedDomains(set) : Claims(c[1], c[2])}
           best   == {c \in claims : \A o \in claims : Beats(c[1], c[2], o[1], o[2])}
           depths == {k \in 1..Len(name) : \A j \in 1..k : P(j) \in ByDomain(set)}
           found  == {k \in depths : M(k) # 0}
<1>1. /\ IsSeq(name) /\ Len(name) \in Nat
      /\ Len(set) \in Nat /\ DOMAIN set = 1..Len(set)
      /\ \A k \in 0..Len(name) : Len(P(k)) = k
  BY UpstreamQueryAssumption, PrefixFacts, SetFacts
<1>2. ASSUME NEW k \in 1..Len(name), own(k) # {}
      PROVE  M(k) \in own(k) /\ \A j \in own(k) : M(k) <= j
  <2>1. own(k) \subseteq Nat
    BY <1>1 DEF ClaimsFor
  <2> QED BY <1>2, <2>1, FirstIsLeast DEF Matching
<1>3. ASSUME NEW k \in 1..Len(name), own(k) = {}, all(k) # {}
      PROVE  M(k) \in all(k) /\ \A j \in all(k) : M(k) <= j
  <2>1. all(k) \subseteq Nat
    BY <1>1 DEF ClaimsForAll
  <2> QED BY <1>3, <2>1, FirstIsLeast DEF Matching
<1>4. ASSUME NEW k \in 1..Len(name), own(k) = {}, all(k) = {} PROVE M(k) = 0
  BY <1>4 DEF Matching
<1>5. ASSUME NEW i \in DOMAIN set, NEW d \in RoutedDomains(set), Claims(i, d)
      PROVE  /\ Len(d) \in found /\ d = P(Len(d))
             /\ i \in own(Len(d)) \/ i \in all(Len(d))
             /\ i \in own(Len(d)) => set[i].groups # {}
             /\ i \notin own(Len(d)) => set[i].groups = {}
  <2>1. IsSeq(d) /\ Len(d) \in 1..Len(name) /\ d = P(Len(d)) /\ d \in set[i].domains
    BY <1>1, <1>5, SetFacts DEF Claims
  <2>2. /\ i \in own(Len(d)) \/ i \in all(Len(d))
        /\ i \in own(Len(d)) => set[i].groups # {}
        /\ i \notin own(Len(d)) => set[i].groups = {}
    <3>1. own(Len(d)) = ClaimsFor(set, d, group) /\ all(Len(d)) = ClaimsForAll(set, d)
      BY <2>1
    <3>2. set[i].groups = {} \/ group \in set[i].groups
      BY <1>5 DEF Claims
    <3> HIDE DEF own, all
    <3> QED BY <2>1, <3>1, <3>2 DEF ClaimsFor, ClaimsForAll
  <2>3. M(Len(d)) # 0
    <3>1. own(Len(d)) \subseteq 1..Len(set) /\ all(Len(d)) \subseteq 1..Len(set)
      BY <1>1 DEF ClaimsFor, ClaimsForAll
    <3> HIDE DEF M, own, all
    <3> QED BY <1>2, <1>3, <2>1, <2>2, <3>1, <1>1
  <2>4. ASSUME NEW j \in 1..Len(d) PROVE P(j) \in ByDomain(set)
    <3>1. P(j) = Prefix(d, j)
      BY <1>1, <2>1, PrefixFacts
    <3> QED BY <3>1 DEF ByDomain
  <2> QED BY <2>1, <2>2, <2>3, <2>4
<1>6. ASSUME NEW k \in found
      PROVE  /\ k \in 1..Len(name) /\ M(k) \in 1..Len(set) /\ P(k) \in RoutedDomains(set)
             /\ Claims(M(k), P(k)) /\ Len(P(k)) = k
  <2>1. k \in 1..Len(name) /\ M(k) # 0 /\ Len(P(k)) = k
    BY <1>1
  <2>2. M(k) \in own(k) \/ M(k) \in all(k)
    BY <1>2, <1>3, <1>4, <2>1
  <2>3. M(k) \in DOMAIN set /\ P(k) \in set[M(k)].domains
        /\ (set[M(k)].groups = {} \/ group \in set[M(k)].groups)
    BY <2>2 DEF ClaimsFor, ClaimsForAll
  <2> QED BY <1>1, <2>1, <2>3 DEF Claims, RoutedDomains
<1>7. RightPools = IF claims = {} THEN DefaultPools(set) ELSE {c[1] : c \in best}
  BY DEF RightPools, DefaultPools
<1>8. Lookup(set, name, group) = IF found = {} THEN 0 ELSE M(Last(found))
  BY DEF Lookup
<1>9. CASE found = {}
  <2>1. claims = {}
    BY <1>5, <1>9
  <2> QED BY <1>1, <1>7, <1>8, <1>9, <2>1
<1>10. CASE found # {}
  <2> DEFINE K == Last(found)
             p == M(K)
  <2>1. K \in found /\ \A k \in found : k <= K
    BY <1>1, <1>10, LastIsGreatest
  <2>2. /\ K \in 1..Len(name) /\ p \in 1..Len(set) /\ P(K) \in RoutedDomains(set)
        /\ Claims(p, P(K)) /\ Len(P(K)) = K
    BY <1>6, <2>1
  <2>3. ASSUME NEW j \in DOMAIN set, NEW e \in RoutedDomains(set), Claims(j, e)
        PROVE  Beats(p, P(K), j, e)
    <3>1. /\ Len(e) \in found /\ e = P(Len(e)) /\ Len(e) \in 1..Len(name)
          /\ j \in own(Len(e)) \/ j \in all(Len(e))
          /\ j \in own(Len(e)) => set[j].groups # {}
          /\ j \notin own(Len(e)) => set[j].groups = {}
      BY <1>5, <2>3
    <3>2. CASE Len(e) # K
      BY <2>1, <2>2, <3>1, <3>2, SMTT(30) DEF Beats
    <3>3. CASE Len(e) = K /\ own(K) # {}
      <4>1. p \in own(K) /\ set[p].groups # {} /\ \A i \in own(K) : p <= i
        BY <1>2, <2>2, <3>3 DEF ClaimsFor
      <4> HIDE DEF p, K, own, all, P
      <4> QED BY <2>2, <3>1, <3>3, <4>1 DEF Beats
    <3>4. CASE Len(e) = K /\ own(K) = {}
      <4>1. p \in all(K) /\ set[p].groups = {} /\ \A i \in all(K) : p <= i
        BY <1>3, <2>2, <3>1, <3>4 DEF ClaimsForAll
      <4> HIDE DEF p, K, own, all, P
      <4> QED BY <2>2, <3>1, <3>4, <4>1 DEF Beats
    <3> QED BY <3>2, <3>3, <3>4
  <2> HIDE DEF p, K, P
  <2>4. <<p, P(K)>> \in best
    BY <1>1, <2>2, <2>3
  <2>5. ASSUME NEW c \in best PROVE c[1] = p
    <3>1. c \in claims /\ <<p, P(K)>> \in claims /\ Beats(c[1], c[2], p, P(K))
      BY <2>4, <2>5
    <3>2. Beats(p, P(K), c[1], c[2])
      BY <2>3, <3>1
    <3>3. c[1] \in Nat /\ p \in Nat /\ Len(c[2]) \in Nat /\ Len(P(K)) \in Nat
      BY <1>1, <1>5, <2>2, <3>1
    <3> QED BY <3>1, <3>2, <3>3 DEF Beats
  <2>6. RightPools = {p}
    <3>1. claims # {}
      BY <2>4
    <3>2. {c[1] : c \in best} = {p}
      BY <2>4, <2>5
    <3> QED BY <1>7, <3>1, <3>2
  <2>7. Lookup(set, name, group) = p
    BY <1>8, <1>10 DEF p, K
  <2> QED BY <1>1, <2>2, <2>6, <2>7
<1> QED BY <1>9, <1>10

\* A lookup names a pool of the set, or none.
LEMMA LookupRange ==
    ASSUME NEW ps \in PoolSets, NEW n \in Names, NEW g
    PROVE  Len(ps) \in Nat /\ Lookup(ps, n, g) \in 0..Len(ps)
<1>1. ASSUME NEW s, IsSeq(s) PROVE Len(s) \in Nat /\ DOMAIN s = 1..Len(s)
  <2> DEFINE R == Range(s)
  <2>1. s \in Seq(R)
    BY <1>1 DEF IsSeq
  <2> HIDE DEF R
  <2> QED BY <2>1
<1>2. Len(ps) \in Nat /\ DOMAIN ps = 1..Len(ps)
  BY <1>1, UpstreamQueryAssumption
<1>3. ASSUME NEW d PROVE Matching(ps, d, g) \in 0..Len(ps)
  <2>1. ASSUME NEW S, S \subseteq DOMAIN ps, S # {} PROVE First(S) \in 1..Len(ps)
    BY <1>2, <2>1, FirstIsLeast
  <2>2. ClaimsFor(ps, d, g) \subseteq DOMAIN ps /\ ClaimsForAll(ps, d) \subseteq DOMAIN ps
    BY DEF ClaimsFor, ClaimsForAll
  <2> QED BY <1>2, <2>1, <2>2 DEF Matching
<1> QED BY <1>2, <1>3 DEF Lookup

(***************************************************************************)
(* What the steps rest on                                                  *)
(***************************************************************************)

\* The questions and the right pools are those of the snapshot and the name.
LEMMA SameQuestions ==
    ASSUME UNCHANGED query
    PROVE  /\ Questions' = Questions /\ RightPools' = RightPools
           /\ DefaultPools(set)' = DefaultPools(set)
           /\ \A i : ServersOf(i)' = ServersOf(i)
BY DEF query, Questions, AllServers, ServersOf, RightPools, RoutedDomains, Claims, Beats, DefaultPools

\* A query that has begun keeps to the right pools.
LEMMA HereIsRight ==
    ASSUME QueryTypeOK, RouteInv, Begun
    PROVE  RightPools = Here /\ Here \subseteq DOMAIN set /\ DOMAIN set = 1..Len(set) /\ Len(set) \in Nat
<1>1. RightPools = Here
  BY RoutedRight DEF QueryTypeOK, RouteInv, Here
<1>2. DOMAIN set = 1..Len(set) /\ Len(set) \in Nat
  BY SetFacts DEF QueryTypeOK
<1>3. Here \subseteq DOMAIN set
  <2>1. route \in 0..Len(set) /\ (mode = "routed" => route # 0)
    BY DEF QueryTypeOK, RouteInv
  <2> QED BY <1>2, <2>1 DEF Here, DefaultPools
<1> QED BY <1>1, <1>2, <1>3

\* The pool of a walk that has not ended: the next one for this query, whose
\* servers it may ask.
LEMMA PoolFacts ==
    ASSUME QueryTypeOK, RouteInv, Begun, ~WalkEnded
    PROVE  /\ Pool \in Here /\ Pool \in 1..Len(set) /\ Len(set) \in Nat
           /\ mode # "routed" => at <= Pool /\ \A i \in Here : i >= at => Pool <= i
           /\ ServersOf(Pool) = {Listing[k] : k \in DOMAIN Listing}
           /\ Len(Listing) \in Nat /\ DOMAIN Listing = 1..Len(Listing)
           /\ set[Pool].strategy \in Strategies
           /\ \A s \in ServersOf(Pool) : <<Pool, s>> \in Askable
           /\ \A q \in Askable : q[1] = Pool => \E s \in ServersOf(Pool) : q = <<Pool, s>>
<1>1. Here \subseteq 1..Len(set) /\ DOMAIN set = 1..Len(set) /\ Len(set) \in Nat
  BY HereIsRight
<1>2. Pool \in Here /\ (mode # "routed" => at <= Pool /\ \A i \in Here : i >= at => Pool <= i)
  <2>1. CASE mode = "routed"
    BY <2>1 DEF Pool, Here
  <2>2. CASE mode # "routed"
    <3>1. Here = DefaultPools(set) /\ Ahead = {i \in Here : i >= at} /\ Ahead # {} /\ Pool = First(Ahead)
      BY <2>2 DEF Here, Ahead, WalkEnded, Pool
    <3>2. Ahead \subseteq Nat
      BY <1>1, <3>1
    <3>3. First(Ahead) \in Ahead /\ \A j \in Ahead : First(Ahead) <= j
      BY <3>1, <3>2, FirstIsLeast
    <3> QED BY <3>1, <3>3
  <2> QED BY <2>1, <2>2
<1>3. Pool \in DOMAIN set
  BY <1>1, <1>2
<1>4. ServersOf(Pool) = {Listing[k] : k \in DOMAIN Listing}
  BY DEF ServersOf, Listing, Range
<1>5. ServersOf(Pool) \subseteq AllServers
  BY <1>3 DEF AllServers
<1>6. \A s \in ServersOf(Pool) : <<Pool, s>> \in Askable
  BY <1>2, <1>3, <1>5 DEF Askable, Questions
<1>7. ASSUME NEW q \in Askable, q[1] = Pool PROVE \E s \in ServersOf(Pool) : q = <<Pool, s>>
  <2>1. q \in (DOMAIN set) \X AllServers /\ q[2] \in ServersOf(q[1])
    BY DEF Askable, Questions
  <2>2. q = <<q[1], q[2]>>
    BY <2>1
  <2> QED BY <1>7, <2>1, <2>2
<1>8. Len(Listing) \in Nat /\ DOMAIN Listing = 1..Len(Listing) /\ set[Pool].strategy \in Strategies
  BY <1>3, SetFacts DEF QueryTypeOK, Listing
<1> QED BY <1>1, <1>2, <1>3, <1>4, <1>6, <1>7, <1>8

\* A sequential strategy goes on with a server it has not asked.
LEMMA NextPlaceIsToDo ==
    ASSUME todo \subseteq Nat, todo # {}
    PROVE  NextPlace \in todo
<1> DEFINE onward == {k \in todo : k >= start}
<1>1. CASE onward = {}
  BY <1>1, FirstIsLeast DEF NextPlace
<1>2. CASE onward # {}
  <2>1. First(onward) \in onward
    BY <1>2, FirstIsLeast
  <2> QED BY <1>2, <2>1 DEF NextPlace
<1> QED BY <1>1, <1>2

\* The error of a pool reads as SERVFAIL only if each of its servers said so.
LEMMA StrategyErrorFacts ==
    ASSUME QueryTypeOK, PoolInv, pc = "ask", todo = {}, out = 0
    PROVE  /\ StrategyError \in Errors \cup {"all_servfail", "unreachable"}
           /\ StrategyError \in {"servfail", "all_servfail"} => errs # <<>> /\ Range(errs) = {"servfail"}
<1>1. /\ errs \in Seq(Errors) /\ racing \in Nat
      /\ racing = 0 => errs # <<>>
      /\ racing # 0 => Len(errs) = racing
  BY DEF QueryTypeOK, PoolInv
<1>2. Len(errs) > 0
  BY <1>1
<1>3. ASSUME \A i \in 1..Len(errs) : errs[i] = "servfail" PROVE Range(errs) = {"servfail"}
  BY <1>1, <1>2, <1>3 DEF Range
<1>4. CASE racing = 1
  <2>1. Len(errs) = 1 /\ errs[1] \in Errors /\ StrategyError = errs[1]
    BY <1>1, <1>4 DEF StrategyError
  <2> QED BY <1>1, <1>3, <2>1 DEF Errors
<1>5. CASE racing = 2
  <2>1. Len(errs) = 2 /\ errs[1] \in Errors /\ errs[2] \in Errors /\ StrategyError = PairFailure(errs[1], errs[2])
    BY <1>1, <1>5, SMTT(30) DEF StrategyError
  <2>2. \A i \in 1..Len(errs) : i = 1 \/ i = 2
    BY <2>1
  <2> QED BY <1>1, <1>3, <2>1, <2>2 DEF Errors, PairFailure
<1>6. CASE racing \notin {1, 2}
  <2>1. StrategyError = AllServersFailed(errs)
    BY <1>6 DEF StrategyError
  <2>2. \A i \in 1..Len(errs) : errs[i] \in Errors
    BY <1>1
  <2> QED BY <1>1, <1>2, <1>3, <2>1, <2>2 DEF Errors, AllServersFailed
<1> QED BY <1>4, <1>5, <1>6

(***************************************************************************)
(* The steps                                                               *)
(***************************************************************************)

\* The invariant holds when the program starts.
LEMMA QueryStarts ==
    ASSUME QueryInit
    PROVE  QueryInv
<1>1. Len(set) \in Nat
  BY SetFacts DEF QueryInit
<1>2. QueryTypeOK
  <2>1. /\ set \in PoolSets /\ checker \in BOOLEAN /\ pc \in {"idle", "look", "ask"}
        /\ name \in Names /\ group \in Groups \cup {NoGroup}
        /\ route \in 0..Len(set) /\ mode \in {"routed", "default", "open"} /\ at \in 1..(Len(set) + 1)
    BY <1>1 DEF QueryInit
  <2>2. /\ todo \subseteq Nat /\ start \in Nat /\ racing \in Nat /\ out \in 0..racing /\ errs \in Seq(Errors)
    BY DEF QueryInit
  <2>3. /\ anyHealthy \in BOOLEAN /\ anyTried \in BOOLEAN /\ allServfail \in BOOLEAN
        /\ failingOpen \in BOOLEAN /\ silent \in BOOLEAN
        /\ result \in Outcomes /\ asked \subseteq Questions /\ skipped \subseteq Questions
        /\ heard \subseteq Errors \cup {"answer"}
    BY DEF QueryInit, Outcomes
  <2> QED BY <2>1, <2>2, <2>3 DEF QueryTypeOK
<1> QED BY <1>2 DEF QueryInit, QueryInv, RouteInv, Begun, WalkInv, PoolInv, HeardInv,
                    ServfailIsUnanimous, FailureIsEarned

\* query_for looks the route up and starts from nothing.
LEMMA BeginFits ==
    ASSUME QueryInv, NEW n \in Names, NEW g \in Groups \cup {NoGroup}, Begin(n, g)
    PROVE  QueryInv'
<1>1. Len(set) \in Nat /\ route' \in 0..Len(set) /\ set' = set
  BY LookupRange DEF QueryInv, QueryTypeOK, Begin
<1>2. QueryTypeOK'
  <2>1. /\ set' \in PoolSets /\ checker' \in BOOLEAN /\ pc' \in {"idle", "look", "ask"}
        /\ name' \in Names /\ group' \in Groups \cup {NoGroup}
        /\ route' \in 0..Len(set') /\ mode' \in {"routed", "default", "open"} /\ at' \in 1..(Len(set') + 1)
    BY <1>1 DEF QueryInv, QueryTypeOK, Begin
  <2>2. todo' \subseteq Nat /\ start' \in Nat /\ racing' \in Nat /\ out' \in 0..racing' /\ errs' \in Seq(Errors)
    BY DEF QueryInv, QueryTypeOK, Begin
  <2>3. /\ anyHealthy' \in BOOLEAN /\ anyTried' \in BOOLEAN /\ allServfail' \in BOOLEAN
        /\ failingOpen' \in BOOLEAN /\ silent' \in BOOLEAN
        /\ result' \in Outcomes /\ asked' \subseteq Questions' /\ skipped' \subseteq Questions'
        /\ heard' \subseteq Errors \cup {"answer"}
    BY DEF QueryInv, QueryTypeOK, Begin, Outcomes
  <2> QED BY <2>1, <2>2, <2>3 DEF QueryTypeOK
<1>3. RouteInv'
  BY DEF Begin, RouteInv, Begun
<1>4. Passed' = {}
  <2>1. \A q \in Askable' : q[1] \in DOMAIN set'
    BY DEF Askable, Questions
  <2>2. DOMAIN set' = 1..Len(set) /\ at' = 1
    BY <1>1, SetFacts DEF QueryInv, QueryTypeOK, Begin
  <2> QED BY <1>1, <2>1, <2>2 DEF Passed
<1>5. WalkInv'
  BY <1>4 DEF Begin, WalkInv
<1>6. PoolInv'
  BY DEF QueryInv, Begin, PoolInv
<1>7. HeardInv'
  <2>1. errs' = <<>>
    BY DEF QueryInv, Begin, PoolInv
  <2> QED BY <2>1 DEF Begin, HeardInv, Range
<1>8. ServfailIsUnanimous' /\ FailureIsEarned'
  BY DEF Begin, ServfailIsUnanimous, FailureIsEarned
<1> QED BY <1>2, <1>3, <1>5, <1>6, <1>7, <1>8 DEF QueryInv

\* A strategy that begins with the servers at places C: the others of the pool are
\* out of rotation, and what was heard and asked before stays.
LEMMA AskFits ==
    ASSUME QueryInv, pc = "look", ~WalkEnded, NEW C, C \subseteq DOMAIN Listing, C # {}, Ask(C),
           UNCHANGED <<query, mode, at, anyTried, allServfail, result, heard, silent>>,
           anyHealthy' \in BOOLEAN, failingOpen' \in BOOLEAN,
           skipped' \subseteq Questions,
           \A s \in ServersOf(Pool) : <<Pool, s>> \in skipped' \/ \E k \in C : Listing[k] = s,
           asked \subseteq asked' => WalkInv'
    PROVE  QueryInv'
<1>1. /\ Pool \in Here /\ Pool \in 1..Len(set) /\ Len(set) \in Nat
      /\ ServersOf(Pool) = {Listing[k] : k \in DOMAIN Listing}
      /\ Len(Listing) \in Nat /\ DOMAIN Listing = 1..Len(Listing)
      /\ \A s \in ServersOf(Pool) : <<Pool, s>> \in Askable
  BY PoolFacts DEF QueryInv, Begun
<1>2. /\ Questions' = Questions /\ RightPools' = RightPools /\ DefaultPools(set)' = DefaultPools(set)
      /\ \A i : ServersOf(i)' = ServersOf(i)
  BY SameQuestions
<1>3. /\ set' = set /\ route' = route /\ name' = name /\ group' = group /\ checker' = checker
      /\ Here' = Here /\ Pool' = Pool /\ Ahead' = Ahead /\ Listing' = Listing
  BY <1>2 DEF query, Here, Pool, Ahead, Listing
<1>4. IsFiniteSet(C) /\ Cardinality(C) \in Nat \ {0}
  <2>1. IsFiniteSet(1..Len(Listing))
    BY <1>1, FS_Interval
  <2>2. IsFiniteSet(C)
    BY <1>1, <2>1, FS_Subset
  <2>3. Cardinality(C) \in Nat /\ Cardinality(C) # 0
    BY <2>2, FS_CardinalityType, FS_EmptySet
  <2> QED BY <2>2, <2>3
<1>5. /\ todo' \subseteq C /\ racing' \in Nat /\ out' = racing' /\ errs' = <<>> /\ pc' = "ask" /\ start' \in Nat
      /\ asked \subseteq asked' /\ asked' \subseteq asked \cup {<<Pool, Listing[k]>> : k \in C}
      /\ \/ todo' = C /\ racing' = 0
         \/ todo' = {} /\ racing' # 0 /\ \A k \in C : <<Pool, Listing[k]>> \in asked'
  BY <1>1, <1>4 DEF Ask
<1>6. \A k \in C : <<Pool, Listing[k]>> \in Askable /\ <<Pool, Listing[k]>> \in Questions
  BY <1>1 DEF Askable
<1>7. QueryTypeOK'
  <2>1. asked' \subseteq Questions
    BY <1>5, <1>6 DEF QueryInv, QueryTypeOK
  <2>2. todo' \subseteq Nat
    BY <1>1, <1>5
  <2>3. errs' \in Seq(Errors)
    BY <1>5
  <2> QED BY <1>2, <1>3, <1>5, <2>1, <2>2, <2>3 DEF QueryInv, QueryTypeOK, query
<1>8. RouteInv'
  <2>1. \A q \in asked' : q[1] \in Here
    BY <1>1, <1>5 DEF QueryInv, RouteInv
  <2>2. result' = "none" /\ route = Lookup(set, name, group) /\ (mode = "routed" <=> route # 0)
    BY DEF QueryInv, RouteInv, Begun
  <2> QED BY <1>3, <1>5, <2>1, <2>2 DEF RouteInv, Begun
<1>9. WalkInv'
  BY <1>5
<1>10. PoolInv'
  <2>1. mode' # "routed" => Ahead' # {}
    BY <1>3 DEF WalkEnded
  <2>2. todo' \subseteq DOMAIN Listing' /\ (asked' # {} \/ todo' # {})
    BY <1>3, <1>5
  <2>3. ASSUME NEW s \in ServersOf(Pool)
        PROVE  <<Pool, s>> \in asked' \cup skipped' \/ \E k \in todo' : Listing[k] = s
    BY <1>5
  <2>4. ServersOf(Pool)' = ServersOf(Pool)
    BY <1>2, <1>3 DEF ServersOf
  <2>5. racing' = 0 => todo' # {}
    BY <1>5
  <2>6. racing' # 0 => todo' = {} /\ Len(errs') + out' = racing'
    <3>1. Len(errs') = 0 /\ racing' \in Nat /\ out' = racing' /\ (racing' # 0 => todo' = {})
      BY <1>5
    <3>2. \A m \in Nat : 0 + m = m
      OBVIOUS
    <3> QED BY <3>1, <3>2
  <2> QED BY <1>3, <1>5, <2>1, <2>2, <2>3, <2>4, <2>5, <2>6 DEF PoolInv
<1>11. HeardInv'
  <2>1. errs = <<>>
    BY DEF QueryInv, PoolInv
  <2> QED BY <1>5, <2>1 DEF QueryInv, HeardInv, Range
<1>12. ServfailIsUnanimous' /\ FailureIsEarned'
  BY <1>5, <1>8 DEF ServfailIsUnanimous, FailureIsEarned, RouteInv
<1> QED BY <1>7, <1>8, <1>9, <1>10, <1>11, <1>12 DEF QueryInv

\* What the walk leaves behind when it goes on: the pool it was at.
LEMMA PassFacts ==
    ASSUME QueryTypeOK, RouteInv, Begun, ~WalkEnded, mode # "routed",
           UNCHANGED query, UNCHANGED mode, at' = Pool + 1
    PROVE  /\ at' \in 1..(Len(set) + 1)
           /\ Askable' = Askable
           /\ \A q \in Passed' : q \in Passed \/ \E s \in ServersOf(Pool) : q = <<Pool, s>>
<1>1. /\ Pool \in 1..Len(set) /\ Len(set) \in Nat /\ at <= Pool
      /\ \A i \in Here : i >= at => Pool <= i
      /\ \A q \in Askable : q[1] = Pool => \E s \in ServersOf(Pool) : q = <<Pool, s>>
  BY PoolFacts
<1>2. Askable' = Askable
  BY SameQuestions DEF Askable, Here, query
<1>3. ASSUME NEW q \in Passed' PROVE q \in Passed \/ \E s \in ServersOf(Pool) : q = <<Pool, s>>
  <2>1. q \in Askable /\ q[1] < Pool + 1 /\ q[1] \in Here /\ q[1] \in 1..Len(set)
    BY <1>2, HereIsRight DEF Passed, Askable
  <2>2. at \in Nat
    BY <1>1 DEF QueryTypeOK
  <2>3. q[1] < at \/ q[1] = Pool
    BY <1>1, <2>1, <2>2
  <2> QED BY <1>1, <2>1, <2>3 DEF Passed
<1> QED BY <1>1, <1>2, <1>3

\* query_routed: the pool's servers in rotation, or all of them.
LEMMA LookRoutedFits ==
    ASSUME QueryInv, NEW H, LookRouted(H)
    PROVE  QueryInv'
<1>1. Begun /\ ~WalkEnded /\ pc = "look" /\ mode = "routed"
  BY DEF LookRouted, Begun, WalkEnded
<1>2. /\ Pool \in Here /\ Pool \in 1..Len(set) /\ Len(set) \in Nat
      /\ ServersOf(Pool) = {Listing[k] : k \in DOMAIN Listing}
      /\ \A s \in ServersOf(Pool) : <<Pool, s>> \in Askable
      /\ \A q \in Askable : q[1] = Pool => \E s \in ServersOf(Pool) : q = <<Pool, s>>
  BY <1>1, PoolFacts DEF QueryInv
<1>3. Questions' = Questions /\ RightPools' = RightPools
  BY SameQuestions DEF LookRouted
<1>4. /\ skipped' \subseteq Questions /\ (~checker => skipped' = {})
      /\ \A s \in ServersOf(Pool) : <<Pool, s>> \in skipped'
                                    \/ \E k \in IF Chosen(H) = {} THEN DOMAIN Listing ELSE Chosen(H) : Listing[k] = s
  <2>1. CASE Chosen(H) = {}
    BY <1>2, <2>1 DEF LookRouted
  <2>2. CASE Chosen(H) # {}
    <3>1. skipped' = {<<Pool, s>> : s \in ServersOf(Pool) \ H}
      BY <2>2 DEF LookRouted
    <3>2. skipped' \subseteq Questions
      BY <1>2, <3>1 DEF Askable
    <3>3. ~checker => H = ServersOf(Pool)
      BY DEF LookRouted, Verdicts
    <3>4. ASSUME NEW s \in ServersOf(Pool), s \in H PROVE \E k \in Chosen(H) : Listing[k] = s
      BY <1>2, <3>4 DEF Chosen
    <3> QED BY <2>2, <3>1, <3>2, <3>3, <3>4
  <2> QED BY <2>1, <2>2
<1>5. CASE DOMAIN Listing = {}
  <2>1. Chosen(H) = {}
    BY <1>5 DEF Chosen
  <2>2. /\ result' = "unreachable" /\ pc' = "idle" /\ skipped' = {}
        /\ UNCHANGED <<query, mode, at, flags, failingOpen, heard, silent, todo, start, racing, out, errs, asked>>
    BY <1>5, <2>1 DEF LookRouted, Finish
  <2>3. QueryTypeOK'
    BY <1>3, <2>2 DEF QueryInv, QueryTypeOK, query, flags, Outcomes, AllServers, ServersOf
  <2>4. RouteInv'
    BY <1>1, <2>2 DEF QueryInv, RouteInv, Begun, query, Here, DefaultPools
  <2>5. PoolInv'
    BY <1>1, <2>2 DEF QueryInv, PoolInv
  <2>6. WalkInv' /\ HeardInv' /\ ServfailIsUnanimous'
    BY <2>2 DEF WalkInv, HeardInv, ServfailIsUnanimous
  <2>7. FailureIsEarned'
    <3>1. RightPools = {Pool}
      BY <1>1, HereIsRight DEF QueryInv, Here, Pool
    <3>2. Askable = {}
      BY <1>2, <1>5, <1>1 DEF Askable, Here, Pool
    <3>3. {q \in Questions : q[1] \in RightPools} = {}
      BY <1>1, <3>2, HereIsRight DEF QueryInv, Askable
    <3> QED BY <1>3, <3>3 DEF FailureIsEarned
  <2> QED BY <2>3, <2>4, <2>5, <2>6, <2>7 DEF QueryInv
<1>6. CASE DOMAIN Listing # {}
  <2> DEFINE C == IF Chosen(H) = {} THEN DOMAIN Listing ELSE Chosen(H)
  <2>1. C # {} /\ C \subseteq DOMAIN Listing
    BY <1>6 DEF Chosen
  <2>2. Ask(C) /\ UNCHANGED <<query, mode, at, flags, result, failingOpen, heard, silent>>
    BY <2>1 DEF LookRouted
  <2>3. WalkInv'
    BY <1>1, <1>4, <2>2 DEF WalkInv, query
  <2>4. anyHealthy' \in BOOLEAN /\ failingOpen' \in BOOLEAN
    BY <2>2 DEF QueryInv, QueryTypeOK, flags
  <2>5. UNCHANGED <<query, mode, at, anyTried, allServfail, result, heard, silent>>
    BY <2>2 DEF flags
  <2>6. \A s \in ServersOf(Pool) : <<Pool, s>> \in skipped' \/ \E k \in C : Listing[k] = s
    BY <1>4
  <2> HIDE DEF C
  <2> QED BY <1>1, <1>4, <2>1, <2>2, <2>3, <2>4, <2>5, <2>6, AskFits
<1> QED BY <1>5, <1>6

\* query_default: a pool with servers in rotation.
LEMMA LookHealthyFits ==
    ASSUME QueryInv, NEW H, LookHealthy(H)
    PROVE  QueryInv'
<1>1. Begun /\ ~WalkEnded /\ pc = "look" /\ mode = "default"
  BY DEF LookHealthy, Begun
<1>2. /\ ServersOf(Pool) = {Listing[k] : k \in DOMAIN Listing}
      /\ \A s \in ServersOf(Pool) : <<Pool, s>> \in Askable
  BY <1>1, PoolFacts DEF QueryInv
<1>3. /\ skipped \subseteq skipped' /\ skipped' \subseteq Questions
      /\ ~checker => skipped' = {}
      /\ \A s \in ServersOf(Pool) : <<Pool, s>> \in skipped' \/ \E k \in Chosen(H) : Listing[k] = s
  <2>1. skipped' = skipped \cup {<<Pool, s>> : s \in ServersOf(Pool) \ H}
    BY DEF LookHealthy
  <2>2. skipped' \subseteq Questions
    BY <1>2, <2>1 DEF QueryInv, QueryTypeOK, Askable
  <2>3. ~checker => H = ServersOf(Pool)
    BY DEF LookHealthy, Verdicts
  <2>4. ~checker => skipped = {}
    BY <1>1 DEF QueryInv, WalkInv
  <2>5. ASSUME NEW s \in ServersOf(Pool), s \in H PROVE \E k \in Chosen(H) : Listing[k] = s
    BY <1>2, <2>5 DEF Chosen
  <2> QED BY <2>1, <2>2, <2>3, <2>4, <2>5
<1>4. /\ Ask(Chosen(H)) /\ anyHealthy' = TRUE /\ failingOpen' \in BOOLEAN
      /\ UNCHANGED <<query, mode, at, anyTried, allServfail, result, heard, silent>>
      /\ Chosen(H) # {} /\ Chosen(H) \subseteq DOMAIN Listing /\ pc' = "ask"
  BY DEF QueryInv, QueryTypeOK, LookHealthy, Chosen, Ask
<1>5. ASSUME asked \subseteq asked' PROVE WalkInv'
  <2>1. Passed' = Passed
    BY <1>4, SameQuestions DEF Passed, Askable, Here, query
  <2>2. Passed \subseteq asked \cup skipped
    BY <1>1 DEF QueryInv, WalkInv
  <2> QED BY <1>1, <1>3, <1>4, <1>5, <2>1, <2>2 DEF WalkInv, query
<1> QED BY <1>1, <1>3, <1>4, <1>5, AskFits

\* A step that leaves a pool without asking it.
LEMMA PassFits ==
    ASSUME QueryInv, pc = "look", ~WalkEnded, mode # "routed", at' = Pool + 1,
           UNCHANGED <<query, pc, mode, todo, start, racing, out, errs, flags, failingOpen, result,
                       asked, heard, silent>>,
           skipped' \subseteq Questions, WalkInv'
    PROVE  QueryInv'
<1>1. Begun
  BY DEF Begun
<1>2. Questions' = Questions /\ RightPools' = RightPools /\ DefaultPools(set)' = DefaultPools(set)
  BY SameQuestions
<1>3. at' \in 1..(Len(set) + 1)
  BY <1>1, PassFacts DEF QueryInv
<1>4. QueryTypeOK'
  BY <1>2, <1>3 DEF QueryInv, QueryTypeOK, query, flags
<1>5. RouteInv'
  BY <1>2 DEF QueryInv, RouteInv, Begun, query, Here
<1>6. PoolInv' /\ HeardInv' /\ ServfailIsUnanimous' /\ FailureIsEarned'
  BY DEF QueryInv, PoolInv, HeardInv, flags, Range, RouteInv, ServfailIsUnanimous, FailureIsEarned
<1> QED BY <1>4, <1>5, <1>6 DEF QueryInv

\* A pool with no server in rotation.
LEMMA SkipPoolFits ==
    ASSUME QueryInv, NEW H, SkipPool(H)
    PROVE  QueryInv'
<1>1. /\ Begun /\ ~WalkEnded /\ pc = "look" /\ mode = "default" /\ at' = Pool + 1
      /\ UNCHANGED <<query, pc, mode, todo, start, racing, out, errs, flags, failingOpen, result,
                     asked, heard, silent>>
      /\ skipped' = skipped \cup {<<Pool, s>> : s \in ServersOf(Pool)}
  BY DEF SkipPool, Begun
<1>2. /\ ServersOf(Pool) = {Listing[k] : k \in DOMAIN Listing}
      /\ \A s \in ServersOf(Pool) : <<Pool, s>> \in Askable
  BY <1>1, PoolFacts DEF QueryInv
<1>3. skipped' \subseteq Questions
  BY <1>1, <1>2 DEF QueryInv, QueryTypeOK, Askable
<1>4. ~checker => skipped' = {}
  <2> SUFFICES ASSUME ~checker PROVE skipped' = {}
    OBVIOUS
  <2>1. skipped = {} /\ H = ServersOf(Pool) /\ Chosen(H) = {}
    BY <1>1 DEF QueryInv, WalkInv, SkipPool, Verdicts
  <2>2. ServersOf(Pool) = {}
    BY <1>2, <2>1 DEF Chosen
  <2> QED BY <1>1, <2>1, <2>2
<1>5. WalkInv'
  <2>1. \A q \in Passed' : q \in Passed \/ \E s \in ServersOf(Pool) : q = <<Pool, s>>
    BY <1>1, PassFacts DEF QueryInv
  <2>2. Passed \subseteq asked \cup skipped /\ (~anyHealthy => Passed \subseteq skipped) /\ (anyHealthy => asked # {})
    BY <1>1 DEF QueryInv, WalkInv
  <2>3. Passed' \subseteq asked \cup skipped' /\ (~anyHealthy => Passed' \subseteq skipped')
    BY <1>1, <2>1, <2>2
  <2> QED BY <1>1, <1>4, <2>2, <2>3 DEF WalkInv, query, flags
<1> QED BY <1>1, <1>3, <1>5, PassFits

\* The walk that saw no server in rotation starts again, open.
LEMMA FailOpenFits ==
    ASSUME QueryInv, FailOpen
    PROVE  QueryInv'
<1>1. /\ Begun /\ pc = "look" /\ mode = "default" /\ Ahead = {} /\ ~anyHealthy /\ checker
      /\ failingOpen' = TRUE /\ mode' = "open" /\ at' = 1
      /\ UNCHANGED <<query, pc, todo, start, racing, out, errs, flags, result, history>>
  BY DEF FailOpen, WalkEnded, Begun
<1>2. Questions' = Questions /\ RightPools' = RightPools /\ DefaultPools(set)' = DefaultPools(set)
  BY <1>1, SameQuestions
<1>3. Here = DefaultPools(set) /\ Here' = Here /\ Askable' = Askable
  BY <1>1, <1>2 DEF Here, Askable
<1>4. Here \subseteq 1..Len(set) /\ Len(set) \in Nat
  BY <1>1, HereIsRight DEF QueryInv
<1>5. Askable \subseteq Passed
  <2>1. \A i \in Here : i < at
    BY <1>1, <1>3, <1>4 DEF Ahead, QueryInv, QueryTypeOK
  <2> QED BY <2>1 DEF Passed, Askable
<1>6. Askable \subseteq skipped
  BY <1>1, <1>5 DEF QueryInv, WalkInv
<1>7. Passed' = {}
  BY <1>1, <1>3, <1>4 DEF Passed, Askable
<1>8. QueryTypeOK'
  BY <1>1, <1>2, <1>4 DEF QueryInv, QueryTypeOK, query, flags, history
<1>9. RouteInv'
  BY <1>1, <1>3 DEF QueryInv, RouteInv, Begun, query, history
<1>10. WalkInv'
  BY <1>1, <1>3, <1>6, <1>7 DEF QueryInv, WalkInv, query, history
<1>11. PoolInv' /\ HeardInv' /\ ServfailIsUnanimous' /\ FailureIsEarned'
  BY <1>1 DEF QueryInv, PoolInv, HeardInv, flags, history, Range, RouteInv, ServfailIsUnanimous, FailureIsEarned
<1> QED BY <1>8, <1>9, <1>10, <1>11 DEF QueryInv

\* The open walk asks every server of the next pool.
LEMMA LookOpenFits ==
    ASSUME QueryInv, LookOpen
    PROVE  QueryInv'
<1>1. /\ Begun /\ pc = "look" /\ mode = "open" /\ ~WalkEnded
      /\ UNCHANGED <<query, mode, flags, failingOpen, result, skipped, heard, silent>>
  BY DEF LookOpen, Begun
<1>2. ServersOf(Pool) = {Listing[k] : k \in DOMAIN Listing}
  BY <1>1, PoolFacts DEF QueryInv
<1>3. Askable' = Askable /\ Askable \subseteq skipped /\ skipped \subseteq Questions /\ failingOpen
      /\ (asked = {} => Passed = {}) /\ (~checker => skipped = {})
  BY <1>1, SameQuestions DEF QueryInv, QueryTypeOK, WalkInv, Askable, Here, query
<1>4. CASE DOMAIN Listing = {}
  <2>1. at' = Pool + 1 /\ UNCHANGED <<pc, todo, start, racing, out, errs, asked>>
    BY <1>4 DEF LookOpen
  <2>2. \A q \in Passed' : q \in Passed
    BY <1>1, <1>2, <1>4, <2>1, PassFacts DEF QueryInv
  <2>3. asked' = {} => Passed' = {}
    BY <1>3, <2>1, <2>2
  <2>4. WalkInv'
    BY <1>1, <1>3, <2>1, <2>3 DEF WalkInv, query
  <2> QED BY <1>1, <1>3, <2>1, <2>4, PassFits
<1>5. CASE DOMAIN Listing # {}
  <2>1. Ask(DOMAIN Listing) /\ at' = at
    BY <1>5 DEF LookOpen
  <2>2. Passed' = Passed
    BY <1>1, <1>3, <2>1 DEF Passed
  <2>3. asked \subseteq asked' => WalkInv'
    BY <1>1, <1>3, <2>2 DEF WalkInv, query
  <2>4. anyHealthy' \in BOOLEAN /\ failingOpen' \in BOOLEAN /\ skipped' \subseteq Questions
        /\ UNCHANGED <<query, mode, at, anyTried, allServfail, result, heard, silent>>
    BY <1>1, <1>3, <2>1 DEF QueryInv, QueryTypeOK, flags
  <2>5. \A s \in ServersOf(Pool) : <<Pool, s>> \in skipped' \/ \E k \in DOMAIN Listing : Listing[k] = s
    BY <1>2
  <2> QED BY <1>1, <1>5, <2>1, <2>3, <2>4, <2>5, AskFits
<1> QED BY <1>4, <1>5

\* A walk that found no answer: every server it may ask was asked, or was out of
\* rotation in a walk that asked others.
LEMMA EndWalkFits ==
    ASSUME QueryInv, EndWalk
    PROVE  QueryInv'
<1>1. /\ Begun /\ pc = "look" /\ mode # "routed" /\ Ahead = {} /\ pc' = "idle"
      /\ result' = (IF anyTried /\ allServfail THEN "all_servfail" ELSE "unreachable")
      /\ UNCHANGED <<query, mode, at, todo, start, racing, out, errs, flags, failingOpen, history>>
      /\ mode = "default" => anyHealthy \/ ~checker
  BY DEF EndWalk, WalkEnded, Finish, Begun
<1>2. Questions' = Questions /\ RightPools' = RightPools /\ DefaultPools(set)' = DefaultPools(set)
  BY <1>1, SameQuestions
<1>3. Here = DefaultPools(set) /\ Here' = Here /\ RightPools = Here
      /\ Here \subseteq 1..Len(set) /\ Len(set) \in Nat
  BY <1>1, <1>2, HereIsRight DEF QueryInv, Here
<1>4. Askable \subseteq Passed
  <2>1. \A i \in Here : i < at
    BY <1>1, <1>3 DEF Ahead, QueryInv, QueryTypeOK
  <2> QED BY <2>1 DEF Passed, Askable
<1>5. Askable \subseteq asked \cup skipped /\ (asked = {} => Askable = {})
  <2>1. CASE mode = "default"
    BY <1>1, <1>4, <2>1 DEF QueryInv, WalkInv
  <2>2. CASE mode = "open"
    BY <1>1, <1>4, <2>2 DEF QueryInv, WalkInv
  <2> QED BY <1>1, <2>1, <2>2 DEF QueryInv, QueryTypeOK
<1>6. FailureIsEarned'
  BY <1>1, <1>2, <1>3, <1>5 DEF FailureIsEarned, Askable, history
<1>7. ServfailIsUnanimous'
  <2> SUFFICES ASSUME anyTried /\ allServfail PROVE asked # {} /\ heard = {"servfail"} /\ ~silent
    BY <1>1 DEF ServfailIsUnanimous, history
  <2>1. errs = <<>>
    BY <1>1 DEF QueryInv, PoolInv
  <2>2. Range(errs) = {}
    BY <2>1 DEF Range
  <2> QED BY <1>1, <2>2 DEF QueryInv, HeardInv
<1>8. QueryTypeOK'
  BY <1>1, <1>2 DEF QueryInv, QueryTypeOK, query, flags, history, Outcomes
<1>9. RouteInv'
  BY <1>1, <1>3 DEF QueryInv, RouteInv, Begun, query, history
<1>10. WalkInv' /\ PoolInv' /\ HeardInv'
  BY <1>1 DEF QueryInv, WalkInv, PoolInv, HeardInv
<1> QED BY <1>6, <1>7, <1>8, <1>9, <1>10 DEF QueryInv

\* A server answers: the query is over.
LEMMA AnsweredFits ==
    ASSUME QueryInv, pc = "ask", Answered, asked' \subseteq Askable
    PROVE  QueryInv'
<1>1. /\ Begun /\ result' = "ok" /\ pc' = "idle" /\ heard' = heard \cup {"answer"}
      /\ todo' = {} /\ start' = 1 /\ racing' = 0 /\ out' = 0 /\ errs' = <<>>
      /\ UNCHANGED <<query, mode, at, flags, failingOpen, skipped, silent>>
  BY DEF Answered, Finish, Begun
<1>2. Questions' = Questions /\ DefaultPools(set)' = DefaultPools(set)
  BY <1>1, SameQuestions
<1>3. QueryTypeOK'
  <2>1. asked' \subseteq Questions'
    BY <1>2 DEF Askable
  <2>2. todo' \subseteq Nat /\ start' \in Nat /\ racing' \in Nat /\ out' \in 0..racing' /\ errs' \in Seq(Errors)
    BY <1>1
  <2> QED BY <1>1, <1>2, <2>1, <2>2 DEF QueryInv, QueryTypeOK, query, flags, Outcomes
<1>4. RouteInv'
  <2>1. \A q \in asked' : q[1] \in Here
    BY DEF Askable
  <2>2. Here' = Here
    BY <1>1, <1>2 DEF Here, query
  <2> QED BY <1>1, <2>1, <2>2 DEF QueryInv, RouteInv, Begun, query
<1>5. WalkInv' /\ PoolInv' /\ HeardInv' /\ ServfailIsUnanimous' /\ FailureIsEarned'
  BY <1>1 DEF WalkInv, PoolInv, HeardInv, ServfailIsUnanimous, FailureIsEarned
<1> QED BY <1>3, <1>4, <1>5 DEF QueryInv

\* The pool at work is one of the walk, and what it asks is for this query.
LEMMA AskingFacts ==
    ASSUME QueryInv, pc = "ask"
    PROVE  /\ Begun /\ ~WalkEnded /\ asked \subseteq Askable
           /\ \A k \in todo : <<Pool, Listing[k]>> \in Askable
           /\ todo # {} => NextPlace \in todo
<1>1. Begun /\ ~WalkEnded
  BY DEF QueryInv, PoolInv, WalkEnded, Begun
<1>2. asked \subseteq Askable
  BY DEF QueryInv, QueryTypeOK, RouteInv, Askable
<1>3. \A k \in todo : <<Pool, Listing[k]>> \in Askable
  BY <1>1, PoolFacts DEF QueryInv, PoolInv
<1>4. todo # {} => NextPlace \in todo
  BY NextPlaceIsToDo DEF QueryInv, QueryTypeOK
<1> QED BY <1>1, <1>2, <1>3, <1>4

\* A server of a sequential strategy, or a racer, answers.
LEMMA AnswersFit ==
    ASSUME QueryInv, NextServerAnswers \/ RacerAnswers
    PROVE  QueryInv'
<1>1. pc = "ask" /\ Answered
  BY DEF NextServerAnswers, RacerAnswers
<1>2. asked' \subseteq Askable
  BY <1>1, AskingFacts DEF NextServerAnswers, RacerAnswers
<1> QED BY <1>1, <1>2, AnsweredFits

\* A server fails, and its pool goes on.
LEMMA ErrorFits ==
    ASSUME QueryInv, pc = "ask", NEW e \in Errors,
           heard' = heard \cup {e}, errs' = Append(errs, e),
           asked \subseteq asked', asked' \subseteq Askable,
           todo' \subseteq todo, \A k \in todo : k \in todo' \/ <<Pool, Listing[k]>> \in asked',
           asked' # {}, out' \in 0..racing,
           racing # 0 => out' = out - 1,
           UNCHANGED <<query, pc, mode, at, start, racing, flags, failingOpen, result, skipped, silent>>
    PROVE  QueryInv'
<1>1. /\ Questions' = Questions /\ RightPools' = RightPools /\ DefaultPools(set)' = DefaultPools(set)
      /\ \A i : ServersOf(i)' = ServersOf(i)
  BY SameQuestions
<1>2. /\ set' = set /\ checker' = checker /\ Here' = Here /\ Pool' = Pool /\ Ahead' = Ahead
      /\ Listing' = Listing /\ Askable' = Askable /\ Passed' = Passed
  BY <1>1 DEF query, Here, Pool, Ahead, Listing, Askable, Passed
<1>3. errs' \in Seq(Errors) /\ Len(errs') = Len(errs) + 1 /\ Len(errs) \in Nat
      /\ Range(errs') = Range(errs) \cup {e}
  <2>1. errs \in Seq(Errors)
    BY DEF QueryInv, QueryTypeOK
  <2>2. /\ errs' \in Seq(Errors) /\ Len(errs') = Len(errs) + 1 /\ Len(errs) \in Nat
        /\ DOMAIN errs' = 1..(Len(errs) + 1) /\ DOMAIN errs = 1..Len(errs)
        /\ \A i \in 1..Len(errs) : errs'[i] = errs[i]
        /\ errs'[Len(errs) + 1] = e
    BY <2>1
  <2>3. \A i \in DOMAIN errs' : i \in DOMAIN errs \/ i = Len(errs) + 1
    BY <2>2
  <2>4. DOMAIN errs \subseteq DOMAIN errs' /\ Len(errs) + 1 \in DOMAIN errs'
    BY <2>2
  <2>5. Range(errs') = Range(errs) \cup {e}
    <3> HIDE DEF Range
    <3> QED BY <2>2, <2>3, <2>4 DEF Range
  <2> QED BY <2>2, <2>5
<1>4. QueryTypeOK'
  <2>1. asked' \subseteq Questions /\ heard' \subseteq Errors \cup {"answer"} /\ todo' \subseteq Nat
    BY DEF QueryInv, QueryTypeOK, Askable
  <2> QED BY <1>1, <1>3, <2>1 DEF QueryInv, QueryTypeOK, query, flags
<1>5. RouteInv'
  <2>1. \A q \in asked' : q[1] \in Here
    BY DEF Askable
  <2> QED BY <1>2, <2>1 DEF QueryInv, RouteInv, Begun, query
<1>6. WalkInv'
  BY <1>2 DEF QueryInv, WalkInv, flags
<1>7. PoolInv'
  <2>1. /\ mode # "routed" => Ahead # {}
        /\ todo \subseteq DOMAIN Listing
        /\ \A s \in ServersOf(Pool) :
               <<Pool, s>> \in asked \cup skipped \/ \E k \in todo : Listing[k] = s
        /\ racing # 0 => todo = {} /\ Len(errs) + out = racing
        /\ racing \in Nat /\ out \in Nat
    BY DEF QueryInv, PoolInv, QueryTypeOK
  <2>2. ServersOf(Pool)' = ServersOf(Pool)
    BY <1>1, <1>2 DEF ServersOf
  <2>3. \A s \in ServersOf(Pool) :
            <<Pool, s>> \in asked' \cup skipped' \/ \E k \in todo' : Listing[k] = s
    BY <2>1
  <2>4. racing' # 0 => todo' = {} /\ Len(errs') + out' = racing'
    BY <1>3, <2>1
  <2>5. errs' # <<>>
    BY <1>3
  <2> QED BY <1>2, <2>1, <2>2, <2>3, <2>4, <2>5 DEF PoolInv
<1>8. HeardInv'
  BY <1>3 DEF QueryInv, HeardInv, flags
<1>9. ServfailIsUnanimous' /\ FailureIsEarned'
  BY DEF QueryInv, RouteInv, ServfailIsUnanimous, FailureIsEarned
<1> QED BY <1>4, <1>5, <1>6, <1>7, <1>8, <1>9 DEF QueryInv

\* A server of a sequential strategy, or a racer, fails.
LEMMA FailuresFit ==
    ASSUME QueryInv, NEW e \in Errors, NextServerFails(e) \/ RacerFails(e)
    PROVE  QueryInv'
<1>1. pc = "ask" /\ racing \in Nat /\ out \in 0..racing /\ todo \subseteq Nat
  BY DEF NextServerFails, RacerFails, QueryInv, QueryTypeOK
<1>2. /\ asked \subseteq Askable /\ (todo # {} => NextPlace \in todo)
      /\ \A k \in todo : <<Pool, Listing[k]>> \in Askable
  BY <1>1, AskingFacts
<1>3. racing # 0 => todo = {}
  BY <1>1 DEF QueryInv, PoolInv
<1>4. CASE NextServerFails(e)
  <2>1. /\ asked' = asked \cup {<<Pool, Listing[NextPlace]>>} /\ todo # {}
        /\ todo' = todo \ {NextPlace} /\ out' = out
        /\ heard' = heard \cup {e} /\ errs' = Append(errs, e)
        /\ UNCHANGED <<query, pc, mode, at, start, racing, flags, failingOpen, result, skipped, silent>>
    BY <1>4 DEF NextServerFails
  <2>2. asked' \subseteq Askable /\ asked' # {} /\ asked \subseteq asked'
    BY <1>2, <2>1
  <2>3. \A k \in todo : k \in todo' \/ <<Pool, Listing[k]>> \in asked'
    BY <2>1
  <2>4. todo' \subseteq todo /\ out' \in 0..racing /\ racing = 0
    BY <1>1, <1>3, <2>1
  <2> QED BY <1>1, <2>1, <2>2, <2>3, <2>4, ErrorFits
<1>5. CASE RacerFails(e)
  <2>1. /\ out > 0 /\ out' = out - 1 /\ heard' = heard \cup {e} /\ errs' = Append(errs, e)
        /\ UNCHANGED <<todo, asked>>
        /\ UNCHANGED <<query, pc, mode, at, start, racing, flags, failingOpen, result, skipped, silent>>
    BY <1>5 DEF RacerFails
  <2>2. racing # 0 /\ todo = {} /\ out' \in 0..racing
    BY <1>1, <1>3, <2>1
  <2>3. asked # {}
    BY <1>1, <2>2 DEF QueryInv, PoolInv
  <2>4. asked \subseteq asked' /\ asked' \subseteq Askable /\ asked' # {} /\ todo' \subseteq todo
        /\ \A k \in todo : k \in todo' \/ <<Pool, Listing[k]>> \in asked'
    BY <1>2, <2>1, <2>2, <2>3
  <2> QED BY <1>1, <2>1, <2>2, <2>4, ErrorFits
<1> QED BY <1>4, <1>5

\* A pool that failed: a routed name fails with it, the walk goes on with the next,
\* and a failure that reads as SERVFAIL is one of every server.
LEMMA PoolFailsFits ==
    ASSUME QueryInv, pc = "ask", todo = {}, NEW e \in Errors \cup {"all_servfail", "unreachable"},
           PoolFails(e), silent' \in BOOLEAN,
           e \in {"servfail", "all_servfail"} =>
               silent' = silent /\ errs # <<>> /\ Range(errs) = {"servfail"}
    PROVE  QueryInv'
<1> DEFINE servfail == e \in {"servfail", "all_servfail"}
<1>1. /\ Begun /\ ~WalkEnded /\ asked \subseteq Askable /\ asked # {}
      /\ UNCHANGED <<query, mode, anyHealthy, failingOpen, asked, skipped, heard>>
      /\ todo' = {} /\ start' = 1 /\ racing' = 0 /\ out' = 0 /\ errs' = <<>>
  BY AskingFacts DEF PoolFails, QueryInv, PoolInv
<1>2. Questions' = Questions /\ RightPools' = RightPools /\ DefaultPools(set)' = DefaultPools(set)
  BY <1>1, SameQuestions
<1>3. Here' = Here /\ RightPools = Here /\ Askable' = Askable
  BY <1>1, <1>2, HereIsRight DEF QueryInv, Here, Askable, query
<1>4. \A s \in ServersOf(Pool) : <<Pool, s>> \in asked \cup skipped
  BY DEF QueryInv, PoolInv
<1>5. todo' \subseteq Nat /\ start' \in Nat /\ racing' \in Nat /\ out' \in 0..racing' /\ errs' \in Seq(Errors)
      /\ Range(errs') = {}
  BY <1>1 DEF Range
<1>6. \A q \in asked' : q[1] \in Here'
  BY <1>1, <1>3 DEF Askable
<1>7. PoolInv' <=> (pc' # "ask")
  BY <1>1 DEF PoolInv
<1>8. servfail /\ allServfail => heard = {"servfail"} /\ ~silent'
  <2> SUFFICES ASSUME servfail, allServfail PROVE heard = {"servfail"} /\ ~silent'
    OBVIOUS
  <2>1. Range(errs) \subseteq heard /\ heard \subseteq {"servfail"} \cup Range(errs) /\ ~silent
    BY DEF QueryInv, HeardInv
  <2> QED BY <2>1
<1>9. CASE ~FallsThrough(e) \/ mode = "routed"
  <2>1. /\ pc' = "idle" /\ UNCHANGED <<at, anyTried, allServfail>>
        /\ result' \in {"invalid", "all_servfail", "unreachable"}
        /\ result' = "all_servfail" => mode = "routed" /\ servfail
        /\ result' \in {"all_servfail", "unreachable"} => mode = "routed"
    BY <1>9 DEF PoolFails, FallsThrough, Finish
  <2>2. QueryTypeOK'
    BY <1>1, <1>2, <1>5, <2>1 DEF QueryInv, QueryTypeOK, query, Outcomes
  <2>3. RouteInv'
    BY <1>1, <1>3, <1>6, <2>1 DEF QueryInv, RouteInv, Begun, query
  <2>4. WalkInv' /\ HeardInv' /\ PoolInv'
    BY <1>7, <2>1 DEF WalkInv, HeardInv
  <2>5. ServfailIsUnanimous'
    <3>1. mode = "routed" => allServfail
      BY DEF QueryInv, HeardInv
    <3> QED BY <1>1, <1>8, <2>1, <3>1 DEF ServfailIsUnanimous
  <2>6. FailureIsEarned'
    <3>1. CASE mode = "routed"
      <4>1. \A q \in Askable : \E s \in ServersOf(Pool) : q = <<Pool, s>>
        BY <1>1, <3>1, PoolFacts DEF QueryInv, Askable, Here, Pool
      <4>2. Askable \subseteq asked \cup skipped
        BY <1>4, <4>1
      <4> QED BY <1>1, <1>2, <1>3, <4>2 DEF FailureIsEarned, Askable
    <3>2. CASE mode # "routed"
      BY <2>1, <3>2 DEF FailureIsEarned
    <3> QED BY <3>1, <3>2
  <2> QED BY <2>2, <2>3, <2>4, <2>5, <2>6 DEF QueryInv
<1>10. CASE FallsThrough(e) /\ mode # "routed"
  <2>1. /\ pc' = "look" /\ at' = Pool + 1 /\ anyTried' = TRUE /\ result' = result
        /\ allServfail' = (allServfail /\ servfail)
    BY <1>10 DEF PoolFails
  <2>2. /\ at' \in 1..(Len(set) + 1)
        /\ \A q \in Passed' : q \in Passed \/ \E s \in ServersOf(Pool) : q = <<Pool, s>>
    BY <1>1, <1>10, <2>1, PassFacts DEF QueryInv
  <2>3. QueryTypeOK'
    BY <1>1, <1>2, <1>5, <2>1, <2>2 DEF QueryInv, QueryTypeOK, query
  <2>4. RouteInv'
    BY <1>1, <1>3, <1>6, <2>1 DEF QueryInv, RouteInv, Begun, query
  <2>5. WalkInv'
    <3>1. CASE mode = "default"
      <4>1. Passed \subseteq asked \cup skipped /\ anyHealthy /\ (~checker => skipped = {})
        BY <3>1 DEF QueryInv, WalkInv
      <4>2. Passed' \subseteq asked \cup skipped
        BY <1>4, <2>2, <4>1
      <4> QED BY <1>1, <2>1, <3>1, <4>1, <4>2 DEF WalkInv, query
    <3>2. CASE mode = "open"
      <4>1. failingOpen /\ Askable \subseteq skipped /\ (~checker => skipped = {})
        BY <3>2 DEF QueryInv, WalkInv
      <4> QED BY <1>1, <1>3, <2>1, <3>2, <4>1 DEF WalkInv, query
    <3> QED BY <1>10, <3>1, <3>2 DEF QueryInv, QueryTypeOK
  <2>6. HeardInv'
    <3>1. heard \subseteq Errors
      BY DEF QueryInv, HeardInv
    <3> QED BY <1>1, <1>5, <1>8, <1>10, <2>1, <3>1 DEF HeardInv
  <2>7. PoolInv' /\ ServfailIsUnanimous' /\ FailureIsEarned'
    BY <1>7, <2>1 DEF QueryInv, RouteInv, ServfailIsUnanimous, FailureIsEarned
  <2> QED BY <2>3, <2>4, <2>5, <2>6, <2>7 DEF QueryInv
<1> QED BY <1>9, <1>10

\* Every server of the pool has failed, or its racers ran out of time.
LEMMA PoolsFailFit ==
    ASSUME QueryInv, PoolExhausted \/ RaceTimesOut
    PROVE  QueryInv'
<1>1. CASE PoolExhausted
  <2>1. pc = "ask" /\ todo = {} /\ out = 0 /\ PoolFails(StrategyError) /\ silent' = silent
    BY <1>1 DEF PoolExhausted
  <2>2. /\ StrategyError \in Errors \cup {"all_servfail", "unreachable"}
        /\ StrategyError \in {"servfail", "all_servfail"} => errs # <<>> /\ Range(errs) = {"servfail"}
    BY <2>1, StrategyErrorFacts DEF QueryInv
  <2>3. silent' \in BOOLEAN
    BY <2>1 DEF QueryInv, QueryTypeOK
  <2> QED BY <2>1, <2>2, <2>3, PoolFailsFits
<1>2. CASE RaceTimesOut
  <2>1. pc = "ask" /\ racing > 1 /\ PoolFails("transport") /\ silent' = TRUE
    BY <1>2 DEF RaceTimesOut
  <2>2. todo = {}
    BY <2>1 DEF QueryInv, QueryTypeOK, PoolInv
  <2>3. "transport" \in Errors
    BY DEF Errors
  <2> QED BY <2>1, <2>2, <2>3, PoolFailsFits
<1> QED BY <1>1, <1>2

(***************************************************************************)
(* The theorems                                                            *)
(***************************************************************************)

\* What a query knows of its walk is an invariant: of every step of every strategy,
\* with any verdicts of the checker in between.
THEOREM QueryInvariant == QuerySpec => []QueryInv
<1>1. ASSUME QueryInv, [QueryNext]_queryVars PROVE QueryInv'
  <2>1. ASSUME NEW n \in Names, NEW g \in Groups \cup {NoGroup}, Begin(n, g) PROVE QueryInv'
    BY <1>1, <2>1, BeginFits
  <2>2. ASSUME NEW H, LookRouted(H) \/ LookHealthy(H) \/ SkipPool(H) PROVE QueryInv'
    BY <1>1, <2>2, LookRoutedFits, LookHealthyFits, SkipPoolFits
  <2>3. CASE FailOpen \/ LookOpen \/ EndWalk
    BY <1>1, <2>3, FailOpenFits, LookOpenFits, EndWalkFits
  <2>4. CASE NextServerAnswers \/ RacerAnswers
    BY <1>1, <2>4, AnswersFit
  <2>5. ASSUME NEW e \in Errors, NextServerFails(e) \/ RacerFails(e) PROVE QueryInv'
    BY <1>1, <2>5, FailuresFit
  <2>6. CASE PoolExhausted \/ RaceTimesOut
    BY <1>1, <2>6, PoolsFailFit
  <2>7. CASE UNCHANGED queryVars
    <3>1. UNCHANGED query
      BY <2>7 DEF queryVars
    <3>2. /\ Questions' = Questions /\ RightPools' = RightPools /\ DefaultPools(set)' = DefaultPools(set)
          /\ \A i : ServersOf(i)' = ServersOf(i)
      BY <3>1, SameQuestions
    <3>3. /\ Here' = Here /\ Pool' = Pool /\ Ahead' = Ahead /\ Listing' = Listing
          /\ Askable' = Askable /\ Passed' = Passed /\ Begun' = Begun
      BY <2>7, <3>2 DEF queryVars, query, Here, Pool, Ahead, Listing, Askable, Passed, Begun
    <3>4. QueryTypeOK' /\ RouteInv' /\ WalkInv'
      BY <1>1, <2>7, <3>2, <3>3 DEF QueryInv, QueryTypeOK, RouteInv, WalkInv, queryVars, query, flags, history
    <3>5. PoolInv' /\ HeardInv' /\ ServfailIsUnanimous' /\ FailureIsEarned'
      BY <1>1, <2>7, <3>2, <3>3 DEF QueryInv, PoolInv, HeardInv, ServfailIsUnanimous, FailureIsEarned,
                                    queryVars, query, flags, history, ServersOf, Range
    <3> QED BY <3>4, <3>5 DEF QueryInv
  <2> QED BY <1>1, <2>1, <2>2, <2>3, <2>4, <2>5, <2>6, <2>7 DEF QueryNext
<1> QED BY <1>1, QueryStarts, PTL DEF QuerySpec

\* A query asks only the pool its name and group choose, or else the default ones;
\* it reports SERVFAIL only if every server said so, fails only once every server
\* it may ask was asked or was out of rotation, and asks servers out of rotation
\* only when the walk saw none in it (query_for, query_routed, query_default).
THEOREM WalksAreSound == QuerySpec => []WalkIsSound
<1>1. QueryInv => WalkIsSound
  <2> SUFFICES ASSUME QueryInv PROVE WalkIsSound
    OBVIOUS
  <2>1. Begun => RightPools = Here
    BY HereIsRight DEF QueryInv
  <2>2. AskedWhereRouted
    BY <2>1 DEF QueryInv, RouteInv, AskedWhereRouted
  <2>3. OpenOnlyWhenNoneHealthy
    BY <2>1 DEF QueryInv, WalkInv, OpenOnlyWhenNoneHealthy, Askable, Begun
  <2> QED BY <2>2, <2>3 DEF QueryInv, WalkIsSound
<1> QED BY <1>1, QueryInvariant, PTL

=============================================================================
