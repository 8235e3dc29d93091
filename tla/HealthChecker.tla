--------------------------- MODULE HealthChecker ---------------------------
(***************************************************************************)
(* The upstream health checker                                             *)
(* (crates/infrastructure/src/dns/load_balancer/health.rs): the periodic   *)
(* probe loop, the first round that is spawned beside it, and the verdicts *)
(* that decide which servers are in rotation.                              *)
(*                                                                         *)
(* The probes of a round run concurrently and each ends by its answer or   *)
(* its timeout; a server listed twice is probed twice.  A pool reload may  *)
(* change the list at any time, also while probes are out.                 *)
(***************************************************************************)
EXTENDS Naturals, Sequences, FiniteSets

CONSTANTS
    Servers,
    Listings,          \* what the pools may list: sequences of servers
    FailureThreshold, SuccessThreshold,
    CounterMax,        \* where the counters saturate: u16::MAX in the code
    MaxFlips,          \* bound: servers going up or down
    MaxReloads         \* bound: reloads

ASSUME HealthAssumption ==
    /\ Listings # {} /\ Listings \subseteq Seq(Servers)
    /\ FailureThreshold \in 0..CounterMax /\ SuccessThreshold \in 0..CounterMax
    /\ CounterMax \in Nat /\ MaxFlips \in Nat /\ MaxReloads \in Nat

VARIABLES
    health,    \* health_map
    listing,   \* what the live pools list
    probing,   \* the probes each round has out
    up,        \* whether each server answers
    recent,    \* history: the last results written to each entry, the latest first
    flips, reloads  \* the bounds' counters

vars == <<health, listing, probing, up, recent, flips, reloads>>

Rounds == {"initial", "loop"}
Listed == {listing[i] : i \in DOMAIN listing}

NoHealth == [status |-> "none", failures |-> 0, successes |-> 0]
Unknown  == [status |-> "unknown", failures |-> 0, successes |-> 0]

\* One probe for each listed server; it may be answered as the server was at any
\* time since it was sent.
ProbesOf(l) == {[server |-> l[i], at |-> i, seen |-> {up[l[i]]}] : i \in DOMAIN l}

Init ==
    /\ health = [s \in Servers |-> NoHealth]
    /\ listing \in Listings
    /\ up \in [Servers -> BOOLEAN]
    /\ probing = [r \in Rounds |-> IF r = "initial" THEN ProbesOf(listing) ELSE {}]
    /\ recent = [s \in Servers |-> <<>>]
    /\ flips = 0 /\ reloads = 0

\* The loop's next round: retain_live, then check_all.
Tick ==
    /\ probing["loop"] = {}
    /\ health' = [s \in Servers |-> IF s \in Listed THEN health[s] ELSE NoHealth]
    /\ recent' = [s \in Servers |-> IF s \in Listed THEN recent[s] ELSE <<>>]
    /\ probing' = [probing EXCEPT !["loop"] = ProbesOf(listing)]
    /\ UNCHANGED <<listing, up, flips, reloads>>

Saturating(n) == IF n < CounterMax THEN n + 1 ELSE n
OrDefault(h)  == IF h = NoHealth THEN Unknown ELSE h

MarkHealthy(s) ==
    LET n == Saturating(OrDefault(health[s]).successes)
    IN  [status    |-> IF n >= SuccessThreshold THEN "healthy" ELSE OrDefault(health[s]).status,
         failures  |-> 0,
         successes |-> n]

\* Mutant: a failure leaves the run of successes.
MarkFailedKeepsSuccesses(s) ==
    LET n == Saturating(OrDefault(health[s]).failures)
    IN  [status    |-> IF n >= FailureThreshold THEN "unhealthy" ELSE OrDefault(health[s]).status,
         failures  |-> n,
         successes |-> OrDefault(health[s]).successes]

\* Mutant: off by one.
MarkFailedLate(s) ==
    LET n == Saturating(OrDefault(health[s]).failures)
    IN  [status    |-> IF n > FailureThreshold THEN "unhealthy" ELSE OrDefault(health[s]).status,
         failures  |-> n,
         successes |-> 0]

MarkFailed(s) ==
    LET n == Saturating(OrDefault(health[s]).failures)
    IN  [status    |-> IF n >= FailureThreshold THEN "unhealthy" ELSE OrDefault(health[s]).status,
         failures  |-> n,
         successes |-> 0]

Least(m, n) == IF m < n THEN m ELSE n
Most(m, n)  == IF m < n THEN n ELSE m
Memory == Most(1, Most(FailureThreshold, SuccessThreshold))

\* check_server ends.
Probed(r, p) ==
    /\ p \in probing[r]
    /\ \E answered \in p.seen :
           /\ health' = [health EXCEPT ![p.server] = IF answered THEN MarkHealthy(p.server)
                                                     ELSE MarkFailed(p.server)]
           /\ recent' = [recent EXCEPT ![p.server] =
                             SubSeq(<<answered>> \o @, 1, Least(Len(@) + 1, Memory))]
    /\ probing' = [probing EXCEPT ![r] = @ \ {p}]
    /\ UNCHANGED <<listing, up, flips, reloads>>

\* PoolManager::apply, which the next tick reads.
Reload(l) ==
    /\ reloads < MaxReloads /\ l # listing
    /\ reloads' = reloads + 1
    /\ listing' = l
    /\ UNCHANGED <<health, probing, up, recent, flips>>

\* A server goes down or comes back.
Flip(s) ==
    /\ flips < MaxFlips
    /\ flips' = flips + 1
    /\ up' = [up EXCEPT ![s] = ~@]
    /\ probing' = [r \in Rounds |->
                      {IF p.server = s THEN [p EXCEPT !.seen = BOOLEAN] ELSE p : p \in probing[r]}]
    /\ UNCHANGED <<health, listing, recent, reloads>>

ProbeEnds == \E r \in Rounds : \E p \in probing[r] : Probed(r, p)

Next ==
    \/ Tick
    \/ ProbeEnds
    \/ \E l \in Listings : Reload(l)
    \/ \E s \in Servers : Flip(s)

\* The interval keeps ticking, and a timeout ends every probe.
Spec == Init /\ [][Next]_vars /\ WF_vars(Tick) /\ WF_vars(ProbeEnds)

(***************************************************************************)
(* Properties                                                              *)
(***************************************************************************)

\* A server is in rotation unless it is known to be unhealthy.
IsHealthy(s) == health[s].status # "unhealthy"

Probes == [server : Servers, at : Nat \ {0}, seen : SUBSET BOOLEAN]

TypeOK ==
    /\ health \in [Servers -> [status : {"none", "unknown", "healthy", "unhealthy"},
                               failures : 0..CounterMax, successes : 0..CounterMax]]
    /\ listing \in Listings
    /\ probing \in [Rounds -> SUBSET Probes]
    /\ up \in [Servers -> BOOLEAN]
    /\ recent \in [Servers -> Seq(BOOLEAN)]
    /\ flips \in 0..MaxFlips /\ reloads \in 0..MaxReloads

\* The last n results written to the entry of s are all r; a threshold of 0 takes
\* one result like a threshold of 1.
RunOf(s, n, r) ==
    /\ Len(recent[s]) >= Most(1, n)
    /\ \A i \in 1..Most(1, n) : recent[s][i] = r

\* "a server leaves only after failure_threshold failures" in a row and comes back
\* only after success_threshold answers in a row, or with its entry gone: one lost
\* probe never takes a server out and one answer never brings it back, whichever
\* of its rounds wrote the results.
RunsDecide ==
    [][\A s \in Servers :
           /\ IsHealthy(s) /\ ~IsHealthy(s)' => RunOf(s, FailureThreshold, FALSE)'
           /\ ~IsHealthy(s) /\ IsHealthy(s)' =>
                  RunOf(s, SuccessThreshold, TRUE)' \/ s \notin Listed]_vars

\* And such a run does decide: no server stays in rotation through a full run of
\* failures, nor out of it through a full run of answers.
VerdictFollowsRuns ==
    /\ TypeOK
    /\ \A s \in Servers :
           /\ RunOf(s, FailureThreshold, FALSE) => ~IsHealthy(s)
           /\ RunOf(s, SuccessThreshold, TRUE) => IsHealthy(s)

\* "removed upstreams stop being reported as healthy/unhealthy": a server that a
\* reload took away loses its entry, even one that a late probe wrote again.
RemovedAreForgotten ==
    \A s \in Servers : s \notin Listed ~> health[s] = NoHealth \/ s \in Listed

\* The rotation follows the servers: one that stays up and listed is in rotation in
\* the end, one that stays down and listed is out of it, and one that a reload took
\* away is forgotten; but only full runs of results move a server.
RotationFollows ==
    /\ RunsDecide /\ RemovedAreForgotten
    /\ \A s \in Servers :
           /\ <>[](s \in Listed /\ up[s]) => <>[]IsHealthy(s)
           /\ <>[](s \in Listed /\ ~up[s]) => <>[]~IsHealthy(s)

=============================================================================
