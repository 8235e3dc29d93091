---------------------------- MODULE UpstreamQuery ----------------------------
(***************************************************************************)
(* How a query finds an upstream server: the conditional pool routed for   *)
(* its name and client group, or the walk over the default pools by        *)
(* priority, failing open when no server is marked healthy                 *)
(* (crates/infrastructure/src/dns/load_balancer: pool.rs, routes.rs,       *)
(* failover.rs, balanced.rs, parallel.rs, query.rs).                       *)
(*                                                                         *)
(* One query runs over one snapshot of the pools, so queries meet only in  *)
(* failing_open; they come one after the other here.  The health checker   *)
(* (module HealthChecker) runs beside it: whenever the query looks at a    *)
(* pool, any of its servers may be in rotation.  A name is the sequence of *)
(* its labels, the top-level one first.                                    *)
(***************************************************************************)
EXTENDS Naturals, Sequences, FiniteSets, Functions

CONSTANTS
    PoolSets,   \* the pool sets to try, each a sequence by priority
    Names,      \* the names asked for
    Groups,     \* client group ids
    NoGroup     \* a client outside every group

Strategies == {"parallel", "failover", "balanced"}

IsSeq(s) == s \in Seq(Range(s))

\* validate_pool_routes: a routed domain has a label, and some pool is for every
\* other name.
ASSUME UpstreamQueryAssumption ==
    /\ NoGroup \notin Groups
    /\ \A n \in Names : IsSeq(n)
    /\ \A ps \in PoolSets :
           /\ IsSeq(ps) /\ \E i \in DOMAIN ps : ps[i].domains = {}
           /\ \A i \in DOMAIN ps :
                  /\ IsSeq(ps[i].servers) /\ ps[i].strategy \in Strategies
                  /\ \A d \in ps[i].domains : IsSeq(d) /\ d # <<>>

VARIABLES
    set,        \* the snapshot
    checker,    \* whether there is a health checker
    pc, name, group,
    route,      \* the routed pool, 0 for none
    mode,       \* "routed", "default", or "open" once the walk fails open
    at,         \* the walk has come to the default pools from here on
    todo,       \* where in its pool are the servers a sequential strategy has yet to ask
    start,      \* where in the pool it started
    racing,     \* how many servers a parallel one asked, 0 for a sequential one
    out,        \* how many of them it still waits for
    errs,       \* the errors of this pool's servers, in order
    anyHealthy, anyTried, allServfail,
    failingOpen,
    result,
    asked,      \* history: pool and server of every question sent
    skipped,    \* history: pool and server seen out of rotation
    heard,      \* history: the replies
    silent      \* history: a timeout left a server unheard

flags == <<anyHealthy, anyTried, allServfail>>
history == <<asked, skipped, heard, silent>>
query == <<set, checker, name, group, route>>
queryVars == <<query, pc, mode, at, todo, start, racing, out, errs, flags, failingOpen, result, history>>

(***************************************************************************)
(* routes.rs                                                               *)
(***************************************************************************)

Prefix(d, k) == SubSeq(d, 1, k)

RoutedDomains(ps) == UNION {ps[i].domains : i \in DOMAIN ps}

\* by_domain holds each routed domain and its parents.
ByDomain(ps) == UNION {{Prefix(d, k) : k \in 1..Len(d)} : d \in RoutedDomains(ps)}

First(S) == CHOOSE i \in S : \A j \in S : i <= j
Last(S)  == CHOOSE i \in S : \A j \in S : j <= i

\* The pools that claim a domain for a group, or for every client.
ClaimsFor(ps, d, g) == {i \in DOMAIN ps : d \in ps[i].domains /\ g \in ps[i].groups}
ClaimsForAll(ps, d) == {i \in DOMAIN ps : d \in ps[i].domains /\ ps[i].groups = {}}

\* DomainRoutes::matching; 0 for none.
Matching(ps, d, g) ==
    IF ClaimsFor(ps, d, g) # {} THEN First(ClaimsFor(ps, d, g))
    ELSE IF ClaimsForAll(ps, d) # {} THEN First(ClaimsForAll(ps, d)) ELSE 0

\* PoolRoutes::lookup: from the top-level label down, until a suffix the map does
\* not hold; the deepest match wins.
Lookup(ps, n, g) ==
    LET depths == {k \in 1..Len(n) : \A j \in 1..k : Prefix(n, j) \in ByDomain(ps)}
        found  == {k \in depths : Matching(ps, Prefix(n, k), g) # 0}
    IN  IF found = {} THEN 0 ELSE Matching(ps, Prefix(n, Last(found)), g)

\* Pools without domains; a pool set is in priority order.
DefaultPools(ps) == {i \in DOMAIN ps : ps[i].domains = {}}

(***************************************************************************)
(* The state of a query                                                    *)
(***************************************************************************)

QueryInit ==
    /\ set \in PoolSets /\ checker \in BOOLEAN
    /\ pc = "idle" /\ name \in Names /\ group = NoGroup /\ route = 0
    /\ mode = "default" /\ at = 1
    /\ todo = {} /\ start = 1 /\ racing = 0 /\ out = 0 /\ errs = <<>>
    /\ anyHealthy = FALSE /\ anyTried = FALSE /\ allServfail = TRUE
    /\ failingOpen = FALSE
    /\ result = "none"
    /\ asked = {} /\ skipped = {} /\ heard = {} /\ silent = FALSE

\* query_for, up to the pools.
Begin(n, g) ==
    /\ pc = "idle"
    /\ name' = n /\ group' = g
    /\ route' = Lookup(set, n, g)
    /\ mode' = IF route' # 0 THEN "routed" ELSE "default"
    /\ at' = 1
    /\ anyHealthy' = FALSE /\ anyTried' = FALSE /\ allServfail' = TRUE
    /\ asked' = {} /\ skipped' = {} /\ heard' = {} /\ silent' = FALSE
    /\ result' = "none"
    /\ pc' = "look"
    /\ UNCHANGED <<set, checker, todo, start, racing, out, errs, failingOpen>>

Ahead == {i \in DefaultPools(set) : i >= at}
Pool == IF mode = "routed" THEN route ELSE First(Ahead)
Listing == set[Pool].servers
ServersOf(i) == Range(set[i].servers)
WalkEnded == mode # "routed" /\ Ahead = {}

Finish(r) == result' = r /\ pc' = "idle"

\* all_servers_failed of a list of errors.
AllServersFailed(es) ==
    IF \A i \in DOMAIN es : es[i] \in {"servfail", "all_servfail"}
    THEN "all_servfail" ELSE "unreachable"

\* Strategy::query_refs begins with the servers at places C of the pool; where a
\* balanced pool starts depends on the queries before.
Ask(C) ==
    /\ \/ /\ set[Pool].strategy = "parallel"
          /\ racing' = Cardinality(C) /\ out' = Cardinality(C) /\ todo' = {} /\ start' = 1
          /\ asked' = asked \cup {<<Pool, Listing[k]>> : k \in C}
       \/ /\ set[Pool].strategy = "failover" /\ todo' = C /\ start' = 1
          /\ racing' = 0 /\ out' = 0 /\ UNCHANGED asked
       \/ /\ set[Pool].strategy = "balanced" /\ todo' = C /\ start' \in C
          /\ racing' = 0 /\ out' = 0 /\ UNCHANGED asked
    /\ errs' = <<>>
    /\ pc' = "ask"

\* The next server of a sequential strategy: on from the start, and around.
NextPlace ==
    LET onward == {k \in todo : k >= start} IN First(IF onward = {} THEN todo ELSE onward)

\* healthy_servers: those the checker has in rotation just now, or all of them
\* where there is no checker.
Verdicts == IF checker THEN SUBSET ServersOf(Pool) ELSE {ServersOf(Pool)}
Chosen(H) == {k \in DOMAIN Listing : Listing[k] \in H}

\* query_routed: fails open within the pool.
LookRouted(H) ==
    /\ pc = "look" /\ mode = "routed" /\ H \in Verdicts
    /\ LET C == IF Chosen(H) = {} THEN DOMAIN Listing ELSE Chosen(H)
       IN  IF C = {}
           THEN Finish("unreachable") /\ UNCHANGED <<todo, start, racing, out, errs, asked>>
           ELSE Ask(C) /\ UNCHANGED result
    /\ skipped' = IF Chosen(H) = {} THEN {} ELSE {<<Pool, s>> : s \in ServersOf(Pool) \ H}
    /\ UNCHANGED <<query, mode, at, flags, failingOpen, heard, silent>>

\* query_default: a pool with servers in rotation.
LookHealthy(H) ==
    /\ pc = "look" /\ mode = "default" /\ ~WalkEnded
    /\ H \in Verdicts /\ Chosen(H) # {}
    /\ anyHealthy' = TRUE
    /\ failingOpen' = (anyHealthy /\ failingOpen)
    /\ Ask(Chosen(H))
    /\ skipped' = skipped \cup {<<Pool, s>> : s \in ServersOf(Pool) \ H}
    /\ UNCHANGED <<query, mode, at, anyTried, allServfail, result, heard, silent>>

SkipPool(H) ==
    /\ pc = "look" /\ mode = "default" /\ ~WalkEnded
    /\ H \in Verdicts /\ Chosen(H) = {}
    /\ skipped' = skipped \cup {<<Pool, s>> : s \in ServersOf(Pool)}
    /\ at' = Pool + 1
    /\ UNCHANGED <<query, pc, mode, todo, start, racing, out, errs, flags, failingOpen, result,
                   asked, heard, silent>>

FailOpen ==
    /\ pc = "look" /\ mode = "default" /\ WalkEnded
    /\ ~anyHealthy /\ checker
    /\ failingOpen' = TRUE
    /\ mode' = "open" /\ at' = 1
    /\ UNCHANGED <<query, pc, todo, start, racing, out, errs, flags, result, history>>

\* The second walk asks every server.
LookOpen ==
    /\ pc = "look" /\ mode = "open" /\ ~WalkEnded
    /\ IF DOMAIN Listing = {}
       THEN at' = Pool + 1 /\ UNCHANGED <<pc, todo, start, racing, out, errs, asked>>
       ELSE Ask(DOMAIN Listing) /\ UNCHANGED at
    /\ UNCHANGED <<query, mode, flags, failingOpen, result, skipped, heard, silent>>

EndWalk ==
    /\ pc = "look" /\ WalkEnded
    /\ mode = "default" => anyHealthy \/ ~checker
    /\ Finish(IF anyTried /\ allServfail THEN "all_servfail" ELSE "unreachable")
    /\ UNCHANGED <<query, mode, at, todo, start, racing, out, errs, flags, failingOpen, history>>

(***************************************************************************)
(* query_server: an answer (NOERROR, NXDOMAIN), a reply that declines      *)
(* (SERVFAIL or another code), a failure of the transport, or a reply that *)
(* does not parse.                                                         *)
(***************************************************************************)

Errors == {"servfail", "refused", "transport", "invalid"}

Answered ==
    /\ heard' = heard \cup {"answer"}
    /\ Finish("ok")
    /\ todo' = {} /\ start' = 1 /\ racing' = 0 /\ out' = 0 /\ errs' = <<>>
    /\ UNCHANGED <<query, mode, at, flags, failingOpen, skipped, silent>>

\* Failover and balanced: the next server answers or fails.
NextServerAnswers ==
    /\ pc = "ask" /\ todo # {}
    /\ asked' = asked \cup {<<Pool, Listing[NextPlace]>>}
    /\ Answered

NextServerFails(e) ==
    /\ pc = "ask" /\ todo # {}
    /\ asked' = asked \cup {<<Pool, Listing[NextPlace]>>}
    /\ heard' = heard \cup {e}
    /\ errs' = Append(errs, e) /\ todo' = todo \ {NextPlace}
    /\ UNCHANGED <<query, pc, mode, at, start, racing, out, flags, failingOpen, result, skipped, silent>>

\* Parallel: one of the servers answers or fails.
RacerAnswers ==
    /\ pc = "ask" /\ out > 0
    /\ Answered /\ UNCHANGED asked

RacerFails(e) ==
    /\ pc = "ask" /\ out > 0
    /\ heard' = heard \cup {e}
    /\ errs' = Append(errs, e) /\ out' = out - 1
    /\ UNCHANGED <<query, pc, mode, at, todo, start, racing, flags, failingOpen, result, asked,
                   skipped, silent>>

\* Mutant: one SERVFAIL of the two is enough.
PairFailureLast(first, second) == IF second = "servfail" THEN "all_servfail" ELSE second

\* pair_failure.
PairFailure(first, second) ==
    IF first = "servfail" /\ second = "servfail" THEN "all_servfail"
    ELSE IF second = "servfail" THEN "unreachable" ELSE second

\* What the strategy returns: one racer its own error, two the second's.
StrategyError ==
    CASE racing = 1 -> errs[1]
      [] racing = 2 -> PairFailure(errs[1], errs[2])
      [] OTHER -> AllServersFailed(errs)

\* PoolWithStrategy::query: what a lower-priority pool might still answer.
FallsThrough(e) == e # "invalid"

\* A failed pool: the walk goes on with the next, and a routed name fails.
PoolFails(e) ==
    /\ LET servfail == e \in {"servfail", "all_servfail"}
       IN  IF ~FallsThrough(e) THEN Finish(e) /\ UNCHANGED <<at, anyTried, allServfail>>
           ELSE IF mode = "routed"
                THEN /\ Finish(IF servfail THEN "all_servfail" ELSE "unreachable")
                     /\ UNCHANGED <<at, anyTried, allServfail>>
                ELSE /\ pc' = "look" /\ at' = Pool + 1
                     /\ anyTried' = TRUE /\ allServfail' = (allServfail /\ servfail)
                     /\ UNCHANGED result
    /\ todo' = {} /\ start' = 1 /\ racing' = 0 /\ out' = 0 /\ errs' = <<>>
    /\ UNCHANGED <<query, mode, anyHealthy, failingOpen, asked, skipped, heard>>

\* Every server of the pool has failed.
PoolExhausted ==
    /\ pc = "ask" /\ todo = {} /\ out = 0
    /\ PoolFails(StrategyError)
    /\ UNCHANGED silent

\* The timeout around two racers or more.
RaceTimesOut ==
    /\ pc = "ask" /\ out > 0 /\ racing > 1
    /\ silent' = TRUE
    /\ PoolFails("transport")

QueryNext ==
    \/ \E n \in Names, g \in Groups \cup {NoGroup} : Begin(n, g)
    \/ \E H \in SUBSET (UNION {ServersOf(i) : i \in DOMAIN set}) :
           LookRouted(H) \/ LookHealthy(H) \/ SkipPool(H)
    \/ FailOpen \/ LookOpen \/ EndWalk
    \/ NextServerAnswers \/ \E e \in Errors : NextServerFails(e)
    \/ RacerAnswers \/ \E e \in Errors : RacerFails(e)
    \/ PoolExhausted \/ RaceTimesOut

QuerySpec == QueryInit /\ [][QueryNext]_queryVars

(***************************************************************************)
(* Properties                                                              *)
(***************************************************************************)

AllServers == UNION {ServersOf(i) : i \in DOMAIN set}
Questions  == {q \in (DOMAIN set) \X AllServers : q[2] \in ServersOf(q[1])}
Outcomes   == {"none", "ok", "all_servfail", "unreachable", "invalid"}

QueryTypeOK ==
    /\ set \in PoolSets /\ checker \in BOOLEAN
    /\ pc \in {"idle", "look", "ask"}
    /\ name \in Names /\ group \in Groups \cup {NoGroup}
    /\ route \in 0..Len(set) /\ mode \in {"routed", "default", "open"}
    /\ at \in 1..(Len(set) + 1)
    /\ todo \subseteq Nat /\ start \in Nat /\ racing \in Nat /\ out \in 0..racing
    /\ errs \in Seq(Errors)
    /\ anyHealthy \in BOOLEAN /\ anyTried \in BOOLEAN /\ allServfail \in BOOLEAN
    /\ failingOpen \in BOOLEAN /\ silent \in BOOLEAN
    /\ result \in Outcomes
    /\ asked \subseteq Questions /\ skipped \subseteq Questions
    /\ heard \subseteq Errors \cup {"answer"}

\* Whether pool i claims the name, through its domain d, for the client.
Claims(i, d) ==
    /\ d \in set[i].domains
    /\ Len(d) <= Len(name) /\ d = Prefix(name, Len(d))
    /\ set[i].groups = {} \/ group \in set[i].groups

\* Whether that is a better claim than another: a more specific domain, or for the
\* client's own group at the same one, or from a pool before.
Beats(i, d, j, e) ==
    \/ Len(d) > Len(e)
    \/ Len(d) = Len(e) /\ set[i].groups # {} /\ set[j].groups = {}
    \/ Len(d) = Len(e) /\ (set[i].groups = {} <=> set[j].groups = {}) /\ i <= j

\* The pools that may be asked for the name: the one with the best claim, or else
\* the default ones.
RightPools ==
    LET claims == {c \in (DOMAIN set) \X RoutedDomains(set) : Claims(c[1], c[2])}
        best   == {c \in claims : \A o \in claims : Beats(c[1], c[2], o[1], o[2])}
    IN  IF claims = {} THEN {i \in DOMAIN set : set[i].domains = {}} ELSE {c[1] : c \in best}

\* "A routed name is never asked anywhere else": every server asked is one of the
\* pool that the most specific domain and the client's group choose, and a name
\* nobody claims never reaches a conditional pool.
AskedWhereRouted == \A q \in asked : q[1] \in RightPools

\* "SERVFAIL only when each one answered it, so a timeout next to a SERVFAIL is not
\* reported as an upstream that declined": across servers, racers and pools.
ServfailIsUnanimous ==
    result = "all_servfail" => asked # {} /\ heard = {"servfail"} /\ ~silent

\* A query that fails for want of an answer has asked every server it may ask, but
\* for those it saw out of rotation, and has asked some server if there is one:
\* however the verdicts change during the walk, a checker that lags cannot turn a
\* query away unasked.
FailureIsEarned ==
    pc = "idle" /\ result \in {"all_servfail", "unreachable"} =>
        LET may == {q \in Questions : q[1] \in RightPools}
        IN  may \subseteq asked \cup skipped /\ (asked = {} => may = {})

\* Fail open is for when the walk saw no server in rotation: a query that asks in
\* open mode has skipped every server of the default pools, and says so.
OpenOnlyWhenNoneHealthy ==
    mode = "open" /\ pc # "idle" =>
        /\ failingOpen
        /\ {q \in Questions : q[1] \in RightPools} \subseteq skipped

\* The walk of a query over the pools: routed names stay where they are routed, no
\* failure is reported that the servers did not earn, and an open walk is the last
\* resort, whatever the verdicts and racers do meanwhile (query_inner, query_pools).
WalkIsSound ==
    AskedWhereRouted /\ ServfailIsUnanimous /\ FailureIsEarned /\ OpenOnlyWhenNoneHealthy

=============================================================================
