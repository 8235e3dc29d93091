------------------------------ MODULE Inflight ------------------------------
(***************************************************************************)
(* Query coalescing in CachedResolver                                      *)
(* (crates/infrastructure/src/dns/resolver/cache_layer.rs).                *)
(*                                                                         *)
(* The queries that miss the cache for one key elect a leader through the  *)
(* `inflight` map; the others subscribe to the leader's watch channel.     *)
(* The leader re-checks the cache, asks the inner resolver, stores the     *)
(* outcome, takes its sender out of the map and publishes.  A guard does   *)
(* the same with None on every exit the leader did not publish from, the   *)
(* cancellation of its future at the await included.                       *)
(*                                                                         *)
(* A query leads at most once, so the channel a leader creates is named    *)
(* after the leader.  A key stands for (domain, record type, cache view).  *)
(* Every await point and every separate access to shared state is a step.  *)
(***************************************************************************)

CONSTANTS
    Queries,      \* client queries, each one call of `resolve`
    CacheKeys,    \* cache keys
    Valid,        \* answers the inner resolver gives that may be cached
    Unvalidated,  \* answers whose DNSSEC status is Bogus or Indeterminate
    NoQuery       \* no leader, no channel

Verdicts == {"nx", "local_nx", "transient"}
Answers  == Valid \cup Unvalidated

ASSUME InflightAssumption ==
    /\ NoQuery \notin Queries
    /\ Valid \cap Unvalidated = {}
    /\ Answers \cap (Verdicts \cup {"absent", "pending", "none", "cancelled", "no_reply"}) = {}

VARIABLES
    pc,        \* where each query is in `resolve`
    key,       \* the key of each query
    inflight,  \* CachedResolver.inflight: the leader whose sender is in the map
    chan,      \* watch channel of each leader: "pending" until its one send
    rx,        \* the channel a follower subscribed to last
    tx,        \* the sender a query took out of the map
    out,       \* what a leader is about to publish and return
    cache,     \* DnsCache as `check_cache` sees it
    reply,     \* what `resolve` returned
    from,      \* DnsResolution.cache_hit: the "cache" or the "inner" resolver
    role,      \* DnsResolution.coalesced
    learned    \* history: what the inner resolver answered each query

inflightVars == <<pc, key, inflight, chan, rx, tx, out, cache, reply, from, role, learned>>

Outcomes == Answers \cup Verdicts

\* cached_outcome and the queries' results: an unvalidated answer is Ok as well.
Replies == Outcomes \cup {"cancelled", "no_reply"}

\* Where a leader still has its guard armed and its sender in the map.
Armed == {"check", "upstream", "publish", "drop"}

PCs == Armed \cup {"idle", "register", "wait", "recheck", "send_some", "send_none",
                   "count", "done"}

InflightTypeOK ==
    /\ pc \in [Queries -> PCs]
    /\ key \in [Queries -> CacheKeys]
    /\ inflight \in [CacheKeys -> Queries \cup {NoQuery}]
    /\ chan \in [Queries -> Answers \cup {"pending", "none"}]
    /\ rx \in [Queries -> Queries \cup {NoQuery}]
    /\ tx \in [Queries -> Queries \cup {NoQuery}]
    /\ out \in [Queries -> Replies]
    /\ cache \in [CacheKeys -> Answers \cup {"nx", "local_nx", "absent"}]
    /\ reply \in [Queries -> Replies]
    /\ from \in [Queries -> {"cache", "inner"}]
    /\ role \in [Queries -> {"none", "leader", "follower"}]
    /\ learned \in [Queries -> Replies]

InflightInit ==
    /\ pc = [q \in Queries |-> "idle"]
    /\ key \in [Queries -> CacheKeys]
    /\ inflight = [k \in CacheKeys |-> NoQuery]
    /\ chan = [q \in Queries |-> "pending"]
    /\ rx = [q \in Queries |-> NoQuery]
    /\ tx = [q \in Queries |-> NoQuery]
    /\ out = [q \in Queries |-> "no_reply"]
    /\ cache = [k \in CacheKeys |-> "absent"]
    /\ reply = [q \in Queries |-> "no_reply"]
    /\ from = [q \in Queries |-> "inner"]
    /\ role = [q \in Queries |-> "none"]
    /\ learned = [q \in Queries |-> "no_reply"]

(***************************************************************************)
(* Steps of a query                                                        *)
(***************************************************************************)

Goto(q, l) == pc' = [pc EXCEPT ![q] = l]

\* Every way a query ends: what it returned and whether the cache gave it.
Return(q, r, h) ==
    /\ Goto(q, "done")
    /\ reply' = [reply EXCEPT ![q] = r]
    /\ from' = [from EXCEPT ![q] = h]

\* `try_cache`: a caller answers from the cache, and resolves only on a miss.
TryCache(q) ==
    /\ pc[q] = "idle"
    /\ \/ /\ cache[key[q]] # "absent"
          /\ Return(q, cache[key[q]], "cache")
       \/ /\ cache[key[q]] = "absent"
          /\ Goto(q, "register")
          /\ UNCHANGED <<reply, from>>
    /\ UNCHANGED <<key, inflight, chan, rx, tx, out, cache, role, learned>>

\* `register_or_join_inflight`, atomic under the map's entry lock.
Join(q) ==
    /\ pc[q] = "register"
    /\ inflight[key[q]] # NoQuery
    /\ rx' = [rx EXCEPT ![q] = inflight[key[q]]]
    /\ Goto(q, "wait")
    /\ UNCHANGED <<key, inflight, chan, tx, out, cache, reply, from, role, learned>>

Lead(q) ==
    /\ pc[q] = "register"
    /\ inflight[key[q]] = NoQuery
    /\ inflight' = [inflight EXCEPT ![key[q]] = q]
    /\ Goto(q, "check")
    /\ UNCHANGED <<key, chan, rx, tx, out, cache, reply, from, role, learned>>

\* The leader's second look at the cache, its guard in place.
LeaderCheck(q) ==
    /\ pc[q] = "check"
    /\ \/ /\ cache[key[q]] # "absent"
          /\ out' = [out EXCEPT ![q] = cache[key[q]]]
          /\ from' = [from EXCEPT ![q] = "cache"]
          /\ Goto(q, "publish")
       \/ /\ cache[key[q]] = "absent"
          /\ Goto(q, "upstream")
          /\ UNCHANGED <<out, from>>
    /\ UNCHANGED <<key, inflight, chan, rx, tx, cache, reply, role, learned>>

\* Mutant of Stored: a transient failure is cached as a negative answer.
StoredOutage(o, old) == {old} \cup {IF o = "transient" THEN "nx" ELSE o}

\* Mutant of Stored: the DNSSEC status is not looked at.
StoredUnchecked(o, old) == {o, old}

\* What `store_in_cache` and `insert_negative` may leave behind for an outcome:
\* a validated answer or an authoritative denial.  The cache itself may decline
\* it (a local record wins, the wire form does not re-section).
Cacheable == Valid \cup {"nx", "local_nx"}
Stored(o, old) == {old} \cup ({o} \cap Cacheable)

\* The inner resolver answered with o: store it, then publish or let the guard go.
UpstreamReply(q, o) ==
    /\ pc[q] = "upstream"
    /\ learned' = [learned EXCEPT ![q] = o]
    /\ \E c \in Stored(o, cache[key[q]]) : cache' = [cache EXCEPT ![key[q]] = c]
    /\ out' = [out EXCEPT ![q] = o]
    /\ Goto(q, IF o \in Answers THEN "publish" ELSE "drop")
    /\ UNCHANGED <<key, inflight, chan, rx, tx, reply, from, role>>

\* The entry of the key leaves the map, whoever put it there.
TakeSender(q) ==
    /\ tx' = [tx EXCEPT ![q] = inflight[key[q]]]
    /\ inflight' = [inflight EXCEPT ![key[q]] = NoQuery]

\* `publish_inflight` up to the send.
Publish(q) ==
    /\ pc[q] = "publish"
    /\ TakeSender(q)
    /\ IF inflight[key[q]] = NoQuery
       THEN Return(q, out[q], from[q])
       ELSE /\ Goto(q, IF out[q] \in Answers THEN "send_some" ELSE "send_none")
            /\ UNCHANGED <<reply, from>>
    /\ UNCHANGED <<key, chan, rx, out, cache, role, learned>>

\* Mutant of DropGuard: the slot is released and its followers are not told.
DropGuardSilent(q) ==
    /\ pc[q] = "drop"
    /\ TakeSender(q)
    /\ Return(q, out[q], from[q])
    /\ UNCHANGED <<key, chan, rx, out, cache, role, learned>>

\* InflightLeaderGuard::drop, not defused.
DropGuard(q) ==
    /\ pc[q] = "drop"
    /\ TakeSender(q)
    /\ IF inflight[key[q]] = NoQuery
       THEN Return(q, out[q], from[q])
       ELSE Goto(q, "send_none") /\ UNCHANGED <<reply, from>>
    /\ UNCHANGED <<key, chan, rx, out, cache, role, learned>>

\* The followers still holding a receiver of channel c.
Receivers(c) == {f \in Queries : rx[f] = c /\ pc[f] # "done"}

\* tx.send(None), by the guard or for a resolution without response data.
SendNone(q) ==
    /\ pc[q] = "send_none"
    /\ chan' = [chan EXCEPT ![tx[q]] = "none"]
    /\ Return(q, out[q], from[q])
    /\ UNCHANGED <<key, inflight, rx, tx, out, cache, role, learned>>

\* tx.send(Some(..)): fails, and leaves the channel alone, without receivers.
SendSome(q) ==
    /\ pc[q] = "send_some"
    /\ \/ /\ Receivers(tx[q]) = {}
          /\ Return(q, out[q], from[q])
          /\ UNCHANGED chan
       \/ /\ Receivers(tx[q]) # {}
          /\ chan' = [chan EXCEPT ![tx[q]] = out[q]]
          /\ Goto(q, "count")
          /\ UNCHANGED <<reply, from>>
    /\ UNCHANGED <<key, inflight, rx, tx, out, cache, role, learned>>

\* tx.receiver_count(), a second look at the receivers after the send.
CountReceivers(q) ==
    /\ pc[q] = "count"
    /\ role' = [role EXCEPT ![q] = IF Receivers(tx[q]) # {} THEN "leader" ELSE @]
    /\ Return(q, out[q], from[q])
    /\ UNCHANGED <<key, inflight, chan, rx, tx, out, cache, learned>>

\* A follower wakes up on its leader's word.  InflightResult carries the
\* leader's cache_hit.
Receive(q) ==
    /\ pc[q] = "wait"
    /\ chan[rx[q]] # "pending"
    /\ \/ /\ chan[rx[q]] \in Answers
          /\ Return(q, chan[rx[q]], from[rx[q]])
          /\ role' = [role EXCEPT ![q] = "follower"]
       \/ /\ chan[rx[q]] = "none"
          /\ Goto(q, "recheck")
          /\ UNCHANGED <<reply, from, role>>
    /\ UNCHANGED <<key, inflight, chan, rx, tx, out, cache, learned>>

\* Released without an answer: the cache, else `resolve` from the start.
RecheckCache(q) ==
    /\ pc[q] = "recheck"
    /\ \/ /\ cache[key[q]] # "absent"
          /\ Return(q, cache[key[q]], "cache")
       \/ /\ cache[key[q]] = "absent"
          /\ Goto(q, "register")
          /\ UNCHANGED <<reply, from>>
    /\ UNCHANGED <<key, inflight, chan, rx, tx, out, cache, role, learned>>

\* The caller drops the future at one of its awaits; a leader's guard runs.
Cancel(q) ==
    /\ \/ /\ pc[q] = "wait"
          /\ Return(q, "cancelled", "inner")
          /\ UNCHANGED out
       \/ /\ pc[q] = "upstream"
          /\ Goto(q, "drop")
          /\ out' = [out EXCEPT ![q] = "cancelled"]
          /\ UNCHANGED <<reply, from>>
    /\ UNCHANGED <<key, inflight, chan, rx, tx, cache, role, learned>>

\* Expiry, eviction, a removed entry or a flush, as seen from here.
CacheForget(k) ==
    /\ cache[k] # "absent"
    /\ cache' = [cache EXCEPT ![k] = "absent"]
    /\ UNCHANGED <<pc, key, inflight, chan, rx, tx, out, reply, from, role, learned>>

Step(q) ==
    \/ Join(q) \/ Lead(q) \/ LeaderCheck(q)
    \/ Publish(q) \/ DropGuard(q) \/ SendNone(q) \/ SendSome(q) \/ CountReceivers(q)
    \/ Receive(q) \/ RecheckCache(q)
    \/ \E o \in Outcomes : UpstreamReply(q, o)

InflightNext ==
    \/ \E q \in Queries : TryCache(q) \/ Step(q) \/ Cancel(q)
    \/ \E k \in CacheKeys : CacheForget(k)

\* The runtime polls every task that can move, and every upstream exchange ends
\* (query_timeout_ms).  Nobody has to send queries, cancel or expire entries.
InflightSpec == InflightInit /\ [][InflightNext]_inflightVars /\ \A q \in Queries : WF_inflightVars(Step(q))

(***************************************************************************)
(* Properties                                                              *)
(***************************************************************************)

\* While a leader's guard is armed its own sender is the one in the map: so the
\* key has one leader and one upstream exchange at a time, and no exit of an
\* earlier leader (InflightLeaderGuard::drop removes by key) took the slot away.
OneLeaderPerKey ==
    \A q \in Queries : pc[q] \in Armed => inflight[key[q]] = q

\* A follower is never left waiting on a channel nobody will send on: its
\* leader still owns the slot, or took its sender out and is about to send.
\* This is what InflightLeaderGuard is for ("instead of waiting forever").
NoStrandedFollower ==
    \A f \in Queries :
        pc[f] = "wait" /\ chan[rx[f]] = "pending" =>
            \/ pc[rx[f]] \in Armed /\ inflight[key[f]] = rx[f]
            \/ pc[rx[f]] \in {"send_some", "send_none"} /\ tx[rx[f]] = rx[f]

\* A follower that was handed an answer got the one its leader returns, found
\* where the leader found it, and both asked for the same key.
FollowersAgreeWithLeader ==
    \A f \in Queries :
        role[f] = "follower" =>
            LET l == rx[f] IN
            /\ key[f] = key[l]
            /\ reply[f] = out[l] /\ from[f] = from[l]
            /\ pc[l] = "done" => reply[l] = reply[f]

\* "Never cache an unvalidated (Bogus/Indeterminate) result": no query gets
\* one as a cache hit, be it from the fast path, the leader's second look, a
\* follower's, or a leader that published what it found in the cache.
NoUnvalidatedHit ==
    \A q \in Queries : from[q] = "cache" => reply[q] \notin Unvalidated

\* Every query that called `resolve` returns: its leader answers, fails or is
\* cancelled, and the query then finds the cache filled or takes its turn.
EveryQueryReturns ==
    \A q \in Queries : pc[q] = "register" ~> pc[q] = "done"

\* The doc comment of `publish_inflight`: "A resolution some follower got is
\* marked as the leader's."
SharedAnswerMarkedLeader ==
    \A f \in Queries :
        role[f] = "follower" /\ pc[rx[f]] = "done" => role[rx[f]] = "leader"

\* What the coalescing promises: see SingleFlight.
Asking == {q \in Queries : pc[q] = "upstream"}
Abstract == INSTANCE SingleFlight WITH Keys <- CacheKeys, asking <- Asking
ImplementsSingleFlight == Abstract!Spec

(***************************************************************************)
(* The inductive invariant (CacheLayerProofs shows it to be one)             *)
(***************************************************************************)

Sending == {"send_some", "send_none"}

\* The sender in the map is that of an armed leader of the key, and a query
\* that took a sender out took its own.
SlotsLive ==
    /\ \A k \in CacheKeys :
           inflight[k] # NoQuery => key[inflight[k]] = k /\ pc[inflight[k]] \in Armed
    /\ \A q \in Queries : pc[q] \in Sending \cup {"count"} => tx[q] = q
    /\ \A q \in Queries : pc[q] = "send_some" => out[q] \in Answers

\* A follower subscribed to a query of its own key.
FollowersSubscribed ==
    \A f \in Queries :
        pc[f] = "wait" \/ role[f] = "follower" => rx[f] \in Queries /\ key[rx[f]] = key[f]

\* A channel that holds an answer holds what its leader returns, and only a
\* query that is done has a reply.
ChannelsFinal ==
    /\ \A q \in Queries :
           chan[q] \in Answers =>
               /\ chan[q] = out[q] /\ pc[q] \in {"count", "done"}
               /\ pc[q] = "done" => reply[q] = out[q]
    /\ \A f \in Queries :
           role[f] = "follower" =>
               /\ pc[f] = "done" /\ chan[rx[f]] \in Answers
               /\ reply[f] = chan[rx[f]] /\ from[f] = from[rx[f]]
    /\ \A q \in Queries : pc[q] # "done" => reply[q] = "no_reply"

\* Some query of key k learned o from the inner resolver.
Witnessed(k, o) == \E p \in Queries : key[p] = k /\ learned[p] = o

\* Whatever the cache, a channel or a leader about to return holds was learned
\* by a query of the key; what can be shared is never a transient failure.
OutcomesWitnessed ==
    /\ \A k \in CacheKeys :
           cache[k] # "absent" => cache[k] \in Cacheable /\ Witnessed(k, cache[k])
    /\ \A q \in Queries : chan[q] \in Answers => Witnessed(key[q], chan[q])
    /\ \A q \in Queries :
           pc[q] \in {"publish", "drop", "count"} \cup Sending =>
               \/ out[q] = "cancelled"
               \/ learned[q] = out[q] /\ out[q] \in Outcomes
               \/ out[q] \in Cacheable /\ Witnessed(key[q], out[q])
    /\ \A q \in Queries :
           pc[q] \in {"idle", "register", "wait", "recheck", "check", "upstream"} =>
               learned[q] = "no_reply"
    /\ \A q \in Queries : pc[q] \in {"idle", "register", "wait", "recheck", "check", "upstream", "drop"} =>
               from[q] = "inner"
    /\ \A q \in Queries : from[q] = "cache" /\ pc[q] # "done" => out[q] \in Cacheable

InflightInv ==
    /\ InflightTypeOK /\ OneLeaderPerKey /\ NoStrandedFollower
    /\ SlotsLive /\ FollowersSubscribed /\ ChannelsFinal /\ OutcomesWitnessed
    /\ NoUnvalidatedHit

=============================================================================
