----------------------------- MODULE QueryBudget -----------------------------
(***************************************************************************)
(* What a client may spend: the token buckets of the rate limiter, the DNS *)
(* cookies of strict mode and the connections of the stream listeners.     *)
(*                                                                         *)
(* A bucket is spent from under the lock of its shard, so an operator here *)
(* is a step.  Tokens are counted in thousandths in the code and in        *)
(* Milli-ths here: one tick brings Qps of them.                            *)
(***************************************************************************)
EXTENDS Integers, FiniteSets, Sequences, TLC

CONSTANTS
    Milli,                 \* parts of a token
    Qps, Burst, NxQps,     \* parts a tick brings; tokens a bucket holds; parts of NXDOMAIN budget
    SlipRatio, StaleTtl,   \* every n-th refusal over UDP is truncated; ticks before eviction, 0 for none
    Subnet, Whitelist,     \* client -> its subnet; the clients that are never limited
    Rotation,              \* ticks of a cookie window, 0 for none
    MaxConns               \* connections of one address, 0 for no limit

ASSUME BudgetAssumption ==
    {Milli, Burst} \subseteq Nat \ {0} /\ {Qps, NxQps, SlipRatio, StaleTtl, Rotation, MaxConns} \subseteq Nat

Over(f, g) == [x \in DOMAIN f \cup DOMAIN g |-> IF x \in DOMAIN f THEN f[x] ELSE g[x]]
Put(f, k, v) == [x \in DOMAIN f \cup {k} |-> IF x = k THEN v ELSE f[x]]
Without(f, ks) == [k \in DOMAIN f \ ks |-> f[k]]
Least(a, b) == IF a <= b THEN a ELSE b

(***************************************************************************)
(* TokenBucket                                                             *)
(***************************************************************************)
nx_burst_milli == NxQps * 2

new_bucket(now) == [tokens |-> Burst * Milli, nx |-> nx_burst_milli, last |-> now]

has_tokens(b) == b.tokens >= Milli

add_capped(counter, add, cap) == Least(counter + add, cap)

refill(b, now) ==
    [tokens |-> add_capped(b.tokens, (now - b.last) * Qps, Burst * Milli),
     nx |-> add_capped(b.nx, (now - b.last) * NxQps, nx_burst_milli),
     last |-> now]

try_decrement(counter) == IF counter < Milli THEN counter ELSE counter - Milli

\* Whether it covered the query, and the bucket left.
try_consume(b, now) ==
    LET r == refill(b, now)
    IN  [ok |-> r.tokens >= Milli, bucket |-> [r EXCEPT !.tokens = try_decrement(@)]]

try_charge_nxdomain(b, now) ==
    LET r == refill(b, now)
    IN  [ok |-> r.nx >= Milli, bucket |-> [r EXCEPT !.nx = try_decrement(@)]]

(***************************************************************************)
(* DnsRateLimiter: one map of buckets for UDP and one for streams.  `on`   *)
(* is the setting: "off", "dry" or "on".                                   *)
(***************************************************************************)
key(ip) == Subnet[ip]
contains(ip) == ip \in Whitelist
limits_nxdomain(on) == on # "off" /\ NxQps > 0

over_budget(on, slips, stream) ==
    CASE on = "dry" -> [verdict |-> "Allow", slips |-> slips]
      [] on # "dry" /\ SlipRatio > 0 /\ ~stream ->
            [verdict |-> IF slips % SlipRatio = 0 THEN "Slip" ELSE "Refuse",
             slips |-> (slips + 1) % SlipRatio]
      [] OTHER -> [verdict |-> "Refuse", slips |-> slips]

\* buckets, slips and the verdict after spending; Try is try_consume or try_charge_nxdomain.
spend(Try(_, _), on, buckets, slips, ip, stream, now) ==
    LET k == <<key(ip), stream>>
        r == Try(IF k \in DOMAIN buckets THEN buckets[k] ELSE new_bucket(now), now)
        left == Put(buckets, k, r.bucket)
    IN  IF r.ok THEN [verdict |-> "Allow", buckets |-> left, slips |-> slips]
        ELSE Over([buckets |-> left], over_budget(on, slips, stream))

Free(buckets, slips) == [verdict |-> "Allow", buckets |-> buckets, slips |-> slips]

check_rate(on, buckets, slips, ip, stream, now) ==
    IF on = "off" \/ contains(ip) THEN Free(buckets, slips)
    ELSE spend(try_consume, on, buckets, slips, ip, stream, now)

charge_rate(on, buckets, slips, ip, stream, now) ==
    IF ~limits_nxdomain(on) \/ contains(ip) THEN Free(buckets, slips)
    ELSE spend(try_charge_nxdomain, on, buckets, slips, ip, stream, now)

\* The fast path looks and does not spend.
is_allowed(on, buckets, ip) ==
    \/ on = "off" \/ contains(ip)
    \/ LET k == <<key(ip), FALSE>> IN k \in DOMAIN buckets => has_tokens(buckets[k])

\* start_eviction_task, and the buckets a round of it drops.
StaleBuckets(buckets, now) ==
    IF StaleTtl = 0 THEN {} ELSE {k \in DOMAIN buckets : now - buckets[k].last >= StaleTtl}

\* What an eviction may give back: the tokens of a full bucket that an idle one has not earned yet.
Shortfall == IF StaleTtl * Qps >= Burst * Milli THEN 0 ELSE Burst * Milli - StaleTtl * Qps

(***************************************************************************)
(* DnsCookieGuard: a cookie is what the client sent of one, "" or "half"   *)
(* (its own half), or the window and the address it was signed for.        *)
(***************************************************************************)
window_at(now) == IF Rotation = 0 THEN 0 ELSE now \div Rotation
window_keys(window) == {window} \cup (IF Rotation = 0 \/ window = 0 THEN {} ELSE {window - 1})

generate_server_cookie(ip, now) == <<window_at(now), ip>>

has_valid_cookie(ip, cookie, now) ==
    \E w \in window_keys(window_at(now)) : cookie = <<w, ip>>

cookie_status(ip, cookie, now) ==
    CASE cookie = <<>> -> "none"
      [] cookie = <<"half">> -> "ClientOnly"
      [] OTHER -> IF has_valid_cookie(ip, cookie, now) THEN "Valid" ELSE "Invalid"

requires_cookie(strict, stream) == strict /\ ~stream

(***************************************************************************)
(* ConnectionLimiter: counts of connections, released in two steps.        *)
(***************************************************************************)
try_acquire(counts, ip) ==
    LET n == IF ip \in DOMAIN counts THEN counts[ip] ELSE 0
    IN  IF MaxConns = 0 THEN [ok |-> TRUE, counts |-> counts]
        ELSE [ok |-> n < MaxConns, counts |-> Put(counts, ip, IF n < MaxConns THEN n + 1 ELSE n)]

release(counts, ip) ==
    IF ip \in DOMAIN counts THEN [counts EXCEPT ![ip] = @ - 1] ELSE counts

ForgetAnyway(counts, ip) == Without(counts, {ip})
forget_idle(counts, ip) ==
    IF ip \in DOMAIN counts /\ counts[ip] = 0 THEN Without(counts, {ip}) ELSE counts

=============================================================================
