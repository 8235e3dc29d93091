---------------------------- MODULE ResolverLayers ----------------------------
(***************************************************************************)
(* The layers a query goes down through: local PTR records, the filters,   *)
(* local wildcards, the cache, DNS64, DNSSEC and the core with its pools.  *)
(*                                                                         *)
(* An outcome is an error or an answer, and a layer is the set of outcomes *)
(* a query may meet below it.  `s` is the record of the settings and of    *)
(* the world: what each upstream may say of a name and a type.  Followers  *)
(* of a query in flight have a module of their own (Inflight), as have the *)
(* pools (UpstreamQuery).                                                  *)
(***************************************************************************)
EXTENDS QueryBudget

\* DnsResolution: the records, the relayed message, its CNAME chain and the flags of the layers.
Resolution(addrs, wire, chain) ==
    [addrs |-> addrs, wire |-> wire, chain |-> chain, local |-> FALSE, lnx |-> FALSE, nx |-> FALSE,
     hit |-> FALSE, status |-> "none"]
NotCached == Resolution({}, FALSE, <<>>)

Ok(r) == [err |-> "", r |-> r]
Err(e) == [err |-> e, r |-> NotCached]

\* What a server may say: an answer, or how a query for it ends.
IsResolution(r) ==
    DOMAIN r = DOMAIN NotCached /\ {r.wire, r.local, r.lnx, r.nx, r.hit} \subseteq BOOLEAN
IsOutcome(x) ==
    \/ x = Ok(x.r) /\ IsResolution(x.r)
    \/ x = Err(x.err) /\ x.err \in {"NxDomain", "QueryTimeout", "ServFail"}

is_unvalidated(status) == status \in {"Bogus", "Indeterminate"}
has_response_data(r) == r.local \/ r.addrs # {} \/ r.wire \/ r.chain # <<>>

Ask(name, type) == [name |-> name, type |-> type]
Meets(world, q) ==
    LET k == <<q.name, q.type>> IN IF k \in DOMAIN world THEN world[k] ELSE {Err("NxDomain")}

(***************************************************************************)
(* CoreResolver                                                            *)
(***************************************************************************)
is_local_tld(s, name) == name \in s.localNames
is_private_ptr_query(s, name) == name \in s.privatePtr
is_routed(s, name) == name \in s.routed

\* The server of the local domain, when there is one and it answers.
resolve_local_tld(s, q) ==
    IF ~s.server THEN {Err("NxDomain")}
    ELSE {IF x.err # "" THEN Err("NxDomain")             \* unreachable
          ELSE IF x.r.nx THEN Err("LocalNxDomain")       \* NXDOMAIN or a server error
          ELSE Ok([x.r EXCEPT !.local = TRUE, !.wire = TRUE, !.chain = <<>>]) : x \in Meets(s.localWorld, q)}

query_for(s, q) ==
    {IF x.err # "" THEN x
     ELSE Ok([x.r EXCEPT !.wire = TRUE, !.nx = @ /\ x.r.addrs = {}]) : x \in Meets(s.world, q)}

core_resolve(s, q) ==
    LET is_local == (s.server /\ is_private_ptr_query(s, q.name)) \/ is_local_tld(s, q.name)
    IN  IF is_local /\ ~is_routed(s, q.name) THEN resolve_local_tld(s, q) ELSE query_for(s, q)

(***************************************************************************)
(* DnssecResolver: what the validator says, Indeterminate when it fails.   *)
(***************************************************************************)
Validator(s, q) == IF q.name \in DOMAIN s.chains THEN s.chains[q.name] ELSE {"Insecure"}

dnssec_resolve(s, q) ==
    IF ~s.dnssec THEN core_resolve(s, q)
    ELSE UNION {IF x.err # "" \/ x.r.hit \/ x.r.local \/ (x.r.addrs = {} /\ ~x.r.wire) THEN {x}
                ELSE {Ok([x.r EXCEPT !.status = IF v = "error" THEN "Indeterminate" ELSE v]) :
                      v \in Validator(s, q)} : x \in core_resolve(s, q)}

(***************************************************************************)
(* Dns64Resolver                                                           *)
(***************************************************************************)
is_nodata(r) == r.addrs = {} /\ r.wire /\ ~r.nx
synthesize(s, addrs) == {<<"64", a>> : a \in addrs \ s.private}

resolve_aaaa(s, q) ==
    UNION {IF x.err # "" \/ ~is_nodata(x.r) THEN {x}
           ELSE {IF a.err # "" \/ is_unvalidated(a.r.status) \/ synthesize(s, a.r.addrs) = {} THEN x
                 ELSE Ok(Resolution(synthesize(s, a.r.addrs), FALSE, a.r.chain)) :
                 a \in dnssec_resolve(s, Ask(q.name, "A"))} : x \in dnssec_resolve(s, q)}

\* A name under the prefix is the reverse name of an IPv4 address.
resolve_ptr(s, q) ==
    IF q.name \notin DOMAIN s.embedded THEN dnssec_resolve(s, q)
    ELSE UNION {IF x.err # "" \/ ~x.r.wire \/ x.r.nx THEN dnssec_resolve(s, q)
                ELSE {Ok(Resolution({}, TRUE, <<>>))} : x \in dnssec_resolve(s, Ask(s.embedded[q.name], "PTR"))}

dns64_resolve(s, q) ==
    CASE s.dns64 /\ q.type = "AAAA" -> resolve_aaaa(s, q)
      [] s.dns64 /\ q.type = "PTR" -> resolve_ptr(s, q)
      [] OTHER -> dnssec_resolve(s, q)

(***************************************************************************)
(* CachedResolver: an entry is an answer, or a negative one (no data).     *)
(***************************************************************************)
from_resolution(r) ==
    IF r.addrs # {} THEN [r EXCEPT !.wire = FALSE, !.nx = FALSE] ELSE r
insert_negative(local) == [NotCached EXCEPT !.status = "Insecure", !.lnx = local]

\* local_record_status of a name that a record of the configuration holds.
MissingType(s, q) ==
    /\ <<q.name, q.type>> \notin s.records
    /\ \E k \in s.records : k[1] = q.name

check_cache_str(s, cache, q) ==
    LET k == <<q.name, q.type>>
    IN  CASE MissingType(s, q) -> [NotCached EXCEPT !.hit = TRUE, !.local = TRUE]
          [] ~MissingType(s, q) /\ k \in DOMAIN cache -> [cache[k] EXCEPT !.hit = TRUE]
          [] OTHER -> NotCached

\* What a leader leaves in the cache: nothing of an answer that was not validated.
store_in_cache(cache, q, x) ==
    LET k == <<q.name, q.type>>
    IN  CASE x.err = "NxDomain" -> Put(cache, k, insert_negative(FALSE))
          [] x.err = "LocalNxDomain" -> Put(cache, k, insert_negative(TRUE))
          [] x.err = "" /\ ~is_unvalidated(x.r.status) ->
                Put(cache, k, IF x.r.addrs = {} /\ ~x.r.wire THEN insert_negative(x.r.local)
                              ELSE from_resolution(x.r))
          [] OTHER -> cache

cached_outcome(r) ==
    IF has_response_data(r) THEN Ok(r) ELSE Err(IF r.lnx THEN "LocalNxDomain" ELSE "NxDomain")

\* The outcomes of a leader, each with the cache it leaves.
resolve_as_leader(s, cache, q) ==
    LET held == check_cache_str(s, cache, q)
    IN  IF held.hit THEN {[out |-> cached_outcome(held), cache |-> cache]}
        ELSE {[out |-> x, cache |-> store_in_cache(cache, q, x)] : x \in dns64_resolve(s, q)}

(***************************************************************************)
(* LocalWildcardResolver, FilteredResolver, LocalPtrResolver               *)
(***************************************************************************)
\* The nearest ancestor that holds a wildcard, as an index of the name's ancestors.
wildcard_lookup(s, name) ==
    LET held == IF name \notin DOMAIN s.ancestors THEN {}
                ELSE {i \in DOMAIN s.ancestors[name] : s.ancestors[name][i] \in DOMAIN s.wildcards}
    IN  IF held = {} THEN 0 ELSE CHOOSE i \in held : \A j \in held : i <= j

local_answer(addrs) == [Resolution(addrs, FALSE, <<>>) EXCEPT !.local = TRUE]

wildcard_resolve(s, cache, q) ==
    LET i == wildcard_lookup(s, q.name)
        held == check_cache_str(s, cache, q)
    IN  CASE i = 0 -> resolve_as_leader(s, cache, q)
          [] i > 0 /\ held.hit /\ has_response_data(held) -> {[out |-> Ok(held), cache |-> cache]}
          [] OTHER -> LET w == s.wildcards[s.ancestors[q.name][i]]
                      IN  {[out |-> Ok(local_answer(IF q.type \in DOMAIN w THEN w[q.type] ELSE {})),
                            cache |-> cache]}

\* QueryFilters::decide: the name asked below, or what refuses it.
decide(s, name) ==
    CASE s.blockPtr /\ is_private_ptr_query(s, name) /\ ~is_routed(s, name) -> [err |-> "PrivatePtr", name |-> name]
      [] ~(s.blockPtr /\ is_private_ptr_query(s, name) /\ ~is_routed(s, name))
         /\ s.nonFqdn = "Block" /\ name \in s.hostnames -> [err |-> "NonFqdn", name |-> name]
      [] s.nonFqdn = "Qualify" /\ name \in DOMAIN s.qualified -> [err |-> "", name |-> s.qualified[name]]
      [] OTHER -> [err |-> "", name |-> name]

filtered_resolve(s, cache, q) ==
    LET f == decide(s, q.name)
    IN  IF f.err # "" THEN {[out |-> Err("Filtered"), cache |-> cache]}
        ELSE wildcard_resolve(s, cache, Ask(f.name, q.type))

\* try_cache of the whole chain: a PTR is never read from the cache.
try_cache(s, cache, q) ==
    LET f == decide(s, q.name)
    IN  IF q.type = "PTR" \/ f.err # "" THEN NotCached ELSE check_cache_str(s, cache, Ask(f.name, q.type))

resolve(s, cache, q) ==
    IF q.type = "PTR" /\ q.name \in s.ptrs
    THEN {[out |-> Ok([Resolution({}, TRUE, <<>>) EXCEPT !.local = TRUE]), cache |-> cache]}
    ELSE filtered_resolve(s, cache, q)

=============================================================================
