-------------------------------- MODULE Dnssec --------------------------------
(***************************************************************************)
(* The DNSSEC validator: the walk from the root down to a name, zone by    *)
(* zone, and the verdict on a reply (crates/infrastructure/src/dns/dnssec: *)
(* validator_pool, validator, chain, cache).                               *)
(*                                                                         *)
(* Several validators share the cache of keys and of DS lookups.  A step   *)
(* is what the code does between two waits for the pools; a fetch fills    *)
(* `got` when its reply comes (module Validation).  An RRset is            *)
(* [owner, type, data, sigs], a message [rcode, answers, authority, only,  *)
(* negTtl] where `only` says the answer section holds signatures alone.    *)
(***************************************************************************)
EXTENDS Denial

CONSTANTS
    Validators,      \* 1..n
    TrustAnchors,    \* the keys an anchor pins
    Ttl,             \* of a signed RRset
    MaxNegativeTtl,  \* MAX_NEGATIVE_DS_TTL
    MaxWalks,        \* MAX_CHAIN_WALKS
    MaxEntries,      \* MAX_ENTRIES
    Epoch            \* the serial number of the clock at first

VARIABLES
    clock,
    dsLookups, dnskeys,   \* DnssecCache: name -> [value, expires]
    val                   \* DnssecValidatorPool: the validators and what each is at

cacheVars == <<dsLookups, dnskeys>>

Root == <<>>
now_secs == (Epoch + clock) % Wrap
Resting == [at |-> "idle"]

most_severe(a, b) ==
    CASE "Bogus" \in {a, b} -> "Bogus"
      [] "Bogus" \notin {a, b} /\ "Indeterminate" \in {a, b} -> "Indeterminate"
      [] {a, b} \cap {"Bogus", "Indeterminate"} = {} /\ "Insecure" \in {a, b} -> "Insecure"
      [] OTHER -> "Secure"

\* ChainFailure::of an error of the pools, or of what a reply lacks.
is_transient_error(e) == e \in {"unreachable", "all_servfail"}
ChainFailure(e) == IF is_transient_error(e) THEN "Indeterminate" ELSE "Bogus"

(***************************************************************************)
(* DnssecCache                                                             *)
(***************************************************************************)
is_expired(entry) == clock >= entry.expires
\* Mutant: an expired entry is used.
AnyAge(map, k) == k \in DOMAIN map
lookup(map, k) == k \in DOMAIN map /\ ~is_expired(map[k])
Kept(map, ks) == [k \in DOMAIN map \ ks |-> map[k]]
Purged(map, k) == IF lookup(map, k) THEN map ELSE Kept(map, {k})

\* What may be left when a full map makes room.
evict_if_full(map) ==
    IF Cardinality(DOMAIN map) < MaxEntries THEN {map}
    ELSE LET live == Kept(map, {k \in DOMAIN map : is_expired(map[k])})
         IN  IF Cardinality(DOMAIN live) < MaxEntries THEN {live} ELSE {Kept(live, {k}) : k \in DOMAIN live}

Insert(map, k, value, ttl) ==
    {[x \in DOMAIN m \cup {k} |-> IF x = k THEN [value |-> value, expires |-> clock + ttl] ELSE m[x]] :
     m \in evict_if_full(map)}

(***************************************************************************)
(* Replies                                                                 *)
(***************************************************************************)
rrset_of(answers, type) == SelectSeq(answers, LAMBDA r : r.type = type)
any_rrsig_verifies(answers, type, keys) ==
    \E i \in DOMAIN rrset_of(answers, type) :
        \E sig \in rrset_of(answers, type)[i].sigs :
            rrsig_verifies(sig, keys, rrset_of(answers, type)[i], now_secs)

KeysIn(m) == LET rs == rrset_of(m.answers, "DNSKEY") IN IF rs = <<>> THEN {} ELSE rs[1].data
DsIn(m) == {ds \in rrset_of(m.answers, "DS")[1].data : ds.digest # 1}

\* group_rrsets: the signers of an RRset that enclose its owner.
SignersOf(rrset) == {sig.signer : sig \in {x \in rrset.sigs : name_encloses(x.signer, rrset.owner)}}
walk_anchors(rrset) == IF SignersOf(rrset) = {} THEN {rrset.owner} ELSE SignersOf(rrset)
extract_signer_zone(authority) ==
    LET signed == FirstOf(authority, LAMBDA r : r.sigs # {} /\ r.type # "DNSKEY")
    IN  IF signed = <<>> THEN {} ELSE {sig.signer : sig \in signed[1].sigs}

(***************************************************************************)
(* The states of a validator                                               *)
(***************************************************************************)
Becomes(v, changes) == val' = [val EXCEPT ![v] = changes @@ @]
Verdict(v, status) == Becomes(v, [at |-> "done", status |-> status])
Trust(verdict, zone) == [verdict |-> verdict, zone |-> zone]
Child(t) == Top(t.anchor, t.k + 1)

ChainEnds(v, verdict, zone) ==
    Becomes(v, [at |-> IF val[v].negative THEN "denial" ELSE "judge",
                walks |-> (val[v].anchor :> Trust(verdict, zone)) @@ val[v].walks])

Fetch(v, at, kinds) == Becomes(v, [at |-> at, want |-> kinds, got |-> <<>>])

\* acquire: the first validator that is free.
acquire(v) == val[v].at = "idle" /\ \A u \in Validators : u < v => val[u].at # "idle"

\* validate_query; the reply of validate_with_message came just before.
validate_query(v, q) ==
    /\ acquire(v)
    /\ val' = [val EXCEPT ![v] = [at |-> "answer", q |-> q, want |-> {"ANSWER"}, got |-> <<>>]]
    /\ UNCHANGED <<clock, cacheVars>>

Arrived(v, at) == val[v].at = at /\ val[v].want = {}

\* clear_established_keys: the keys of earlier validations are forgotten.
Judging(m) ==
    [msg |-> m, i |-> 1, status |-> "Secure", walks |-> <<>>, keys |-> <<>>,
     signer |-> extract_signer_zone(m.authority), negative |-> m.answers = <<>>]

validate_positive(v, m) ==
    IF m.only \/ Cardinality(UNION {walk_anchors(m.answers[i]) : i \in DOMAIN m.answers}) > MaxWalks
    THEN Verdict(v, "Bogus")
    ELSE Becomes(v, Judging(m) @@ [at |-> "judge"])

\* validate_negative, up to its walk.
NegativeWalk(v, m) ==
    LET signer == extract_signer_zone(m.authority)
    IN  IF \E z \in signer : ~name_encloses(z, val[v].q.name) THEN Verdict(v, "Bogus")
        ELSE Becomes(v, Judging(m) @@ [at |-> "walk",
                                       anchor |-> IF signer = {} THEN val[v].q.name ELSE CHOOSE z \in signer : TRUE])

validate_message(v) ==
    /\ Arrived(v, "answer")
    /\ \E r \in {val[v].got["ANSWER"]} :
        CASE r.err # "" -> Verdict(v, "Indeterminate")
          [] r.err = "" /\ r.msg.answers = <<>> /\ ~r.msg.only -> NegativeWalk(v, r.msg)
          [] OTHER -> validate_positive(v, r.msg)
    /\ UNCHANGED <<clock, cacheVars>>

(***************************************************************************)
(* ChainVerifier                                                           *)
(***************************************************************************)
has_anchor_for_root == TrustAnchors # {}
anchor_keys_present(keys) == keys \cap TrustAnchors
AtRoot(v, keys) == Becomes(v, [at |-> "step", zone |-> Root, k |-> 0, keys |-> (Root :> keys) @@ val[v].keys])

\* verify_chain, up to the keys of the root.
verify_chain(v) ==
    /\ val[v].at = "walk"
    /\ CASE ~has_anchor_for_root -> ChainEnds(v, "Indeterminate", Root)
         [] has_anchor_for_root /\ Root \in DOMAIN val[v].keys -> AtRoot(v, val[v].keys[Root])
         [] has_anchor_for_root /\ Root \notin DOMAIN val[v].keys /\ lookup(dnskeys, Root) -> AtRoot(v, dnskeys[Root].value)
         [] OTHER -> Fetch(v, "root", {"DNSKEY"})
    /\ dnskeys' = IF ~has_anchor_for_root \/ Root \in DOMAIN val[v].keys THEN dnskeys ELSE Purged(dnskeys, Root)
    /\ UNCHANGED <<clock, dsLookups>>

\* bootstrap_root_keys, once the reply is there.
bootstrap_root_keys(v) ==
    /\ Arrived(v, "root")
    /\ \E r \in {val[v].got["DNSKEY"]} :
        CASE r.err # "" -> ChainEnds(v, ChainFailure(r.err), Root) /\ UNCHANGED dnskeys
          [] r.err = "" /\ ~any_rrsig_verifies(r.msg.answers, "DNSKEY", anchor_keys_present(KeysIn(r.msg))) ->
                ChainEnds(v, "Bogus", Root) /\ UNCHANGED dnskeys
          [] OTHER -> /\ dnskeys' \in Insert(dnskeys, Root, KeysIn(r.msg), Ttl)
                      /\ AtRoot(v, KeysIn(r.msg))
    /\ UNCHANGED <<clock, dsLookups>>

\* Step::NoDs.
PassedOver(v, denial) ==
    CASE denial = "InsecureDelegation" -> ChainEnds(v, "Insecure", Root)
      [] denial = "Nonexistent" -> ChainEnds(v, "Secure", val[v].zone)
      [] OTHER -> Becomes(v, [at |-> "step", k |-> val[v].k + 1])

\* The end of step, with the DS records and what the fetch of the keys gave.
\* Mutant: a key that matches the DS vouches for the set it came in.
MatchedUnsigned(ds, r) == {key \in KeysIn(r.msg) : \E d \in ds : verify_ds(d, key)} # {}
SelfSigned(ds, r) ==
    any_rrsig_verifies(r.msg.answers, "DNSKEY", {key \in KeysIn(r.msg) : \E d \in ds : verify_ds(d, key)})

SecureCut(v, ds, r) ==
    LET held == IF r.cached THEN r.keys ELSE KeysIn(r.msg)
    IN  Becomes(v, [at |-> "step", zone |-> Child(val[v]), k |-> val[v].k + 1,
                    keys |-> (Child(val[v]) :> held) @@ val[v].keys])

EnterZone(v, ds, r) ==
    CASE ~\E d \in ds : is_supported_algorithm(d.key.alg) -> PassedOver(v, "InsecureDelegation") /\ UNCHANGED dnskeys
      [] (\E d \in ds : is_supported_algorithm(d.key.alg)) /\ r.err # "" ->
            ChainEnds(v, ChainFailure(r.err), Root) /\ UNCHANGED dnskeys
      [] (\E d \in ds : is_supported_algorithm(d.key.alg)) /\ r.err = "" /\ r.cached ->
            /\ IF \E key \in r.keys : \E d \in ds : verify_ds(d, key) THEN SecureCut(v, ds, r)
               ELSE ChainEnds(v, "Bogus", Root)
            /\ UNCHANGED dnskeys
      [] OTHER -> IF SelfSigned(ds, r)
                  THEN SecureCut(v, ds, r) /\ dnskeys' \in Insert(dnskeys, Child(val[v]), KeysIn(r.msg), Ttl)
                  ELSE ChainEnds(v, "Bogus", Root) /\ UNCHANGED dnskeys

\* step, up to its fetches; fetch_dnskey looks in the cache when it begins.
Cached(keys) == [err |-> "", cached |-> TRUE, keys |-> keys]
step(v) ==
    /\ val[v].at = "step"
    /\ IF val[v].k = Len(val[v].anchor) THEN ChainEnds(v, "Secure", val[v].zone) /\ UNCHANGED cacheVars
       ELSE \E child \in {Child(val[v])} :
            LET hit == lookup(dsLookups, child)
                held == lookup(dnskeys, child)
            IN  /\ dsLookups' = Purged(dsLookups, child)
                /\ CASE hit /\ dsLookups[child].value.denial # "" ->
                          PassedOver(v, dsLookups[child].value.denial) /\ UNCHANGED dnskeys
                     [] hit /\ dsLookups[child].value.denial = "" /\ held ->
                          EnterZone(v, dsLookups[child].value.ds, Cached(dnskeys[child].value))
                     [] hit /\ dsLookups[child].value.denial = "" /\ ~held ->
                          /\ IF \E d \in dsLookups[child].value.ds : is_supported_algorithm(d.key.alg)
                             THEN Becomes(v, [at |-> "keys", want |-> {"DNSKEY"}, got |-> <<>>,
                                              ds |-> dsLookups[child].value.ds])
                                  /\ dnskeys' = Purged(dnskeys, child)
                             ELSE PassedOver(v, "InsecureDelegation") /\ UNCHANGED dnskeys
                     [] OTHER ->
                          /\ IF held THEN Becomes(v, [at |-> "ds", want |-> {"DS"},
                                                      got |-> [DNSKEY |-> Cached(dnskeys[child].value)]])
                             ELSE Fetch(v, "ds", {"DS", "DNSKEY"})
                          /\ dnskeys' = Purged(dnskeys, child)
    /\ UNCHANGED clock

\* prove_ds_absence.
prove_ds_absence(t, m) ==
    LET proofs(type) == collect_verified_denial(m.authority, type, now_secs, t.zone, t.keys[t.zone])
    IN  classify_ds_denial(Child(t), m.rcode, t.zone, proofs("NSEC3"), proofs("NSEC"))

\* The lookup authenticate_ds makes of a reply, and how long it is kept.
Absent(denial) == [denial |-> denial, ds |-> {}]
Present(ds) == [denial |-> "", ds |-> ds]
Smaller(a, b) == IF a < b THEN a ELSE b
\* Mutant: the cap is missing.
NegativeTtlUncapped(m) == m.negTtl
NegativeTtl(m) == Smaller(m.negTtl, MaxNegativeTtl)

DsVerifies(t, m) == any_rrsig_verifies(m.answers, "DS", t.keys[t.zone])

authenticate_ds(v) ==
    /\ Arrived(v, "ds")
    /\ \E r \in {val[v].got["DS"]} : \E t \in {val[v]} :
        CASE r.err # "" -> ChainEnds(v, ChainFailure(r.err), Root) /\ UNCHANGED cacheVars
          [] r.err = "" /\ rrset_of(r.msg.answers, "DS") = <<>> ->
                \E denial \in {prove_ds_absence(t, r.msg)} :
                    /\ IF denial = "" THEN ChainEnds(v, "Bogus", Root) ELSE PassedOver(v, denial)
                    /\ IF denial # "" /\ r.msg.negTtl > 0
                       THEN dsLookups' \in Insert(dsLookups, Child(t), Absent(denial), NegativeTtl(r.msg))
                       ELSE UNCHANGED dsLookups
                    /\ UNCHANGED dnskeys
          [] OTHER -> IF DsVerifies(t, r.msg)
                      THEN /\ dsLookups' \in Insert(dsLookups, Child(t), Present(DsIn(r.msg)), Ttl)
                           /\ EnterZone(v, DsIn(r.msg), t.got["DNSKEY"])
                      ELSE ChainEnds(v, "Bogus", Root) /\ UNCHANGED cacheVars
    /\ UNCHANGED clock

fetch_dnskey(v) ==
    /\ Arrived(v, "keys")
    /\ EnterZone(v, val[v].ds, val[v].got["DNSKEY"])
    /\ UNCHANGED <<clock, dsLookups>>

(***************************************************************************)
(* DnssecValidator: the verdict                                            *)
(***************************************************************************)
secure_apex(anchor, trust) == trust.verdict = "Secure" /\ trust.zone = anchor

signed_rrset_status(t, rrset, signer) ==
    LET labels == {sig.labels : sig \in {x \in rrset.sigs : x.labels < num_labels(rrset.owner)}}
        proofs(type) == collect_verified_denial(t.msg.authority, type, now_secs, signer, t.keys[signer])
    IN  CASE ~rrset_is_authentic(rrset, now_secs, signer, t.keys[signer]) -> "Bogus"
          [] rrset_is_authentic(rrset, now_secs, signer, t.keys[signer]) /\ labels = {} -> "Secure"
          [] OTHER -> prove_wildcard_expansion(rrset.owner, CHOOSE n \in labels : \A m \in labels : n <= m,
                                               proofs("NSEC3"), proofs("NSEC"))

\* What one walk says of an RRset.
AnchorStatus(t, rrset, a) ==
    LET trust == t.walks[a]
    IN  CASE trust.verdict # "Secure" -> trust.verdict
          [] trust.verdict = "Secure" /\ SignersOf(rrset) # {} /\ secure_apex(a, trust) -> signed_rrset_status(t, rrset, a)
          [] OTHER -> "Bogus"    \* unsigned in a signed zone, or the signer is no apex

Severest(statuses) ==
    CHOOSE s \in statuses : \A o \in statuses : most_severe(s, o) = s

\* rrset_status: one signer that proves it secure is enough.
rrset_status(v) ==
    /\ val[v].at = "judge"
    /\ \E t \in {val[v]} : \E rrset \in {t.msg.answers[t.i]} :
        \E known \in {{AnchorStatus(t, rrset, a) : a \in walk_anchors(rrset) \cap DOMAIN t.walks}} :
           IF "Secure" \notin known /\ ~(walk_anchors(rrset) \subseteq DOMAIN t.walks)
           THEN \E a \in walk_anchors(rrset) \ DOMAIN t.walks : Becomes(v, [at |-> "walk", anchor |-> a])
           ELSE LET status == most_severe(t.status, IF "Secure" \in known THEN "Secure" ELSE Severest(known))
                IN  IF status = "Bogus" \/ t.i = Len(t.msg.answers) THEN Verdict(v, status)
                    ELSE Becomes(v, [i |-> t.i + 1, status |-> status])
    /\ UNCHANGED <<clock, cacheVars>>

\* validate_negative and validate_denial, after the walk.
validate_denial(t, zone) ==
    LET proofs(type) == collect_verified_denial(t.msg.authority, type, now_secs, zone, t.keys[zone])
    IN  prove_denial(t.q.name, t.q.type, t.msg.rcode, zone, proofs("NSEC3"), proofs("NSEC"))

validate_negative(v) ==
    /\ val[v].at = "denial"
    /\ \E t \in {val[v]} : \E trust \in {t.walks[t.anchor]} :
        Verdict(v, CASE trust.verdict # "Secure" -> trust.verdict
                     [] trust.verdict = "Secure" /\ t.signer # {} /\ secure_apex(t.anchor, trust) -> validate_denial(t, t.anchor)
                     [] OTHER -> "Bogus")
    /\ UNCHANGED <<clock, cacheVars>>

\* The lease ends with the verdict.
Release(v) ==
    /\ val[v].at = "done"
    /\ val' = [val EXCEPT ![v] = Resting]
    /\ UNCHANGED <<clock, cacheVars>>

DnssecStep(v) ==
    \/ validate_message(v) \/ verify_chain(v) \/ bootstrap_root_keys(v) \/ step(v)
    \/ authenticate_ds(v) \/ fetch_dnskey(v) \/ rrset_status(v) \/ validate_negative(v) \/ Release(v)

DnssecInit ==
    /\ clock = 0 /\ dsLookups = <<>> /\ dnskeys = <<>>
    /\ val = [v \in Validators |-> Resting]
=============================================================================
