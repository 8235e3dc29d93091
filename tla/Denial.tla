-------------------------------- MODULE Denial --------------------------------
(***************************************************************************)
(* Signatures and authenticated denial of existence: which records of a    *)
(* reply verify, and what the NSEC and NSEC3 records among them prove      *)
(* about a name (crates/infrastructure/src/dns/dnssec: crypto, authority,  *)
(* denial).                                                                *)
(*                                                                         *)
(* A name is the sequence of its labels, the top-level one first, so the   *)
(* canonical order of names is the lexicographic one.  A label is a number *)
(* and the asterisk the least.  An RRset carries the signatures over it,   *)
(* and a signature what it was made over: it verifies while that is what   *)
(* the RRset holds.  The hash of NSEC3 is a constant.                      *)
(***************************************************************************)
EXTENDS Integers, Sequences, FiniteSets, Functions, TLC

CONSTANTS
    Hash,           \* name -> its NSEC3 hash, also the label an NSEC3 record is owned by
    IterationCap,   \* NSEC3_ITERATION_CAP
    Wrap,           \* the size of the serial number space, 2^32 in the code
    Supported       \* the signature algorithms this build implements

Star == 0
Top(n, k) == SubSeq(n, 1, k)
Parent(n) == Top(n, Len(n) - 1)
make_wildcard(n) == Append(n, Star)
num_labels(n) == IF n # <<>> /\ n[Len(n)] = Star THEN Len(n) - 1 ELSE Len(n)

name_encloses(zone, n) == Len(zone) <= Len(n) /\ Top(n, Len(zone)) = zone

\* The length of the ancestor two names share, and that ancestor.
Shared(a, b) == CHOOSE k \in 0..Len(a) :
    /\ k <= Len(b) /\ Top(a, k) = Top(b, k)
    /\ k < Len(a) /\ k < Len(b) => a[k + 1] # b[k + 1]
common_suffix(a, b) == Top(a, Shared(a, b))
Before(a, b) ==
    LET k == Shared(a, b) IN k < Len(b) /\ (k < Len(a) => a[k + 1] < b[k + 1])

(***************************************************************************)
(* crypto, authority                                                       *)
(***************************************************************************)
serial_le(a, b) == (b - a) % Wrap < Wrap \div 2
within_validity(inception, expiration, now) == serial_le(inception, now) /\ serial_le(now, expiration)

is_supported_algorithm(alg) == alg \in Supported

\* One of `keys` made the signature, over what the RRset holds.
rrsig_verifies(sig, keys, rrset, now) ==
    /\ within_validity(sig.inception, sig.expiration, now)
    /\ sig.key \in keys /\ is_supported_algorithm(sig.key.alg)
    /\ sig.over = rrset.data

\* verify_ds: the digest types other than these are an error, which does not match.
verify_ds(ds, key) == ds.key = key /\ ds.digest \in {1, 2, 4}

\* Keys are looked up by signer, and only the zone that was proved has any (keys_of).
rrset_is_authentic(rrset, now, zone, keys) ==
    \E sig \in rrset.sigs :
        /\ name_encloses(sig.signer, rrset.owner)
        /\ sig.signer = zone
        /\ rrsig_verifies(sig, keys, rrset, now)

\* The records that verify, in the order of the section.
collect_verified_denial(authority, type, now, zone, keys) ==
    SelectSeq(authority, LAMBDA r : r.type = type /\ rrset_is_authentic(r, now, zone, keys))

(***************************************************************************)
(* denial: what the types at a name say of it                              *)
(***************************************************************************)
wrong_side_of_delegation(types) == "SOA" \in types
is_delegation(types) == "NS" \in types /\ "SOA" \notin types
Unusable(types, qtype) ==
    IF qtype = "DS" THEN wrong_side_of_delegation(types) ELSE is_delegation(types)
Denied(types, qtype) == qtype \notin types /\ "CNAME" \notin types

\* "" where it proves nothing.
ds_denial_at(types) ==
    CASE types \cap {"DS", "CNAME"} # {} -> ""
      [] types \cap {"DS", "CNAME"} = {} /\ "NS" \in types -> "InsecureDelegation"
      [] OTHER -> "NotZoneCut"

\* The first of a sequence of records that passes, as a sequence of at most one.
FirstOf(rs, Test(_)) ==
    LET hit == {i \in DOMAIN rs : Test(rs[i])}
    IN  IF hit = {} THEN <<>> ELSE <<rs[CHOOSE i \in hit : \A j \in hit : i <= j]>>

(***************************************************************************)
(* NSEC3                                                                   *)
(***************************************************************************)
owner_label(r) == r.owner[Len(r.owner)]

\* "" where the records may be used.
nsec3_params(rs) ==
    CASE \E i \in DOMAIN rs : rs[i].data.params # rs[1].data.params -> "Bogus"
      [] (\A i \in DOMAIN rs : rs[i].data.params = rs[1].data.params)
         /\ rs[1].data.params.iterations > IterationCap -> "Insecure"
      [] OTHER -> ""

\* The last record of the circle passes every hash: see the README.
nsec3_covers(r, h) ==
    IF owner_label(r) < r.data.next THEN owner_label(r) < h /\ h < r.data.next
    ELSE owner_label(r) > h \/ h > r.data.next
nsec3_find_covering(rs, h) == FirstOf(rs, LAMBDA r : nsec3_covers(r, h))
nsec3_find_matching(rs, h) == FirstOf(rs, LAMBDA r : owner_label(r) = h)

\* The ancestors of a name from itself up to the zone; the root is never one.
encloser_candidates(n, soa) ==
    LET stop == IF name_encloses(soa, n) /\ soa # <<>> THEN Len(soa) ELSE 1
    IN  IF Len(n) <= stop THEN <<n>> ELSE [i \in 1..(Len(n) - stop + 1) |-> Top(n, Len(n) - i + 1)]

\* The closest encloser with the record over its next closer name; <<>> for no proof.
closest_encloser_proof(n, soa, rs) ==
    LET names == encloser_candidates(n, soa)
        matched == {i \in 2..Len(names) : nsec3_find_matching(rs, Hash[names[i]]) # <<>>}
    IN  IF matched = {} THEN <<>>
        ELSE LET i == CHOOSE i \in matched : \A j \in matched : i <= j
                 cover == nsec3_find_covering(rs, Hash[names[i - 1]])
             IN  IF is_delegation(nsec3_find_matching(rs, Hash[names[i]])[1].data.types) \/ cover = <<>> THEN <<>>
                 ELSE <<[encloser |-> names[i], cover |-> cover[1]]>>

nsec3_nxdomain(n, soa, rs) ==
    LET proof == closest_encloser_proof(n, soa, rs)
    IN  CASE nsec3_find_matching(rs, Hash[n]) # <<>> \/ proof = <<>> -> "Bogus"
          [] nsec3_find_matching(rs, Hash[n]) = <<>> /\ proof # <<>> /\ proof[1].cover.data.optOut -> "Insecure"
          [] OTHER -> IF nsec3_find_covering(rs, Hash[make_wildcard(proof[1].encloser)]) # <<>>
                      THEN "Secure" ELSE "Bogus"

wildcard_nodata(proof, qtype, rs) ==
    LET at == nsec3_find_matching(rs, Hash[make_wildcard(proof.encloser)])
    IN  at # <<>> /\ Denied(at[1].data.types, qtype)

nsec3_nodata(n, qtype, soa, rs) ==
    LET at == nsec3_find_matching(rs, Hash[n])
        proof == closest_encloser_proof(n, soa, rs)
    IN  CASE at # <<>> /\ ~Unusable(at[1].data.types, qtype) ->
                IF Denied(at[1].data.types, qtype) THEN "Secure" ELSE "Bogus"
          [] (at = <<>> \/ Unusable(at[1].data.types, qtype)) /\ proof = <<>> -> "Bogus"
          [] OTHER -> CASE wildcard_nodata(proof[1], qtype, rs) -> "Secure"
                        [] ~wildcard_nodata(proof[1], qtype, rs) /\ proof[1].cover.data.optOut -> "Insecure"
                        [] OTHER -> "Bogus"

verify_nsec3(n, qtype, rcode, soa, rs) ==
    CASE nsec3_params(rs) # "" -> nsec3_params(rs)
      [] nsec3_params(rs) = "" /\ rcode = "NXDomain" -> nsec3_nxdomain(n, soa, rs)
      [] nsec3_params(rs) = "" /\ rcode = "NoError" -> nsec3_nodata(n, qtype, soa, rs)
      [] OTHER -> "Bogus"

nsec3_ds_nodata(child, parent, rs) ==
    LET at == FirstOf(rs, LAMBDA r : owner_label(r) = Hash[child] /\ ~wrong_side_of_delegation(r.data.types))
        proof == closest_encloser_proof(child, parent, rs)
    IN  CASE nsec3_params(rs) # "" -> IF nsec3_params(rs) = "Insecure" THEN "InsecureDelegation" ELSE ""
          [] nsec3_params(rs) = "" /\ at # <<>> -> ds_denial_at(at[1].data.types)
          [] OTHER -> IF proof # <<>> /\ proof[1].cover.data.optOut THEN "InsecureDelegation" ELSE ""

(***************************************************************************)
(* NSEC                                                                    *)
(***************************************************************************)
nsec1_covers(owner, next, n) ==
    IF Before(owner, next) THEN Before(owner, n) /\ Before(n, next)
    ELSE Before(owner, n) \/ Before(n, next)

nsec1_usable_cover(rs, n) ==
    FirstOf(rs, LAMBDA r : /\ nsec1_covers(r.owner, r.data.next, n)
                           /\ ~(name_encloses(r.owner, n) /\ is_delegation(r.data.types)))

nsec1_empty_non_terminal(n, rs) ==
    LET cover == nsec1_usable_cover(rs, n)
    IN  /\ cover # <<>>
        /\ num_labels(cover[1].data.next) > num_labels(n) /\ name_encloses(n, cover[1].data.next)

nsec1_closest_encloser(n, r) ==
    LET o == common_suffix(n, r.owner)
        x == common_suffix(n, r.data.next)
    IN  IF num_labels(o) >= num_labels(x) THEN o ELSE x

\* The wildcard at the closest encloser, where a record covers the name within the zone.
WildcardOver(n, soa, rs) ==
    LET cover == nsec1_usable_cover(rs, n)
    IN  IF cover = <<>> THEN <<>>
        ELSE LET closest == nsec1_closest_encloser(n, cover[1])
             IN  IF num_labels(closest) < num_labels(soa) THEN <<>> ELSE <<make_wildcard(closest)>>

nsec1_wildcard_nodata(n, qtype, soa, rs) ==
    LET wildcard == WildcardOver(n, soa, rs)
    IN  /\ wildcard # <<>>
        /\ \E i \in DOMAIN rs : rs[i].owner = wildcard[1] /\ Denied(rs[i].data.types, qtype)

nsec1_nodata(n, qtype, soa, rs) ==
    LET at == FirstOf(rs, LAMBDA r : r.owner = n /\ ~Unusable(r.data.types, qtype))
    IN  IF at # <<>> THEN IF Denied(at[1].data.types, qtype) THEN "Secure" ELSE "Bogus"
        ELSE IF nsec1_empty_non_terminal(n, rs) \/ nsec1_wildcard_nodata(n, qtype, soa, rs)
             THEN "Secure" ELSE "Bogus"

nsec1_nxdomain(n, soa, rs) ==
    LET wildcard == WildcardOver(n, soa, rs)
    IN  IF wildcard # <<>> /\ nsec1_usable_cover(rs, wildcard[1]) # <<>> THEN "Secure" ELSE "Bogus"

verify_nsec1(n, qtype, rcode, soa, rs) ==
    CASE rcode = "NoError" -> nsec1_nodata(n, qtype, soa, rs)
      [] rcode = "NXDomain" -> nsec1_nxdomain(n, soa, rs)
      [] OTHER -> "Bogus"

nsec1_ds_nodata(child, rs) ==
    LET at == FirstOf(rs, LAMBDA r : r.owner = child /\ ~wrong_side_of_delegation(r.data.types))
    IN  CASE at # <<>> -> ds_denial_at(at[1].data.types)
          [] at = <<>> /\ nsec1_empty_non_terminal(child, rs) -> "NotZoneCut"
          [] OTHER -> ""

(***************************************************************************)
(* What the rest of the validator asks                                     *)
(***************************************************************************)
prove_denial(n, qtype, rcode, soa, nsec3s, nsecs) ==
    CASE nsec3s # <<>> -> verify_nsec3(n, qtype, rcode, soa, nsec3s)
      [] nsec3s = <<>> /\ nsecs # <<>> -> verify_nsec1(n, qtype, rcode, soa, nsecs)
      [] OTHER -> "Bogus"

\* "" where the absence is not proved.
classify_ds_denial(child, rcode, parent, nsec3s, nsecs) ==
    CASE rcode = "NXDomain" ->
            LET proved == prove_denial(child, "DS", rcode, parent, nsec3s, nsecs)
            IN  CASE proved = "Secure" -> "Nonexistent" [] proved = "Insecure" -> "InsecureDelegation" [] OTHER -> ""
      [] rcode = "NoError" ->
            IF nsec3s # <<>> THEN nsec3_ds_nodata(child, parent, nsec3s) ELSE nsec1_ds_nodata(child, nsecs)
      [] OTHER -> ""

prove_wildcard_expansion(n, labels, nsec3s, nsecs) ==
    CASE nsec3s # <<>> /\ nsec3_params(nsec3s) # "" -> nsec3_params(nsec3s)
      [] nsec3s # <<>> /\ nsec3_params(nsec3s) = "" ->
            IF num_labels(n) > labels /\ nsec3_find_covering(nsec3s, Hash[Top(n, labels + 1)]) # <<>>
            THEN "Secure" ELSE "Bogus"
      [] OTHER -> IF nsec1_usable_cover(nsecs, n) # <<>> THEN "Secure" ELSE "Bogus"
=============================================================================
