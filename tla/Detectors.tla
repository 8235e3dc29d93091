------------------------------ MODULE Detectors ------------------------------
(***************************************************************************)
(* The malware detectors: what a name looks like on its own (the guards of *)
(* the query path), the statistics the analysis loops keep of each subnet, *)
(* the domains they flag, and the addresses learned from probes and feeds. *)
(* A name is told apart by the signals it raises, confidence is counted in *)
(* hundredths, and a detector is a record of its maps.                     *)
(***************************************************************************)
EXTENDS QueryBudget

CONSTANTS
    Apex,              \* name -> the domain it is registered under
    Sub,               \* name -> its subdomain, "" for none
    NameSignals,       \* name -> what it raises: fqdn_length, label_length, entropy of its subdomain,
                       \* and short_sld, sld_length, sld_entropy, consonant_ratio, digit_ratio, ngram of its apex
    RateLimitPerApex, UniqueLimit, DgaRate,  \* counts above which a signal is raised
    TunnelingThreshold, DgaThreshold, DgaHotThreshold,
    Window, EntryTtl   \* ticks of a window; ticks before an entry is stale

extract_apex(name) == Apex[name]
extract_subdomain(name) == Sub[name]
Raises(name, signal) == signal \in NameSignals[name]
Weigh(cond, weight) == IF cond THEN weight ELSE 0

(***************************************************************************)
(* TunnelingGuard::check and DgaGuard::check                               *)
(***************************************************************************)
tunneling_check(name, type) ==
    Raises(name, "fqdn_length") \/ Raises(name, "label_length") \/ type = "NULL"

DgaShape(name) ==
    Weigh(Raises(name, "sld_length"), 25) + Weigh(Raises(name, "sld_entropy"), 30)
      + Weigh(Raises(name, "consonant_ratio"), 25) + Weigh(Raises(name, "digit_ratio"), 20)

dga_check(name) == DgaShape(name) >= DgaHotThreshold

(***************************************************************************)
(* TunnelingDetector                                                       *)
(***************************************************************************)
NoDetector == [stats |-> <<>>, flagged |-> <<>>]

NewStats(now) == [queries |-> 0, unique |-> 0, txt |-> 0, nx |-> 0, bloom |-> {}, seen |-> now, opened |-> now]

reset_window(s, now) == NewStats(now)

bloom_add(s, sub) ==
    IF sub \in s.bloom THEN s ELSE [s EXCEPT !.bloom = @ \cup {sub}, !.unique = @ + 1]

\* The entry an event is counted in: that of its window.
InWindow(s, now) == IF now - s.opened > Window THEN reset_window(s, now) ELSE s

CountEvent(s, ev, now) ==
    LET seen == [s EXCEPT !.seen = now, !.queries = @ + 1,
                          !.txt = @ + Weigh(ev.type = "TXT", 1), !.nx = @ + Weigh(ev.nx, 1)]
        sub == extract_subdomain(ev.name)
    IN  IF sub = "" THEN seen ELSE bloom_add(seen, sub)

\* Ratios are above one half.
compute_confidence(s, name) ==
    Weigh(Raises(name, "entropy"), 30) + Weigh(s.queries > RateLimitPerApex, 25)
      + Weigh(s.unique > UniqueLimit, 25) + Weigh(2 * s.txt > s.queries, 10) + Weigh(2 * s.nx > s.queries, 10)

Flag(flagged, score, threshold, apex, now) ==
    IF score >= threshold THEN Put(flagged, apex, now) ELSE flagged

process_tunneling(d, ev, now) ==
    LET k == <<key(ev.client), extract_apex(ev.name)>>
        s == CountEvent(InWindow(IF k \in DOMAIN d.stats THEN d.stats[k] ELSE NewStats(now), now), ev, now)
    IN  [stats |-> Put(d.stats, k, s),
         flagged |-> Flag(d.flagged, compute_confidence(s, ev.name), TunnelingThreshold,
                          extract_apex(ev.name), now)]

evict_tunneling(d, now) ==
    [stats |-> Without(d.stats, {k \in DOMAIN d.stats : now - d.stats[k].seen >= EntryTtl}),
     flagged |-> Without(d.flagged, {a \in DOMAIN d.flagged : now - d.flagged[a] >= 2 * EntryTtl})]

is_flagged(d, name) == extract_apex(name) \in DOMAIN d.flagged

(***************************************************************************)
(* DgaDetector: statistics of a subnet, signals of the apex.               *)
(***************************************************************************)
DgaScore(name) ==
    Weigh(Raises(name, "sld_entropy"), 25) + Weigh(Raises(name, "consonant_ratio"), 15)
      + Weigh(Raises(name, "digit_ratio"), 15) + Weigh(Raises(name, "sld_length"), 10)
      + Weigh(Raises(name, "ngram"), 25)

process_dga(d, ev, now) ==
    LET k == key(ev.client)
        held == IF k \in DOMAIN d.stats THEN d.stats[k] ELSE [count |-> 0, seen |-> now, opened |-> now]
        open == IF now - held.opened > Window THEN [count |-> 0, seen |-> now, opened |-> now] ELSE held
        score == DgaScore(ev.name)
        s == [open EXCEPT !.seen = now, !.count = @ + Weigh(score > 0, 1)]
    IN  IF Raises(ev.name, "short_sld") THEN d
        ELSE
        [stats |-> Put(d.stats, k, s),
         flagged |-> Flag(d.flagged, score + Weigh(score > 0 /\ s.count > DgaRate, 10), DgaThreshold,
                          extract_apex(ev.name), now)]

evict_dga(d, now) == evict_tunneling(d, now)

(***************************************************************************)
(* NxdomainHijackDetector and ResponseIpFilterDetector: address -> when it *)
(* was last confirmed.                                                     *)
(***************************************************************************)
Confirm(known, ips, at) == Over([ip \in ips |-> at], known)
evict_stale_ips(known, now) ==
    Without(known, {ip \in DOMAIN known : now - known[ip] > EntryTtl})

=============================================================================
