---------------------------- MODULE FilterIndex ----------------------------
(***************************************************************************)
(* What a blocklist is compiled into and how a name is looked up in it     *)
(* (crates/infrastructure/src/dns/block_filter: compiler.rs,               *)
(* block_index.rs, suffix_trie.rs, decision_cache.rs, engine.rs).          *)
(*                                                                         *)
(* A name is the sequence of its labels from the top-level domain down, so *)
(* a suffix of the name is a prefix of the sequence.  A rule is a name and *)
(* whether it was written `*.name`.  A regular expression and a substring  *)
(* pattern are the names they hit, and neither is when it does not         *)
(* compile.  A source's bit is its id.  The hash maps of the index are     *)
(* relations.  The bloom filter vouches for no name that `exact` does not  *)
(* hold and drops none, so it does not show.                               *)
(***************************************************************************)
EXTENDS Naturals, FiniteSetsExt, SequencesExt

CONSTANTS
    Hits,     \* the names each expression or pattern that compiles hits
    MaxBits   \* the sources that get a bit of their own: 63 in the code

MANUAL == 0   \* MANUAL_SOURCE_BIT, which is no source's
UNNAMED == 0  \* UNNAMED_ALLOW_BIT

NoUrl == ""   \* the url of a source that has none

HitBy(pattern, n) == pattern \in DOMAIN Hits /\ n \in Hits[pattern]

ProperSuffix(s, n) == IsStrictPrefix(s, n)

(***************************************************************************)
(* Lists                                                                   *)
(***************************************************************************)

\* The entry of one line, if it has one.  `||name^` is the name and all below it.
parse_list_line(line) ==
    CASE line.form = "pattern" -> {[kind |-> "Pattern", arg |-> line.arg]}
      [] line.form = "adblock" /\ line.star -> {[kind |-> "Wildcard", arg |-> line.arg]}
      [] line.form = "adblock" /\ ~line.star /\ Len(line.arg) > 1 ->
            {[kind |-> "DomainAndSubdomains", arg |-> line.arg]}
      [] line.form = "star" -> {[kind |-> "Wildcard", arg |-> line.arg]}
      [] line.form \in {"hosts", "plain"} /\ Len(line.arg) > 1 ->
            {[kind |-> "Exact", arg |-> line.arg]}
      [] OTHER -> {}  \* blank, comment, `@@` exception, one label

parse_list_text(text) == UNION {parse_list_line(l) : l \in text}

Named(entries, kinds) == {e.arg : e \in {x \in entries : x.kind \in kinds}}
ExactOf(entries) == Named(entries, {"Exact", "DomainAndSubdomains"})
SuffixesOf(entries) == Named(entries, {"Wildcard", "DomainAndSubdomains"})
PatternsOf(entries) == Named(entries, {"Pattern"})

\* The three reads of load_sources: the enabled sources that get a bit and their
\* urls, the groups of each, and every group.
EnabledSources(db) == {s \in DOMAIN db.blocklists : db.blocklists[s].enabled}

NamedSources(db) ==
    {s \in EnabledSources(db) : Cardinality({o \in EnabledSources(db) : o < s}) < MaxBits}

SourceUrls(db) ==
    [s \in {x \in NamedSources(db) : db.blocklists[x].url # NoUrl} |-> db.blocklists[s].url]

SourceGroups(db, named) ==
    {a \in named \X (DOMAIN db.groups) :
        a[1] \in EnabledSources(db) /\ a[2] \in db.blocklists[a[1]].groups}

load_sources(db) ==
    [ids |-> NamedSources(db), url |-> SourceUrls(db),
     assigned |-> SourceGroups(db, NamedSources(db)), groups |-> DOMAIN db.groups]

\* Every group sees the manual list; a source only the groups it is assigned to.
build_group_masks(load) ==
    [g \in load.groups |-> {MANUAL} \cup {a[1] : a \in {x \in load.assigned : x[2] = g}}]

\* What a build tries to download: everything, or what it does not hold.
ToDownload(urls, held, fetch) ==
    IF fetch = "Redownload" THEN urls ELSE urls \ DOMAIN held

\* The texts a build holds after its downloads (`got`: the ones that came).
\* A failed download keeps the copy held.
fetch_lists(urls, held, fetch, got) ==
    LET tried == ToDownload(urls, held, fetch)
        came == tried \cap DOMAIN got
    IN  [u \in came \cup (urls \cap DOMAIN held) |-> IF u \in came THEN got[u] ELSE held[u]]

ListStatus(u, held, got) ==
    CASE u \in DOMAIN got /\ u \in DOMAIN held /\ held[u] = got[u] -> "Unchanged"
      [] u \in DOMAIN got /\ ~(u \in DOMAIN held /\ held[u] = got[u]) -> "Updated"
      [] u \notin DOMAIN got /\ u \in DOMAIN held -> "FailedKeptCopy"
      [] OTHER -> "FailedNoCopy"

Downloaded(status) == status \in {"Updated", "Unchanged"}

(***************************************************************************)
(* The index                                                               *)
(***************************************************************************)
\* The bits of every rule on a proper suffix of the name.
SuffixLookup(trie, n) == {e[2] : e \in {x \in trie : ProperSuffix(x[1], n)}}

\* entries: the parsed list of each source that has a text.
build_exact_and_wildcard(manual, entries) ==
    LET ids == DOMAIN entries
        exact == {<<r.name, MANUAL>> : r \in {x \in manual : ~x.star}}
                    \cup UNION {ExactOf(entries[s]) \X {s} : s \in ids}
        wildcard == {<<r.name, MANUAL>> : r \in {x \in manual : x.star}}
                    \cup UNION {SuffixesOf(entries[s]) \X {s} : s \in ids}
    IN  [exact |-> exact,
         wildcard |-> wildcard,
         patterns |-> UNION {PatternsOf(entries[s]) \X {s} : s \in ids},
         total |-> Cardinality({e[1] : e \in exact \cup wildcard})]

\* The enabled expressions of an action that compile, by group.
build_regex_filters(rows, action) ==
    {<<rows[i].group, i>> : i \in
        {j \in DOMAIN rows : rows[j].enabled /\ rows[j].action = action
                                /\ rows[j].pattern.name \in DOMAIN Hits}}

ManagedRules(rows, action, star) ==
    {<<r.group, r.rule.name>> : r \in
        {x \in Range(rows) : x.enabled /\ x.action = action /\ (x.rule.star <=> star)}}

\* Every (source, group) that uses a list, once per list.
AllowAssignments(db) ==
    {a \in (DOMAIN db.whitelists) \X (DOMAIN db.groups) :
        /\ db.whitelists[a[1]].enabled /\ db.whitelists[a[1]].url # NoUrl
        /\ a[2] \in db.whitelists[a[1]].groups}

\* The allowlists: the manual one of every group, and per group the managed
\* allow rules and the lists assigned to it.  Patterns of a list allow nothing.
build_allowlist_index(db, texts) ==
    LET used == {a \in AllowAssignments(db) : db.whitelists[a[1]].url \in DOMAIN texts}
        ids == {a[1] : a \in AllowAssignments(db)}
        Bit(s) == IF Cardinality({o \in ids : o < s}) < MaxBits THEN s ELSE UNNAMED
        Of(a) == parse_list_text(texts[db.whitelists[a[1]].url])
        Rules(star) == {<<m[1], m[2], UNNAMED>> : m \in ManagedRules(db.managed, "Allow", star)}
    IN  [globalExact |-> {r.name : r \in {x \in db.whitelist : ~x.star}},
         globalWildcard |-> {<<r.name, UNNAMED>> : r \in {x \in db.whitelist : x.star}},
         groupExact |-> Rules(FALSE)
            \cup UNION {{<<a[2], n, Bit(a[1])>> : n \in ExactOf(Of(a))} : a \in used},
         groupWildcard |-> Rules(TRUE)
            \cup UNION {{<<a[2], n, Bit(a[1])>> : n \in SuffixesOf(Of(a))} : a \in used},
         sources |-> {s \in ids : Bit(s) = s}]

EmptyIndex ==
    [masks |-> <<>>, exact |-> {}, wildcard |-> {}, patterns |-> {}, total |-> 0,
     denies |-> {}, denyWildcards |-> {}, allowRegex |-> {}, blockRegex |-> {},
     regexes |-> <<>>, sources |-> {},
     allow |-> [globalExact |-> {}, globalWildcard |-> {}, groupExact |-> {},
                groupWildcard |-> {}, sources |-> {}]]

\* The index of the sources `load` and the tables of rules `db`, from the texts held.
compile_block_index(load, db, texts) ==
    LET entries == [s \in {x \in DOMAIN load.url : load.url[x] \in DOMAIN texts} |->
                        parse_list_text(texts[load.url[s]])]
        lists == build_exact_and_wildcard(db.blocklist, entries)
    IN  [masks |-> build_group_masks(load),
         exact |-> lists.exact, wildcard |-> lists.wildcard, patterns |-> lists.patterns,
         total |-> lists.total,
         denies |-> ManagedRules(db.managed, "Deny", FALSE),
         denyWildcards |-> ManagedRules(db.managed, "Deny", TRUE),
         allowRegex |-> build_regex_filters(db.regexes, "Allow"),
         blockRegex |-> build_regex_filters(db.regexes, "Deny"),
         regexes |-> [i \in DOMAIN db.regexes |-> db.regexes[i].pattern.name],
         sources |-> load.ids,
         allow |-> build_allowlist_index(db, texts)]

\* Every list some rebuild of `db` reads.
ListUrls(load, db) ==
    Range(load.url) \cup {db.whitelists[a[1]].url : a \in AllowAssignments(db)}

(***************************************************************************)
(* Lookups                                                                 *)
(***************************************************************************)
GroupTrie(trie, g) == {<<e[2], e[3]>> : e \in {x \in trie : x[1] = g}}

is_allowed(allow, n, g) ==
    \/ \E e \in allow.groupExact : e[1] = g /\ e[2] = n
    \/ SuffixLookup(GroupTrie(allow.groupWildcard, g), n) # {}
    \/ n \in allow.globalExact
    \/ SuffixLookup(allow.globalWildcard, n) # {}

group_mask(index, g) == IF g \in DOMAIN index.masks THEN index.masks[g] ELSE {MANUAL}

RegexHits(index, rules, n, g) ==
    {r[2] : r \in {x \in rules : x[1] = g /\ HitBy(index.regexes[x[2]], n)}}

ManagedDeny(index, n, g) ==
    \/ <<g, n>> \in index.denies
    \/ \E e \in index.denyWildcards : e[1] = g /\ ProperSuffix(e[2], n)

ManualAllow == [tier |-> "ManualAllow"]
NoMatch == [tier |-> "NoMatch"]
ManualDeny(source) == [tier |-> "ManualDeny", source |-> source]
Block(source) == [tier |-> "Block", source |-> source]

\* A hit on the manual list is the operator's, any other a downloaded list's.
classify_deny(source, bits) == IF MANUAL \in bits THEN ManualDeny(source) ELSE Block(source)

ExactBits(index, n, mask) == {e[2] : e \in {x \in index.exact : x[1] = n}} \cap mask

PatternBits(index, n, mask) ==
    {p[2] : p \in {x \in index.patterns : HitBy(x[1], n)}} \cap mask

\* Wildcards first; else each source's patterns, of which the first to match counts.
check_wildcard_and_patterns(index, n, mask) ==
    LET wild == SuffixLookup(index.wildcard, n) \cap mask
    IN  IF wild # {} THEN wild ELSE PatternBits(index, n, mask)

\* How the index classifies a name for a group, the first tier that matches.
evaluate(index, n, g) ==
    LET mask == group_mask(index, g)
        exact == ExactBits(index, n, mask)
        other == check_wildcard_and_patterns(index, n, mask)
    IN  IF is_allowed(index.allow, n, g) \/ RegexHits(index, index.allowRegex, n, g) # {}
        THEN ManualAllow
        ELSE IF ManagedDeny(index, n, g) THEN ManualDeny("ManagedDomain")
        ELSE IF RegexHits(index, index.blockRegex, n, g) # {} THEN ManualDeny("RegexFilter")
        ELSE IF exact # {} THEN classify_deny("Blocklist", exact)
        ELSE IF other # {} THEN classify_deny("Blocklist", other)
        ELSE NoMatch

\* One match per bit, named after the source that owns it.
collect_bit_matches(index, bits, type) ==
    {[kind |-> IF b = MANUAL THEN "Manual" ELSE "Blocklist",
      source |-> IF b \in index.sources THEN b ELSE 0, type |-> type] : b \in bits}

collect_allow_bits(allow, bits, type) ==
    {[kind |-> "Allowlist", source |-> IF b \in allow.sources THEN b ELSE 0,
      type |-> type] : b \in bits}

Global(type, holds) ==
    IF holds THEN {[kind |-> "Allowlist", source |-> 0, type |-> type]} ELSE {}

RegexMatches(ids) == {[kind |-> "Regex", source |-> i, type |-> "Regex"] : i \in ids}

\* Mutant of collect_allow_matches: expressions are left out.
AllowMatchesNoRegex(index, n, g) ==
    Global("Exact", \E e \in index.allow.groupExact : e[1] = g /\ e[2] = n)
        \cup Global("Exact", n \in index.allow.globalExact)
        \cup Global("Wildcard", SuffixLookup(index.allow.globalWildcard, n) # {})
        \cup Global("Wildcard", SuffixLookup(GroupTrie(index.allow.groupWildcard, g), n) # {})

collect_allow_matches(index, n, g) ==
    LET a == index.allow
        exact == {e[3] : e \in {x \in a.groupExact : x[1] = g /\ x[2] = n}}
    IN  collect_allow_bits(a, exact, "Exact")
        \cup collect_allow_bits(a, SuffixLookup(GroupTrie(a.groupWildcard, g), n), "Wildcard")
        \cup Global("Exact", n \in a.globalExact)
        \cup Global("Wildcard", SuffixLookup(a.globalWildcard, n) # {})
        \cup RegexMatches(RegexHits(index, index.allowRegex, n, g))

\* Every rule that matches, for the operator to read.
explain(index, n, g) ==
    LET mask == group_mask(index, g)
        managed == {[kind |-> "ManagedDomain", source |-> 0, type |-> t] : t \in
                        {x \in {"Exact", "Wildcard"} :
                            \/ x = "Exact" /\ <<g, n>> \in index.denies
                            \/ x = "Wildcard" /\ \E e \in index.denyWildcards :
                                                    e[1] = g /\ ProperSuffix(e[2], n)}}
        allows == collect_allow_matches(index, n, g)
        blocks == managed
            \cup collect_bit_matches(index, ExactBits(index, n, mask), "Exact")
            \cup collect_bit_matches(index, SuffixLookup(index.wildcard, n) \cap mask, "Wildcard")
            \cup collect_bit_matches(index, PatternBits(index, n, mask), "Pattern")
            \cup RegexMatches(RegexHits(index, index.blockRegex, n, g))
    IN  [blocked |-> allows = {} /\ blocks # {}, allows |-> allows, blocks |-> blocks]

\* What rules not added yet would match; an expression that does not compile is an error.
match_candidate(names, lines, regexes) ==
    LET entries == parse_list_text(lines)
        Matches(n) == \/ n \in ExactOf(entries)
                      \/ \E s \in SuffixesOf(entries) : ProperSuffix(s, n)
                      \/ \E p \in PatternsOf(entries) \cup regexes : HitBy(p, n)
    IN  IF regexes \subseteq DOMAIN Hits
        THEN [ok |-> TRUE, names |-> {n \in names : Matches(n)}]
        ELSE [ok |-> FALSE, names |-> {}]

\* The byte a verdict is cached as: the high bit for the operator's own rules,
\* and the source from 1 up.
BlockSources ==
    <<"Blocklist", "ManagedDomain", "RegexFilter", "CnameCloaking", "Schedule", "DnsRebinding",
      "RateLimit", "DnsTunneling", "NxdomainHijack", "ResponseIpFilter", "DgaDetection",
      "NonFqdn", "PrivatePtr", "DnsCookie">>
CACHE_MANUAL == 128

SourceByte(source) == CHOOSE i \in DOMAIN BlockSources : BlockSources[i] = source

encode_verdict(v) ==
    CASE v.tier = "NoMatch" -> 0
      [] v.tier = "ManualAllow" -> CACHE_MANUAL
      [] v.tier = "Block" -> SourceByte(v.source)
      [] v.tier = "ManualDeny" -> CACHE_MANUAL + SourceByte(v.source)

decode_verdict(byte) ==
    LET manual == byte >= CACHE_MANUAL
        code == byte % CACHE_MANUAL
    IN  CASE code = 0 -> IF manual THEN ManualAllow ELSE NoMatch
          [] code \in DOMAIN BlockSources ->
                IF manual THEN ManualDeny(BlockSources[code]) ELSE Block(BlockSources[code])
          [] OTHER -> NoMatch

============================================================================
