------------------------------ MODULE Validation ------------------------------
(***************************************************************************)
(* The upstream pools under their two kinds of callers: clients, whose     *)
(* queries carry a group, and the DNSSEC validators, whose fetches of      *)
(* answers, DS and DNSKEY records are queries of the same pools.           *)
(*                                                                         *)
(* Around the validators is a world of zones that sign, roll their keys    *)
(* and become signed the way RFC 6781 times it, and of replies that may    *)
(* arrive damaged: without their signatures, with other data, signed by    *)
(* another zone, expired, or with part of the denial records only.         *)
(***************************************************************************)
EXTENDS UpstreamQuery, Dnssec

CONSTANTS
    Scenarios,  \* who calls, what of, over which pools, and how often the world may change
    Zones,      \* zone -> [content, nsec3, optOut, iterations, alg, digest, course]
    SigLife     \* how long a signature is valid

VARIABLES
    scenario,
    carried,       \* the fetch the pools work on: <<validator, kind>>, or <<>>
    stage, since,  \* zone -> where it is on its course, and since when
    left,          \* kind of event -> how often it may still happen
    hurt, stretched  \* history: a damaged reply was delivered; one that a stretched NSEC3 record proves

world == <<scenario, stage, since, hurt, stretched>>
dnssecVars == <<clock, cacheVars, val>>
allVars == <<queryVars, dnssecVars, world, carried, left>>

Now(f) == Scenarios[scenario][f]
May(e) == left[e] > 0
Once(e) == left' = [left EXCEPT ![e] = @ - 1]

ValidationInit ==
    /\ scenario \in DOMAIN Scenarios
    /\ QueryInit /\ set \in Now("sets") /\ checker \in Now("checker")
    /\ DnssecInit /\ carried = <<>>
    /\ stage = [z \in DOMAIN Zones |-> 1] /\ since = [z \in DOMAIN Zones |-> -Ttl]
    /\ left = Now("left") /\ hurt = FALSE /\ stretched = FALSE

(***************************************************************************)
(* The zones                                                               *)
(***************************************************************************)
Of(z) == Zones[z].course[stage[z]]    \* [keys, self, signs, ds], each a set of generations
KeyOf(z, g) == [zone |-> z, gen |-> g, alg |-> Zones[z].alg]

\* The deepest zone that holds a name, above it for a DS record.
HolderOf(n, type) ==
    CHOOSE z \in DOMAIN Zones :
        /\ name_encloses(z, n) /\ (type = "DS" => z # n)
        /\ \A y \in DOMAIN Zones : name_encloses(y, n) /\ (type = "DS" => y # n) => Len(y) <= Len(z)
Cuts(z) == {c \in DOMAIN Zones : c # Root /\ HolderOf(c, "DS") = z}
OwnersIn(z) == {z} \cup Cuts(z) \cup {k[1] : k \in DOMAIN Zones[z].content}
DsSet(c) == {[key |-> KeyOf(c, g), digest |-> Zones[c].digest] : g \in Of(c).ds}

TypesAt(z, n) ==
    {k[2] : k \in {x \in DOMAIN Zones[z].content : x[1] = n}}
    \cup (IF n = z THEN {"SOA", "NS", "DNSKEY"} ELSE {})
    \cup (IF n \in Cuts(z) THEN {"NS"} \cup (IF Of(n).ds # {} THEN {"DS"} ELSE {}) ELSE {})
Exists(z, n) == \E o \in OwnersIn(z) : name_encloses(n, o)

\* The data of the RRset a zone has there; <<>> for none.
DataAt(z, n, type) ==
    CASE type = "DNSKEY" /\ n = z -> IF Of(z).keys = {} THEN <<>> ELSE <<{KeyOf(z, g) : g \in Of(z).keys}>>
      [] type = "DS" /\ n \in Cuts(z) -> IF Of(n).ds = {} THEN <<>> ELSE <<DsSet(n)>>
      [] OTHER -> IF <<n, type>> \in DOMAIN Zones[z].content THEN <<Zones[z].content[<<n, type>>]>> ELSE <<>>

Signed(z, type, data, labels) ==
    {[signer |-> z, key |-> KeyOf(z, g), labels |-> labels, over |-> data,
      inception |-> now_secs, expiration |-> (now_secs + SigLife) % Wrap] :
     g \in IF type = "DNSKEY" THEN Of(z).self ELSE Of(z).signs}
RRset(z, owner, type, data, labels) ==
    [owner |-> owner, type |-> type, data |-> data, sigs |-> Signed(z, type, data, labels)]

\* The closest encloser of a name a zone does not have.
Encloser(z, n) == Top(n, CHOOSE k \in Len(z)..Len(n) : Exists(z, Top(n, k)) /\ (k < Len(n) => ~Exists(z, Top(n, k + 1))))

AnswerAt(z, n, type) ==
    LET data == DataAt(z, n, type)
        star == make_wildcard(Encloser(z, n))
        wild == DataAt(z, star, type)
    IN  CASE data # <<>> -> <<RRset(z, n, type, data[1], num_labels(n))>>
          [] data = <<>> /\ ~Exists(z, n) /\ wild # <<>> -> <<RRset(z, n, type, wild[1], num_labels(star))>>
          [] OTHER -> <<>>

(***************************************************************************)
(* The denial records of a zone                                            *)
(***************************************************************************)
Chained(ns, Less(_, _)) ==
    [n \in ns |-> LET later == {m \in ns : Less(n, m)}
                      from == IF later = {} THEN ns ELSE later
                  IN  CHOOSE m \in from : \A o \in from \ {m} : Less(m, o)]
SetAsSeq(S, Less(_, _)) ==
    [i \in 1..Cardinality(S) |-> CHOOSE x \in S : Cardinality({y \in S : Less(y, x)}) = i - 1]
HashLess(a, b) == Hash[a] < Hash[b]

Hashed(z) ==
    UNION {{Top(o, k) : k \in Len(z)..Len(o)} :
           o \in {x \in OwnersIn(z) : ~(Zones[z].optOut /\ x \in Cuts(z) /\ Of(x).ds = {})}}

NsecOf(z, n, next) ==
    RRset(z, n, "NSEC", [next |-> next, types |-> TypesAt(z, n) \cup {"NSEC"}], num_labels(n))
Nsec3Of(z, n, next) ==
    RRset(z, Append(z, Hash[n]), "NSEC3",
          [next |-> Hash[next], types |-> TypesAt(z, n), optOut |-> Zones[z].optOut,
           params |-> [salt |-> 1, iterations |-> Zones[z].iterations]], Len(z) + 1)

DenialsOf(z) ==
    LET plain == SetAsSeq(OwnersIn(z), Before)
        hashed == SetAsSeq(Hashed(z), HashLess)
        next == Chained({plain[i] : i \in DOMAIN plain}, Before)
        next3 == Chained({hashed[i] : i \in DOMAIN hashed}, HashLess)
    IN  CASE Of(z).keys = {} -> <<>>
          [] Of(z).keys # {} /\ Zones[z].nsec3 -> [i \in DOMAIN hashed |-> Nsec3Of(z, hashed[i], next3[hashed[i]])]
          [] OTHER -> [i \in DOMAIN plain |-> NsecOf(z, plain[i], next[plain[i]])]
SoaOf(z) == <<RRset(z, z, "SOA", "soa", Len(z))>>

(***************************************************************************)
(* Replies                                                                 *)
(***************************************************************************)
\* What the zone itself says, following one CNAME.
Honest(n, type) ==
    LET z == HolderOf(n, type)
        alias == AnswerAt(z, n, "CNAME")
        own == IF alias # <<>> /\ type # "DS"
               THEN alias \o AnswerAt(HolderOf(alias[1].data, type), alias[1].data, type)
               ELSE AnswerAt(z, n, type)
    IN  [rcode |-> IF own = <<>> /\ ~Exists(z, n) THEN "NXDomain" ELSE "NoError", answers |-> own,
         authority |-> SoaOf(z) \o DenialsOf(z), only |-> FALSE, negTtl |-> Zones[z].negTtl]

OtherKey == [zone |-> <<9>>, gen |-> 0, alg |-> 8]
OtherData(r) ==
    CASE r.type = "DNSKEY" -> r.data \cup {OtherKey}
      [] r.type = "DS" -> {[key |-> OtherKey, digest |-> 2]}
      [] r.type = "CNAME" -> <<9>>
      [] OTHER -> "other"
Each(rs, F(_)) == [i \in DOMAIN rs |-> F(rs[i])]

\* The ways a reply may be damaged.
Stripped(m) == [m EXCEPT !.answers = Each(@, LAMBDA r : [r EXCEPT !.sigs = {}]), !.authority = <<>>, !.negTtl = 0]
Altered(m) == [m EXCEPT !.answers = Each(@, LAMBDA r : [r EXCEPT !.data = OtherData(r)])]
SignedBy(z, m) ==
    [m EXCEPT !.answers = Each(@, LAMBDA r : RRset(z, r.owner, r.type, OtherData(r), num_labels(r.owner)))]
Expired(m) ==
    [m EXCEPT !.answers = Each(@, LAMBDA r : [r EXCEPT !.sigs = {[s EXCEPT !.expiration = (now_secs + Wrap - 1) % Wrap] : s \in @}])]
OtherSig(z, r) ==
    [signer |-> z, key |-> OtherKey, labels |-> num_labels(r.owner), over |-> OtherData(r),
     inception |-> now_secs, expiration |-> (now_secs + SigLife) % Wrap]
Replaced(m) ==
    [m EXCEPT !.answers = Each(@, LAMBDA r : [r EXCEPT !.data = OtherData(r), !.sigs = {OtherSig(HolderOf(r.owner, r.type), r)}])]
SignaturesOnly(m) == [m EXCEPT !.answers = <<>>, !.only = TRUE]
Partial(m, rcode, authority, some) ==
    [m EXCEPT !.answers = <<>>, !.rcode = rcode, !.authority = SelectSeq(authority, LAMBDA r : r \in some)]

\* The denial records of the zone that holds a name and of the one above it.
Sections(z) == {SoaOf(y) \o DenialsOf(y) : y \in {z} \cup {x \in DOMAIN Zones : z # Root /\ x = HolderOf(z, "DS")}}
SomeOf(authority) ==
    {some \in SUBSET {authority[i] : i \in DOMAIN authority} : Cardinality(some) <= Now("parts")}

Damaged(n, type, m) ==
    {Stripped(m)}
    \cup (IF m.answers = <<>> THEN {} ELSE {Altered(m), Replaced(m), Expired(m), SignaturesOnly(m)})
    \cup (IF m.answers = <<>> THEN {} ELSE {SignedBy(z, m) : z \in Now("strangers")})
    \cup UNION {{Partial(m, rcode, authority, some) : rcode \in {"NoError", "NXDomain", "Refused"}, some \in SomeOf(authority)} :
                authority \in Sections(HolderOf(n, type))}

\* The interval of a record on the circle of hashes ...
Spans(r, h) ==
    IF owner_label(r) < r.data.next THEN owner_label(r) < h /\ h < r.data.next
    ELSE owner_label(r) < h \/ h < r.data.next

\* ... and a denial of n that rests on one taken to cover a hash outside its interval,
\* as nsec3_covers takes the last of the circle to cover every hash.
Stretched(n, m) ==
    LET rs == SelectSeq(m.authority, LAMBDA r : r.type = "NSEC3")
        Wrongly(x) == \E r \in Range(nsec3_find_covering(rs, Hash[x])) : ~Spans(r, Hash[x])
    IN  rs # <<>> /\ \E proof \in Range(closest_encloser_proof(n, Parent(rs[1].owner), rs)) :
            Wrongly(Top(n, Len(proof.encloser) + 1)) \/ Wrongly(make_wildcard(proof.encloser))

(***************************************************************************)
(* Steps                                                                   *)
(***************************************************************************)
ClientAsks ==
    /\ Now("callers") = "clients"
    /\ \E n \in Names, g \in Groups \cup {NoGroup} : Begin(n, g)
    /\ UNCHANGED <<dnssecVars, world, carried, left>>

ValidatorAsked ==
    /\ Now("callers") = "validators" /\ May("ask") /\ Once("ask")
    /\ \E v \in Now("validators"), i \in DOMAIN Now("questions") : validate_query(v, Now("questions")[i])
    /\ UNCHANGED <<queryVars, world, carried>>

FetchName(v, kind) ==
    CASE kind = "ANSWER" -> val[v].q.name
      [] kind # "ANSWER" /\ val[v].at = "root" -> Root
      [] OTHER -> Child(val[v])
FetchType(v, kind) == IF kind = "ANSWER" THEN val[v].q.type ELSE kind

BeginFetch ==
    /\ carried = <<>>
    /\ \E v \in Validators : val[v].at \in {"answer", "root", "ds", "keys"} /\
         \E kind \in val[v].want : Begin(FetchName(v, kind), NoGroup) /\ carried' = <<v, kind>>
    /\ UNCHANGED <<dnssecVars, world, left>>

Got(v, kind, outcome) == val' = [val EXCEPT ![v].want = @ \ {kind}, ![v].got = (kind :> outcome) @@ @]

\* The reply of the pools: what the zone says, that damaged on its way, or an error.
EndFetch ==
    /\ carried # <<>> /\ pc = "idle" /\ carried' = <<>>
    /\ \E v \in {carried[1]}, kind \in {carried[2]} :
         \/ /\ result # "ok"
            /\ Got(v, kind, [err |-> result, cached |-> FALSE])
            /\ hurt' = (hurt \/ result = "invalid") /\ UNCHANGED <<stretched, left>>
         \/ /\ result = "ok"
            /\ Got(v, kind, [err |-> "", cached |-> FALSE, msg |-> Honest(FetchName(v, kind), FetchType(v, kind))])
            /\ UNCHANGED <<hurt, stretched, left>>
         \/ /\ result = "ok" /\ May("damage") /\ Once("damage") /\ kind \in Now("exposed")
            /\ \E m \in Damaged(FetchName(v, kind), FetchType(v, kind), Honest(FetchName(v, kind), FetchType(v, kind))) :
                   /\ Got(v, kind, [err |-> "", cached |-> FALSE, msg |-> m])
                   /\ stretched' = (stretched \/ Stretched(FetchName(v, kind), m))
            /\ hurt' = TRUE
    /\ UNCHANGED <<queryVars, clock, cacheVars, scenario, stage, since>>

UpstreamStep ==
    /\ \/ /\ \/ \E H \in SUBSET AllServers : LookRouted(H) \/ LookHealthy(H) \/ SkipPool(H)
             \/ FailOpen \/ LookOpen \/ EndWalk \/ PoolExhausted \/ RaceTimesOut
             \/ NextServerAnswers \/ RacerAnswers
          /\ UNCHANGED left
       \/ /\ \E e \in Errors : NextServerFails(e) \/ RacerFails(e)
          /\ IF Now("callers") = "clients" THEN UNCHANGED left ELSE May("fault") /\ Once("fault")
    /\ UNCHANGED <<dnssecVars, world, carried>>

ValidatorStep ==
    /\ \E v \in Validators : DnssecStep(v)
    /\ UNCHANGED <<queryVars, world, carried, left>>

\* A zone goes on with its course once the records of its last stage have left the caches.
ZoneAdvances ==
    /\ May("advance") /\ Once("advance")
    /\ \E z \in Now("moving") :
         /\ stage[z] < Len(Zones[z].course) /\ clock >= since[z] + Ttl
         /\ stage' = [stage EXCEPT ![z] = @ + 1] /\ since' = [since EXCEPT ![z] = clock]
    /\ UNCHANGED <<queryVars, dnssecVars, scenario, hurt, stretched, carried>>

\* A validation lasts seconds and a TTL hours: no tick falls into one.
Tick ==
    /\ May("tick") /\ Once("tick") /\ \A v \in Validators : val[v].at = "idle"
    /\ clock' = clock + 1
    /\ UNCHANGED <<queryVars, cacheVars, val, world, carried>>

ValidationNext ==
    \/ ClientAsks \/ ValidatorAsked \/ BeginFetch \/ EndFetch
    \/ UpstreamStep \/ ValidatorStep \/ ZoneAdvances \/ Tick

ValidationSpec == ValidationInit /\ [][ValidationNext]_allVars

(***************************************************************************)
(* Properties                                                              *)
(***************************************************************************)
Judged(status) == {v \in Validators : val[v].at = "done" /\ val[v].status = status}

\* Whether an RRset is one its zone publishes, or expands a wildcard of it.
Genuine(r) ==
    LET z == HolderOf(r.owner, r.type)
        own == AnswerAt(z, r.owner, r.type)
    IN  own # <<>> /\ own[1].data = r.data

\* Whether a zone has neither a name nor a wildcard for it.  The NSEC records around an
\* empty non-terminal do not tell it from a name that is not there (nsec1_nxdomain).
NoSuchName(z, n) ==
    IF Exists(z, n) THEN ~Zones[z].nsec3 /\ n \notin OwnersIn(z)
    ELSE make_wildcard(Encloser(z, n)) \notin OwnersIn(z)

\* "Secure": every RRset of the answer is one its zone publishes, and what a
\* negative answer denies is not there, the type or the whole name (validator.rs
\* validate_message, denial.rs "Secure - the denial is fully proven"): however replies
\* are damaged, whatever other validations left in the cache, and while zones roll their
\* keys.  One damage goes through: a denial that rests on the last NSEC3 record of a zone
\* for a hash outside its interval, which nsec3_covers does not tell from one inside.
SecureIsGenuine ==
    ~stretched => \A v \in Judged("Secure") :
        LET m == val[v].msg
            n == val[v].q.name
            z == HolderOf(n, val[v].q.type)
        IN  IF m.answers # <<>> THEN \A i \in DOMAIN m.answers : Genuine(m.answers[i])
            ELSE /\ AnswerAt(z, n, val[v].q.type) = <<>>
                 /\ m.rcode = "NXDomain" => NoSuchName(z, n)

\* Whether a delegation has no DS this build can use, or has had one for less than
\* the longest its absence may be cached.
Unsecured(z) ==
    \/ ~\E ds \in DsSet(z) : ds.digest # 1 /\ is_supported_algorithm(ds.key.alg)
    \/ stage[z] > 1 /\ Zones[z].course[stage[z] - 1].ds = {} /\ clock < since[z] + MaxNegativeTtl
Hedged(z) == Zones[z].nsec3 /\ (Zones[z].optOut \/ Zones[z].iterations > IterationCap)

\* "Insecure": only below a delegation that has no usable DS, or in a zone whose
\* denial leaves room for one (opt-out, too many iterations); a damaged reply
\* never downgrades a signed zone, and a delegation that has been signed is no
\* longer taken for insecure after MAX_NEGATIVE_DS_TTL.
InsecureIsProven ==
    ~stretched => \A v \in Judged("Insecure") :
        \E n \in {val[v].q.name} \cup {val[v].msg.answers[i].owner : i \in DOMAIN val[v].msg.answers} :
            \E z \in DOMAIN Zones : name_encloses(z, n) /\ (Hedged(z) \/ (z # Root /\ Unsecured(z)))

\* "Bogus": never while every reply is what the zones say: not when upstreams fail
\* (that is Indeterminate), not after keys were rolled or a zone was signed, with
\* whatever of them is still cached.
BogusIsEarned == Judged("Bogus") # {} => hurt

\* Neither verdict is given for want of information: what is cached may be older than
\* the zone, and any fetch of the chain may fail (fetch_ds, fetch_dnskey, is_transient_error).
VerdictsEarned == InsecureIsProven /\ BogusIsEarned
=============================================================================
