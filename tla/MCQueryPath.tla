----------------------------- MODULE MCQueryPath -----------------------------
(***************************************************************************)
(* QueryPath over mixes: each sets the world, the settings, the questions  *)
(* and how often each thing may happen.  Addresses, names and clients are  *)
(* strings; a rule is <<name, group>> -> verdict.                          *)
(***************************************************************************)
EXTENDS QueryPath

MCSubnet == [c1 |-> "n1", c2 |-> "n2", vip |-> "n2"]
Names == {"ok", "ads", "cloak", "priv", "bait", "c2", "gone", "search", "safe", "long", "x.evil", "y.evil",
          "rndm", "rev", "rev64", "rev4", "host", "host.lan", "dev.lan", "old.lan", "six", "bogus", "rec", "txt"}
MCApex == [n \in Names |-> IF n \in {"x.evil", "y.evil"} THEN "evil" ELSE n]
MCSub == [n \in Names |-> CASE n = "x.evil" -> "x" [] n = "y.evil" -> "y" [] OTHER -> ""]
MCNameSignals ==
    [n \in Names |-> CASE n = "long" -> {"fqdn_length"}
                       [] n \in {"x.evil", "y.evil"} -> {"entropy"}
                       [] n = "rndm" -> {"sld_entropy", "consonant_ratio", "ngram"}
                       [] n \in {"ok", "ads", "six", "rec", "txt"} -> {"short_sld"}
                       [] OTHER -> {}]

A(addrs) == Ok(Resolution(addrs, TRUE, <<>>))
Via(addrs, chain) == Ok(Resolution(addrs, TRUE, chain))
Nx == Ok([Resolution({}, TRUE, <<>>) EXCEPT !.nx = TRUE])
Held(x) == from_resolution(x.r)

None == [query |-> 0, publish |-> 0, edit |-> 0, load |-> 0, fault |-> 0, tick |-> 0, drop |-> 0, blocking |-> 0,
         schedule |-> 0, tcp |-> 0, dot |-> 0, doq |-> 0, close |-> 0, evict |-> 0, probe |-> 0, feed |-> 0,
         refresh |-> 0, wall |-> 0, back |-> 0, retention |-> 0, flush |-> 0, rollup |-> 0, crash |-> 0, page |-> 0]
Plain ==
    [workers |-> {1}, rules |-> <<<<>>>>, tables |-> <<[clients |-> <<>>, subnets |-> <<>>]>>, cache |-> <<>>,
     overrides |-> <<<<>>>>, exempt |-> {}, tunneling |-> "Block", dga |-> "Block", hijack |-> "Block",
     responseIp |-> "Block", private |-> {"10.1"}, safe |-> <<>>, strict |-> FALSE, limits |-> "off",
     enforce |-> FALSE, probes |-> {{}}, feeds |-> {{}}, localNames |-> {}, privatePtr |-> {}, routed |-> {},
     server |-> FALSE, localWorld |-> <<>>, chains |-> <<>>, dnssec |-> FALSE, dns64 |-> FALSE, embedded |-> <<>>,
     records |-> {}, ancestors |-> <<>>, wildcards |-> <<>>, blockPtr |-> FALSE, nonFqdn |-> "Pass",
     hostnames |-> {}, qualified |-> <<>>, ptrs |-> {}, policy |-> "NullIp", big |-> {}, proxies |-> {},
     proxied |-> {}, conns |-> <<>>, logging |-> FALSE, sampleRate |-> 1, wall |-> 1, logged |-> <<>>, queued |-> <<>>,
     retain |-> 0, steps |-> {}, window |-> 0,
     world |-> (<<"ok", "A">> :> {A({"1.1"})})]
With(times, fields) == [left |-> times @@ None] @@ fields @@ Plain

Query(name, type) ==
    [name |-> name, type |-> type, client |-> "c1", over |-> "udp", hops |-> <<>>, shape |-> "fast",
     wantsDnssec |-> FALSE, cookie |-> <<>>, cd |-> FALSE]
Ads == <<"ads", 1>> :> "Block"

\* Two publications under two threads that ask for the same name, on the slow path.
Verdicts ==
    With([query |-> 3, publish |-> 2],
         [workers |-> {1, 2}, rules |-> <<<<>>, Ads>>, questions |-> <<[Query("ads", "A") EXCEPT !.wantsDnssec = TRUE]>>,
          cache |-> (<<"ads", "A">> :> Held(A({"1.2"})))])

\* Clients and subnets change, and two loads of them overlap, while a thread resolves the groups of
\* a client again and again.
Groups ==
    With([query |-> 2, edit |-> 1, load |-> 2, fault |-> 1],
         [tables |-> <<[clients |-> [c1 |-> 2, c2 |-> 3], subnets |-> [n2 |-> 3]], [clients |-> [c2 |-> 2], subnets |-> <<>>]>>,
          questions |-> <<[Query("ok", "A") EXCEPT !.client = "c2"]>>,
          cache |-> (<<"ok", "A">> :> Held(A({"1.1"})))])

\* Every kind of cached answer, while the learned addresses and the rules change.
Cached ==
    With([query |-> 2, publish |-> 1, probe |-> 1, feed |-> 1],
         [rules |-> <<Ads, (<<"bait", 1>> :> "ManualAllow") @@ (<<"cloak", 1>> :> "ManualDeny")>>,
          probes |-> {{"6.6"}}, feeds |-> {{"7.7"}}, limits |-> "on",
          questions |-> <<Query("cloak", "A"), Query("priv", "A"), Query("bait", "A"), Query("c2", "A"),
                          Query("long", "A"), Query("txt", "TXT"), Query("gone", "TXT"), Query("rec", "AAAA")>>,
          records |-> {<<"rec", "A">>},
          cache |-> (<<"cloak", "A">> :> Held(Via({"1.3"}, <<"ok", "ads">>))) @@ (<<"priv", "A">> :> Held(A({"10.1"})))
                      @@ (<<"bait", "A">> :> Held(A({"6.6"}))) @@ (<<"c2", "A">> :> Held(A({"7.7"})))
                      @@ (<<"long", "A">> :> Held(A({"1.4"}))) @@ (<<"txt", "TXT">> :> Held(A({})))
                      @@ (<<"gone", "TXT">> :> Held(Nx))
                      @@ (<<"rec", "A">> :> [Resolution({"10.1"}, FALSE, <<>>) EXCEPT !.local = TRUE]),
          world |-> (<<"cloak", "A">> :> {Via({"1.3"}, <<"ok", "ads">>)}) @@ (<<"priv", "A">> :> {A({"10.1"})})
                      @@ (<<"bait", "A">> :> {A({"6.6"})}) @@ (<<"c2", "A">> :> {A({"7.7"})})
                      @@ (<<"gone", "TXT">> :> {Nx, Err("NxDomain")}) @@ (<<"txt", "TXT">> :> {Err("QueryTimeout")})])

Guarded == [Cached EXCEPT !.questions = SubSeq(@, 1, 4)]
Ungated == [Cached EXCEPT !.questions = SubSeq(@, 5, 8), !.left.probe = 0, !.left.feed = 0]

\* Two clients of a small budget, over both transports, whose names do not exist.
Budgets ==
    With([query |-> 3, tick |-> 3],
         [conns |-> (<<"tcp", 0>> :> [over |-> "tcp", ip |-> "c1", client |-> "c1", at |-> "open"]),
          limits |-> "on", exempt |-> {1}, world |-> (<<"gone", "A">> :> {Nx}),
          questions |-> <<Query("gone", "A"), Query("ok", "A"), [Query("ok", "A") EXCEPT !.over = "tcp"],
                          [Query("ok", "A") EXCEPT !.client = "vip"]>>,
          cache |-> (<<"ok", "A">> :> Held(A({"1.1"})))])
DryBudgets == [Budgets EXCEPT !.limits = "dry", !.left.query = 2]

\* Strict cookies: none, a half, one of this window, of the last and of another client.
Cookies ==
    With([query |-> 2, tick |-> 2],
         [strict |-> TRUE, cache |-> (<<"ok", "A">> :> Held(A({"1.1"}))),
          questions |-> [i \in 1..5 |->
              [Query("ok", "A") EXCEPT !.cookie = <<<<>>, <<"half">>, <<0, "c1">>, <<1, "c1">>, <<0, "c2">>>>[i]]]])

\* The toggle with timers, and schedules of a group, around one query.
Toggle ==
    With([query |-> 1, blocking |-> 3, tick |-> 2, schedule |-> 1],
         [conns |-> (<<"tcp", 0>> :> [over |-> "tcp", ip |-> "c1", client |-> "c1", at |-> "open"]),
          rules |-> <<Ads>>, overrides |-> <<<<>>, 1 :> [kind |-> "BlockAll", until |-> 0],
                                            1 :> [kind |-> "AllowAll", until |-> 0],
                                            1 :> [kind |-> "TimedBypass", until |-> 1],
                                            1 :> [kind |-> "TimedBlock", until |-> 1]>>,
          questions |-> <<[Query("ads", "A") EXCEPT !.over = "tcp"]>>,
          cache |-> (<<"ads", "A">> :> Held(A({"1.2"})))])

\* Connections up to their limit; behind a proxy, with a query each way; and streams.
Connections ==
    With([tcp |-> 3, dot |-> 2, close |-> 1], [questions |-> <<>>])
Proxied ==
    With([tcp |-> 2, dot |-> 1, query |-> 1, close |-> 1],
         [proxied |-> {"local", "unspec", "c2", "?"}, cache |-> (<<"ok", "A">> :> Held(A({"1.1"}))),
          questions |-> <<[Query("ok", "A") EXCEPT !.over = "tcp"],
                          [Query("ok", "A") EXCEPT !.over = "dot", !.client = "c2"]>>])
Streams ==
    With([doq |-> 1, query |-> 2, close |-> 1],
         [workers |-> {1, 2}, proxies |-> {"vip", "c2"}, policy |-> "Refused", rules |-> <<Ads>>, big |-> {"ok"},
          cache |-> (<<"ok", "A">> :> Held(A({"1.1"}))),
          questions |-> <<[Query("ok", "A") EXCEPT !.over = "doq"], Query("ok", "A"),
                          [Query("ads", "A") EXCEPT !.over = "doh", !.client = "vip", !.hops = <<"c2", "c1", "vip">>],
                          [Query("ok", "A") EXCEPT !.over = "doh", !.client = "vip", !.hops = <<"c2", "?">>],
                          [Query("ads", "A") EXCEPT !.shape = "odd"], [Query("ads", "A") EXCEPT !.shape = "cookie"],
                          [Query("ads", "A") EXCEPT !.shape = "bad"]>>])

\* Names that tunnel, until they are flagged and forgotten; a name that looks generated.
Tunnels ==
    With([query |-> 3, tick |-> 2, evict |-> 1],
         [world |-> (<<"x.evil", "TXT">> :> {Nx}) @@ (<<"y.evil", "TXT">> :> {Nx}),
          questions |-> <<Query("x.evil", "TXT"), Query("y.evil", "TXT")>>])
Generated ==
    With([query |-> 3, tick |-> 1, evict |-> 1],
         [world |-> (<<"rndm", "A">> :> {A({"1.5"})}), questions |-> <<Query("rndm", "A")>>])

\* The layers: DNSSEC and its refusals, DNS64, filters, wildcards, local names and PTR records.
Layers ==
    With([query |-> 2, drop |-> 1],
         [dnssec |-> TRUE, enforce |-> TRUE, dns64 |-> TRUE, blockPtr |-> TRUE, nonFqdn |-> "Qualify",
          server |-> TRUE, localNames |-> {"host.lan", "old.lan"}, privatePtr |-> {"rev", "rev4"}, routed |-> {"rev4"},
          localWorld |-> (<<"host.lan", "A">> :> {A({"10.1"}), Err("QueryTimeout")}) @@ (<<"old.lan", "A">> :> {Nx}),
          chains |-> [bogus |-> {"Bogus", "error"}, ok |-> {"Secure"}], embedded |-> [rev64 |-> "rev4"],
          qualified |-> [host |-> "host.lan"], ptrs |-> {"rev"},
          ancestors |-> ("dev.lan" :> <<"lan">>), wildcards |-> [lan |-> [A |-> {"10.2"}]],
          world |-> (<<"bogus", "A">> :> {A({"1.6"})}) @@ (<<"six", "AAAA">> :> {A({})})
                      @@ (<<"six", "A">> :> {A({"1.7", "10.1"}), Err("ServFail")})
                      @@ (<<"rev64", "PTR">> :> {Nx}) @@ (<<"rev4", "PTR">> :> {A({}), Nx}),
          questions |-> <<Query("bogus", "A"), [Query("bogus", "A") EXCEPT !.cd = TRUE, !.wantsDnssec = TRUE],
                          Query("six", "AAAA"), Query("host", "A"), Query("old.lan", "A"), Query("dev.lan", "A"),
                          Query("dev.lan", "TXT"), Query("rev", "PTR"), Query("rev4", "PTR"), Query("rev64", "PTR")>>])
Unqualified ==
    With([query |-> 2],
         [nonFqdn |-> "Block", hostnames |-> {"host"}, blockPtr |-> TRUE, privatePtr |-> {"rev"},
          localNames |-> {"old.lan"},
          questions |-> <<Query("host", "A"), Query("rev", "PTR"), Query("old.lan", "A"), Query("rndm", "NULL")>>])

\* Safe search, alerts and limits of concurrency.
Alerts ==
    With([query |-> 2, probe |-> 1, feed |-> 1],
         [conns |-> (<<"tcp", 0>> :> [over |-> "tcp", ip |-> "c1", client |-> "c1", at |-> "open"]),
          workers |-> {1, 2}, tunneling |-> "Alert", dga |-> "Alert", hijack |-> "Alert", responseIp |-> "Alert", exempt |-> {2},
          safe |-> (<<1, "search">> :> "safe"), tables |-> <<[clients |-> [c2 |-> 2], subnets |-> <<>>]>>,
          probes |-> {{"6.6"}}, feeds |-> {{"6.6"}},
          world |-> (<<"search", "A">> :> {A({"1.8"})}) @@ (<<"safe", "A">> :> {A({"1.9"}), Err("NxDomain")})
                      @@ (<<"bait", "A">> :> {A({"6.6"})}) @@ (<<"long", "A">> :> {A({"1.4"})}),
          questions |-> <<Query("search", "A"), [Query("search", "A") EXCEPT !.client = "c2"],
                          Query("bait", "A"), [Query("long", "A") EXCEPT !.over = "tcp"]>>])

\* Queries of every kind on their way into the log: chunks that fail, a full channel and a restart.
Logging ==
    [Cached EXCEPT !.logging = TRUE,
        !.left = [None EXCEPT !.query = 2, !.fault = 1, !.refresh = 1, !.crash = 1]]
Sampled ==
    With([query |-> 2, refresh |-> 1],
         [logging |-> TRUE, sampleRate |-> 2, workers |-> {1, 2}, questions |-> <<Query("ok", "A"), Query("gone", "A")>>,
          world |-> (<<"ok", "A">> :> {A({"1.1"})}) @@ (<<"gone", "A">> :> {Nx, Err("QueryTimeout"), Err("ServFail")})])

Row(at, e) == [at |-> at, e |-> e]
Hijacked == BlockedLog(Query("bait", "A"), "NXDOMAIN_HIJACK", "nxdomain_hijack")
TimedOut == [base_query_log(Query("gone", "A")) EXCEPT !.status = "TIMEOUT"]
Denied(name) == BlockedLog(Query(name, "A"), "BLOCKED", "blocklist")
Asked(name, client) == [base_query_log([Query(name, "A") EXCEPT !.client = client]) EXCEPT !.up = <<"main", "s1">>]

\* Retention and a flush of the whole log while entries are written.
Retention ==
    With([flush |-> 1, retention |-> 1, fault |-> 1, wall |-> 1],
         [wall |-> 5, retain |-> 2, logged |-> <<Row(1, Hijacked), Row(2, Asked("ok", "c1")), Row(4, TimedOut)>>,
          queued |-> <<Asked("gone", "c1"), refresh_log(Query("ok", "A"))>>])

\* Hours that close, open again when the clock steps back, and go.
SteppedHours ==
    With([rollup |-> 2, wall |-> 3, back |-> 1],
         [wall |-> 8, steps |-> {3}, queued |-> <<Asked("ok", "c2")>>,
          logged |-> <<Row(2, Denied("ads")), Row(5, Asked("ok", "c1"))>>])
PrunedHours ==
    With([rollup |-> 2, retention |-> 1, wall |-> 1],
         [wall |-> 8, retain |-> 5, queued |-> <<Asked("ok", "c2")>>,
          logged |-> <<Row(2, Denied("ads")), Row(5, Asked("ok", "c1"))>>])
FlushedHours ==
    With([rollup |-> 2, flush |-> 1, wall |-> 1],
         [wall |-> 8, queued |-> <<Asked("ok", "c2")>>, logged |-> <<Row(2, Denied("ads")), Row(5, Asked("ok", "c1"))>>])

\* An hour closes while a flush that stamped its rows in it waits for the write lock.
LateHours ==
    With([rollup |-> 2, wall |-> 2],
         [wall |-> 11, queued |-> <<Asked("ok", "c2")>>, logged |-> <<Row(5, Denied("ads")), Row(9, Asked("ok", "c1"))>>])

\* A reader turns pages while rows come and go.
Paging ==
    With([page |-> 1, retention |-> 1, back |-> 1],
         [wall |-> 6, retain |-> 3, steps |-> {2}, window |-> 4, queued |-> <<Asked("gone", "c1")>>,
          logged |-> <<Row(2, Denied("ads")), Row(4, Asked("ok", "c1")), Row(4, Asked("ok", "c2")), Row(5, Denied("ads"))>>])

MCMixes == <<Verdicts, Groups, Guarded, Ungated, Budgets, DryBudgets, Cookies, Toggle, Connections, Proxied, Streams, Tunnels,
             Generated, Layers, Unqualified, Alerts>>
MCLogMixes == <<Logging, Sampled, Retention, SteppedHours, PrunedHours, FlushedHours, LateHours, Paging>>

=============================================================================
