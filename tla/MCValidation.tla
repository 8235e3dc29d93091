---------------------------- MODULE MCValidation ----------------------------
(***************************************************************************)
(* Validation over scenarios: clients of every kind of pool set, and       *)
(* validators over a small tree of zones.                                  *)
(***************************************************************************)
EXTENDS Validation

CONSTANTS a, b, c, g1, g2

P(strategy, servers, domains, groups) ==
    [strategy |-> strategy, servers |-> servers, domains |-> domains, groups |-> groups]

Default(strategy, servers) == P(strategy, servers, {}, {})

\* corp, lab.corp and dev.lab.corp, the top-level label first.
Corp == <<"corp">>
Lab  == <<"corp", "lab">>
Dev  == <<"corp", "lab", "dev">>

MCNames == {Corp, Dev, <<"corp", "www">>, <<"net">>}

\* Two default pools of every pair of strategies; racers alone, in pairs and in
\* threes; a pool without servers; and domains routed for everyone, for groups,
\* and twice.
ClientPools ==
    {<<Default(p, <<a, b>>), Default(q, <<c>>)>> : p \in Strategies, q \in Strategies}
    \cup {<<Default("parallel", <<a, b, c>>), Default("failover", <<a>>)>>,
          <<Default("parallel", <<>>), Default("failover", <<>>)>>,
          <<P("failover", <<a, b>>, {Lab}, {}), Default("balanced", <<b, c>>),
            P("parallel", <<c>>, {Lab, Corp}, {g1}), P("failover", <<c>>, {Lab}, {})>>,
          <<P("parallel", <<a, b>>, {Dev}, {g1}), P("balanced", <<b>>, {Dev}, {g2}),
            Default("failover", <<c>>)>>}
OnePool == {<<Default("failover", <<a>>)>>}
MCPoolSets == ClientPools \cup OnePool

(***************************************************************************)
(* The zones: the root; 1 with NSEC; 1.2, which rolls its keys; 1.3, which *)
(* becomes signed; 2 with NSEC3 and opt-out; 2.1 unsigned and 2.2 signed;  *)
(* 3 with an algorithm this build lacks.                                   *)
(***************************************************************************)
Stage(keys, signs, ds) == [keys |-> keys, self |-> signs, signs |-> signs, ds |-> ds]
Steady == <<Stage({0}, {0}, {0})>>
Zone(content, course) ==
    [content |-> content, nsec3 |-> FALSE, optOut |-> FALSE, iterations |-> 0, alg |-> 8, digest |-> 2,
     negTtl |-> 2, course |-> course]

MCZones ==
    Root :> [Zone(<<>>, <<[keys |-> {0, 1}, self |-> {0}, signs |-> {1}, ds |-> {}]>>) EXCEPT !.negTtl = 0]
    @@ <<1>> :> Zone(<<<<1, 4, 1>>, "A">> :> "v1" @@ <<<<1, 5, 0>>, "A">> :> "v2" @@ <<<<1, 6>>, "CNAME">> :> <<1, 3, 1>>, Steady)
    @@ <<1, 2>> :> Zone(<<<<1, 2, 1>>, "A">> :> "v3",
                        <<Stage({0}, {0}, {0}), Stage({0, 1}, {0, 1}, {0}), Stage({0, 1}, {0, 1}, {1}), Stage({1}, {1}, {1})>>)
    @@ <<1, 3>> :> Zone(<<<<1, 3, 1>>, "A">> :> "v4", <<Stage({}, {}, {}), Stage({0}, {0}, {}), Stage({0}, {0}, {0})>>)
    @@ <<2>> :> [Zone(<<<<2, 3>>, "A">> :> "v5" @@ <<<<2, 4, 0>>, "A">> :> "v6", Steady) EXCEPT !.nsec3 = TRUE, !.optOut = TRUE]
    @@ <<2, 1>> :> Zone(<<<<2, 1, 1>>, "A">> :> "v7", <<Stage({}, {}, {})>>)
    @@ <<2, 2>> :> [Zone(<<<<2, 2, 1>>, "A">> :> "v8" @@ <<<<2, 2, 3, 1>>, "A">> :> "v9", Steady) EXCEPT !.nsec3 = TRUE]
    @@ <<3>> :> [Zone(<<<<3, 1>>, "A">> :> "v10", Steady) EXCEPT !.alg = 16]

\* Hashes: an order of its own for the names of the hashed zones.
Labels == 0..5
HashedNames == {<<2>>} \cup {<<2, i>> : i \in Labels} \cup {<<2, i, j>> : i \in Labels, j \in Labels}
               \cup {<<2, i, j, k>> : i \in Labels, j \in Labels, k \in Labels}
Digit(n, i) == IF Len(n) < i THEN 0 ELSE n[i] + 1
MCHash == [n \in HashedNames |-> 100 + ((Digit(n, 2) * 37 + Digit(n, 3) * 331 + Digit(n, 4) * 2003) % 997)]

Asked(n, type) == [name |-> n, type |-> type]
None == [ask |-> 0, fault |-> 0, damage |-> 0, tick |-> 0, advance |-> 0]
Clients ==
    [callers |-> "clients", sets |-> ClientPools, checker |-> BOOLEAN, left |-> None]
Validating(validators, times, questions, fields) ==
    fields @@ [callers |-> "validators", validators |-> validators, sets |-> OnePool, checker |-> {FALSE}, left |-> times @@ None,
               questions |-> questions, moving |-> {}, exposed |-> {}, parts |-> 0, strangers |-> {<<2>>}]

\* Keys roll, and a zone becomes signed, between and under validations.
Rolling == Validating({1}, [ask |-> 3, tick |-> 2, advance |-> 3], <<Asked(<<1, 2, 1>>, "A")>>, [moving |-> {<<1, 2>>}])
Signing == Validating({1}, [ask |-> 3, tick |-> 2, advance |-> 2], <<Asked(<<1, 3, 1>>, "A"), Asked(<<1, 6>>, "A")>>, [moving |-> {<<1, 3>>}])
\* Two at a time, while upstreams fail.
Outage == Validating({1, 2}, [ask |-> 2, fault |-> 1], <<Asked(<<1, 2, 1>>, "A"), Asked(<<1, 4, 2>>, "A")>>, <<>>)
\* Several replies of one validation are other ones, that agree with each other.
Agreeing == Validating({1}, [ask |-> 1, damage |-> 3], <<Asked(<<1, 2, 1>>, "A")>>, [exposed |-> {"ANSWER", "DS", "DNSKEY"}])
\* One reply is damaged: of the walk, or the one to be judged.
Links == Validating({1}, [ask |-> 2, damage |-> 1], <<Asked(<<1, 2, 1>>, "A"), Asked(<<2, 2, 1>>, "A")>>,
                    [exposed |-> {"DS", "DNSKEY"}, parts |-> 2])
Answers == Validating({1}, [ask |-> 1, damage |-> 1],
                      <<Asked(<<1, 2, 1>>, "A"), Asked(<<1, 5, 7>>, "A"), Asked(<<2, 4, 2>>, "A"), Asked(<<3, 1>>, "A")>>,
                      [exposed |-> {"ANSWER"}, parts |-> 2])
Denials == Validating({1}, [ask |-> 1, damage |-> 1],
                      <<Asked(<<1, 7>>, "A"), Asked(<<1, 4>>, "A"), Asked(<<1, 2, 1>>, "TXT"), Asked(<<2, 5>>, "A"),
                        Asked(<<2, 2, 4>>, "A"), Asked(<<2, 2, 3>>, "A")>>, [exposed |-> {"ANSWER"}, parts |-> 3])
MCScenarios == <<Clients, Rolling, Signing, Outage, Agreeing, Links, Answers, Denials>>
MCAnchors == {[zone |-> Root, gen |-> 0, alg |-> 8]}
=============================================================================
