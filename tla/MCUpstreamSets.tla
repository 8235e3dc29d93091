--------------------------- MODULE MCUpstreamSets ---------------------------
(***************************************************************************)
(* UpstreamSets for TLC.                                                   *)
(***************************************************************************)
EXTENDS UpstreamLinks

CONSTANTS h1, h2

C(first, second, grouped) == [pools |-> <<first, second>>, grouped |-> grouped]

\* A hostname that two pools list, one that comes and goes, and a group's route.
MCConfigs == {C({h1}, {h1}, FALSE), C({h2}, {h1}, TRUE), C({}, {}, FALSE)}

Query(id, q) == [id |-> id, q |-> q, checked |-> TRUE]
Probe(id) == [id |-> id, q |-> "soa", checked |-> FALSE]

Scene(kind, sends) ==
    [kind |-> kind, sends |-> sends,
     randomize |-> FALSE, echoes |-> FALSE, cookie |-> FALSE, tc |-> FALSE, literal |-> FALSE]

\* Ids that meet, with and without cookies and 0x20; replies that are too long for UDP.
MCScenes ==
    {Scene("udp", <<Query(1, "x"), Query(1, "y")>>),
     Scene("udp", <<Probe(1), Query(1, "x")>>),
     [Scene("udp", <<Query(1, "x"), Query(1, "x")>>)
        EXCEPT !.randomize = TRUE, !.echoes = TRUE, !.cookie = TRUE, !.tc = TRUE, !.literal = TRUE],
     [Scene("udp", <<Query(1, "x"), Query(1, "x")>>) EXCEPT !.randomize = TRUE],
     Scene("tcp", <<Query(1, "x"), Query(1, "y")>>),
     Scene("tls", <<Query(1, "x"), Probe(2)>>),
     Scene("https", <<Query(1, "x"), Probe(2)>>),
     Scene("quic", <<Query(1, "x"), Probe(1)>>),
     Scene("h3", <<Query(1, "x"), Query(1, "y")>>)}

=============================================================================
