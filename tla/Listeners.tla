------------------------------ MODULE Listeners ------------------------------
(***************************************************************************)
(* What a listener makes of what it receives and sends: the two parsers of *)
(* a query, the address a proxy speaks for, and the reply to an outcome.   *)
(*                                                                         *)
(* A query is [name, type, over, client, hops, shape, wantsDnssec, cookie, *)
(* cd]: `over` is the protocol, `hops` the addresses of x-forwarded-for    *)
(* with the nearest first, `shape` what the parsers see: "fast" is what    *)
(* the wire parser takes, "odd" what only hickory does, "cookie" a COOKIE  *)
(* of a bad length and "bad" what neither takes.                           *)
(***************************************************************************)
EXTENDS QueryBudget

is_stream(q) == q.over # "udp"

\* fast_path::parse_query, and the filter of the workers on it.
parse_query(q) == q.shape = "fast"
FastPathQuery(q) == parse_query(q) /\ ~q.wantsDnssec

parse_client_query_hickory(q) ==
    CASE q.shape = "bad" -> "None"
      [] q.shape = "cookie" -> "BadCookie"
      [] OTHER -> "Valid"
parse_client_query(q) == IF parse_query(q) THEN "Valid" ELSE parse_client_query_hickory(q)

\* The address a DoH request is made for: the first hop that is not a trusted proxy.
client_ip(peer, hops, trusted) ==
    LET stops == {i \in DOMAIN hops : hops[i] \notin trusted}   \* "?", which does not parse, is not trusted
        i == CHOOSE j \in stops : \A k \in stops : j <= k
    IN  CASE peer \notin trusted \/ hops = <<>> -> peer
          [] peer \in trusted /\ hops # <<>> /\ stops = {} -> hops[Len(hops)]
          [] OTHER -> IF hops[i] # "?" THEN hops[i] ELSE IF i = 1 THEN peer ELSE hops[i - 1]

\* A PROXY v2 header: LOCAL and the families it does not know keep the peer; "?" is malformed.
extract_source_ip(source, peer) == IF source = "unspec" THEN peer ELSE source
read_proxy_v2_client_ip(header, peer) ==
    CASE header = "local" -> {peer}
      [] header = "?" -> {}
      [] OTHER -> {extract_source_ip(header, peer)}

\* The reply of a block, by policy; SINKHOLE is an answer of the null address.
build_blocked_wire(policy, type) ==
    CASE policy = "Refused" -> "REFUSED"
      [] policy = "NxDomain" -> "NXDOMAIN"
      [] policy = "NoData" -> "NODATA"
      [] policy = "NullIp" -> IF type \in {"A", "AAAA"} THEN "SINKHOLE" ELSE "NODATA"

\* A cookie is sent back to a client that sent one.
response_cookie(q) == q.cookie # <<>>

error_response(q, policy, err) ==
    CASE err \in {"Blocked", "Cloaked", "Filtered"} -> build_blocked_wire(policy, q.type)
      [] err = "Slip" -> "TC"
      [] err = "Refuse" -> "REFUSED"
      [] err = "CookieInvalid" -> IF response_cookie(q) THEN "BADCOOKIE" ELSE "REFUSED"
      [] err = "NxDomain" -> "NXDOMAIN"
      [] OTHER -> "SERVFAIL"

\* A datagram that does not hold the answer says so; "none" is no reply at all.
maybe_truncate(q, big) == IF ~is_stream(q) /\ q.name \in big THEN "TC" ELSE "NOERROR"

answer(q, policy, big, err) ==
    CASE err = "" -> maybe_truncate(q, big)
      [] err = "UpstreamCapacityExhausted" /\ ~is_stream(q) -> "none"
      [] OTHER -> error_response(q, policy, err)

=============================================================================
