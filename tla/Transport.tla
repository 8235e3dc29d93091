----------------------------- MODULE Transport -----------------------------
(***************************************************************************)
(* Exchanges with upstream servers                                         *)
(* (crates/infrastructure/src/dns: transport, forwarding): the transport   *)
(* cache, the pools of sockets and connections below it, and the checks a  *)
(* reply goes through.                                                     *)
(*                                                                         *)
(* A transport is cached by its protocol: a kind, a hostname and the       *)
(* address found for it.  UDP sockets are pooled by address for the whole  *)
(* process, TCP and TLS streams in their transport, QUIC connections by    *)
(* address and hostname, H3 connections by hostname alone.  A task may be  *)
(* dropped wherever it waits, and its time may be up there.  A datagram    *)
(* may be late, lost or sent twice; a late one reaches whoever has bound   *)
(* the port by then.  A server may close a connection at any time.         *)
(*                                                                         *)
(* The HTTP client of a DoH transport is a library's, so its connections   *)
(* are not modelled, only what an exchange over it may come to.            *)
(***************************************************************************)
EXTENDS Naturals, SequencesExt

CONSTANTS
    Users,           \* the tasks that exchange messages, numbered
    Ports,           \* local ports
    NoAddress,       \* what a hostname that never resolved has
    Scenes,          \* each the kind of the upstream, how it replies, whether 0x20 is
                     \* on, and the queries and probes that are sent in turn
    MAX_PER_SERVER, TOTAL_LIMIT,  \* idle sockets of a server, exchanges at once
    ROTATION,        \* uses after which a port is retired
    MAX_IDLE,        \* idle streams of a transport
    MaxMishaps       \* bound: what goes wrong on the way

VARIABLES
    scene,    \* which of Scenes it is
    cache,    \* TRANSPORT_CACHE: protocol -> the transport's number
    idle,     \* transport -> its idle streams
    sockets,  \* address -> its idle sockets
    permits,  \* what the socket pool's semaphore has left
    net,      \* datagrams on their way here
    shared,   \* QUIC_POOL and H3_POOL: key -> connection
    closed,   \* the shared connections that are closed
    user,     \* task -> its exchange
    made,     \* transports and connections made so far
    begun, mishaps  \* the bounds' counters

ASSUME TransportAssumption ==
    /\ Users \subseteq Nat /\ IsFiniteSet(Users)
    /\ {MAX_PER_SERVER, TOTAL_LIMIT, MAX_IDLE} \subseteq Nat /\ ROTATION \in Nat \ {0}
    /\ \A s \in Scenes : /\ s.kind \in {"udp", "tcp", "tls", "https", "quic", "h3"}
                         /\ {s.randomize, s.echoes, s.cookie, s.tc, s.literal} \subseteq BOOLEAN
                         /\ Len(s.sends) \in Nat
                         /\ \A n \in 1..Len(s.sends) : s.sends[n].checked \in BOOLEAN

linkVars == <<scene, cache, idle, sockets, permits, net, shared, closed, user, made, begun, mishaps>>

NoExchange == [pc |-> "idle"]

LinksInit ==
    /\ scene \in Scenes
    /\ cache = <<>> /\ idle = <<>> /\ sockets = <<>> /\ permits = TOTAL_LIMIT
    /\ net = {} /\ shared = <<>> /\ closed = {} /\ made = 0
    /\ user = [u \in Users |-> NoExchange]
    /\ mishaps = 0

Get(f, k) == IF k \in DOMAIN f THEN f[k] ELSE <<>>
Over(f, g) == [x \in DOMAIN f \cup DOMAIN g |-> IF x \in DOMAIN f THEN f[x] ELSE g[x]]
Put(f, k, v) == [x \in DOMAIN f \cup {k} |-> IF x = k THEN v ELSE f[x]]
Del(f, k) == Restrict(f, DOMAIN f \ {k})

Mishap == mishaps < MaxMishaps /\ mishaps' = mishaps + 1

(***************************************************************************)
(* Messages.  A query has an id, a question and, through `n`, a cookie and *)
(* a spelling of its own; `checked` is false for a probe, whose reply is   *)
(* only parsed.  `owners` are the names a reply spells out, the question's *)
(* first.                                                                  *)
(***************************************************************************)
build_query_hardened(sent, n) == [id |-> sent.id, q |-> sent.q, n |-> n, checked |-> sent.checked]

is_do53(kind) == kind \in {"udp", "tcp"}

\* What a server answers to a query.
Reply(m, addr, tc) ==
    LET echo == IF scene.randomize /\ m.checked /\ scene.echoes THEN "mixed" ELSE "lower"
    IN  [id |-> m.id, q |-> m.q, n |-> m.n, by |-> addr, tc |-> tc,
         cookie |-> m.checked /\ scene.cookie,
         owners |-> <<echo, IF scene.literal THEN echo ELSE "pointer">>]

\* case_sensitive: the question must be spelt as it was sent.
qname_matches(m, r, kind) ==
    r.q = m.q /\ (scene.randomize /\ is_do53(kind) => r.owners[1] = "mixed" /\ r.n = m.n)

\* A cookie that is not echoed is let pass.
validate_cookie(m, r, kind) == is_do53(kind) /\ r.cookie => r.n = m.n

\* Mutant of validate: the question is not compared.
ValidateIdOnly(m, r, kind) == r.id = m.id /\ validate_cookie(m, r, kind)

validate(m, r, kind) == r.id = m.id /\ qname_matches(m, r, kind) /\ validate_cookie(m, r, kind)

lowercase_owner_names(owners) == [i \in DOMAIN owners |-> IF owners[i] = "mixed" THEN "lower" ELSE owners[i]]

canonicalize(r) == IF scene.randomize THEN [r EXCEPT !.owners = lowercase_owner_names(@)] ELSE r

(***************************************************************************)
(* The transport cache, and the begin and the end of an exchange           *)
(***************************************************************************)
Waiting(u) == user[u].pc \notin {"idle", "done"}

\* Where `send` begins.
FirstStep(kind) ==
    CASE kind = "udp" -> "acquire"
      [] kind \in {"tcp", "tls"} -> "take"
      [] kind \in {"quic", "h3"} -> "lookup"
      [] kind = "https" -> "request"

require_resolved(proto) == proto.addr # NoAddress \/ proto.kind \in {"https", "h3"}

Failed(x, why) == [pc |-> "done", ok |-> FALSE, why |-> why, hurt |-> x.hurt, proto |-> x.proto, m |-> x.m]

\* The task goes on with `x`, over the transport of x.proto.
get_or_create_transport(u, x) ==
    LET known == x.proto \in DOMAIN cache
        t == IF known THEN cache[x.proto] ELSE made + 1
    IN  /\ cache' = Put(cache, x.proto, t)
        /\ idle' = IF known THEN idle ELSE Put(idle, t, <<>>)
        /\ made' = IF known THEN made ELSE made + 1
        /\ user' = [user EXCEPT ![u] =
                IF require_resolved(x.proto)
                THEN [pc |-> FirstStep(x.proto.kind), proto |-> x.proto, m |-> x.m, t |-> t, hurt |-> x.hurt]
                ELSE Failed(x, "unresolved")]

Begin(u, proto) ==
    /\ ~Waiting(u) /\ \A v \in Users : v < u => Waiting(v)
    /\ begun < Len(scene.sends)
    /\ begun' = begun + 1
    /\ get_or_create_transport(u, [proto |-> proto, hurt |-> FALSE,
                                   m |-> build_query_hardened(scene.sends[begun + 1], begun + 1)])
    /\ UNCHANGED <<scene, sockets, permits, net, shared, closed, mishaps>>

\* forget_transport: who holds the transport keeps it.
Forget(protos) == cache' = Restrict(cache, DOMAIN cache \ protos)

EndWith(u, x) == user' = [user EXCEPT ![u] = x] /\ UNCHANGED <<cache, made>>

\* exchange: the reply is checked, then stripped of the spelling; a truncated one over
\* UDP is asked for again over TCP.
Deliver(u, r, park) ==
    LET x == user[u]
        kind == x.proto.kind
        ok == [pc |-> "done", ok |-> TRUE, r |-> IF x.m.checked THEN canonicalize(r) ELSE r,
               hurt |-> x.hurt, proto |-> x.proto, m |-> x.m]
        late == [x EXCEPT !.hurt = @ \/ r.n # x.m.n]
    IN  CASE x.m.checked /\ ~validate(x.m, r, kind) -> EndWith(u, Failed(late, "spoofed")) /\ idle' = park
          [] x.m.checked /\ kind = "udp" /\ r.tc /\ validate(x.m, r, kind) ->
                get_or_create_transport(u, [late EXCEPT !.proto.kind = "tcp"])
          [] OTHER -> EndWith(u, ok) /\ idle' = park

(***************************************************************************)
(* UDP: sockets from the pool, not connected to their server               *)
(***************************************************************************)
Busy(u) == user[u].pc = "recv"
PortsInUse == {user[u].sock.port : u \in {v \in Users : Busy(v)}}
              \cup {s.port : s \in UNION {Range(sockets[a]) : a \in DOMAIN sockets}}

\* PooledUdpSocket::drop, and release: back to the pool unless worn or the pool is full.
Drop(pools, sock, addr) ==
    IF sock.uses >= ROTATION \/ Len(Get(pools, addr)) >= MAX_PER_SERVER THEN pools
    ELSE Put(pools, addr, Append(Get(pools, addr), sock))

\* acquire: the socket parked last, or one on a free port.
Acquired(addr) ==
    LET parked == Get(sockets, addr)
    IN  IF parked # <<>> THEN {[Last(parked) EXCEPT !.uses = @ + 1]}
        ELSE {[port |-> p, uses |-> 1] : p \in Ports \ PortsInUse}

\* The pool once the socket is out.
Popped(addr) == IF Get(sockets, addr) = <<>> THEN sockets ELSE Put(sockets, addr, Front(sockets[addr]))

\* UdpTransport::send: a socket, and the query sent on it.
UdpSend(u) ==
    /\ user[u].pc = "acquire" /\ permits > 0
    /\ LET addr == user[u].proto.addr
       IN  \E sock \in Acquired(addr) :
            /\ permits' = permits - 1
            /\ sockets' = Popped(addr)
            /\ net' = net \cup {[port |-> sock.port, r |-> Reply(user[u].m, addr, scene.tc)]}
            /\ user' = [user EXCEPT ![u] = Over([pc |-> "recv", sock |-> sock], @)]
    /\ UNCHANGED <<scene, cache, idle, shared, closed, made, begun, mishaps>>

\* The query cannot be sent: the socket goes back, not poisoned.
UdpSendFails(u) ==
    /\ user[u].pc = "acquire" /\ permits > 0 /\ Mishap
    /\ LET addr == user[u].proto.addr
       IN  \E sock \in Acquired(addr) : sockets' = Drop(Popped(addr), sock, addr)
    /\ EndWith(u, Failed([user[u] EXCEPT !.hurt = TRUE], "unsent"))
    /\ UNCHANGED <<scene, idle, permits, net, shared, closed, begun>>

same_message_id(m, r) == r.id = m.id

\* recv_matching: what is from elsewhere or has another id is drained.
UdpRecv(u) ==
    /\ Busy(u)
    /\ \E d \in net :
        LET x == user[u]
        IN  /\ d.port = x.sock.port
            /\ net' = net \ {d}
            /\ IF d.r.by = x.proto.addr /\ same_message_id(x.m, d.r)
               THEN /\ Deliver(u, d.r, idle)
                    /\ sockets' = Drop(sockets, x.sock, x.proto.addr)
                    /\ permits' = permits + 1
               ELSE UNCHANGED <<user, cache, idle, made, sockets, permits>>
    /\ UNCHANGED <<scene, shared, closed, begun, mishaps>>

\* Sent twice, or the server answers twice.
Duplicate ==
    /\ Mishap
    /\ \E u \in Users : Busy(u) /\
        LET d == [port |-> user[u].sock.port, r |-> Reply(user[u].m, user[u].proto.addr, scene.tc)]
        IN  d \notin net /\ net' = net \cup {d}
    /\ UNCHANGED <<scene, cache, idle, sockets, permits, shared, closed, user, made, begun>>

\* The reply did not come in time: the socket is poisoned.
UdpGivesUp(u) ==
    /\ Busy(u)
    /\ permits' = permits + 1
    /\ EndWith(u, Failed(user[u], "timeout"))
    /\ UNCHANGED <<scene, idle, sockets, net, shared, closed, begun, mishaps>>

(***************************************************************************)
(* TCP and TLS: one exchange at a time on a stream                         *)
(***************************************************************************)
\* send_with_length_prefix: the write into a half-closed stream still succeeds.
Written(u, stream) ==
    IF stream.open THEN [stream EXCEPT !.wire = Append(@, Reply(user[u].m, stream.addr, FALSE))] ELSE stream

Reads(u) == user[u].pc \in {"pooled", "fresh"}

\* IdlePool::take, the stream parked last.
Take(u) ==
    /\ user[u].pc = "take"
    /\ LET parked == idle[user[u].t]
       IN  IF parked = <<>>
           THEN user' = [user EXCEPT ![u].pc = "connect"] /\ UNCHANGED idle
           ELSE /\ idle' = [idle EXCEPT ![user[u].t] = Front(@)]
                /\ user' = [user EXCEPT ![u] = Over([pc |-> "pooled", stream |-> Written(u, Last(parked))], @)]
    /\ UNCHANGED <<scene, cache, sockets, permits, net, shared, closed, made, begun, mishaps>>

\* connect_tcp, the TLS handshake, and the query written.
Connect(u) ==
    /\ user[u].pc = "connect"
    /\ LET stream == [addr |-> user[u].proto.addr, open |-> TRUE, wire |-> <<>>]
       IN  user' = [user EXCEPT ![u] = Over([pc |-> "fresh", stream |-> Written(u, stream)], @)]
    /\ UNCHANGED <<scene, cache, idle, sockets, permits, net, shared, closed, made, begun, mishaps>>

\* IdlePool::park
Parked(t, stream) ==
    IF Len(idle[t]) < MAX_IDLE THEN [idle EXCEPT ![t] = Append(@, stream)] ELSE idle

\* exchange_framed has read the answer.
StreamRead(u) ==
    /\ Reads(u) /\ user[u].stream.wire # <<>>
    /\ LET s == user[u].stream
       IN  Deliver(u, Head(s.wire), Parked(user[u].t, [s EXCEPT !.wire = Tail(@)]))
    /\ UNCHANGED <<scene, sockets, permits, net, shared, closed, begun, mishaps>>

\* Mutant of StreamBroken: a stale stream is an error like any other.
BrokenIsFinal(u) == EndWith(u, Failed(user[u], "reset"))

\* The stream is closed: one that was pooled is replaced by a new one.
StreamBroken(u) ==
    IF user[u].pc = "pooled" THEN EndWith(u, [user[u] EXCEPT !.pc = "connect"])
    ELSE EndWith(u, Failed(user[u], "reset"))

StreamFails(u) ==
    /\ Reads(u) /\ ~user[u].stream.open /\ user[u].stream.wire = <<>>
    /\ StreamBroken(u)
    /\ UNCHANGED <<scene, idle, sockets, permits, net, shared, closed, begun, mishaps>>

\* The server closes a stream, idle or before it answers.
CloseStream ==
    /\ Mishap
    /\ \/ \E t \in DOMAIN idle : \E i \in DOMAIN idle[t] :
            idle[t][i].open /\ idle' = [idle EXCEPT ![t][i].open = FALSE] /\ UNCHANGED user
       \/ \E u \in Users :
            /\ Reads(u) /\ user[u].stream.open
            /\ user' = [user EXCEPT ![u].stream = [@ EXCEPT !.open = FALSE, !.wire = <<>>], ![u].hurt = TRUE]
            /\ UNCHANGED idle
    /\ UNCHANGED <<scene, cache, sockets, permits, net, shared, closed, made, begun>>

(***************************************************************************)
(* QUIC and H3: one connection for all, a stream for each exchange         *)
(***************************************************************************)
\* QuicTransport::pool_key, H3Transport's pool_key
pool_key(proto) == IF proto.kind = "h3" THEN proto.host ELSE <<proto.addr, proto.host>>

\* A connection is used until its time to live is over; QUIC sees a closed one.
Usable(kind, c) == ~c.aged /\ (kind = "quic" => c.no \notin closed)

Ask(u, c) == user' = [user EXCEPT ![u] = Over([pc |-> "ask", conn |-> c], @)]

\* get_or_connect, up to the handshake.
Lookup(u) ==
    /\ user[u].pc = "lookup"
    /\ LET key == pool_key(user[u].proto)
       IN  IF key \in DOMAIN shared /\ Usable(user[u].proto.kind, shared[key])
           THEN Ask(u, shared[key]) /\ UNCHANGED shared
           ELSE /\ shared' = Del(shared, key)
                /\ user' = [user EXCEPT ![u].pc = "dial"]
    /\ UNCHANGED <<scene, cache, idle, sockets, permits, net, closed, made, begun, mishaps>>

\* The address dialed: DoH and H3 look the hostname up if the transport has none.
resolve_addr(proto, system) == IF proto.addr = NoAddress THEN system[proto.host] ELSE proto.addr

connect_new(proto, system) == [no |-> made + 1, addr |-> resolve_addr(proto, system), aged |-> FALSE]

\* get_or_connect, after the handshake: whoever was first is shared.
Dial(u, system) ==
    /\ user[u].pc = "dial"
    /\ LET key == pool_key(user[u].proto)
           c == connect_new(user[u].proto, system)
       IN  IF key \in DOMAIN shared /\ Usable(user[u].proto.kind, shared[key])
           THEN Ask(u, shared[key]) /\ UNCHANGED <<shared, made>>
           ELSE Ask(u, c) /\ shared' = Put(shared, key, c) /\ made' = made + 1
    /\ UNCHANGED <<scene, cache, idle, sockets, permits, net, closed, begun, mishaps>>

Asks(u) == user[u].pc \in {"ask", "again"}

\* On QUIC the id sent is 0, and the caller's is put back.
send_on_stream(m, c) == [Reply([m EXCEPT !.id = 0], c.addr, FALSE) EXCEPT !.id = m.id]

execute_request(m, c) == Reply(m, c.addr, FALSE)

StreamAnswers(u) ==
    /\ Asks(u) /\ user[u].conn.no \notin closed
    /\ Deliver(u, IF user[u].proto.kind = "quic" THEN send_on_stream(user[u].m, user[u].conn)
                  ELSE execute_request(user[u].m, user[u].conn), idle)
    /\ UNCHANGED <<scene, sockets, permits, net, shared, closed, begun, mishaps>>

\* The connection is closed, or on QUIC the stream: what is pooled by now is dropped,
\* and the exchange is tried once more.
ConnectionLost(u) ==
    /\ Asks(u)
    /\ \/ user[u].conn.no \in closed /\ UNCHANGED mishaps
       \/ user[u].conn.no \notin closed /\ user[u].proto.kind = "quic" /\ Mishap
    /\ LET x == [user[u] EXCEPT !.hurt = @ \/ user[u].conn.no \notin closed]
       IN  IF x.pc = "ask"
           THEN /\ shared' = Del(shared, pool_key(x.proto))
                /\ EndWith(u, [x EXCEPT !.pc = "redial"])
           ELSE EndWith(u, Failed(x, "reset")) /\ UNCHANGED shared
    /\ UNCHANGED <<scene, idle, sockets, permits, net, closed, begun>>

Redial(u, system) ==
    /\ user[u].pc = "redial"
    /\ LET c == connect_new(user[u].proto, system)
       IN  /\ shared' = Put(shared, pool_key(user[u].proto), c)
           /\ made' = made + 1
           /\ user' = [user EXCEPT ![u] = Over([pc |-> "again", conn |-> c], @)]
    /\ UNCHANGED <<scene, cache, idle, sockets, permits, net, closed, begun, mishaps>>

\* The server closes a connection.
CloseShared ==
    /\ Mishap
    /\ \E c \in {shared[k].no : k \in DOMAIN shared} \cup {user[u].conn.no : u \in {v \in Users : Asks(v)}} :
        /\ c \notin closed
        /\ closed' = closed \cup {c}
        /\ user' = [u \in Users |-> IF Asks(u) /\ user[u].conn.no = c
                                    THEN [user[u] EXCEPT !.hurt = TRUE] ELSE user[u]]
    /\ UNCHANGED <<scene, cache, idle, sockets, permits, net, shared, made, begun>>

\* QUIC_CONN_TTL, H3_CONN_TTL
Age ==
    /\ \E k \in DOMAIN shared : ~shared[k].aged /\ shared' = [shared EXCEPT ![k].aged = TRUE]
    /\ UNCHANGED <<scene, cache, idle, sockets, permits, net, closed, user, made, begun, mishaps>>

(***************************************************************************)
(* DoH, and what may end any exchange                                      *)
(***************************************************************************)
\* The client of the transport dials the addresses it was made with.
HttpsAnswers(u, system) ==
    /\ user[u].pc = "request"
    /\ Deliver(u, Reply(user[u].m, resolve_addr(user[u].proto, system), FALSE), idle)
    /\ UNCHANGED <<scene, sockets, permits, net, shared, closed, begun, mishaps>>

\* A connection is refused, or the HTTP status or the size of the body is wrong.
Refused(u) ==
    /\ user[u].pc \in {"connect", "dial", "redial", "request"} \/ (Asks(u) /\ user[u].proto.kind = "h3")
    /\ Mishap
    /\ EndWith(u, Failed([user[u] EXCEPT !.hurt = TRUE], "refused"))
    /\ UNCHANGED <<scene, idle, sockets, permits, net, shared, closed, begun>>

\* The time is up: the stream is dropped; QUIC also takes its connection from the pool.
Expire(u) ==
    /\ Waiting(u) /\ user[u].pc \notin {"recv", "lookup", "take"}
    /\ shared' = IF user[u].pc = "ask" /\ user[u].proto.kind = "quic"
                 THEN Del(shared, pool_key(user[u].proto)) ELSE shared
    /\ EndWith(u, Failed(user[u], "timeout"))
    /\ UNCHANGED <<scene, idle, sockets, permits, net, closed, begun, mishaps>>

\* The task is dropped, as the loser of a parallel query or a health probe whose own
\* timeout is first: a socket goes back to the pool, unpoisoned; a stream is closed.
Cancel(u) ==
    /\ Waiting(u) /\ Mishap
    /\ IF Busy(u)
       THEN permits' = permits + 1 /\ sockets' = Drop(sockets, user[u].sock, user[u].proto.addr)
       ELSE UNCHANGED <<permits, sockets>>
    /\ user' = [user EXCEPT ![u] = NoExchange]
    /\ UNCHANGED <<scene, cache, idle, net, shared, closed, made, begun>>

Exchange(u, system) ==
    \/ UdpSend(u) \/ UdpSendFails(u) \/ UdpRecv(u) \/ UdpGivesUp(u)
    \/ Take(u) \/ Connect(u) \/ StreamRead(u) \/ StreamFails(u)
    \/ Lookup(u) \/ Dial(u, system) \/ StreamAnswers(u) \/ ConnectionLost(u) \/ Redial(u, system)
    \/ HttpsAnswers(u, system)
    \/ Refused(u) \/ Expire(u) \/ Cancel(u)

\* `system`: what the system resolver says of a hostname.
LinkNext(system) == Duplicate \/ CloseStream \/ CloseShared \/ Age \/ \E u \in Users : Exchange(u, system)

(***************************************************************************)
(* Properties                                                              *)
(***************************************************************************)
Ended(u) == user[u].pc = "done"

\* No port has two owners.
PortsApart ==
    /\ \A u, v \in Users : Busy(u) /\ Busy(v) /\ user[u].sock.port = user[v].sock.port => u = v
    /\ \A a, b \in DOMAIN sockets : \A i \in DOMAIN sockets[a], j \in DOMAIN sockets[b] :
           sockets[a][i].port = sockets[b][j].port => a = b /\ i = j
    /\ \A u \in Users, a \in DOMAIN sockets : Busy(u) =>
           \A i \in DOMAIN sockets[a] : sockets[a][i].port # user[u].sock.port

\* What the pools hold is theirs alone and fit to use: each permit is with the pool or
\* with an exchange, no port has two owners, no socket outlives its rotation, and a
\* parked stream owes nobody an answer (udp_pool.rs, IdlePool).
PoolsSound ==
    /\ permits + Cardinality({u \in Users : Busy(u)}) = TOTAL_LIMIT
    /\ \A a \in DOMAIN sockets :
           /\ Len(sockets[a]) <= MAX_PER_SERVER
           /\ \A s \in Range(sockets[a]) : s.uses < ROTATION
    /\ \A u \in Users : Busy(u) => user[u].sock.uses <= ROTATION
    /\ PortsApart
    /\ \A t \in DOMAIN idle : Len(idle[t]) <= MAX_IDLE /\ \A s \in Range(idle[t]) : s.wire = <<>>

\* The answer an exchange ends with is to its own question, complete, and without a
\* letter of the spelling that was drawn for it; and it is from the address asked,
\* "or health checks lie" (tls.rs): late, doubled and misdirected datagrams, pooled
\* sockets and streams, dropped tasks and moved hostnames notwithstanding.  An H3
\* connection is pooled by hostname: it may be to an earlier address of it.
AnswersMatch ==
    \A u \in Users : Ended(u) /\ user[u].ok =>
        LET x == user[u]
        IN  /\ x.m.checked => x.r.q = x.m.q /\ ~x.r.tc /\ "mixed" \notin Range(x.r.owners)
            /\ x.proto.kind # "udp" => x.r.n = x.m.n
            /\ x.proto.kind # "h3" /\ x.proto.addr # NoAddress => x.r.by = x.proto.addr

\* An exchange fails for a reason of its own: its time was up, or a connection was
\* refused or closed under it, or a reply of an earlier exchange had its id; never
\* because a pooled connection had gone stale before (TcpTransport::send,
\* TlsTransport::send, QuicTransport::send, H3Transport::send).
NoNeedlessFailure ==
    \A u \in Users : Ended(u) /\ ~user[u].ok =>
        \/ user[u].hurt \/ user[u].why \in {"timeout", "unresolved"}
        \/ user[u].why = "spoofed" /\ scene.randomize /\ ~scene.echoes

\* The pools serve the exchanges: what they hand out is sound, and what went stale in
\* them costs an exchange nothing but time (udp_pool.rs, IdlePool, the send of each kind).
LinksServe == PoolsSound /\ NoNeedlessFailure

=============================================================================
