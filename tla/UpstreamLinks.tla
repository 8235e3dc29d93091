--------------------------- MODULE UpstreamLinks ---------------------------
(***************************************************************************)
(* The pool set and the transports below it: queries and probes load the   *)
(* set and exchange messages with the addresses in it, while the refresh   *)
(* task replaces an address and forgets its transport                      *)
(* (PoolManager::refresh_hostname).                                        *)
(*                                                                         *)
(* A behaviour either reloads pools and lets lookups fail, or exchanges    *)
(* messages of one kind while a hostname moves.                            *)
(***************************************************************************)
EXTENDS UpstreamSets, Transport

allVars == <<vars, linkVars>>

InitLinks ==
    /\ LinksInit
    /\ \/ Init /\ scene = (CHOOSE s \in Scenes : TRUE) /\ begun = Len(scene.sends)
       \/ /\ SetsInit(MaxReloads, MaxFailures) /\ begun = 0
          /\ dns = [h \in Hosts |-> CHOOSE a \in Addrs : TRUE]
          /\ live.config = (CHOOSE c \in Configs : ~c.grouped /\ Listed(c) # {})
    /\ dns[CHOOSE h \in Hosts : TRUE] = CHOOSE a \in Addrs : TRUE  \* addresses are alike

\* What a query or probe finds in the set it loads.
Protocols == {[kind |-> scene.kind, host |-> x[2], addr |-> live.addr[x[1]][x[2]]] :
                 x \in {y \in Pools \X Hosts : Lists(live.config, y[1], y[2])}}

\* The addresses the patched set no longer has.
Gone(h) == {[kind |-> scene.kind, host |-> h, addr |-> looking.set.addr[p][h]] :
               p \in {x \in Pools : Lists(looking.set.config, x, h)}}
           \ {[kind |-> scene.kind, host |-> h, addr |-> live'.addr[p][h]] :
               p \in {x \in Pools : Lists(looking.set.config, x, h)}}

LookupPatches ==
    /\ LookupEnds
    /\ IF live' = live THEN UNCHANGED cache ELSE Forget(Gone(looking.host))
    /\ UNCHANGED <<scene, idle, sockets, permits, net, shared, closed, user, made, begun, mishaps>>

SetStep ==
    /\ \/ Reload
       \/ Arm \/ Reloaded \/ RefreshOver
       \/ \E D \in SUBSET Hosts : Wake(D)
       \/ \E h \in Hosts : RefreshBegin(h)
       \/ \E h \in Hosts, a \in Addrs : Move(h, a)
    /\ UNCHANGED linkVars

BeginOne == \E u \in Users, p \in Protocols : Begin(u, p)

LinkStep ==
    /\ BeginOne \/ LinkNext(dns)
    /\ UNCHANGED vars

NextLinks == SetStep \/ LookupPatches \/ LinkStep

SpecLinks == InitLinks /\ [][NextLinks]_allVars /\ Fairness

=============================================================================
