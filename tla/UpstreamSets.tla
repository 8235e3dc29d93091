---------------------------- MODULE UpstreamSets ----------------------------
(***************************************************************************)
(* The live pool set of a PoolManager and what replaces it: a reload,      *)
(* which looks every hostname up and swaps the set, and the hostname       *)
(* refresh task, which patches it                                          *)
(* (crates/infrastructure/src/dns/load_balancer: pool.rs,                  *)
(* hostname_refresh.rs).                                                   *)
(*                                                                         *)
(* Reloads take turns, for their callers hold config_writer.  A pool set   *)
(* is a config and the address each pool found for each hostname it lists. *)
(* When a pending lookup falls due (the TTL, the backoff) is left open: at *)
(* any time.                                                               *)
(***************************************************************************)
EXTENDS Naturals, FiniteSets

CONSTANTS
    Hosts, Addrs,
    NoAddr,     \* what a hostname that never resolved has
    Configs,    \* pool configs: the hosts of each pool, and whether a group is routed
    MaxReloads, \* bound: reloads
    MaxMoves,   \* bound: hostnames that move to another address
    MaxFailures \* bound: lookups that fail

Pools == 1..2

ASSUME UpstreamSetsAssumption ==
    /\ NoAddr \notin Addrs
    /\ \A c \in Configs : c.pools \in [Pools -> SUBSET Hosts] /\ c.grouped \in BOOLEAN

VARIABLES
    live,      \* the ArcSwap
    hasGroups, \* has_group_routes
    permit,    \* the Notify's permit
    rl,        \* the reload under way
    task,      \* where the refresh task is
    pending,   \* its pending lookups
    due,       \* those it found due
    looking,   \* the hostname refresh_hostname looks up, and the set it loaded
    same,      \* whether that set is still the live one, which compare_and_swap sees
    dns,       \* where each hostname is
    applied,   \* history: the config of the last reload
    reloads, moves, failures  \* the bounds' counters

refreshVars == <<task, pending, due, looking, same>>
bounds == <<reloads, moves, failures>>
vars == <<live, hasGroups, permit, rl, refreshVars, dns, applied, bounds>>

Lists(config, p, h) == h \in config.pools[p]
Listed(config) == UNION {config.pools[p] : p \in Pools}

\* A set before its lookups.
Unresolved(c) == [config |-> c, addr |-> [p \in Pools |-> [h \in c.pools[p] |-> NoAddr]]]

NoReload == [pc |-> "idle"]
NoLookup == [host |-> "none"]

(***************************************************************************)
(* Lookups                                                                 *)
(***************************************************************************)

\* kept_group: what an earlier lookup found, in the first pool that has it.
Kept(set, h) ==
    LET having == {p \in Pools : Lists(set.config, p, h) /\ set.addr[p][h] # NoAddr}
    IN  IF having = {} THEN NoAddr ELSE set.addr[CHOOSE p \in having : \A o \in having : p <= o][h]

\* expand_hostnames for one hostname: what the lookup says, or else what there was.
Found(set, h, ok) == IF ok THEN dns[h] ELSE Kept(set, h)

\* A lookup succeeds, or fails while the bound lasts.
Looked(ok) ==
    /\ ok \/ failures < MaxFailures
    /\ failures' = IF ok THEN failures ELSE failures + 1

\* with_host_resolver: the first set, each lookup of which may have failed.
SetsInit(r, f) ==
    /\ dns \in [Hosts -> Addrs]
    /\ \E c \in Configs, down \in SUBSET Hosts :
           /\ live = [config |-> c,
                      addr |-> [p \in Pools |-> [h \in c.pools[p] |->
                                                    IF h \in down THEN NoAddr ELSE dns[h]]]]
           /\ applied = c /\ hasGroups = c.grouped
    /\ permit = FALSE /\ rl = NoReload
    /\ task = "arm" /\ pending = {} /\ due = {} /\ looking = NoLookup /\ same = FALSE
    /\ reloads = r /\ moves = 0 /\ failures = f

Init == SetsInit(0, 0)

(***************************************************************************)
(* prepare, apply                                                          *)
(***************************************************************************)

\* prepare: a snapshot of the live set, for what a failed lookup keeps.
Prepare(c) ==
    /\ rl = NoReload /\ reloads < MaxReloads
    /\ reloads' = reloads + 1
    /\ rl' = [pc |-> "build", new |-> Unresolved(c), from |-> live,
              left |-> {x \in Pools \X Hosts : Lists(c, x[1], x[2])}]
    /\ UNCHANGED <<live, hasGroups, permit, refreshVars, dns, applied, moves, failures>>

\* build_pools: each pool looks each of its hostnames up on its own, in turn.
Build(p, h, ok) ==
    /\ rl.pc = "build" /\ <<p, h>> \in rl.left
    /\ \A o \in rl.left : p <= o[1]
    /\ Looked(ok)
    /\ rl' = [rl EXCEPT !.new.addr[p][h] = Found(rl.from, h, ok), !.left = @ \ {<<p, h>>}]
    /\ UNCHANGED <<live, hasGroups, permit, refreshVars, dns, applied, reloads, moves>>

\* A pool that does not build ends the reload, the live set untouched.
PrepareFails ==
    /\ rl.pc = "build"
    /\ rl' = NoReload
    /\ UNCHANGED <<live, hasGroups, permit, refreshVars, dns, applied, bounds>>

\* apply: the flag goes up before the set, and down after it.
ApplyFlag ==
    /\ rl.pc = "build" /\ rl.left = {}
    /\ hasGroups' = (hasGroups \/ rl.new.config.grouped)
    /\ rl' = [rl EXCEPT !.pc = "swap"]
    /\ UNCHANGED <<live, permit, refreshVars, dns, applied, bounds>>

ApplySwap ==
    /\ rl.pc = "swap"
    /\ live' = rl.new
    /\ same' = FALSE
    /\ applied' = rl.new.config
    /\ rl' = [rl EXCEPT !.pc = "notify"]
    /\ UNCHANGED <<hasGroups, permit, task, pending, due, looking, dns, bounds>>

ApplyNotify ==
    /\ rl.pc = "notify"
    /\ hasGroups' = rl.new.config.grouped
    /\ permit' = TRUE
    /\ rl' = NoReload
    /\ UNCHANGED <<live, refreshVars, dns, applied, bounds>>

(***************************************************************************)
(* run_hostname_refresh                                                    *)
(***************************************************************************)

\* arm: every listed hostname has a pending lookup, and no other.
Arm ==
    /\ task = "arm"
    /\ pending' = Listed(live.config)
    /\ task' = "sleep"
    /\ UNCHANGED <<live, hasGroups, permit, rl, due, looking, same, dns, applied, bounds>>

\* The reload's permit ends the sleep, and everything is armed afresh.
Reloaded ==
    /\ task = "sleep" /\ permit
    /\ permit' = FALSE
    /\ pending' = {}
    /\ task' = "arm"
    /\ UNCHANGED <<live, hasGroups, rl, due, looking, same, dns, applied, bounds>>

\* Some pending lookups fall due, or none within max_ttl.
Wake(D) ==
    /\ task = "sleep" /\ D \subseteq pending
    /\ due' = D
    /\ task' = "refresh"
    /\ UNCHANGED <<live, hasGroups, permit, rl, pending, looking, same, dns, applied, bounds>>

\* refresh_hostname loads the set; a hostname no pool lists any more is dropped.
RefreshBegin(h) ==
    /\ task = "refresh" /\ h \in due
    /\ IF h \in Listed(live.config)
       THEN /\ looking' = [host |-> h, set |-> live] /\ same' = TRUE
            /\ task' = "looking"
            /\ UNCHANGED <<pending, due>>
       ELSE /\ pending' = pending \ {h} /\ due' = due \ {h}
            /\ UNCHANGED <<task, looking, same>>
    /\ UNCHANGED <<live, hasGroups, permit, rl, dns, applied, bounds>>

\* The set with a hostname's new address in every pool that lists it.
Patched(set, h, addr) ==
    [set EXCEPT !.addr = [p \in Pools |->
        [o \in DOMAIN set.addr[p] |-> IF o = h THEN addr ELSE set.addr[p][o]]]]

\* Mutant: the patched set is stored whatever is live by now.
SwapBlind(new) == live' = new

\* compare_and_swap: skipped if a reload replaced the set meanwhile.
Swap(new) == live' = IF same THEN new ELSE live

\* Mutant: only the first pool's copy is compared.
CopiesAgreeFirst(set, h, addr) ==
    LET listing == {p \in Pools : Lists(set.config, p, h)}
    IN  set.addr[CHOOSE p \in listing : \A o \in listing : p <= o][h] = addr

\* Whether every pool's copy already has the address.
CopiesAgree(set, h, addr) == \A p \in Pools : Lists(set.config, p, h) => set.addr[p][h] = addr

\* The lookup of refresh_hostname returns.
RefreshEnd(ok) ==
    /\ task = "looking"
    /\ Looked(ok)
    /\ LET addr == Found(looking.set, looking.host, ok)
       IN  IF CopiesAgree(looking.set, looking.host, addr) THEN UNCHANGED live
           ELSE Swap(Patched(looking.set, looking.host, addr))
    /\ due' = due \ {looking.host}
    /\ looking' = NoLookup /\ same' = FALSE
    /\ task' = "refresh"
    /\ UNCHANGED <<hasGroups, permit, rl, pending, dns, applied, reloads, moves>>

RefreshOver ==
    /\ task = "refresh" /\ due = {}
    /\ task' = "arm"
    /\ UNCHANGED <<live, hasGroups, permit, rl, pending, due, looking, same, dns, applied, bounds>>

\* A hostname moves.
Move(h, a) ==
    /\ moves < MaxMoves /\ a # dns[h]
    /\ moves' = moves + 1
    /\ dns' = [dns EXCEPT ![h] = a]
    /\ UNCHANGED <<live, hasGroups, permit, rl, refreshVars, applied, reloads, failures>>

BuildOne == \E p \in Pools, h \in Hosts, ok \in BOOLEAN : Build(p, h, ok)

Reload ==
    \/ \E c \in Configs : Prepare(c)
    \/ BuildOne
    \/ PrepareFails \/ ApplyFlag \/ ApplySwap \/ ApplyNotify

LookupEnds == \E ok \in BOOLEAN : RefreshEnd(ok)

Refresh ==
    \/ Arm \/ Reloaded \/ RefreshOver
    \/ \E D \in SUBSET Hosts : Wake(D)
    \/ \E h \in Hosts : RefreshBegin(h)
    \/ LookupEnds

Next == Reload \/ Refresh \/ \E h \in Hosts, a \in Addrs : Move(h, a)

\* The refresh task keeps running: a lookup has a timeout, and the permit of a
\* sleeping task ends its sleep.  A pending lookup is due from its time on, so that
\* some later sleep ends with it among the due ones (SF).  A reload under way goes on.
Fairness ==
    /\ WF_vars(Arm) /\ WF_vars(Reloaded) /\ WF_vars(RefreshOver) /\ WF_vars(LookupEnds)
    /\ \A h \in Hosts : SF_vars(\E D \in SUBSET Hosts : h \in D /\ Wake(D)) /\ WF_vars(RefreshBegin(h))
    /\ WF_vars(BuildOne) /\ WF_vars(ApplyFlag) /\ WF_vars(ApplySwap) /\ WF_vars(ApplyNotify)

Spec == Init /\ [][Next]_vars /\ Fairness

(***************************************************************************)
(* Properties                                                              *)
(***************************************************************************)

TypeOK ==
    /\ live.config \in Configs
    /\ \A p \in Pools : live.addr[p] \in [live.config.pools[p] -> Addrs \cup {NoAddr}]
    /\ {hasGroups, permit, same} \subseteq BOOLEAN
    /\ rl.pc \in {"idle", "build", "swap", "notify"}
    /\ task \in {"arm", "sleep", "refresh", "looking"}
    /\ due \subseteq pending /\ pending \subseteq Hosts
    /\ task = "looking" <=> looking # NoLookup
    /\ dns \in [Hosts -> Addrs]

\* "Never false while the live set holds a group route", so that the reader who
\* sees the flag down may use the shared view.
FlagCoversRoutes == live.config.grouped => hasGroups

\* The refresh task never undoes a reload: the live config is the last one applied,
\* however the lookups of the two overlap.
ReloadWins == live.config = applied

\* Whenever the refresh task sleeps with no permit waiting, each hostname the live
\* set lists has a pending lookup: no reload, in any order with the task's steps,
\* leaves one behind that nobody will look up again.
HostnamesWatched ==
    task = "sleep" /\ ~permit /\ rl.pc # "notify" => Listed(live.config) \subseteq pending

\* What queries and the refresh task read of the live set is in step with it,
\* however a reload, the lookups and the task's steps overlap (apply, refresh_host,
\* run_refresh_task).
SetInStep == TypeOK /\ FlagCoversRoutes /\ ReloadWins /\ HostnamesWatched

\* "A failed lookup keeps them": as long as it is listed, a hostname that has an
\* address keeps one, unless a reload that began before it was found replaces the
\* set.
AddressesKept ==
    [][\A p \in Pools, h \in Hosts :
           /\ Lists(live.config, p, h) /\ live.addr[p][h] # NoAddr
           /\ Lists(live'.config, p, h) /\ live'.addr[p][h] = NoAddr
           => rl.pc = "swap" /\ Kept(rl.from, h) = NoAddr]_vars

\* The addresses follow the hostnames: once a hostname stays listed and stops
\* moving, and lookups stop failing, every pool that lists it has its address; until
\* then it keeps one it has.
AddressesFollow ==
    /\ AddressesKept
    /\ \A h \in Hosts, a \in Addrs :
           <>[](h \in Listed(live.config) /\ dns[h] = a) =>
               <>[](\A p \in Pools : Lists(live.config, p, h) => live.addr[p][h] = a)

=============================================================================
