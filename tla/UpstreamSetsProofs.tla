------------------------- MODULE UpstreamSetsProofs -------------------------
(***************************************************************************)
(* Theorems about UpstreamSets and about its composition with the          *)
(* transports, UpstreamLinks, for any hostnames, addresses and configs:    *)
(* what is read of the live pool set is in step with it, and a failed      *)
(* lookup keeps the addresses there are; and, for any tasks, ports,        *)
(* messages and mishaps, every answer an exchange ends with is its own,    *)
(* and the pools of sockets and connections stay fit to use.               *)
(***************************************************************************)
EXTENDS UpstreamLinks, SequenceTheorems, FiniteSetTheorems, TLAPS

(***************************************************************************)
(* The inductive invariant                                                 *)
(***************************************************************************)

\* A pool set holds for each pool an address, or none, of each hostname it lists.
Known == Addrs \cup {NoAddr}

PoolSets ==
    {s \in [config : Configs, addr : [Pools -> UNION {[S -> Known] : S \in SUBSET Hosts}]] :
        \A p \in Pools : s.addr[p] \in [s.config.pools[p] -> Known]}

\* What a reload and a lookup of the refresh task carry from step to step.
Reloads == [pc : {"build", "swap", "notify"}, new : PoolSets, from : PoolSets,
            left : SUBSET (Pools \X Hosts)]
Lookups == [host : Hosts, set : PoolSets]

SetsTyped ==
    /\ live \in PoolSets
    /\ hasGroups \in BOOLEAN /\ permit \in BOOLEAN /\ same \in BOOLEAN
    /\ task \in {"arm", "sleep", "refresh", "looking"}
    /\ pending \subseteq Hosts
    /\ dns \in [Hosts -> Addrs]
    /\ rl \in {NoReload} \cup Reloads
    /\ looking \in {NoLookup} \cup Lookups

\* The refresh task: what it found due is pending, nothing is due outside its
\* round, and the set its lookup loaded is the live one until a reload swaps it.
TaskInStep ==
    /\ due \subseteq pending
    /\ task \in {"arm", "sleep"} => due = {}
    /\ task = "looking" <=> looking \in Lookups
    /\ same => looking \in Lookups /\ looking.set = live

\* The reload: the flag is up before a set with group routes goes live, and once
\* the set is live it is the one being announced.
ReloadInStep ==
    /\ rl.pc = "build" => \A x \in rl.left : Lists(rl.new.config, x[1], x[2])
    /\ rl.pc = "swap" => rl.left = {} /\ (rl.new.config.grouped => hasGroups)
    /\ rl.pc = "notify" => live.config = rl.new.config

\* A lookup of the reload that is over found an address or there was none to keep.
LookupsKept ==
    rl.pc \in {"build", "swap"} =>
        \A p \in Pools, h \in Hosts :
            /\ Lists(rl.new.config, p, h) /\ <<p, h>> \notin rl.left
            /\ rl.new.addr[p][h] = NoAddr
            => Kept(rl.from, h) = NoAddr

SetsInv ==
    /\ SetsTyped /\ TaskInStep /\ ReloadInStep /\ LookupsKept
    /\ FlagCoversRoutes /\ ReloadWins /\ HostnamesWatched

(***************************************************************************)
(* Pool sets                                                               *)
(***************************************************************************)

\* What is in a pool set.
LEMMA InPoolSet ==
    ASSUME NEW s \in PoolSets
    PROVE  /\ s.config \in Configs
           /\ \A p \in Pools : s.config.pools[p] \subseteq Hosts
                               /\ s.addr[p] \in [s.config.pools[p] -> Known]
           /\ Listed(s.config) \subseteq Hosts
<1>1. s.config \in Configs /\ \A p \in Pools : s.addr[p] \in [s.config.pools[p] -> Known]
  BY DEF PoolSets
<1>2. \A p \in Pools : s.config.pools[p] \subseteq Hosts
  BY <1>1, UpstreamSetsAssumption
<1> QED BY <1>1, <1>2 DEF Listed

\* A record of a config and addresses for what it lists is a pool set.
LEMMA MakesPoolSet ==
    ASSUME NEW c \in Configs, NEW addr, addr = [p \in Pools |-> addr[p]],
           \A p \in Pools : addr[p] \in [c.pools[p] -> Known]
    PROVE  [config |-> c, addr |-> addr] \in PoolSets
<1>1. \A p \in Pools : c.pools[p] \in SUBSET Hosts
  BY UpstreamSetsAssumption
<1>2. addr \in [Pools -> UNION {[S -> Known] : S \in SUBSET Hosts}]
  BY <1>1
<1> QED BY <1>2 DEF PoolSets

\* prepare's set, before its lookups, is one.
LEMMA UnresolvedIsSet ==
    ASSUME NEW c \in Configs
    PROVE  Unresolved(c) \in PoolSets /\ Unresolved(c).config = c
<1> DEFINE addr == [p \in Pools |-> [h \in c.pools[p] |-> NoAddr]]
<1>1. addr = [p \in Pools |-> addr[p]] /\ \A p \in Pools : addr[p] \in [c.pools[p] -> Known]
  BY DEF Known
<1> HIDE DEF addr
<1>2. [config |-> c, addr |-> addr] \in PoolSets
  BY <1>1, MakesPoolSet
<1> QED BY <1>2 DEF Unresolved, addr

\* So is a set with one address replaced, as build_pools does.
Resolved(s, p, h, a) == [s EXCEPT !.addr[p][h] = a]

LEMMA ResolvedIsSet ==
    ASSUME NEW s \in PoolSets, NEW p \in Pools, NEW h \in s.config.pools[p], NEW a \in Known
    PROVE  /\ Resolved(s, p, h, a) \in PoolSets
           /\ Resolved(s, p, h, a).config = s.config
           /\ \A q \in Pools, o \in Hosts : Lists(s.config, q, o) =>
                  Resolved(s, p, h, a).addr[q][o] = IF q = p /\ o = h THEN a ELSE s.addr[q][o]
<1> DEFINE addr == [s.addr EXCEPT ![p][h] = a]
<1>1. s = [config |-> s.config, addr |-> s.addr] /\ s.config \in Configs
      /\ s.addr \in [Pools -> UNION {[S -> Known] : S \in SUBSET Hosts}]
  BY DEF PoolSets
<1>2. Resolved(s, p, h, a) = [config |-> s.config, addr |-> addr]
  BY <1>1 DEF Resolved
<1>3. addr = [q \in Pools |-> addr[q]]
  BY <1>1
<1>4. \A q \in Pools : addr[q] \in [s.config.pools[q] -> Known]
  BY <1>1, InPoolSet
<1>5. \A q \in Pools : \A o \in s.config.pools[q] :
          addr[q][o] = IF q = p /\ o = h THEN a ELSE s.addr[q][o]
  BY <1>1, InPoolSet
<1> HIDE DEF addr
<1>6. [config |-> s.config, addr |-> addr] \in PoolSets
  BY <1>1, <1>3, <1>4, MakesPoolSet
<1> QED BY <1>2, <1>5, <1>6 DEF Lists

\* So is the set refresh_hostname stores, which has the address in every pool
\* that lists the hostname and is the same elsewhere.
LEMMA PatchedIsSet ==
    ASSUME NEW s \in PoolSets, NEW h \in Hosts, NEW a \in Known
    PROVE  /\ Patched(s, h, a) \in PoolSets
           /\ Patched(s, h, a).config = s.config
           /\ \A p \in Pools, o \in Hosts : Lists(s.config, p, o) =>
                  Patched(s, h, a).addr[p][o] = IF o = h THEN a ELSE s.addr[p][o]
<1> DEFINE addr == [p \in Pools |->
                       [o \in DOMAIN s.addr[p] |-> IF o = h THEN a ELSE s.addr[p][o]]]
<1>1. s = [config |-> s.config, addr |-> s.addr] /\ s.config \in Configs
  BY DEF PoolSets
<1>2. Patched(s, h, a) = [config |-> s.config, addr |-> addr]
  BY <1>1 DEF Patched
<1>3. addr = [p \in Pools |-> addr[p]]
  OBVIOUS
<1>4. \A p \in Pools : addr[p] \in [s.config.pools[p] -> Known]
  BY InPoolSet
<1>5. \A p \in Pools : \A o \in s.config.pools[p] :
          addr[p][o] = IF o = h THEN a ELSE s.addr[p][o]
  BY InPoolSet
<1> HIDE DEF addr
<1>6. [config |-> s.config, addr |-> addr] \in PoolSets
  BY <1>1, <1>3, <1>4, MakesPoolSet
<1> QED BY <1>2, <1>5, <1>6 DEF Lists

\* kept_group returns an address some pool has, and none only if no pool has one.
LEMMA KeptIsThere ==
    ASSUME NEW s \in PoolSets, NEW h \in Hosts
    PROVE  /\ Kept(s, h) \in Known
           /\ \A p \in Pools : Lists(s.config, p, h) /\ s.addr[p][h] # NoAddr => Kept(s, h) # NoAddr
<1> DEFINE having == {p \in Pools : Lists(s.config, p, h) /\ s.addr[p][h] # NoAddr}
<1>1. CASE having = {}
  BY <1>1 DEF Kept, Known
<1>2. CASE having # {}
  <2> DEFINE first == CHOOSE p \in having : \A o \in having : p <= o
  <2>1. \E p \in having : \A o \in having : p <= o
    BY <1>2 DEF Pools
  <2>2. first \in having
    BY <2>1
  <2>3. Kept(s, h) = s.addr[first][h]
    BY <1>2 DEF Kept
  <2> HIDE DEF first
  <2> QED BY <2>2, <2>3, InPoolSet DEF Lists
<1> QED BY <1>1, <1>2

\* expand_hostnames: a lookup that succeeds gives an address, one that fails
\* gives up none.
LEMMA FoundIsThere ==
    ASSUME dns \in [Hosts -> Addrs], NEW s \in PoolSets, NEW h \in Hosts, NEW ok \in BOOLEAN
    PROVE  /\ Found(s, h, ok) \in Known
           /\ Found(s, h, ok) = NoAddr => Kept(s, h) = NoAddr
BY KeptIsThere, UpstreamSetsAssumption DEF Found, Known

(***************************************************************************)
(* SetsInv is inductive                                                    *)
(***************************************************************************)

\* SetsInv holds for the first set.
LEMMA SetsInitInv ==
    ASSUME NEW r, NEW f, SetsInit(r, f)
    PROVE  SetsInv
<1> USE UpstreamSetsAssumption DEF SetsInv, SetsTyped, TaskInStep, ReloadInStep,
    LookupsKept,
        FlagCoversRoutes, ReloadWins, HostnamesWatched, Reloads, Lookups, NoReload, NoLookup,
        refreshVars, bounds
<1>1. PICK c \in Configs, down \in SUBSET Hosts :
           /\ live = [config |-> c,
                      addr |-> [p \in Pools |-> [h \in c.pools[p] |->
                                                    IF h \in down THEN NoAddr ELSE dns[h]]]]
           /\ applied = c /\ hasGroups = c.grouped
  BY DEF SetsInit
<1> DEFINE addr == [p \in Pools |-> [h \in c.pools[p] |-> IF h \in down THEN NoAddr ELSE dns[h]]]
<1>2. addr = [p \in Pools |-> addr[p]] /\ \A p \in Pools : addr[p] \in [c.pools[p] -> Known]
  BY DEF SetsInit, Known
<1> HIDE DEF addr
<1>3. live \in PoolSets /\ live.config = c
  BY <1>1, <1>2, MakesPoolSet DEF addr
<1>4. SetsTyped
  BY <1>1, <1>3 DEF SetsInit
<1>5. TaskInStep
  <2>1. \A k \in Lookups : "set" \in DOMAIN k
    OBVIOUS
  <2>2. "set" \notin DOMAIN NoLookup
    OBVIOUS
  <2> QED BY <2>1, <2>2 DEF SetsInit
<1>6. ReloadInStep /\ LookupsKept
  BY DEF SetsInit
<1>7. FlagCoversRoutes /\ ReloadWins
  BY <1>1, <1>3 DEF SetsInit
<1>8. HostnamesWatched
  BY DEF SetsInit
<1> QED BY <1>4, <1>5, <1>6, <1>7, <1>8

\* No step of a reload (prepare, build_pools, apply) breaks SetsInv.
LEMMA ReloadKeepsInv ==
    ASSUME SetsInv, Reload
    PROVE  SetsInv'
<1> USE UpstreamSetsAssumption DEF SetsInv, SetsTyped, TaskInStep, ReloadInStep,
    LookupsKept,
        FlagCoversRoutes, ReloadWins, HostnamesWatched, Reloads, Lookups, NoReload, NoLookup,
        refreshVars, bounds
<1>1. CASE \E c \in Configs : Prepare(c)
  <2>1. SetsTyped'
    BY <1>1, UnresolvedIsSet DEF Prepare, Lists
  <2>2. TaskInStep'
    BY <1>1, UnresolvedIsSet DEF Prepare, Lists
  <2>3. ReloadInStep'
    BY <1>1, UnresolvedIsSet DEF Prepare, Lists
  <2>4. LookupsKept'
    BY <1>1, UnresolvedIsSet DEF Prepare, Lists
  <2>5. FlagCoversRoutes'
    BY <1>1, UnresolvedIsSet DEF Prepare, Lists
  <2>6. ReloadWins'
    BY <1>1, UnresolvedIsSet DEF Prepare, Lists
  <2>7. HostnamesWatched'
    BY <1>1, UnresolvedIsSet DEF Prepare, Lists
  <2> QED BY <2>1, <2>2, <2>3, <2>4, <2>5, <2>6, <2>7
<1>2. CASE BuildOne
  <2>p. PICK p \in Pools, h \in Hosts, ok \in BOOLEAN : Build(p, h, ok)
    BY <1>2 DEF BuildOne
  <2> DEFINE a == Found(rl.from, h, ok)
             new == Resolved(rl.new, p, h, a)
  <2>r. rl \in Reloads /\ rl.pc = "build" /\ <<p, h>> \in rl.left
    BY <2>p DEF Build
  <2>a. a \in Known /\ (a = NoAddr => Kept(rl.from, h) = NoAddr)
    BY <2>r, FoundIsThere
  <2>l. h \in rl.new.config.pools[p]
    BY <2>r DEF Lists
  <2> HIDE DEF a
  <2>t. rl.new \in PoolSets
    BY <2>r
  <2>n. /\ new \in PoolSets /\ new.config = rl.new.config
        /\ \A q \in Pools, o \in Hosts : Lists(rl.new.config, q, o) =>
               new.addr[q][o] = IF q = p /\ o = h THEN a ELSE rl.new.addr[q][o]
    BY <2>t, <2>a, <2>l, ResolvedIsSet
  <2>e. rl' = [pc |-> "build", new |-> new, from |-> rl.from, left |-> rl.left \ {<<p, h>>}]
    BY <2>p, <2>r DEF Build, a, Resolved
  <2>u. UNCHANGED <<live, hasGroups, permit, refreshVars, dns, applied>>
    BY <2>p DEF Build
  <2> HIDE DEF new, a
  <2>1. SetsTyped'
    BY <2>u, <2>e, <2>n, <2>r
  <2>2. TaskInStep'
    BY <2>u
  <2>3. ReloadInStep'
    BY <2>u, <2>e, <2>n, <2>r
  <2>4. LookupsKept'
    BY <2>u, <2>e, <2>n, <2>a, <2>r
  <2>5. FlagCoversRoutes'
    BY <2>u
  <2>6. ReloadWins'
    BY <2>u
  <2>7. HostnamesWatched'
    BY <2>u, <2>e, <2>r
  <2> QED BY <2>1, <2>2, <2>3, <2>4, <2>5, <2>6, <2>7
<1>3. CASE PrepareFails
  <2>1. SetsTyped'
    BY <1>3 DEF PrepareFails
  <2>2. TaskInStep'
    BY <1>3 DEF PrepareFails
  <2>3. ReloadInStep'
    BY <1>3 DEF PrepareFails
  <2>4. LookupsKept'
    BY <1>3 DEF PrepareFails
  <2>5. FlagCoversRoutes'
    BY <1>3 DEF PrepareFails
  <2>6. ReloadWins'
    BY <1>3 DEF PrepareFails
  <2>7. HostnamesWatched'
    BY <1>3 DEF PrepareFails
  <2> QED BY <2>1, <2>2, <2>3, <2>4, <2>5, <2>6, <2>7
<1>4. CASE ApplyFlag
  <2>r. rl \in Reloads
    BY <1>4 DEF ApplyFlag
  <2>f. (hasGroups => hasGroups') /\ (rl.new.config.grouped => hasGroups')
    BY <1>4 DEF ApplyFlag
  <2>1. SetsTyped'
    BY <1>4 DEF ApplyFlag
  <2>2. TaskInStep'
    BY <1>4 DEF ApplyFlag
  <2>3. ReloadInStep'
    BY <1>4, <2>r, <2>f DEF ApplyFlag
  <2>4. LookupsKept'
    BY <1>4 DEF ApplyFlag
  <2>5. FlagCoversRoutes'
    BY <1>4 DEF ApplyFlag
  <2>6. ReloadWins'
    BY <1>4 DEF ApplyFlag
  <2>7. HostnamesWatched'
    BY <1>4 DEF ApplyFlag
  <2> QED BY <2>1, <2>2, <2>3, <2>4, <2>5, <2>6, <2>7
<1>5. CASE ApplySwap
  <2>r. rl \in Reloads
    BY <1>5 DEF ApplySwap
  <2>1. SetsTyped'
    BY <1>5, <2>r DEF ApplySwap
  <2>2. TaskInStep'
    BY <1>5 DEF ApplySwap
  <2>3. ReloadInStep'
    BY <1>5 DEF ApplySwap
  <2>4. LookupsKept'
    BY <1>5 DEF ApplySwap
  <2>5. FlagCoversRoutes'
    BY <1>5 DEF ApplySwap
  <2>6. ReloadWins'
    BY <1>5 DEF ApplySwap
  <2>7. HostnamesWatched'
    BY <1>5 DEF ApplySwap
  <2> QED BY <2>1, <2>2, <2>3, <2>4, <2>5, <2>6, <2>7
<1>6. CASE ApplyNotify
  <2>r. rl \in Reloads
    BY <1>6 DEF ApplyNotify
  <2>g. rl.new.config.grouped \in BOOLEAN
    BY <2>r, InPoolSet
  <2>1. SetsTyped'
    BY <1>6, <2>g DEF ApplyNotify
  <2>2. TaskInStep'
    BY <1>6 DEF ApplyNotify
  <2>3. ReloadInStep'
    BY <1>6 DEF ApplyNotify
  <2>4. LookupsKept'
    BY <1>6 DEF ApplyNotify
  <2>5. FlagCoversRoutes'
    BY <1>6 DEF ApplyNotify
  <2>6. ReloadWins'
    BY <1>6 DEF ApplyNotify
  <2>7. HostnamesWatched'
    BY <1>6 DEF ApplyNotify
  <2> QED BY <2>1, <2>2, <2>3, <2>4, <2>5, <2>6, <2>7
<1> QED BY <1>1, <1>2, <1>3, <1>4, <1>5, <1>6 DEF Reload

\* No step of the hostname refresh task does.
LEMMA RefreshKeepsInv ==
    ASSUME SetsInv, Refresh
    PROVE  SetsInv'
<1> USE UpstreamSetsAssumption DEF SetsInv, SetsTyped, TaskInStep, ReloadInStep,
    LookupsKept,
        FlagCoversRoutes, ReloadWins, HostnamesWatched, Reloads, Lookups, NoReload, NoLookup,
        refreshVars, bounds
<1>1. CASE Arm
  <2>1. SetsTyped'
    BY <1>1, InPoolSet DEF Arm
  <2>2. TaskInStep'
    BY <1>1, InPoolSet DEF Arm
  <2>3. ReloadInStep'
    BY <1>1, InPoolSet DEF Arm
  <2>4. LookupsKept'
    BY <1>1, InPoolSet DEF Arm
  <2>5. FlagCoversRoutes'
    BY <1>1, InPoolSet DEF Arm
  <2>6. ReloadWins'
    BY <1>1, InPoolSet DEF Arm
  <2>7. HostnamesWatched'
    BY <1>1, InPoolSet DEF Arm
  <2> QED BY <2>1, <2>2, <2>3, <2>4, <2>5, <2>6, <2>7
<1>2. CASE Reloaded
  <2>1. SetsTyped'
    BY <1>2 DEF Reloaded
  <2>2. TaskInStep'
    BY <1>2 DEF Reloaded
  <2>3. ReloadInStep'
    BY <1>2 DEF Reloaded
  <2>4. LookupsKept'
    BY <1>2 DEF Reloaded
  <2>5. FlagCoversRoutes'
    BY <1>2 DEF Reloaded
  <2>6. ReloadWins'
    BY <1>2 DEF Reloaded
  <2>7. HostnamesWatched'
    BY <1>2 DEF Reloaded
  <2> QED BY <2>1, <2>2, <2>3, <2>4, <2>5, <2>6, <2>7
<1>3. CASE RefreshOver
  <2>1. SetsTyped'
    BY <1>3 DEF RefreshOver
  <2>2. TaskInStep'
    BY <1>3 DEF RefreshOver
  <2>3. ReloadInStep'
    BY <1>3 DEF RefreshOver
  <2>4. LookupsKept'
    BY <1>3 DEF RefreshOver
  <2>5. FlagCoversRoutes'
    BY <1>3 DEF RefreshOver
  <2>6. ReloadWins'
    BY <1>3 DEF RefreshOver
  <2>7. HostnamesWatched'
    BY <1>3 DEF RefreshOver
  <2> QED BY <2>1, <2>2, <2>3, <2>4, <2>5, <2>6, <2>7
<1>4. CASE \E D \in SUBSET Hosts : Wake(D)
  <2>1. SetsTyped'
    BY <1>4 DEF Wake
  <2>2. TaskInStep'
    BY <1>4 DEF Wake
  <2>3. ReloadInStep'
    BY <1>4 DEF Wake
  <2>4. LookupsKept'
    BY <1>4 DEF Wake
  <2>5. FlagCoversRoutes'
    BY <1>4 DEF Wake
  <2>6. ReloadWins'
    BY <1>4 DEF Wake
  <2>7. HostnamesWatched'
    BY <1>4 DEF Wake
  <2> QED BY <2>1, <2>2, <2>3, <2>4, <2>5, <2>6, <2>7
<1>5. CASE \E h \in Hosts : RefreshBegin(h)
  <2>l. \A h \in Hosts : [host |-> h, set |-> live] \in Lookups
    OBVIOUS
  <2>1. SetsTyped'
    BY <1>5, <2>l DEF RefreshBegin
  <2>2. TaskInStep'
    BY <1>5 DEF RefreshBegin
  <2>3. ReloadInStep'
    BY <1>5 DEF RefreshBegin
  <2>4. LookupsKept'
    BY <1>5 DEF RefreshBegin
  <2>5. FlagCoversRoutes'
    BY <1>5 DEF RefreshBegin
  <2>6. ReloadWins'
    BY <1>5 DEF RefreshBegin
  <2>7. HostnamesWatched'
    BY <1>5 DEF RefreshBegin
  <2> QED BY <2>1, <2>2, <2>3, <2>4, <2>5, <2>6, <2>7
<1>6. CASE LookupEnds
  <2>p. PICK ok \in BOOLEAN : RefreshEnd(ok)
    BY <1>6 DEF LookupEnds
  <2>k. looking \in Lookups
    BY <2>p DEF RefreshEnd
  <2> DEFINE a == Found(looking.set, looking.host, ok)
  <2>a. a \in Known
    BY <2>k, FoundIsThere
  <2>n. /\ Patched(looking.set, looking.host, a) \in PoolSets
        /\ Patched(looking.set, looking.host, a).config = looking.set.config
    BY <2>k, <2>a, PatchedIsSet
  <2>s. live' = live \/ (same /\ live' = Patched(looking.set, looking.host, a))
    BY <2>p DEF RefreshEnd, Swap
  <2>l. live' \in PoolSets /\ live'.config = live.config
    BY <2>s, <2>n
  <2>e. /\ task = "looking" /\ task' = "refresh"
        /\ due' = due \ {looking.host} /\ looking' = NoLookup /\ same' = FALSE
        /\ UNCHANGED <<hasGroups, permit, rl, pending, dns, applied>>
    BY <2>p DEF RefreshEnd
  <2> HIDE DEF a
  <2>1. SetsTyped'
    BY <2>l, <2>e
  <2>2. TaskInStep'
    BY <2>l, <2>e
  <2>3. ReloadInStep'
    BY <2>l, <2>e
  <2>4. LookupsKept'
    BY <2>l, <2>e
  <2>5. FlagCoversRoutes'
    BY <2>l, <2>e
  <2>6. ReloadWins'
    BY <2>l, <2>e
  <2>7. HostnamesWatched'
    BY <2>l, <2>e
  <2> QED BY <2>1, <2>2, <2>3, <2>4, <2>5, <2>6, <2>7
<1> QED BY <1>1, <1>2, <1>3, <1>4, <1>5, <1>6 DEF Refresh

\* Nor does a hostname that moves.
LEMMA MoveKeepsInv ==
    ASSUME SetsInv, \E h \in Hosts, a \in Addrs : Move(h, a)
    PROVE  SetsInv'
BY UpstreamSetsAssumption DEF SetsInv, SetsTyped, TaskInStep, ReloadInStep, LookupsKept,
    FlagCoversRoutes, ReloadWins, HostnamesWatched, Move, refreshVars

\* Every step of the pool manager keeps SetsInv.
LEMMA SetsStep ==
    ASSUME SetsInv, [Next]_vars
    PROVE  SetsInv'
<1>1. CASE Next
  BY <1>1, ReloadKeepsInv, RefreshKeepsInv, MoveKeepsInv DEF Next
<1>2. CASE UNCHANGED vars
  BY <1>2 DEF vars, refreshVars, bounds, SetsInv, SetsTyped, TaskInStep, ReloadInStep,
      LookupsKept, FlagCoversRoutes, ReloadWins, HostnamesWatched
<1> QED BY <1>1, <1>2

\* SetsInv gives what the run checks.
LEMMA SetsInvGives == SetsInv => SetInStep
<1> SUFFICES ASSUME SetsInv PROVE TypeOK
  BY DEF SetsInv, SetInStep
<1>1. /\ live.config \in Configs
      /\ \A p \in Pools : live.addr[p] \in [live.config.pools[p] -> Addrs \cup {NoAddr}]
  BY InPoolSet DEF SetsInv, SetsTyped, Known
<1>2. rl.pc \in {"idle", "build", "swap", "notify"}
  BY DEF SetsInv, SetsTyped, Reloads, NoReload
<1>3. task = "looking" <=> looking # NoLookup
  <2>1. \A k \in Lookups : "set" \in DOMAIN k
    BY DEF Lookups
  <2>2. "set" \notin DOMAIN NoLookup
    BY DEF NoLookup
  <2> QED BY <2>1, <2>2 DEF SetsInv, SetsTyped, TaskInStep
<1> QED BY <1>1, <1>2, <1>3 DEF SetsInv, SetsTyped, TaskInStep, TypeOK

\* A step gives up a hostname's address only if a reload that found none swaps
\* its set in.
KeepsAddresses ==
    \A p \in Pools, h \in Hosts :
        /\ Lists(live.config, p, h) /\ live.addr[p][h] # NoAddr
        /\ Lists(live'.config, p, h) /\ live'.addr[p][h] = NoAddr
        => rl.pc = "swap" /\ Kept(rl.from, h) = NoAddr

LEMMA KeepsAddressesStep ==
    ASSUME SetsInv, [Next]_vars
    PROVE  KeepsAddresses
<1> USE DEF SetsInv, SetsTyped, TaskInStep
<1>1. CASE ApplySwap
  BY <1>1 DEF ApplySwap, KeepsAddresses, LookupsKept, ReloadInStep, Reloads
<1>2. CASE LookupEnds
  <2>1. PICK ok \in BOOLEAN : RefreshEnd(ok)
    BY <1>2 DEF LookupEnds
  <2>2. looking \in Lookups
    BY <2>1 DEF RefreshEnd
  <2> DEFINE a == Found(looking.set, looking.host, ok)
  <2>3. looking.set \in PoolSets /\ looking.host \in Hosts
    BY <2>2 DEF Lookups
  <2>4. a \in Known /\ (a = NoAddr => Kept(looking.set, looking.host) = NoAddr)
    BY <2>3, FoundIsThere
  <2>5. live' = live \/ (same /\ live' = Patched(looking.set, looking.host, a))
    BY <2>1 DEF RefreshEnd, Swap
  <2> HIDE DEF a
  <2>6. CASE live' = live
    BY <2>6 DEF KeepsAddresses
  <2>7. CASE same /\ live' = Patched(looking.set, looking.host, a)
    <3>1. looking.set = live
      BY <2>7
    <3>2. \A p \in Pools, o \in Hosts : Lists(live.config, p, o) =>
              live'.addr[p][o] = IF o = looking.host THEN a ELSE live.addr[p][o]
      BY <2>3, <2>4, <2>7, <3>1, PatchedIsSet
    <3>3. live'.config = live.config
      BY <2>3, <2>4, <2>7, <3>1, PatchedIsSet
    <3>4. \A p \in Pools : Lists(live.config, p, looking.host)
                           /\ live.addr[p][looking.host] # NoAddr => a # NoAddr
      BY <2>3, <2>4, <3>1, KeptIsThere
    <3> QED BY <3>2, <3>3, <3>4 DEF KeepsAddresses
  <2> QED BY <2>5, <2>6, <2>7
<1>3. CASE UNCHANGED live
  BY <1>3 DEF KeepsAddresses
<1> QED
  BY <1>1, <1>2, <1>3 DEF Next, Reload, Refresh, Prepare, BuildOne, Build, PrepareFails,
      ApplyFlag,
      ApplyNotify, Arm, Reloaded, RefreshOver, Wake, RefreshBegin, Move, vars

(***************************************************************************)
(* Theorems                                                                *)
(***************************************************************************)

\* What queries and the refresh task read of the live set is in step with it:
\* has_group_routes is up while the set has a group route, the set is the last
\* one applied, and each hostname it lists has a pending lookup.
THEOREM SetStaysInStep == Spec => []SetInStep
<1>1. Init => SetsInv
  BY SetsInitInv DEF Init
<1> QED BY <1>1, SetsStep, SetsInvGives, PTL DEF Spec

\* "A failed lookup keeps them": as long as it is listed, a hostname that has an
\* address keeps one, unless a reload that began before it was found swaps its
\* set in (kept_group, refresh_hostname's compare_and_swap).
THEOREM AddressesStay == Spec => AddressesKept
<1>1. Init => SetsInv
  BY SetsInitInv DEF Init
<1>2. SetsInv /\ [Next]_vars => [KeepsAddresses]_vars
  BY KeepsAddressesStep
<1> QED BY <1>1, <1>2, SetsStep, PTL DEF Spec, AddressesKept, KeepsAddresses

\* A step of the composition is a step of the pool set or leaves it alone:
\* exchanges and forgotten transports touch nothing the pool set keeps.
LEMMA LinksLeaveSets ==
    ASSUME [NextLinks]_allVars
    PROVE  [Next]_vars
BY DEF NextLinks, SetStep, LookupPatches, LinkStep, Next, Refresh, allVars

\* The same holds of the pool set over its transports (PoolManager and the
\* transport cache together).
THEOREM SetStaysInStepOverLinks == SpecLinks => []SetInStep
<1>1. InitLinks => SetsInv
  BY SetsInitInv DEF InitLinks, Init
<1>2. SetsInv /\ [NextLinks]_allVars => SetsInv'
  BY LinksLeaveSets, SetsStep
<1> QED BY <1>1, <1>2, SetsInvGives, PTL DEF SpecLinks

\* And no exchange makes a hostname lose the address it has.
THEOREM AddressesStayOverLinks == SpecLinks => AddressesKept
<1>1. InitLinks => SetsInv
  BY SetsInitInv DEF InitLinks, Init
<1>2. SetsInv /\ [NextLinks]_allVars => SetsInv'
  BY LinksLeaveSets, SetsStep
<1>3. SetsInv /\ [NextLinks]_allVars => [KeepsAddresses]_vars
  BY LinksLeaveSets, KeepsAddressesStep
<1> QED BY <1>1, <1>2, <1>3, PTL DEF SpecLinks, AddressesKept, KeepsAddresses

(***************************************************************************)
(* The pools of sockets                                                    *)
(***************************************************************************)

\* A socket of the pool: its port, and how often it was used.
Sockets == [port : Ports, uses : Nat]

InPool(P, port) == \E a \in DOMAIN P : \E i \in 1..Len(P[a]) : P[a][i].port = port

\* Pools on their own: bounded, of sockets not yet worn, no port twice.
PoolsFit(P) ==
    /\ \A a \in DOMAIN P :
           /\ P[a] \in Seq(Sockets) /\ Len(P[a]) <= MAX_PER_SERVER
           /\ \A i \in 1..Len(P[a]) : P[a][i].uses < ROTATION
    /\ \A a, b \in DOMAIN P : \A i \in 1..Len(P[a]), j \in 1..Len(P[b]) :
           P[a][i].port = P[b][j].port => a = b /\ i = j

BusyIn(us) == {u \in Users : us[u].pc = "recv"}

\* The exchanges that have a socket: not too old, and nobody else's.
HoldersFit(us, P) ==
    /\ \A u \in BusyIn(us) : us[u].sock \in Sockets /\ us[u].sock.uses <= ROTATION
                             /\ ~InPool(P, us[u].sock.port)
    /\ \A u, v \in BusyIn(us) : us[u].sock.port = us[v].sock.port => u = v

PoolsInv(us, P, left) ==
    /\ PoolsFit(P) /\ HoldersFit(us, P)
    /\ left \in Nat /\ left + Cardinality(BusyIn(us)) = TOTAL_LIMIT

\* The sockets the pool has for an address.
LEMMA GetPool ==
    ASSUME NEW P, PoolsFit(P), NEW addr
    PROVE  /\ Get(P, addr) \in Seq(Sockets) /\ Len(Get(P, addr)) \in Nat
           /\ Len(Get(P, addr)) <= MAX_PER_SERVER
           /\ Get(P, addr) = <<>> <=> Len(Get(P, addr)) = 0
           /\ Get(P, addr) # <<>> => addr \in DOMAIN P /\ Get(P, addr) = P[addr]
<1>1. <<>> \in Seq(Sockets) /\ Len(<<>>) = 0
  BY EmptySeq
<1>2. MAX_PER_SERVER \in Nat
  BY TransportAssumption
<1>3. Get(P, addr) \in Seq(Sockets) /\ Len(Get(P, addr)) <= MAX_PER_SERVER
  BY <1>1, <1>2 DEF Get, PoolsFit
<1>4. Len(Get(P, addr)) \in Nat
  BY <1>3, LenProperties
<1>5. Get(P, addr) # <<>> => Len(Get(P, addr)) \in Nat \ {0}
  BY <1>3, EmptySeq
<1> QED BY <1>1, <1>3, <1>4, <1>5 DEF Get

\* PooledUdpSocket::drop keeps the pool sound, and adds no port but the socket's.
LEMMA DropFits ==
    ASSUME NEW P, PoolsFit(P), NEW sock \in Sockets, sock.uses <= ROTATION,
           ~InPool(P, sock.port), NEW addr
    PROVE  /\ PoolsFit(Drop(P, sock, addr))
           /\ \A p : InPool(Drop(P, sock, addr), p) => InPool(P, p) \/ p = sock.port
<1> DEFINE old == Get(P, addr)
           new == Append(old, sock)
           Q == Put(P, addr, new)
<1>1. CASE sock.uses >= ROTATION \/ Len(Get(P, addr)) >= MAX_PER_SERVER
  BY <1>1 DEF Drop
<1>2. CASE ~(sock.uses >= ROTATION \/ Len(Get(P, addr)) >= MAX_PER_SERVER)
  <2>0. Drop(P, sock, addr) = Q
    BY <1>2 DEF Drop
  <2>n. MAX_PER_SERVER \in Nat /\ ROTATION \in Nat /\ sock.uses \in Nat
    BY TransportAssumption DEF Sockets
  <2>1. old \in Seq(Sockets) /\ Len(old) \in Nat
    BY GetPool
  <2>2. /\ new \in Seq(Sockets) /\ Len(new) = Len(old) + 1
        /\ \A i \in 1..Len(old) : new[i] = old[i]
        /\ new[Len(old) + 1] = sock
    BY <2>1, AppendProperties
  <2>3. \A i \in 1..Len(old) : addr \in DOMAIN P /\ old[i] = P[addr][i] /\ Len(old) = Len(P[addr])
    <3> SUFFICES ASSUME NEW i \in 1..Len(old) PROVE addr \in DOMAIN P /\ old = P[addr]
      OBVIOUS
    <3>1. Len(old) # 0
      BY <2>1
    <3> QED BY <3>1, GetPool
  <2>4. DOMAIN Q = DOMAIN P \cup {addr} /\ Q[addr] = new
        /\ \A a \in DOMAIN P : a # addr => Q[a] = P[a]
    BY DEF Put
  <2>5. Len(new) <= MAX_PER_SERVER
    BY <1>2, <2>1, <2>2, <2>n
  <2>6. sock.uses < ROTATION
    BY <1>2, <2>n
  <2>7. \A i \in 1..Len(new) : i = Len(old) + 1 \/ i \in 1..Len(old)
    BY <2>1, <2>2
  <2>8. \A i \in 1..Len(new) : new[i].uses < ROTATION
    <3> SUFFICES ASSUME NEW i \in 1..Len(new) PROVE new[i].uses < ROTATION
      OBVIOUS
    <3>1. CASE i = Len(old) + 1
      BY <3>1, <2>2, <2>6
    <3>2. CASE i \in 1..Len(old)
      BY <3>2, <2>2, <2>3 DEF PoolsFit
    <3> QED BY <2>7, <3>1, <3>2
  <2> HIDE DEF old, new, Q
  <2>9. \A a \in DOMAIN Q : \A i \in 1..Len(Q[a]) :
            \/ a = addr /\ i = Len(old) + 1 /\ Q[a][i].port = sock.port
            \/ a \in DOMAIN P /\ i \in 1..Len(P[a]) /\ Q[a][i] = P[a][i]
    BY <2>2, <2>3, <2>4, <2>7
  <2>10. \A a \in DOMAIN P : \A i \in 1..Len(P[a]) : P[a][i].port # sock.port
    BY DEF InPool
  <2>11. \A a, b \in DOMAIN Q : \A i \in 1..Len(Q[a]), j \in 1..Len(Q[b]) :
            Q[a][i].port = Q[b][j].port => a = b /\ i = j
    <3> SUFFICES ASSUME NEW a \in DOMAIN Q, NEW b \in DOMAIN Q, NEW i \in 1..Len(Q[a]),
                        NEW j \in 1..Len(Q[b]), Q[a][i].port = Q[b][j].port
                 PROVE  a = b /\ i = j
      OBVIOUS
    <3>1. CASE a \in DOMAIN P /\ i \in 1..Len(P[a]) /\ Q[a][i] = P[a][i]
      <4>1. Q[b][j].port # sock.port
        BY <3>1, <2>10
      <4>2. b \in DOMAIN P /\ j \in 1..Len(P[b]) /\ Q[b][j] = P[b][j]
        BY <4>1, <2>9
      <4> QED BY <3>1, <4>2 DEF PoolsFit
    <3>2. CASE a = addr /\ i = Len(old) + 1 /\ Q[a][i].port = sock.port
      <4>1. b = addr /\ j = Len(old) + 1
        BY <3>2, <2>9, <2>10
      <4> QED BY <3>2, <4>1
    <3> QED BY <2>9, <3>1, <3>2
  <2>12. \A a \in DOMAIN Q : /\ Q[a] \in Seq(Sockets) /\ Len(Q[a]) <= MAX_PER_SERVER
                             /\ \A i \in 1..Len(Q[a]) : Q[a][i].uses < ROTATION
    <3> SUFFICES ASSUME NEW a \in DOMAIN Q
                 PROVE  /\ Q[a] \in Seq(Sockets) /\ Len(Q[a]) <= MAX_PER_SERVER
                        /\ \A i \in 1..Len(Q[a]) : Q[a][i].uses < ROTATION
      OBVIOUS
    <3>1. CASE a = addr
      BY <3>1, <2>2, <2>4, <2>5, <2>8
    <3>2. CASE a # addr
      <4>1. a \in DOMAIN P /\ Q[a] = P[a]
        BY <3>2, <2>4
      <4> QED BY <4>1 DEF PoolsFit
    <3> QED BY <3>1, <3>2
  <2>13. PoolsFit(Q)
    BY <2>11, <2>12 DEF PoolsFit
  <2>14. \A p : InPool(Q, p) => InPool(P, p) \/ p = sock.port
    BY <2>9 DEF InPool
  <2> QED BY <2>0, <2>13, <2>14
<1> QED BY <1>1, <1>2

\* UdpPool::acquire takes its socket out of the pool.
LEMMA PopFits ==
    ASSUME PoolsFit(sockets), NEW addr, NEW sock \in Acquired(addr)
    PROVE  /\ PoolsFit(Popped(addr))
           /\ sock \in Sockets /\ sock.uses <= ROTATION
           /\ InPool(sockets, sock.port) \/ sock.port \notin PortsInUse
           /\ ~InPool(Popped(addr), sock.port)
           /\ \A p : InPool(Popped(addr), p) => InPool(sockets, p)
<1> DEFINE old == Get(sockets, addr)
           P == sockets
<1>n. ROTATION \in Nat \ {0} /\ MAX_PER_SERVER \in Nat
  BY TransportAssumption
<1>g. old \in Seq(Sockets) /\ Len(old) \in Nat
  BY GetPool
<1>1. CASE old = <<>>
  <2>1. PICK p \in Ports \ PortsInUse : sock = [port |-> p, uses |-> 1]
    BY <1>1 DEF Acquired
  <2>2. Popped(addr) = sockets
    BY <1>1 DEF Popped
  <2>3. sock \in Sockets /\ sock.uses <= ROTATION
    BY <2>1, <1>n DEF Sockets
  <2>4. ~InPool(sockets, p)
    <3> SUFFICES ASSUME InPool(sockets, p) PROVE FALSE
      OBVIOUS
    <3>1. PICK a \in DOMAIN sockets : \E i \in 1..Len(sockets[a]) : sockets[a][i].port = p
      BY DEF InPool
    <3>i. PICK i \in 1..Len(sockets[a]) : sockets[a][i].port = p
      BY <3>1
    <3>2. sockets[a] \in Seq(Sockets)
      BY DEF PoolsFit
    <3>3. i \in DOMAIN sockets[a]
      BY <3>2, LenProperties
    <3>4. sockets[a][i] \in Range(sockets[a])
      BY <3>3 DEF Range
    <3>5. p \in PortsInUse
      BY <3>i, <3>4 DEF PortsInUse
    <3> QED BY <3>5
  <2> QED BY <2>1, <2>2, <2>3, <2>4
<1>2. CASE old # <<>>
  <2>1. addr \in DOMAIN P /\ old = P[addr] /\ Len(old) # 0
    BY <1>2, GetPool
  <2> DEFINE n == Len(old) - 1
             fr == Front(old)
             Q == Popped(addr)
  <2>2. sock = [Last(old) EXCEPT !.uses = @ + 1]
    BY <1>2 DEF Acquired
  <2>3. Last(old) = old[Len(old)] /\ Len(old) \in 1..Len(old)
    BY <1>g, <2>1 DEF Last
  <2>4. Last(old) \in Sockets
    BY <1>g, <2>3, ElementOfSeq
  <2>5. Last(old).uses < ROTATION /\ Last(old).uses \in Nat
    BY <2>1, <2>3, <2>4 DEF PoolsFit, Sockets
  <2>6. sock \in Sockets /\ sock.uses <= ROTATION /\ sock.port = Last(old).port
    BY <2>2, <2>4, <2>5, <1>n DEF Sockets
  <2>7. \A i \in 1..n : old[i] \in Sockets
    BY <1>g, ElementOfSeq
  <2>8. n \in Nat
    BY <1>g, <2>1
  <2>9. /\ fr \in Seq(Sockets) /\ Len(fr) = n
        /\ \A i \in 1..n : fr[i] = old[i]
    <3>1. /\ SubSeq(old, 1, n) \in Seq(Sockets)
          /\ Len(SubSeq(old, 1, n)) = IF 1 <= n THEN n - 1 + 1 ELSE 0
          /\ \A i \in 1 .. n - 1 + 1 : SubSeq(old, 1, n)[i] = old[1 + i - 1]
      BY <2>7, <2>8, SubSeqProperties
    <3>2. fr = SubSeq(old, 1, n)
      BY DEF Front
    <3> HIDE DEF fr, n, old
    <3>3. \A i \in 1..n : i \in 1 .. n - 1 + 1 /\ 1 + i - 1 = i
      BY <2>8
    <3>4. (IF 1 <= n THEN n - 1 + 1 ELSE 0) = n
      BY <2>8
    <3> QED BY <3>1, <3>2, <3>3, <3>4
  <2>10. Q = Put(P, addr, fr)
    BY <1>2, <2>1 DEF Popped
  <2>11. DOMAIN Q = DOMAIN P /\ Q[addr] = fr /\ \A a \in DOMAIN P : a # addr => Q[a] = P[a]
    BY <2>1, <2>10 DEF Put
  <2> HIDE DEF Q, fr
  <2>12. \A a \in DOMAIN Q : \A i \in 1..Len(Q[a]) :
            /\ i \in 1..Len(P[a]) /\ Q[a][i] = P[a][i]
            /\ a = addr => i # Len(old)
    <3> SUFFICES ASSUME NEW a \in DOMAIN Q, NEW i \in 1..Len(Q[a])
                 PROVE  /\ i \in 1..Len(P[a]) /\ Q[a][i] = P[a][i]
                        /\ a = addr => i # Len(old)
      OBVIOUS
    <3>1. CASE a = addr
      <4>1. i \in 1..n
        BY <3>1, <2>9, <2>11
      <4>2. i \in 1..Len(old) /\ i # Len(old)
        BY <4>1, <1>g
      <4> QED BY <3>1, <4>1, <4>2, <2>1, <2>9, <2>11
    <3>2. CASE a # addr
      BY <3>2, <2>11
    <3> QED BY <3>1, <3>2
  <2>13. \A a \in DOMAIN Q : Q[a] \in Seq(Sockets) /\ Len(Q[a]) <= MAX_PER_SERVER
    <3> SUFFICES ASSUME NEW a \in DOMAIN Q
                 PROVE  Q[a] \in Seq(Sockets) /\ Len(Q[a]) <= MAX_PER_SERVER
      OBVIOUS
    <3>1. CASE a = addr
      <4>1. Len(old) <= MAX_PER_SERVER
        BY GetPool
      <4> QED BY <3>1, <4>1, <1>g, <1>n, <2>9, <2>11
    <3>2. CASE a # addr
      BY <3>2, <2>11 DEF PoolsFit
    <3> QED BY <3>1, <3>2
  <2>14. \A a \in DOMAIN Q : \A i \in 1..Len(Q[a]) : Q[a][i].uses < ROTATION
    BY <2>11, <2>12 DEF PoolsFit
  <2>15. \A a, b \in DOMAIN Q : \A i \in 1..Len(Q[a]), j \in 1..Len(Q[b]) :
            Q[a][i].port = Q[b][j].port => a = b /\ i = j
    BY <2>11, <2>12 DEF PoolsFit
  <2>16. PoolsFit(Q)
    BY <2>13, <2>14, <2>15 DEF PoolsFit
  <2>17. InPool(P, sock.port)
    BY <2>1, <2>3, <2>6 DEF InPool
  <2>18. ~InPool(Q, sock.port)
    <3> SUFFICES ASSUME NEW a \in DOMAIN Q, NEW i \in 1..Len(Q[a]), Q[a][i].port = sock.port
                 PROVE  FALSE
      BY DEF InPool
    <3>1. i \in 1..Len(P[a]) /\ Q[a][i] = P[a][i] /\ (a = addr => i # Len(old)) /\ a \in DOMAIN P
      BY <2>11, <2>12
    <3>2. P[a][i].port = P[addr][Len(old)].port
      BY <3>1, <2>1, <2>3, <2>6
    <3>3. Len(old) \in 1..Len(P[addr])
      BY <2>1, <2>3
    <3> QED BY <3>1, <3>2, <3>3, <2>1 DEF PoolsFit
  <2>19. \A p : InPool(Q, p) => InPool(P, p)
    BY <2>11, <2>12 DEF InPool
  <2> QED BY <2>6, <2>16, <2>17, <2>18, <2>19 DEF Q
<1> QED BY <1>1, <1>2

\* Finitely many exchanges have a socket.
LEMMA BusyFinite ==
    ASSUME NEW us
    PROVE  IsFiniteSet(BusyIn(us)) /\ Cardinality(BusyIn(us)) \in Nat
<1>1. BusyIn(us) \in SUBSET Users /\ IsFiniteSet(Users)
  BY TransportAssumption DEF BusyIn
<1>2. IsFiniteSet(BusyIn(us))
  BY <1>1, FS_Subset
<1> QED BY <1>2, FS_CardinalityType

\* A step that moves no socket.
LEMMA PoolsQuiet ==
    ASSUME NEW us, NEW P, NEW left, PoolsInv(us, P, left), NEW us2,
           \A v \in Users : us2[v].pc = "recv" <=> us[v].pc = "recv",
           \A v \in Users : us[v].pc = "recv" => us2[v].sock = us[v].sock
    PROVE  PoolsInv(us2, P, left)
<1>1. BusyIn(us2) = BusyIn(us)
  BY DEF BusyIn
<1>2. \A v \in BusyIn(us) : us2[v].sock = us[v].sock
  BY DEF BusyIn
<1> QED BY <1>1, <1>2 DEF PoolsInv, HoldersFit

\* An exchange gives its socket up, to the pool or for good.
LEMMA SocketBack ==
    ASSUME NEW us, NEW P, NEW left, PoolsInv(us, P, left), DOMAIN us = Users,
           NEW u \in Users, us[u].pc = "recv", NEW y, y.pc # "recv", NEW Q, NEW addr,
           Q = P \/ Q = Drop(P, us[u].sock, addr)
    PROVE  PoolsInv([us EXCEPT ![u] = y], Q, left + 1)
<1> DEFINE us2 == [us EXCEPT ![u] = y]
           B == BusyIn(us)
<1>1. BusyIn(us2) = B \ {u} /\ u \in B /\ \A v \in B \ {u} : us2[v] = us[v]
  BY DEF BusyIn
<1>2. /\ PoolsFit(P) /\ us[u].sock \in Sockets /\ us[u].sock.uses <= ROTATION
      /\ ~InPool(P, us[u].sock.port)
  BY <1>1 DEF PoolsInv, HoldersFit
<1>3. PoolsFit(Q) /\ \A p : InPool(Q, p) => InPool(P, p) \/ p = us[u].sock.port
  <2>1. CASE Q = P
    BY <2>1, <1>2
  <2>2. CASE Q = Drop(P, us[u].sock, addr)
    BY <2>2, <1>2, DropFits
  <2> QED BY <2>1, <2>2
<1>4. IsFiniteSet(B) /\ Cardinality(B) \in Nat
  BY BusyFinite
<1>5. Cardinality(B \ {u}) = Cardinality(B) - 1
  BY <1>1, <1>4, FS_RemoveElement
<1>t. left \in Nat /\ left + Cardinality(B) = TOTAL_LIMIT
  BY DEF PoolsInv
<1>6. left + 1 \in Nat /\ left + 1 + Cardinality(B \ {u}) = TOTAL_LIMIT
  BY <1>4, <1>5, <1>t
<1> HIDE DEF us2
<1>7. HoldersFit(us2, Q)
  <2>1. ASSUME NEW v \in B \ {u}
        PROVE  us2[v].sock \in Sockets /\ us2[v].sock.uses <= ROTATION
               /\ ~InPool(Q, us2[v].sock.port)
    <3>1. us2[v] = us[v] /\ v \in B /\ v # u
      BY <1>1
    <3>2. us[v].sock.port # us[u].sock.port
      BY <1>1, <3>1 DEF PoolsInv, HoldersFit
    <3> QED BY <3>1, <3>2, <1>3 DEF PoolsInv, HoldersFit
  <2>2. ASSUME NEW v \in B \ {u}, NEW w \in B \ {u}, us2[v].sock.port = us2[w].sock.port
        PROVE  v = w
    <3>1. us2[v] = us[v] /\ us2[w] = us[w]
      BY <1>1
    <3> QED BY <2>2, <3>1 DEF PoolsInv, HoldersFit
  <2> QED BY <1>1, <2>1, <2>2 DEF HoldersFit
<1>8. left + 1 + Cardinality(BusyIn(us2)) = TOTAL_LIMIT
  BY <1>1, <1>6
<1> QED BY <1>3, <1>6, <1>7, <1>8 DEF PoolsInv, us2

\* A socket acquired is nobody's.
LEMMA AcquiredApart ==
    ASSUME PoolsInv(user, sockets, permits), NEW addr, NEW sock \in Acquired(addr)
    PROVE  \A v \in BusyIn(user) : user[v].sock.port # sock.port
<1> SUFFICES ASSUME NEW v \in BusyIn(user), user[v].sock.port = sock.port PROVE FALSE
  OBVIOUS
<1>1. ~InPool(sockets, sock.port)
  BY DEF PoolsInv, HoldersFit
<1>2. v \in {w \in Users : Busy(w)}
  BY DEF BusyIn, Busy
<1>3. sock.port \in PortsInUse
  BY <1>2 DEF PortsInUse
<1>4. PoolsFit(sockets)
  BY DEF PoolsInv
<1>5. InPool(sockets, sock.port) \/ sock.port \notin PortsInUse
  BY <1>4, PopFits
<1> QED BY <1>1, <1>3, <1>5

\* An exchange takes a socket.
LEMMA SocketOut ==
    ASSUME PoolsInv(user, sockets, permits), DOMAIN user = Users, permits > 0,
           NEW u \in Users, user[u].pc # "recv", NEW addr, NEW sock \in Acquired(addr),
           NEW y, y.pc = "recv", y.sock = sock
    PROVE  PoolsInv([user EXCEPT ![u] = y], Popped(addr), permits - 1)
<1> DEFINE us2 == [user EXCEPT ![u] = y]
           B == BusyIn(user)
           Q == Popped(addr)
<1>1. /\ BusyIn(us2) = B \cup {u} /\ u \notin B /\ us2[u] = y
      /\ \A v \in B : us2[v] = user[v] /\ v # u
  BY DEF BusyIn
<1>p. PoolsFit(sockets)
  BY DEF PoolsInv
<1>2. /\ PoolsFit(Q)
      /\ sock \in Sockets /\ sock.uses <= ROTATION
      /\ InPool(sockets, sock.port) \/ sock.port \notin PortsInUse
      /\ ~InPool(Q, sock.port)
      /\ \A p : InPool(Q, p) => InPool(sockets, p)
  BY <1>p, PopFits
<1>3. \A v \in B : user[v].sock.port # sock.port
  BY AcquiredApart
<1>4. IsFiniteSet(B) /\ Cardinality(B) \in Nat
  BY BusyFinite
<1>5. Cardinality(B \cup {u}) = Cardinality(B) + 1
  BY <1>1, <1>4, FS_AddElement
<1>t. permits \in Nat /\ permits + Cardinality(B) = TOTAL_LIMIT
  BY DEF PoolsInv
<1>6. permits - 1 \in Nat /\ permits - 1 + Cardinality(B \cup {u}) = TOTAL_LIMIT
  BY <1>4, <1>5, <1>t
<1> HIDE DEF us2, Q
<1>7. HoldersFit(us2, Q)
  <2>1. ASSUME NEW v \in B
        PROVE  us2[v].sock \in Sockets /\ us2[v].sock.uses <= ROTATION
               /\ ~InPool(Q, us2[v].sock.port) /\ us2[v].sock.port # sock.port
    BY <1>1, <1>2, <1>3 DEF PoolsInv, HoldersFit
  <2>2. us2[u].sock \in Sockets /\ us2[u].sock.uses <= ROTATION
        /\ ~InPool(Q, us2[u].sock.port) /\ us2[u].sock = sock
    BY <1>1, <1>2
  <2>3. ASSUME NEW v \in B, NEW w \in B, us2[v].sock.port = us2[w].sock.port
        PROVE  v = w
    <3>1. us2[v] = user[v] /\ us2[w] = user[w]
      BY <1>1
    <3> QED BY <2>3, <3>1 DEF PoolsInv, HoldersFit
  <2>4. \A v, w \in B \cup {u} : us2[v].sock.port = us2[w].sock.port => v = w
    BY <2>1, <2>2, <2>3
  <2> QED BY <1>1, <2>1, <2>2, <2>4 DEF HoldersFit
<1>8. permits - 1 + Cardinality(BusyIn(us2)) = TOTAL_LIMIT
  BY <1>1, <1>6
<1> QED BY <1>2, <1>6, <1>7, <1>8 DEF PoolsInv, us2, Q

(***************************************************************************)
(* The exchanges                                                           *)
(***************************************************************************)

Kinds == {"udp", "tcp", "tls", "https", "quic", "h3"}
Protos == [kind : Kinds, host : Hosts, addr : Known]
Streams == [addr : Known, open : BOOLEAN, wire : {<<>>}]
Conns == [no : Nat, addr : Known, aged : BOOLEAN]

\* The n-th message, and what a server answers to a message.
Sent(sc, n) == build_query_hardened(sc.sends[n], n)

Spelling(sc, m) == IF sc.randomize /\ m.checked /\ sc.echoes THEN "mixed" ELSE "lower"

ReplyIn(sc, m, addr, tc) ==
    [id |-> m.id, q |-> m.q, n |-> m.n, by |-> addr, tc |-> tc,
     cookie |-> m.checked /\ sc.cookie,
     owners |-> <<Spelling(sc, m), IF sc.literal THEN Spelling(sc, m) ELSE "pointer">>]

\* What an exchange ended with.
OkGood(x) ==
    /\ x.m.checked => x.r.q = x.m.q /\ ~x.r.tc /\ "mixed" \notin Range(x.r.owners)
    /\ x.proto.kind # "udp" => x.r.n = x.m.n
    /\ x.proto.kind # "h3" /\ x.proto.addr # NoAddress => x.r.by = x.proto.addr

FailGood(x, sc) ==
    \/ x.hurt \/ x.why \in {"timeout", "unresolved"}
    \/ x.why = "spoofed" /\ sc.randomize /\ ~sc.echoes

DoneGood(x, sc) == (x.ok => OkGood(x)) /\ (~x.ok => FailGood(x, sc))

\* Where an exchange under way is: over UDP only on a UDP upstream; a stream is to the
\* address asked and owes at most the reply to this message; a connection of the pool
\* is to the address asked, unless it is H3's.
Fits(x, sc, k, cl) ==
    /\ x.pc \in {"acquire", "recv"} => x.proto.kind = "udp"
    /\ x.pc \in {"pooled", "fresh"} =>
           /\ "stream" \in DOMAIN x
           /\ x.stream \in [addr : {x.proto.addr}, open : BOOLEAN,
                            wire : {<<>>, <<ReplyIn(sc, x.m, x.proto.addr, FALSE)>>}]
           /\ x.pc = "fresh" /\ ~x.stream.open => x.hurt
    /\ x.pc \in {"ask", "again"} =>
           /\ "conn" \in DOMAIN x
           /\ x.conn \in Conns /\ x.conn.no \in 1..k
           /\ x.proto.kind # "h3" /\ x.proto.addr # NoAddress => x.conn.addr = x.proto.addr
           /\ x.pc = "again" /\ x.conn.no \in cl => x.hurt

Underway == {"acquire", "recv", "take", "connect", "pooled", "fresh", "lookup", "dial", "ask",
             "redial", "again", "request"}

KindFits(kind, sc) == kind = sc.kind \/ (kind = "tcp" /\ sc.kind = "udp")

\* e: transport -> the address it is for; D: the transports there are.
WaitGood(x, e, D, sc, b, k, cl) ==
    /\ x.pc \in Underway
    /\ {"pc", "proto", "m", "t", "hurt"} \subseteq DOMAIN x
    /\ x.proto \in Protos /\ KindFits(x.proto.kind, sc)
    /\ x.hurt \in BOOLEAN
    /\ \E n \in 1..b : x.m = Sent(sc, n)
    /\ x.t \in D /\ e[x.t] = x.proto.addr
    /\ Fits(x, sc, k, cl)

UserGood(x, e, D, sc, b, k, cl) ==
    \/ x.pc = "idle"
    \/ x.pc = "done" /\ DoneGood(x, sc)
    \/ WaitGood(x, e, D, sc, b, k, cl)

CacheGood(c, e, D) == \A p \in DOMAIN c : p \in Protos /\ c[p] \in D /\ e[c[p]] = p.addr

IdleGood(f, e, k) ==
    \A t \in DOMAIN f :
        /\ t \in 1..k
        /\ f[t] \in Seq(Streams) /\ Len(f[t]) <= MAX_IDLE
        /\ \A i \in 1..Len(f[t]) : f[t][i].addr = e[t]

Answer(r, sc, b) == r.tc \in BOOLEAN /\ \E n \in 1..b : r = ReplyIn(sc, Sent(sc, n), r.by, r.tc)

NetGood(N, sc, b) == \A d \in N : Answer(d.r, sc, b)

SharedGood(S, sc, k) ==
    \A key \in DOMAIN S :
        /\ S[key] \in Conns /\ S[key].no \in 1..k
        /\ sc.kind # "h3" /\ key[1] # NoAddress => S[key].addr = key[1]

Counted ==
    /\ scene \in Scenes
    /\ begun \in Nat /\ begun <= Len(scene.sends)
    /\ made \in Nat /\ closed \subseteq 1..made
    /\ DOMAIN user = Users

LinksGood(e) ==
    /\ Counted
    /\ CacheGood(cache, e, DOMAIN idle)
    /\ IdleGood(idle, e, made)
    /\ NetGood(net, scene, begun)
    /\ SharedGood(shared, scene, made)
    /\ \A v \in Users : UserGood(user[v], e, DOMAIN idle, scene, begun, made, closed)

LinksInv == PoolsInv(user, sockets, permits) /\ \E e : LinksGood(e)

\* Reply, with the scene it depends on as an argument.
LEMMA ReplyIs ==
    ASSUME NEW m, NEW addr, NEW tc
    PROVE  Reply(m, addr, tc) = ReplyIn(scene, m, addr, tc)
BY DEF Reply, ReplyIn, Spelling

\* A message is made from its number.
LEMMA SentIs ==
    ASSUME Counted, NEW n \in 1..begun
    PROVE  /\ Sent(scene, n) = [id |-> scene.sends[n].id, q |-> scene.sends[n].q, n |-> n,
                                checked |-> scene.sends[n].checked]
           /\ Sent(scene, n).n = n /\ Sent(scene, n).checked \in BOOLEAN
<1>1. n \in 1..Len(scene.sends)
  BY TransportAssumption DEF Counted
<1>2. scene.sends[n].checked \in BOOLEAN
  BY <1>1, TransportAssumption DEF Counted
<1> QED BY <1>2 DEF Sent, build_query_hardened

\* A reply that is not let pass is to another message, or 0x20 is on and the server
\* does not echo it.
LEMMA RightlyRefused ==
    ASSUME Counted, NEW n \in 1..begun, NEW m, m = Sent(scene, n), NEW r, Answer(r, scene, begun),
           NEW kind, m.checked, ~validate(m, r, kind)
    PROVE  r.n # m.n \/ (scene.randomize /\ ~scene.echoes)
<1> SUFFICES ASSUME r.n = m.n PROVE scene.randomize /\ ~scene.echoes
  OBVIOUS
<1>0. {scene.randomize, scene.echoes, scene.cookie, scene.tc, scene.literal} \subseteq BOOLEAN
  BY TransportAssumption DEF Counted
<1>1. PICK j \in 1..begun : r = ReplyIn(scene, Sent(scene, j), r.by, r.tc)
  BY DEF Answer
<1>2. r.n = Sent(scene, j).n
  BY <1>1 DEF ReplyIn
<1>3. j = n
  BY <1>2, SentIs, ZenonT(60)
<1>4. r.id = m.id /\ r.q = m.q
      /\ r.owners = <<Spelling(scene, m), IF scene.literal THEN Spelling(scene, m) ELSE "pointer">>
  BY <1>1, <1>3 DEF ReplyIn
<1>5. r.owners[1] = Spelling(scene, m)
  BY <1>4
<1>6. validate_cookie(m, r, kind)
  BY DEF validate_cookie
<1>7. scene.randomize /\ r.owners[1] # "mixed"
  BY <1>4, <1>6 DEF validate, qname_matches
<1> QED BY <1>0, <1>5, <1>7 DEF Spelling

\* A reply that is let pass is to the question, and what is made of it spells nothing.
LEMMA RightlyAccepted ==
    ASSUME Counted, NEW n \in 1..begun, NEW m, m = Sent(scene, n), NEW r, Answer(r, scene, begun),
           NEW kind, m.checked, validate(m, r, kind)
    PROVE  /\ canonicalize(r).q = m.q /\ canonicalize(r).tc = r.tc
           /\ "mixed" \notin Range(canonicalize(r).owners)
<1>0. {scene.randomize, scene.echoes, scene.cookie, scene.tc, scene.literal} \subseteq BOOLEAN
  BY TransportAssumption DEF Counted
<1>1. PICK j \in 1..begun : r = ReplyIn(scene, Sent(scene, j), r.by, r.tc)
  BY DEF Answer
<1> DEFINE sp == Spelling(scene, Sent(scene, j))
<1>2. DOMAIN r = {"id", "q", "n", "by", "tc", "cookie", "owners"}
      /\ r.owners = <<sp, IF scene.literal THEN sp ELSE "pointer">>
  BY <1>1 DEF ReplyIn
<1>3. r.q = m.q
  BY DEF validate, qname_matches
<1>4. CASE scene.randomize
  <2>1. canonicalize(r) = [r EXCEPT !.owners = lowercase_owner_names(r.owners)]
    BY <1>4 DEF canonicalize
  <2>2. /\ canonicalize(r).owners = lowercase_owner_names(r.owners)
        /\ canonicalize(r).q = r.q /\ canonicalize(r).tc = r.tc
    BY <1>2, <2>1
  <2>3. "mixed" \notin Range(lowercase_owner_names(r.owners))
    BY DEF lowercase_owner_names, Range
  <2> QED BY <1>3, <2>2, <2>3
<1>5. CASE ~scene.randomize
  <2>1. canonicalize(r) = r
    BY <1>5 DEF canonicalize
  <2>2. sp = "lower"
    BY <1>5 DEF Spelling
  <2>3. \A i \in DOMAIN r.owners : r.owners[i] # "mixed"
    BY <1>2, <2>2
  <2>4. "mixed" \notin Range(r.owners)
    BY <2>3 DEF Range
  <2> QED BY <1>3, <2>1, <2>4
<1> QED BY <1>0, <1>4, <1>5

\* What is good of an exchange stays so as more is sent and made.
LEMMA UserGrows ==
    ASSUME NEW x, NEW e, NEW D, NEW sc, NEW b \in Nat, NEW k \in Nat, NEW cl,
           UserGood(x, e, D, sc, b, k, cl),
           NEW f, NEW D2, D \subseteq D2, \A t \in D : f[t] = e[t],
           NEW b2 \in Nat, b <= b2, NEW k2 \in Nat, k <= k2
    PROVE  UserGood(x, f, D2, sc, b2, k2, cl)
<1>1. CASE WaitGood(x, e, D, sc, b, k, cl)
  <2>1. PICK n \in 1..b : x.m = Sent(sc, n)
    BY <1>1 DEF WaitGood
  <2>2. n \in 1..b2
    OBVIOUS
  <2>3. Fits(x, sc, k2, cl)
    <3>1. Fits(x, sc, k, cl)
      BY <1>1 DEF WaitGood
    <3>2. \A c \in 1..k : c \in 1..k2
      OBVIOUS
    <3> QED BY <3>1, <3>2 DEF Fits
  <2>4. x.t \in D2 /\ f[x.t] = x.proto.addr
    BY <1>1 DEF WaitGood
  <2> QED BY <1>1, <2>1, <2>2, <2>3, <2>4 DEF WaitGood, UserGood
<1> QED BY <1>1 DEF UserGood

\* A step of one exchange that makes no transport.
LEMMA OneMoves ==
    ASSUME NEW e, LinksGood(e), NEW u \in Users, NEW y, user' = [user EXCEPT ![u] = y],
           scene' = scene, begun' = begun, closed' = closed, made' \in Nat, made <= made',
           cache' = cache, DOMAIN idle' = DOMAIN idle, IdleGood(idle', e, made'),
           NetGood(net', scene, begun), SharedGood(shared', scene, made'),
           UserGood(y, e, DOMAIN idle, scene, begun, made', closed)
    PROVE  LinksGood(e)'
<1>1. Counted'
  <2>1. closed \subseteq 1..made'
    BY DEF LinksGood, Counted
  <2>2. DOMAIN user' = Users
    BY DEF LinksGood, Counted
  <2> QED BY <2>1, <2>2 DEF LinksGood, Counted
<1>2. CacheGood(cache', e, DOMAIN idle')
  BY DEF LinksGood
<1>3. ASSUME NEW v \in Users
      PROVE  UserGood(user'[v], e, DOMAIN idle', scene', begun', made', closed')
  <2>1. CASE v = u
    <3>1. user'[v] = y
      BY <2>1 DEF LinksGood, Counted
    <3> QED BY <3>1
  <2>2. CASE v # u
    <3>1. user'[v] = user[v]
      BY <2>2 DEF LinksGood, Counted
    <3>2. UserGood(user[v], e, DOMAIN idle, scene, begun, made, closed) /\ begun \in Nat /\ made \in Nat
      BY DEF LinksGood, Counted
    <3>3. UserGood(user[v], e, DOMAIN idle, scene, begun, made', closed)
      BY <3>2, UserGrows
    <3> QED BY <3>1, <3>3
  <2> QED BY <2>1, <2>2
<1> QED BY <1>1, <1>2, <1>3 DEF LinksGood

\* get_or_create_transport: the transport found or made is for the address asked.
LEMMA TransportMade ==
    ASSUME NEW e, LinksGood(e), NEW u \in Users, NEW x, get_or_create_transport(u, x),
           x.proto \in Protos, KindFits(x.proto.kind, scene), x.hurt \in BOOLEAN,
           NEW n \in 1..begun', x.m = Sent(scene, n),
           scene' = scene, begun' \in Nat, begun <= begun', begun' <= Len(scene.sends),
           closed' = closed, shared' = shared, NetGood(net', scene, begun')
    PROVE  \E f : LinksGood(f)'
<1> DEFINE known == x.proto \in DOMAIN cache
           t == IF known THEN cache[x.proto] ELSE made + 1
           w == [pc |-> FirstStep(x.proto.kind), proto |-> x.proto, m |-> x.m, t |-> t, hurt |-> x.hurt]
           y == IF require_resolved(x.proto) THEN w ELSE Failed(x, "unresolved")
<1>f. PICK f : f = IF known THEN e
                   ELSE [i \in 1..(made + 1) |-> IF i = made + 1 THEN x.proto.addr ELSE e[i]]
  OBVIOUS
<1>0. Counted /\ made \in Nat /\ made + 1 \in Nat /\ begun \in Nat
  BY DEF LinksGood, Counted
<1>1. /\ cache' = Put(cache, x.proto, t)
      /\ idle' = (IF known THEN idle ELSE Put(idle, t, <<>>))
      /\ made' = (IF known THEN made ELSE made + 1)
      /\ user' = [user EXCEPT ![u] = y]
  BY DEF get_or_create_transport
<1>2. DOMAIN idle \subseteq 1..made
  BY DEF LinksGood, IdleGood
<1>3. \A i \in DOMAIN idle : f[i] = e[i]
  BY <1>0, <1>2, <1>f
<1>4. t \in DOMAIN idle' /\ f[t] = x.proto.addr /\ DOMAIN idle \subseteq DOMAIN idle'
  <2>1. CASE known
    BY <2>1, <1>1, <1>f DEF LinksGood, CacheGood
  <2>2. CASE ~known
    BY <2>2, <1>0, <1>1, <1>f DEF Put
  <2> QED BY <2>1, <2>2
<1>5. made' \in Nat /\ made <= made'
  BY <1>0, <1>1
<1>c. closed \subseteq 1..made'
  BY <1>0, <1>5 DEF Counted
<1>6. CacheGood(cache', f, DOMAIN idle')
  <2> SUFFICES ASSUME NEW p \in DOMAIN cache'
               PROVE  p \in Protos /\ cache'[p] \in DOMAIN idle' /\ f[cache'[p]] = p.addr
    BY DEF CacheGood
  <2>1. CASE p = x.proto
    <3>1. cache'[p] = t
      BY <2>1, <1>1 DEF Put
    <3> QED BY <2>1, <3>1, <1>4
  <2>2. CASE p # x.proto
    <3>1. p \in DOMAIN cache /\ cache'[p] = cache[p]
      BY <2>2, <1>1 DEF Put
    <3>2. p \in Protos /\ cache[p] \in DOMAIN idle /\ e[cache[p]] = p.addr
      BY <3>1 DEF LinksGood, CacheGood
    <3> QED BY <3>1, <3>2, <1>3, <1>4
  <2> QED BY <2>1, <2>2
<1>7. IdleGood(idle', f, made')
  <2>1. CASE known
    BY <2>1, <1>1, <1>f DEF LinksGood
  <2>2. CASE ~known
    <3>1. DOMAIN idle' = DOMAIN idle \cup {made + 1} /\ idle'[made + 1] = <<>>
          /\ \A i \in DOMAIN idle : i # made + 1 /\ idle'[i] = idle[i]
      BY <2>2, <1>0, <1>1, <1>2 DEF Put
    <3>2. MAX_IDLE \in Nat /\ <<>> \in Seq(Streams) /\ Len(<<>>) = 0
      BY TransportAssumption, EmptySeq
    <3>m. made' = made + 1
      BY <2>2, <1>1
    <3> SUFFICES ASSUME NEW i \in DOMAIN idle'
                 PROVE  /\ i \in 1..made'
                        /\ idle'[i] \in Seq(Streams) /\ Len(idle'[i]) <= MAX_IDLE
                        /\ \A j \in 1..Len(idle'[i]) : idle'[i][j].addr = f[i]
      BY DEF IdleGood
    <3>3. CASE i = made + 1
      <4>1. idle'[i] = <<>>
        BY <3>1, <3>3
      <4>2. 1..Len(<<>>) = {} /\ Len(<<>>) <= MAX_IDLE
        BY <3>2
      <4>3. i \in 1..made'
        BY <3>3, <3>m, <1>0
      <4> QED BY <4>1, <4>2, <4>3, <3>2
    <3>4. CASE i \in DOMAIN idle
      <4>1. idle'[i] = idle[i] /\ f[i] = e[i] /\ i \in 1..made'
        BY <3>1, <3>4, <3>m, <1>0, <1>2, <1>3
      <4>2. /\ idle[i] \in Seq(Streams) /\ Len(idle[i]) <= MAX_IDLE
            /\ \A j \in 1..Len(idle[i]) : idle[i][j].addr = e[i]
        BY <3>4 DEF LinksGood, IdleGood
      <4> QED BY <4>1, <4>2
    <3> QED BY <3>1, <3>3, <3>4
  <2> QED BY <2>1, <2>2
<1>8. SharedGood(shared', scene', made')
  <2>1. \A c \in 1..made : c \in 1..made'
    BY <1>0, <1>5
  <2> QED BY <2>1 DEF LinksGood, SharedGood
<1> HIDE DEF t
<1>9. UserGood(y, f, DOMAIN idle', scene, begun', made', closed)
  <2>1. CASE require_resolved(x.proto)
    <3>1. y = w
      BY <2>1
    <3>2. x.proto.kind \in Kinds
      BY DEF Protos
    <3>3. w.pc \in {"acquire", "take", "lookup", "request"} /\ (w.pc = "acquire" => x.proto.kind = "udp")
      BY <3>2 DEF FirstStep, Kinds
    <3>4. DOMAIN w = {"pc", "proto", "m", "t", "hurt"} /\ w.proto = x.proto /\ w.m = x.m
          /\ w.t = t /\ w.hurt = x.hurt
      OBVIOUS
    <3> HIDE DEF w
    <3>5. Fits(w, scene, made', closed)
      BY <3>3, <3>4 DEF Fits
    <3>6. WaitGood(w, f, DOMAIN idle', scene, begun', made', closed)
      BY <3>3, <3>4, <3>5, <1>4 DEF WaitGood, Underway
    <3> QED BY <3>1, <3>6 DEF UserGood
  <2>2. CASE ~require_resolved(x.proto)
    BY <2>2 DEF UserGood, Failed, DoneGood, FailGood
  <2> QED BY <2>1, <2>2
<1> HIDE DEF y
<1>10. ASSUME NEW v \in Users
       PROVE  UserGood(user'[v], f, DOMAIN idle', scene', begun', made', closed')
  <2>1. CASE v = u
    <3>1. user'[v] = y
      BY <2>1, <1>0, <1>1 DEF Counted
    <3> QED BY <3>1, <1>9
  <2>2. CASE v # u
    <3>1. user'[v] = user[v]
      BY <2>2, <1>0, <1>1 DEF Counted
    <3>2. UserGood(user[v], e, DOMAIN idle, scene, begun, made, closed)
      BY DEF LinksGood
    <3>3. UserGood(user[v], f, DOMAIN idle', scene, begun', made', closed)
      BY <3>2, <1>0, <1>3, <1>4, <1>5, UserGrows
    <3> QED BY <3>1, <3>3
  <2> QED BY <2>1, <2>2
<1>11. Counted'
  BY <1>0, <1>1, <1>5, <1>c DEF Counted
<1>12. LinksGood(f)'
  BY <1>6, <1>7, <1>8, <1>10, <1>11 DEF LinksGood
<1> QED BY <1>12

\* What canonicalize leaves alone.
LEMMA CanonicalKeeps ==
    ASSUME NEW r, Answer(r, scene, begun)
    PROVE  canonicalize(r).n = r.n /\ canonicalize(r).by = r.by
<1>1. PICK j \in 1..begun : r = ReplyIn(scene, Sent(scene, j), r.by, r.tc)
  BY DEF Answer
<1>2. {"n", "by", "owners"} \subseteq DOMAIN r
  BY <1>1 DEF ReplyIn
<1>3. CASE scene.randomize
  <2>1. canonicalize(r) = [r EXCEPT !.owners = lowercase_owner_names(r.owners)]
    BY <1>3 DEF canonicalize
  <2> QED BY <1>2, <2>1
<1>4. CASE ~scene.randomize
  BY <1>4 DEF canonicalize
<1> QED BY <1>3, <1>4

\* Where get_or_create_transport leaves the exchange.
LEMMA TransportTaken ==
    ASSUME NEW u, NEW x, get_or_create_transport(u, x)
    PROVE  \E y : user' = [user EXCEPT ![u] = y] /\ (y.pc = FirstStep(x.proto.kind) \/ y.pc = "done")
<1> DEFINE t == IF x.proto \in DOMAIN cache THEN cache[x.proto] ELSE made + 1
           y == IF require_resolved(x.proto)
                THEN [pc |-> FirstStep(x.proto.kind), proto |-> x.proto, m |-> x.m, t |-> t, hurt |-> x.hurt]
                ELSE Failed(x, "unresolved")
<1>1. user' = [user EXCEPT ![u] = y]
  BY DEF get_or_create_transport
<1>2. y.pc = FirstStep(x.proto.kind) \/ y.pc = "done"
  BY DEF Failed
<1> HIDE DEF y
<1> QED BY <1>1, <1>2

\* exchange: an answer that arrives ends the exchange as it should, or sends it on
\* over TCP.
LEMMA Delivered ==
    ASSUME NEW e, LinksGood(e), NEW u \in Users, NEW x, x = user[u],
           WaitGood(x, e, DOMAIN idle, scene, begun, made, closed),
           NEW r, Answer(r, scene, begun),
           x.proto.kind # "udp" => r.n = x.m.n /\ ~r.tc,
           x.proto.kind # "h3" /\ x.proto.addr # NoAddress => r.by = x.proto.addr,
           NEW park, Deliver(u, r, park), DOMAIN park = DOMAIN idle, IdleGood(park, e, made),
           scene' = scene, begun' = begun, closed' = closed, shared' = shared,
           net' \subseteq net
    PROVE  /\ \E f : LinksGood(f)'
           /\ \E y : user' = [user EXCEPT ![u] = y] /\ y.pc # "recv"
<1> DEFINE kind == x.proto.kind
           late == [x EXCEPT !.hurt = @ \/ r.n # x.m.n]
           ok == [pc |-> "done", ok |-> TRUE, r |-> IF x.m.checked THEN canonicalize(r) ELSE r,
                  hurt |-> x.hurt, proto |-> x.proto, m |-> x.m]
           z == [late EXCEPT !.proto.kind = "tcp"]
<1>0. Counted /\ made \in Nat /\ begun \in Nat
  BY DEF LinksGood, Counted
<1>n. NetGood(net', scene, begun) /\ SharedGood(shared', scene, made)
  BY DEF LinksGood, NetGood
<1>1. PICK n \in 1..begun : x.m = Sent(scene, n)
  BY DEF WaitGood
<1>2. x.m.checked \in BOOLEAN /\ r.tc \in BOOLEAN
  BY <1>0, <1>1, SentIs DEF Answer
<1>3. {"pc", "proto", "m", "t", "hurt"} \subseteq DOMAIN x /\ x.hurt \in BOOLEAN /\ x.proto \in Protos
      /\ KindFits(x.proto.kind, scene)
  BY DEF WaitGood
<1>4. late.proto = x.proto /\ late.m = x.m /\ late.hurt = (x.hurt \/ r.n # x.m.n)
      /\ {"pc", "proto", "m", "t", "hurt"} \subseteq DOMAIN late
  BY <1>3
<1>5. CASE x.m.checked /\ ~validate(x.m, r, kind)
  <2>1. EndWith(u, Failed(late, "spoofed")) /\ idle' = park
    BY <1>5 DEF Deliver
  <2>2. r.n # x.m.n \/ (scene.randomize /\ ~scene.echoes)
    BY <1>0, <1>1, <1>5, RightlyRefused
  <2>3. PICK y : y = Failed(late, "spoofed")
    OBVIOUS
  <2>4. y.pc = "done" /\ ~y.ok /\ y.why = "spoofed" /\ y.hurt = late.hurt
    BY <2>3 DEF Failed
  <2>5. DoneGood(y, scene)
    BY <2>2, <2>4, <1>4 DEF DoneGood, FailGood
  <2>6. UserGood(y, e, DOMAIN idle, scene, begun, made, closed)
    BY <2>4, <2>5 DEF UserGood
  <2>7. user' = [user EXCEPT ![u] = y] /\ cache' = cache /\ made' = made /\ y.pc # "recv"
    BY <2>1, <2>3, <2>4 DEF EndWith
  <2>8. LinksGood(e)'
    <3>1. made' \in Nat /\ made <= made' /\ DOMAIN idle' = DOMAIN idle /\ IdleGood(idle', e, made')
          /\ SharedGood(shared', scene, made')
          /\ UserGood(y, e, DOMAIN idle, scene, begun, made', closed)
      BY <2>1, <2>6, <2>7, <1>0, <1>n
    <3> QED BY <3>1, <2>7, <1>n, OneMoves
  <2> QED BY <2>7, <2>8
<1>6. CASE x.m.checked /\ kind = "udp" /\ r.tc /\ validate(x.m, r, kind)
  <2>1. get_or_create_transport(u, z)
    BY <1>5, <1>6 DEF Deliver
  <2>2. PICK w : w = z
    OBVIOUS
  <2>3. w.proto = [late.proto EXCEPT !.kind = "tcp"] /\ w.m = late.m /\ w.hurt = late.hurt
    BY <2>2, <1>4
  <2>4. w.proto \in Protos /\ w.proto.kind = "tcp"
    BY <2>3, <1>3, <1>4 DEF Protos, Kinds
  <2>5. KindFits(w.proto.kind, scene)
    BY <2>4, <1>3, <1>6 DEF KindFits
  <2>6. w.hurt \in BOOLEAN /\ w.m = Sent(scene, n)
    BY <2>3, <1>1, <1>3, <1>4
  <2>7. get_or_create_transport(u, w)
    BY <2>1, <2>2
  <2>8. begun' \in Nat /\ begun <= begun' /\ begun' <= Len(scene.sends) /\ n \in 1..begun'
        /\ NetGood(net', scene, begun')
    BY <1>0, <1>n DEF Counted
  <2>9. \E f : LinksGood(f)'
    BY <2>4, <2>5, <2>6, <2>7, <2>8, TransportMade
  <2>10. \E y : user' = [user EXCEPT ![u] = y] /\ y.pc # "recv"
    <3>1. PICK y : user' = [user EXCEPT ![u] = y] /\ (y.pc = FirstStep(w.proto.kind) \/ y.pc = "done")
      BY <2>7, TransportTaken
    <3>2. y.pc # "recv"
      BY <3>1, <2>4 DEF FirstStep
    <3> QED BY <3>1, <3>2
  <2> QED BY <2>9, <2>10
<1>7. CASE /\ ~(x.m.checked /\ ~validate(x.m, r, kind))
           /\ ~(x.m.checked /\ kind = "udp" /\ r.tc /\ validate(x.m, r, kind))
  <2>1. EndWith(u, ok) /\ idle' = park
    BY <1>7 DEF Deliver
  <2>2. PICK y : y = ok
    OBVIOUS
  <2>3. y.pc = "done" /\ y.ok /\ y.proto = x.proto /\ y.m = x.m
        /\ y.r = IF x.m.checked THEN canonicalize(r) ELSE r
    BY <2>2
  <2>4. y.r.n = r.n /\ y.r.by = r.by
    BY <2>3, CanonicalKeeps
  <2>5. ASSUME x.m.checked PROVE y.r.q = y.m.q /\ ~y.r.tc /\ "mixed" \notin Range(y.r.owners)
    <3>1. validate(x.m, r, kind) /\ ~r.tc
      BY <2>5, <1>7, <1>2
    <3>2. /\ canonicalize(r).q = x.m.q /\ canonicalize(r).tc = r.tc
          /\ "mixed" \notin Range(canonicalize(r).owners)
      BY <2>5, <3>1, <1>0, <1>1, RightlyAccepted
    <3>3. y.r = canonicalize(r)
      BY <2>3, <2>5
    <3> QED BY <3>1, <3>2, <3>3, <2>3
  <2>6. OkGood(y)
    BY <2>3, <2>4, <2>5 DEF OkGood
  <2>7. UserGood(y, e, DOMAIN idle, scene, begun, made, closed)
    BY <2>3, <2>6 DEF UserGood, DoneGood
  <2>8. user' = [user EXCEPT ![u] = y] /\ cache' = cache /\ made' = made /\ y.pc # "recv"
    BY <2>1, <2>2, <2>3 DEF EndWith
  <2>9. LinksGood(e)'
    <3>1. made' \in Nat /\ made <= made' /\ DOMAIN idle' = DOMAIN idle /\ IdleGood(idle', e, made')
          /\ SharedGood(shared', scene, made')
          /\ UserGood(y, e, DOMAIN idle, scene, begun, made', closed)
      BY <2>1, <2>7, <2>8, <1>0, <1>n
    <3> QED BY <3>1, <2>8, <1>n, OneMoves
  <2> QED BY <2>8, <2>9
<1> QED BY <1>5, <1>6, <1>7

(***************************************************************************)
(* The steps                                                               *)
(***************************************************************************)

\* An exchange under way is as WaitGood says.
LEMMA Waits ==
    ASSUME NEW e, LinksGood(e), NEW u \in Users, user[u].pc \in Underway
    PROVE  /\ WaitGood(user[u], e, DOMAIN idle, scene, begun, made, closed)
           /\ Counted /\ made \in Nat /\ begun \in Nat /\ DOMAIN user = Users
<1>1. UserGood(user[u], e, DOMAIN idle, scene, begun, made, closed)
  BY DEF LinksGood
<1>2. user[u].pc # "idle" /\ user[u].pc # "done"
  BY DEF Underway
<1> QED BY <1>1, <1>2 DEF UserGood, LinksGood, Counted

\* The fields of an exchange that takes the next step with something in hand.
LEMMA WithSocket ==
    ASSUME NEW s, NEW x, {"pc", "proto", "m", "t", "hurt"} \subseteq DOMAIN x,
           NEW y, y = Over([pc |-> "recv", sock |-> s], x)
    PROVE  /\ {"pc", "proto", "m", "t", "hurt"} \subseteq DOMAIN y
           /\ y.pc = "recv" /\ y.sock = s
           /\ y.proto = x.proto /\ y.m = x.m /\ y.t = x.t /\ y.hurt = x.hurt
BY DEF Over

\* ... a stream
LEMMA WithStream ==
    ASSUME NEW pc, NEW s, NEW x, {"pc", "proto", "m", "t", "hurt"} \subseteq DOMAIN x,
           NEW y, y = Over([pc |-> pc, stream |-> s], x)
    PROVE  /\ {"pc", "proto", "m", "t", "hurt", "stream"} \subseteq DOMAIN y
           /\ y.pc = pc /\ y.stream = s
           /\ y.proto = x.proto /\ y.m = x.m /\ y.t = x.t /\ y.hurt = x.hurt
BY DEF Over

\* ... a connection
LEMMA WithConn ==
    ASSUME NEW pc, NEW c, NEW x, {"pc", "proto", "m", "t", "hurt"} \subseteq DOMAIN x,
           NEW y, y = Over([pc |-> pc, conn |-> c], x)
    PROVE  /\ {"pc", "proto", "m", "t", "hurt", "conn"} \subseteq DOMAIN y
           /\ y.pc = pc /\ y.conn = c
           /\ y.proto = x.proto /\ y.m = x.m /\ y.t = x.t /\ y.hurt = x.hurt
BY DEF Over

\* ... nothing new.
LEMMA AtStep ==
    ASSUME NEW x, {"pc", "proto", "m", "t", "hurt"} \subseteq DOMAIN x, NEW pc,
           NEW y, y = [x EXCEPT !.pc = pc]
    PROVE  /\ {"pc", "proto", "m", "t", "hurt"} \subseteq DOMAIN y /\ y.pc = pc
           /\ y.proto = x.proto /\ y.m = x.m /\ y.t = x.t /\ y.hurt = x.hurt
OBVIOUS

\* The exchange goes on over its transport, with its message.
LEMMA GoesOn ==
    ASSUME NEW x, NEW e, NEW D, NEW sc, NEW b, NEW k, NEW k2, NEW cl,
           WaitGood(x, e, D, sc, b, k, cl), NEW y,
           {"pc", "proto", "m", "t", "hurt"} \subseteq DOMAIN y, y.pc \in Underway,
           y.proto = x.proto, y.m = x.m, y.t = x.t, y.hurt \in BOOLEAN, Fits(y, sc, k2, cl)
    PROVE  UserGood(y, e, D, sc, b, k2, cl)
<1>1. WaitGood(y, e, D, sc, b, k2, cl)
  BY DEF WaitGood
<1> QED BY <1>1 DEF UserGood

\* A step of an exchange that has no socket, before or after.
LEMMA PoolsLeft ==
    ASSUME PoolsInv(user, sockets, permits), DOMAIN user = Users, NEW u \in Users,
           user[u].pc # "recv", NEW y, y.pc # "recv", user' = [user EXCEPT ![u] = y],
           sockets' = sockets, permits' = permits
    PROVE  PoolsInv(user, sockets, permits)'
<1>1. \A v \in Users : /\ user'[v].pc = "recv" <=> user[v].pc = "recv"
                       /\ user[v].pc = "recv" => user'[v].sock = user[v].sock
  OBVIOUS
<1>2. PoolsInv(user', sockets, permits)
  BY <1>1, PoolsQuiet
<1> QED BY <1>2

\* A step that moves no exchange.
LEMMA NoneMoves ==
    ASSUME NEW e, LinksGood(e), UNCHANGED <<scene, user, begun, made, closed>>,
           CacheGood(cache', e, DOMAIN idle), DOMAIN idle' = DOMAIN idle,
           IdleGood(idle', e, made), NetGood(net', scene, begun), SharedGood(shared', scene, made)
    PROVE  LinksGood(e)'
BY DEF LinksGood, Counted

\* An exchange that fails for a reason of its own.
LEMMA FailsGood ==
    ASSUME NEW e, LinksGood(e), NEW u \in Users, NEW x, NEW why, EndWith(u, Failed(x, why)),
           x.hurt \/ why \in {"timeout", "unresolved"},
           scene' = scene, begun' = begun, closed' = closed, idle' = idle, net' = net,
           SharedGood(shared', scene, made)
    PROVE  /\ LinksGood(e)'
           /\ \E y : user' = [user EXCEPT ![u] = y] /\ y.pc = "done"
<1>1. PICK y : y = Failed(x, why)
  OBVIOUS
<1>2. y.pc = "done" /\ ~y.ok /\ y.why = why /\ y.hurt = x.hurt
  BY <1>1 DEF Failed
<1>3. user' = [user EXCEPT ![u] = y] /\ cache' = cache /\ made' = made
  BY <1>1 DEF EndWith
<1>4. UserGood(y, e, DOMAIN idle, scene, begun, made, closed)
  BY <1>2 DEF UserGood, DoneGood, FailGood
<1>5. /\ made' \in Nat /\ made <= made' /\ DOMAIN idle' = DOMAIN idle /\ IdleGood(idle', e, made')
      /\ NetGood(net', scene, begun)
      /\ SharedGood(shared', scene, made')
      /\ UserGood(y, e, DOMAIN idle, scene, begun, made', closed)
  BY <1>3, <1>4 DEF LinksGood, Counted
<1>6. LinksGood(e)'
  BY <1>3, <1>5, OneMoves
<1> QED BY <1>2, <1>3, <1>6

\* What a server sends back is an answer to a message that was sent.
LEMMA Answered ==
    ASSUME Counted, NEW n \in 1..begun, NEW m, m = Sent(scene, n), NEW addr, NEW tc \in BOOLEAN
    PROVE  /\ Answer(Reply(m, addr, tc), scene, begun)
           /\ Reply(m, addr, tc).by = addr /\ Reply(m, addr, tc).tc = tc
           /\ Reply(m, addr, tc).n = m.n
<1>1. PICK r : r = Reply(m, addr, tc)
  OBVIOUS
<1>2. r = ReplyIn(scene, m, addr, tc)
  BY <1>1, ReplyIs
<1>3. r.by = addr /\ r.tc = tc /\ r.n = m.n
  BY <1>2 DEF ReplyIn
<1> QED BY <1>1, <1>2, <1>3 DEF Answer

\* A reply put on its way answers a message that was sent.
LEMMA NetGrows ==
    ASSUME NEW e, LinksGood(e), NEW u \in Users, user[u].pc \in Underway, NEW port,
           net' = net \cup {[port |-> port, r |-> Reply(user[u].m, user[u].proto.addr, scene.tc)]}
    PROVE  NetGood(net', scene, begun)
<1>1. PICK n \in 1..begun : user[u].m = Sent(scene, n)
  BY Waits DEF WaitGood
<1>2. scene.tc \in BOOLEAN
  BY TransportAssumption DEF LinksGood, Counted
<1>3. Answer(Reply(user[u].m, user[u].proto.addr, scene.tc), scene, begun)
  BY <1>1, <1>2, Waits, Answered
<1> QED BY <1>3 DEF NetGood, LinksGood

\* UdpTransport::send
LEMMA UdpSendKeeps ==
    ASSUME NEW e, LinksGood(e), PoolsInv(user, sockets, permits), NEW u \in Users, UdpSend(u)
    PROVE  LinksInv'
<1>1. user[u].pc = "acquire" /\ permits > 0
  BY DEF UdpSend
<1>2. user[u].pc \in Underway
  BY <1>1 DEF Underway
<1>3. PICK x : x = user[u]
  OBVIOUS
<1>4. WaitGood(x, e, DOMAIN idle, scene, begun, made, closed) /\ DOMAIN user = Users
      /\ made \in Nat
  BY <1>2, <1>3, Waits
<1>5. PICK addr, sock : /\ addr = x.proto.addr /\ sock \in Acquired(addr)
                        /\ permits' = permits - 1 /\ sockets' = Popped(addr)
                        /\ net' = net \cup {[port |-> sock.port, r |-> Reply(x.m, addr, scene.tc)]}
                        /\ user' = [user EXCEPT ![u] = Over([pc |-> "recv", sock |-> sock], x)]
  BY <1>3 DEF UdpSend
<1>6. PICK y : y = Over([pc |-> "recv", sock |-> sock], x)
  OBVIOUS
<1>7. {"pc", "proto", "m", "t", "hurt"} \subseteq DOMAIN x
  BY <1>4 DEF WaitGood
<1>8. /\ {"pc", "proto", "m", "t", "hurt"} \subseteq DOMAIN y
      /\ y.pc = "recv" /\ y.sock = sock
      /\ y.proto = x.proto /\ y.m = x.m /\ y.t = x.t /\ y.hurt = x.hurt
  BY <1>6, <1>7, WithSocket
<1>9. x.proto.kind = "udp" /\ x.hurt \in BOOLEAN
  BY <1>1, <1>3, <1>4 DEF WaitGood, Fits
<1>10. Fits(y, scene, made, closed)
  BY <1>8, <1>9 DEF Fits
<1>11. UserGood(y, e, DOMAIN idle, scene, begun, made, closed)
  BY <1>4, <1>8, <1>9, <1>10, GoesOn DEF Underway
<1>12. NetGood(net', scene, begun)
  BY <1>2, <1>3, <1>5, NetGrows
<1>13. UNCHANGED <<scene, cache, idle, shared, closed, made, begun>>
  BY DEF UdpSend
<1>14. user' = [user EXCEPT ![u] = y]
  BY <1>5, <1>6
<1>15. /\ made' \in Nat /\ made <= made' /\ DOMAIN idle' = DOMAIN idle /\ IdleGood(idle', e, made')
       /\ SharedGood(shared', scene, made')
       /\ UserGood(y, e, DOMAIN idle, scene, begun, made', closed)
  BY <1>4, <1>11, <1>13 DEF LinksGood
<1>16. LinksGood(e)'
  BY <1>12, <1>13, <1>14, <1>15, OneMoves
<1>17. PoolsInv([user EXCEPT ![u] = y], Popped(addr), permits - 1)
  BY <1>1, <1>4, <1>5, <1>8, SocketOut
<1>18. PoolsInv(user', sockets', permits')
  BY <1>5, <1>14, <1>17
<1> QED BY <1>16, <1>18 DEF LinksInv

\* UdpTransport::send, when the query cannot be sent
LEMMA UdpSendFailsKeeps ==
    ASSUME NEW e, LinksGood(e), PoolsInv(user, sockets, permits), NEW u \in Users, UdpSendFails(u)
    PROVE  LinksInv'
<1>1. user[u].pc = "acquire"
  BY DEF UdpSendFails
<1>2. user[u].pc \in Underway
  BY <1>1 DEF Underway
<1>3. PICK x : x = [user[u] EXCEPT !.hurt = TRUE]
  OBVIOUS
<1>4. WaitGood(user[u], e, DOMAIN idle, scene, begun, made, closed) /\ DOMAIN user = Users
  BY <1>2, Waits
<1>5. x.hurt
  BY <1>3, <1>4 DEF WaitGood
<1>6. EndWith(u, Failed(x, "unsent")) /\ UNCHANGED <<scene, idle, permits, net, shared, closed, begun>>
  BY <1>3 DEF UdpSendFails
<1>7. SharedGood(shared', scene, made)
  BY <1>6 DEF LinksGood
<1>8. LinksGood(e)' /\ \E y : user' = [user EXCEPT ![u] = y] /\ y.pc = "done"
  BY <1>5, <1>6, <1>7, FailsGood
<1>9. PICK y : user' = [user EXCEPT ![u] = y] /\ y.pc = "done"
  BY <1>8
<1>10. PICK addr, sock : sock \in Acquired(addr) /\ sockets' = Drop(Popped(addr), sock, addr)
  BY DEF UdpSendFails
<1>11. PoolsFit(sockets) /\ HoldersFit(user, sockets)
  BY DEF PoolsInv
<1>12. /\ PoolsFit(Popped(addr))
       /\ sock \in Sockets /\ sock.uses <= ROTATION
       /\ ~InPool(Popped(addr), sock.port)
       /\ \A p : InPool(Popped(addr), p) => InPool(sockets, p)
  BY <1>10, <1>11, PopFits
<1>13. /\ PoolsFit(sockets')
       /\ \A p : InPool(sockets', p) => InPool(Popped(addr), p) \/ p = sock.port
  BY <1>10, <1>12, DropFits
<1>14. \A v \in BusyIn(user) : user[v].sock.port # sock.port
  BY <1>10, AcquiredApart
<1>15. \A v \in BusyIn(user) : ~InPool(sockets', user[v].sock.port)
  BY <1>11, <1>12, <1>13, <1>14 DEF HoldersFit
<1>16. PoolsInv(user, sockets', permits')
  BY <1>6, <1>11, <1>13, <1>15 DEF PoolsInv, HoldersFit
<1>17. \A v \in Users : /\ user'[v].pc = "recv" <=> user[v].pc = "recv"
                        /\ user[v].pc = "recv" => user'[v].sock = user[v].sock
  BY <1>1, <1>4, <1>9
<1>18. PoolsInv(user', sockets', permits')
  BY <1>16, <1>17, PoolsQuiet
<1> QED BY <1>8, <1>18 DEF LinksInv

\* recv_matching, the reply's way through exchange
LEMMA UdpRecvKeeps ==
    ASSUME NEW e, LinksGood(e), PoolsInv(user, sockets, permits), NEW u \in Users, UdpRecv(u)
    PROVE  LinksInv'
<1>1. user[u].pc = "recv"
  BY DEF UdpRecv, Busy
<1>2. user[u].pc \in Underway
  BY <1>1 DEF Underway
<1>3. PICK x : x = user[u]
  OBVIOUS
<1>4. WaitGood(x, e, DOMAIN idle, scene, begun, made, closed) /\ DOMAIN user = Users
  BY <1>2, <1>3, Waits
<1>5. PICK d \in net :
        /\ net' = net \ {d}
        /\ IF d.r.by = x.proto.addr /\ same_message_id(x.m, d.r)
           THEN /\ Deliver(u, d.r, idle)
                /\ sockets' = Drop(sockets, x.sock, x.proto.addr)
                /\ permits' = permits + 1
           ELSE UNCHANGED <<user, cache, idle, made, sockets, permits>>
  BY <1>3 DEF UdpRecv
<1>6. UNCHANGED <<scene, shared, closed, begun>>
  BY DEF UdpRecv
<1>7. Answer(d.r, scene, begun) /\ NetGood(net', scene, begun) /\ net' \subseteq net
  BY <1>5 DEF LinksGood, NetGood
<1>8. CASE d.r.by = x.proto.addr /\ same_message_id(x.m, d.r)
  <2>1. x.proto.kind = "udp"
    BY <1>1, <1>3, <1>4 DEF WaitGood, Fits
  <2>2. PICK park, r : park = idle /\ r = d.r
    OBVIOUS
  <2>3. Deliver(u, r, park) /\ DOMAIN park = DOMAIN idle /\ IdleGood(park, e, made)
        /\ Answer(r, scene, begun) /\ r.by = x.proto.addr
    BY <1>5, <1>7, <1>8, <2>2 DEF LinksGood
  <2>4. /\ \E f : LinksGood(f)'
        /\ \E y : user' = [user EXCEPT ![u] = y] /\ y.pc # "recv"
    BY <1>3, <1>4, <1>6, <1>7, <2>1, <2>3, Delivered
  <2>5. PICK y : user' = [user EXCEPT ![u] = y] /\ y.pc # "recv"
    BY <2>4
  <2>6. PoolsInv([user EXCEPT ![u] = y], sockets', permits + 1)
    BY <1>1, <1>3, <1>4, <1>5, <1>8, <2>5, SocketBack
  <2>7. PoolsInv(user', sockets', permits')
    BY <1>5, <1>8, <2>5, <2>6
  <2> QED BY <2>4, <2>7 DEF LinksInv
<1>9. CASE ~(d.r.by = x.proto.addr /\ same_message_id(x.m, d.r))
  <2>1. UNCHANGED <<user, cache, idle, made, sockets, permits>>
    BY <1>5, <1>9
  <2>2. CacheGood(cache', e, DOMAIN idle) /\ IdleGood(idle', e, made) /\ SharedGood(shared', scene, made)
    BY <1>6, <2>1 DEF LinksGood
  <2>3. LinksGood(e)'
    BY <1>6, <1>7, <2>1, <2>2, NoneMoves
  <2> QED BY <2>1, <2>3 DEF LinksInv
<1> QED BY <1>8, <1>9

\* recv_matching, when the time is up: the socket is not pooled again.
LEMMA UdpGivesUpKeeps ==
    ASSUME NEW e, LinksGood(e), PoolsInv(user, sockets, permits), NEW u \in Users, UdpGivesUp(u)
    PROVE  LinksInv'
<1>1. user[u].pc = "recv" /\ DOMAIN user = Users
  BY DEF UdpGivesUp, Busy, LinksGood, Counted
<1>2. PICK x : x = user[u]
  OBVIOUS
<1>3. EndWith(u, Failed(x, "timeout")) /\ UNCHANGED <<scene, idle, sockets, net, shared, closed, begun>>
      /\ permits' = permits + 1
  BY <1>2 DEF UdpGivesUp
<1>4. SharedGood(shared', scene, made)
  BY <1>3 DEF LinksGood
<1>5. LinksGood(e)' /\ \E y : user' = [user EXCEPT ![u] = y] /\ y.pc = "done"
  BY <1>3, <1>4, FailsGood
<1>6. PICK y : user' = [user EXCEPT ![u] = y] /\ y.pc = "done"
  BY <1>5
<1>7. PoolsInv([user EXCEPT ![u] = y], sockets, permits + 1)
  BY <1>1, <1>6, SocketBack
<1>8. PoolsInv(user', sockets', permits')
  BY <1>3, <1>6, <1>7
<1> QED BY <1>5, <1>8 DEF LinksInv

\* A datagram sent twice
LEMMA DuplicateKeeps ==
    ASSUME NEW e, LinksGood(e), PoolsInv(user, sockets, permits), Duplicate
    PROVE  LinksInv'
<1>1. PICK u \in Users : /\ Busy(u)
                         /\ net' = net \cup {[port |-> user[u].sock.port,
                                r |-> Reply(user[u].m, user[u].proto.addr, scene.tc)]}
  BY DEF Duplicate
<1>2. user[u].pc \in Underway
  BY <1>1 DEF Busy, Underway
<1>3. PICK port : port = user[u].sock.port
  OBVIOUS
<1>4. NetGood(net', scene, begun)
  BY <1>1, <1>2, <1>3, NetGrows
<1>5. UNCHANGED <<scene, cache, idle, sockets, permits, shared, closed, user, made, begun>>
  BY DEF Duplicate
<1>6. CacheGood(cache', e, DOMAIN idle) /\ IdleGood(idle', e, made) /\ SharedGood(shared', scene, made)
  BY <1>5 DEF LinksGood
<1>7. LinksGood(e)'
  BY <1>4, <1>5, <1>6, NoneMoves
<1> QED BY <1>5, <1>7 DEF LinksInv

\* The idle streams of one transport are replaced.
LEMMA IdleSet ==
    ASSUME NEW g, NEW e, NEW k, IdleGood(g, e, k), NEW t \in DOMAIN g,
           NEW s \in Seq(Streams), Len(s) <= MAX_IDLE, \A i \in 1..Len(s) : s[i].addr = e[t]
    PROVE  IdleGood([g EXCEPT ![t] = s], e, k) /\ DOMAIN [g EXCEPT ![t] = s] = DOMAIN g
<1>1. \A o \in DOMAIN g : [g EXCEPT ![t] = s][o] = IF o = t THEN s ELSE g[o]
  OBVIOUS
<1>2. DOMAIN [g EXCEPT ![t] = s] = DOMAIN g
  OBVIOUS
<1> QED BY <1>1, <1>2 DEF IdleGood

\* A stream that is written to owes the reply, if it is open.
LEMMA WrittenFits ==
    ASSUME NEW u, NEW stream \in Streams
    PROVE  /\ Written(u, stream) \in [addr : {stream.addr}, open : BOOLEAN,
                  wire : {<<>>, <<ReplyIn(scene, user[u].m, stream.addr, FALSE)>>}]
           /\ Written(u, stream).open = stream.open
<1>1. PICK r : r = ReplyIn(scene, user[u].m, stream.addr, FALSE)
  OBVIOUS
<1>2. Reply(user[u].m, stream.addr, FALSE) = r
  BY <1>1, ReplyIs
<1>3. CASE stream.open
  <2>1. Written(u, stream) = [stream EXCEPT !.wire = Append(stream.wire, r)]
    BY <1>2, <1>3 DEF Written
  <2>2. stream.wire = <<>>
    BY DEF Streams
  <2>3. Append(stream.wire, r) = <<r>>
    BY <2>2
  <2> QED BY <1>1, <2>1, <2>3 DEF Streams
<1>4. CASE ~stream.open
  BY <1>4 DEF Written, Streams
<1> QED BY <1>3, <1>4 DEF Streams

\* IdlePool::take
LEMMA TakeKeeps ==
    ASSUME NEW e, LinksGood(e), PoolsInv(user, sockets, permits), NEW u \in Users, Take(u)
    PROVE  LinksInv'
<1>1. user[u].pc = "take" /\ user[u].pc \in Underway
  BY DEF Take, Underway
<1>2. PICK x, t : x = user[u] /\ t = user[u].t
  OBVIOUS
<1>3. WaitGood(x, e, DOMAIN idle, scene, begun, made, closed) /\ DOMAIN user = Users /\ made \in Nat
  BY <1>1, <1>2, Waits
<1>4. {"pc", "proto", "m", "t", "hurt"} \subseteq DOMAIN x /\ x.hurt \in BOOLEAN
      /\ t \in DOMAIN idle /\ e[t] = x.proto.addr
  BY <1>2, <1>3 DEF WaitGood
<1>5. UNCHANGED <<scene, cache, sockets, permits, net, shared, closed, made, begun>>
  BY DEF Take
<1>6. IdleGood(idle, e, made) /\ NetGood(net', scene, begun) /\ SharedGood(shared', scene, made')
      /\ made' \in Nat /\ made <= made'
  BY <1>3, <1>5 DEF LinksGood
<1>p. PICK parked : parked = idle[t]
  OBVIOUS
<1>7. /\ parked \in Seq(Streams) /\ Len(parked) <= MAX_IDLE /\ Len(parked) \in Nat
      /\ \A i \in 1..Len(parked) : parked[i].addr = e[t]
  BY <1>4, <1>6, <1>p, LenProperties DEF IdleGood
<1>8. CASE parked = <<>>
  <2>1. PICK y : y = [x EXCEPT !.pc = "connect"]
    OBVIOUS
  <2>2. user' = [user EXCEPT ![u] = y] /\ idle' = idle
    BY <1>2, <1>8, <1>p, <2>1 DEF Take
  <2>3. /\ {"pc", "proto", "m", "t", "hurt"} \subseteq DOMAIN y /\ y.pc = "connect"
        /\ y.proto = x.proto /\ y.m = x.m /\ y.t = x.t /\ y.hurt = x.hurt
    BY <1>4, <2>1, AtStep
  <2>4. Fits(y, scene, made', closed) /\ y.pc \in Underway
    BY <2>3 DEF Fits, Underway
  <2>5. UserGood(y, e, DOMAIN idle, scene, begun, made', closed)
    BY <1>3, <1>4, <2>3, <2>4, GoesOn
  <2>6. IdleGood(idle', e, made') /\ DOMAIN idle' = DOMAIN idle
    BY <1>5, <1>6, <2>2
  <2>7. LinksGood(e)'
    BY <1>5, <1>6, <2>2, <2>5, <2>6, OneMoves
  <2>8. PoolsInv(user, sockets, permits)'
    BY <1>1, <1>3, <1>5, <2>2, <2>3, PoolsLeft
  <2> QED BY <2>7, <2>8 DEF LinksInv
<1>9. CASE parked # <<>>
  <2> DEFINE n == Len(parked) - 1
  <2>1. Len(parked) # 0
    BY <1>7, <1>9, EmptySeq
  <2>2. PICK last, front : last = Last(parked) /\ front = Front(parked)
    OBVIOUS
  <2>3. last = parked[Len(parked)] /\ Len(parked) \in 1..Len(parked)
    BY <1>7, <2>1, <2>2 DEF Last
  <2>4. last \in Streams /\ last.addr = x.proto.addr
    BY <1>4, <1>7, <2>3, ElementOfSeq
  <2>5. /\ front \in Seq(Streams) /\ Len(front) <= MAX_IDLE
        /\ \A i \in 1..Len(front) : front[i].addr = e[t]
    <3>1. \A i \in 1..n : parked[i] \in Streams /\ i \in 1..Len(parked)
      BY <1>7, ElementOfSeq
    <3>2. n \in Nat /\ n <= MAX_IDLE /\ MAX_IDLE \in Nat
      BY <1>7, <2>1, TransportAssumption
    <3>3. /\ SubSeq(parked, 1, n) \in Seq(Streams)
          /\ Len(SubSeq(parked, 1, n)) = IF 1 <= n THEN n - 1 + 1 ELSE 0
          /\ \A i \in 1 .. n - 1 + 1 : SubSeq(parked, 1, n)[i] = parked[1 + i - 1]
      BY <3>1, <3>2, SubSeqProperties
    <3>4. front = SubSeq(parked, 1, n)
      BY <2>2 DEF Front
    <3> HIDE DEF n
    <3>5. \A i \in 1..n : i \in 1 .. n - 1 + 1 /\ 1 + i - 1 = i
      BY <3>2
    <3>6. (IF 1 <= n THEN n - 1 + 1 ELSE 0) = n
      BY <3>2
    <3>7. front \in Seq(Streams) /\ Len(front) = n /\ \A i \in 1..n : front[i] = parked[i]
      BY <3>3, <3>4, <3>5, <3>6
    <3> QED BY <3>1, <3>2, <3>7, <1>7
  <2>6. PICK s : s = Written(u, last)
    OBVIOUS
  <2>7. PICK y : y = Over([pc |-> "pooled", stream |-> s], x)
    OBVIOUS
  <2>8. user' = [user EXCEPT ![u] = y] /\ idle' = [idle EXCEPT ![t] = front]
    BY <1>2, <1>9, <1>p, <2>2, <2>6, <2>7 DEF Take
  <2>9. /\ {"pc", "proto", "m", "t", "hurt", "stream"} \subseteq DOMAIN y
        /\ y.pc = "pooled" /\ y.stream = s
        /\ y.proto = x.proto /\ y.m = x.m /\ y.t = x.t /\ y.hurt = x.hurt
    BY <1>4, <2>7, WithStream
  <2>10. s \in [addr : {x.proto.addr}, open : BOOLEAN,
                wire : {<<>>, <<ReplyIn(scene, x.m, x.proto.addr, FALSE)>>}]
    BY <1>2, <2>4, <2>6, WrittenFits, ZenonT(60)
  <2>11. Fits(y, scene, made', closed) /\ y.pc \in Underway
    BY <2>9, <2>10 DEF Fits, Underway
  <2>12. UserGood(y, e, DOMAIN idle, scene, begun, made', closed)
    BY <1>3, <1>4, <2>9, <2>11, GoesOn
  <2>13. IdleGood(idle', e, made') /\ DOMAIN idle' = DOMAIN idle
    BY <1>4, <1>5, <1>6, <2>5, <2>8, IdleSet
  <2>14. LinksGood(e)'
    BY <1>5, <1>6, <2>8, <2>12, <2>13, OneMoves
  <2>15. PoolsInv(user, sockets, permits)'
    BY <1>1, <1>3, <1>5, <2>8, <2>9, PoolsLeft
  <2> QED BY <2>14, <2>15 DEF LinksInv
<1> QED BY <1>8, <1>9

\* connect_tcp and the query written
LEMMA ConnectKeeps ==
    ASSUME NEW e, LinksGood(e), PoolsInv(user, sockets, permits), NEW u \in Users, Connect(u)
    PROVE  LinksInv'
<1>1. user[u].pc = "connect" /\ user[u].pc \in Underway
  BY DEF Connect, Underway
<1>2. PICK x : x = user[u]
  OBVIOUS
<1>3. WaitGood(x, e, DOMAIN idle, scene, begun, made, closed) /\ DOMAIN user = Users /\ made \in Nat
  BY <1>1, <1>2, Waits
<1>4. {"pc", "proto", "m", "t", "hurt"} \subseteq DOMAIN x /\ x.hurt \in BOOLEAN /\ x.proto \in Protos
  BY <1>3 DEF WaitGood
<1>5. UNCHANGED <<scene, cache, idle, sockets, permits, net, shared, closed, made, begun>>
  BY DEF Connect
<1>6. PICK new : new = [addr |-> x.proto.addr, open |-> TRUE, wire |-> <<>>]
  OBVIOUS
<1>7. new \in Streams /\ new.addr = x.proto.addr /\ new.open
  BY <1>4, <1>6 DEF Streams, Protos
<1>8. PICK s : s = Written(u, new)
  OBVIOUS
<1>9. s \in [addr : {x.proto.addr}, open : BOOLEAN,
             wire : {<<>>, <<ReplyIn(scene, x.m, x.proto.addr, FALSE)>>}] /\ s.open
  <2>1. Written(u, new) \in [addr : {new.addr}, open : BOOLEAN,
             wire : {<<>>, <<ReplyIn(scene, user[u].m, new.addr, FALSE)>>}]
        /\ Written(u, new).open = new.open
    BY <1>7, WrittenFits
  <2> QED BY <2>1, <1>2, <1>7, <1>8
<1>10. PICK y : y = Over([pc |-> "fresh", stream |-> s], x)
  OBVIOUS
<1>11. user' = [user EXCEPT ![u] = y]
  BY <1>2, <1>6, <1>8, <1>10 DEF Connect
<1>12. /\ {"pc", "proto", "m", "t", "hurt", "stream"} \subseteq DOMAIN y
       /\ y.pc = "fresh" /\ y.stream = s
       /\ y.proto = x.proto /\ y.m = x.m /\ y.t = x.t /\ y.hurt = x.hurt
  BY <1>4, <1>10, WithStream
<1>13. Fits(y, scene, made', closed) /\ y.pc \in Underway
  BY <1>9, <1>12 DEF Fits, Underway
<1>14. UserGood(y, e, DOMAIN idle, scene, begun, made', closed)
  BY <1>3, <1>4, <1>12, <1>13, GoesOn
<1>15. /\ made' \in Nat /\ made <= made' /\ DOMAIN idle' = DOMAIN idle /\ IdleGood(idle', e, made')
       /\ NetGood(net', scene, begun) /\ SharedGood(shared', scene, made')
  BY <1>3, <1>5 DEF LinksGood
<1>16. LinksGood(e)'
  BY <1>5, <1>11, <1>14, <1>15, OneMoves
<1>17. PoolsInv(user, sockets, permits)'
  BY <1>1, <1>3, <1>5, <1>11, <1>12, PoolsLeft
<1> QED BY <1>16, <1>17 DEF LinksInv

\* exchange_framed: the answer read, the stream parked
LEMMA StreamReadKeeps ==
    ASSUME NEW e, LinksGood(e), PoolsInv(user, sockets, permits), NEW u \in Users, StreamRead(u)
    PROVE  LinksInv'
<1>1. user[u].pc \in {"pooled", "fresh"} /\ user[u].stream.wire # <<>>
  BY DEF StreamRead, Reads
<1>2. user[u].pc \in Underway /\ user[u].pc # "recv"
  BY <1>1 DEF Underway
<1>3. PICK x, t, s : x = user[u] /\ t = user[u].t /\ s = user[u].stream
  OBVIOUS
<1>4. /\ WaitGood(x, e, DOMAIN idle, scene, begun, made, closed) /\ DOMAIN user = Users
      /\ made \in Nat /\ Counted
  BY <1>2, <1>3, Waits
<1>5. t \in DOMAIN idle /\ e[t] = x.proto.addr /\ x.proto \in Protos
  BY <1>3, <1>4 DEF WaitGood
<1>6. UNCHANGED <<scene, sockets, permits, net, shared, closed, begun>>
  BY DEF StreamRead
<1>7. s \in [addr : {x.proto.addr}, open : BOOLEAN,
             wire : {<<>>, <<ReplyIn(scene, x.m, x.proto.addr, FALSE)>>}]
  BY <1>1, <1>3, <1>4 DEF WaitGood, Fits
<1>8. PICK r : r = ReplyIn(scene, x.m, x.proto.addr, FALSE)
  OBVIOUS
<1>9. s.wire = <<r>>
  BY <1>1, <1>3, <1>7, <1>8
<1>10. Head(s.wire) = r /\ Tail(s.wire) = <<>>
  BY <1>9
<1>11. PICK s2 : s2 = [s EXCEPT !.wire = Tail(@)]
  OBVIOUS
<1>12. s2 \in Streams /\ s2.addr = e[t]
  BY <1>5, <1>7, <1>10, <1>11 DEF Streams, Protos
<1>13. PICK park : park = Parked(t, s2)
  OBVIOUS
<1>14. Deliver(u, r, park)
  BY <1>3, <1>10, <1>11, <1>13 DEF StreamRead
<1>15. DOMAIN park = DOMAIN idle /\ IdleGood(park, e, made)
  <2>1. IdleGood(idle, e, made)
    BY DEF LinksGood
  <2>2. /\ idle[t] \in Seq(Streams) /\ Len(idle[t]) <= MAX_IDLE
        /\ \A i \in 1..Len(idle[t]) : idle[t][i].addr = e[t]
    BY <1>5, <2>1 DEF IdleGood
  <2>3. CASE Len(idle[t]) < MAX_IDLE
    <3>1. PICK new : new = Append(idle[t], s2)
      OBVIOUS
    <3>2. /\ new \in Seq(Streams) /\ Len(new) = Len(idle[t]) + 1
          /\ \A i \in 1..Len(idle[t]) : new[i] = idle[t][i]
          /\ new[Len(idle[t]) + 1] = s2
      BY <1>12, <2>2, <3>1, AppendProperties
    <3>3. Len(idle[t]) \in Nat /\ MAX_IDLE \in Nat
      BY <2>2, LenProperties, TransportAssumption
    <3>4. \A i \in 1..Len(new) : i \in 1..Len(idle[t]) \/ i = Len(idle[t]) + 1
      BY <3>2, <3>3
    <3>5. Len(new) <= MAX_IDLE /\ \A i \in 1..Len(new) : new[i].addr = e[t]
      BY <1>12, <2>2, <2>3, <3>2, <3>3, <3>4, SMTT(30)
    <3>6. park = [idle EXCEPT ![t] = new]
      BY <1>13, <2>3, <3>1 DEF Parked
    <3> QED BY <1>5, <2>1, <3>2, <3>5, <3>6, IdleSet
  <2>4. CASE ~(Len(idle[t]) < MAX_IDLE)
    BY <1>13, <2>1, <2>4 DEF Parked
  <2> QED BY <2>3, <2>4
<1>16. PICK n \in 1..begun : x.m = Sent(scene, n)
  BY <1>4 DEF WaitGood
<1>17. r.tc = FALSE /\ r.by = x.proto.addr /\ r.n = x.m.n
  BY <1>8 DEF ReplyIn
<1>18. Answer(r, scene, begun)
  BY <1>8, <1>16, <1>17 DEF Answer
<1>19. net' \subseteq net
  BY <1>6
<1>20. /\ \E f : LinksGood(f)'
       /\ \E y : user' = [user EXCEPT ![u] = y] /\ y.pc # "recv"
  BY <1>3, <1>4, <1>6, <1>14, <1>15, <1>17, <1>18, <1>19, Delivered
<1>21. PoolsInv(user, sockets, permits)'
  BY <1>2, <1>4, <1>6, <1>20, PoolsLeft
<1> QED BY <1>20, <1>21 DEF LinksInv

\* A closed stream: a pooled one is replaced, a new one fails the exchange.
LEMMA StreamFailsKeeps ==
    ASSUME NEW e, LinksGood(e), PoolsInv(user, sockets, permits), NEW u \in Users, StreamFails(u)
    PROVE  LinksInv'
<1>1. user[u].pc \in {"pooled", "fresh"} /\ ~user[u].stream.open
  BY DEF StreamFails, Reads
<1>2. user[u].pc \in Underway /\ user[u].pc # "recv"
  BY <1>1 DEF Underway
<1>3. PICK x : x = user[u]
  OBVIOUS
<1>4. /\ WaitGood(x, e, DOMAIN idle, scene, begun, made, closed) /\ DOMAIN user = Users
      /\ made \in Nat
  BY <1>2, <1>3, Waits
<1>5. UNCHANGED <<scene, idle, sockets, permits, net, shared, closed, begun>> /\ StreamBroken(u)
  BY DEF StreamFails
<1>6. SharedGood(shared', scene, made)
  BY <1>5 DEF LinksGood
<1>7. CASE x.pc = "pooled"
  <2>1. PICK y : y = [x EXCEPT !.pc = "connect"]
    OBVIOUS
  <2>2. user' = [user EXCEPT ![u] = y] /\ cache' = cache /\ made' = made
    BY <1>3, <1>5, <1>7, <2>1 DEF StreamBroken, EndWith
  <2>3. {"pc", "proto", "m", "t", "hurt"} \subseteq DOMAIN x /\ x.hurt \in BOOLEAN
    BY <1>4 DEF WaitGood
  <2>4. /\ {"pc", "proto", "m", "t", "hurt"} \subseteq DOMAIN y /\ y.pc = "connect"
        /\ y.proto = x.proto /\ y.m = x.m /\ y.t = x.t /\ y.hurt = x.hurt
    BY <2>1, <2>3, AtStep
  <2>5. Fits(y, scene, made', closed) /\ y.pc \in Underway
    BY <2>4 DEF Fits, Underway
  <2>6. UserGood(y, e, DOMAIN idle, scene, begun, made', closed)
    BY <1>4, <2>3, <2>4, <2>5, GoesOn
  <2>7. /\ made' \in Nat /\ made <= made' /\ DOMAIN idle' = DOMAIN idle /\ IdleGood(idle', e, made')
        /\ NetGood(net', scene, begun) /\ SharedGood(shared', scene, made')
    BY <1>4, <1>5, <1>6, <2>2 DEF LinksGood
  <2>8. LinksGood(e)'
    BY <1>5, <2>2, <2>6, <2>7, OneMoves
  <2>9. PoolsInv(user, sockets, permits)'
    BY <1>2, <1>4, <1>5, <2>2, <2>4, PoolsLeft
  <2> QED BY <2>8, <2>9 DEF LinksInv
<1>8. CASE x.pc # "pooled"
  <2>1. EndWith(u, Failed(x, "reset"))
    BY <1>3, <1>5, <1>8 DEF StreamBroken
  <2>2. x.pc = "fresh" /\ ~x.stream.open
    BY <1>1, <1>3, <1>8
  <2>3. x.hurt
    BY <1>4, <2>2 DEF WaitGood, Fits
  <2>4. LinksGood(e)' /\ \E y : user' = [user EXCEPT ![u] = y] /\ y.pc = "done"
    BY <1>5, <1>6, <2>1, <2>3, FailsGood
  <2>5. PICK y : user' = [user EXCEPT ![u] = y] /\ y.pc = "done"
    BY <2>4
  <2>6. PoolsInv(user, sockets, permits)'
    BY <1>2, <1>4, <1>5, <2>5, PoolsLeft, ZenonT(60)
  <2> QED BY <2>4, <2>6 DEF LinksInv
<1> QED BY <1>7, <1>8

\* The server closes a stream.
LEMMA CloseStreamKeeps ==
    ASSUME NEW e, LinksGood(e), PoolsInv(user, sockets, permits), CloseStream
    PROVE  LinksInv'
<1>0. UNCHANGED <<scene, cache, sockets, permits, net, shared, closed, made, begun>> /\ made \in Nat
  BY DEF CloseStream, LinksGood, Counted
<1>i. IdleGood(idle, e, made)
  BY DEF LinksGood
<1>1. CASE \E t \in DOMAIN idle : \E i \in DOMAIN idle[t] :
              idle[t][i].open /\ idle' = [idle EXCEPT ![t][i].open = FALSE] /\ UNCHANGED user
  <2>0. PICK t \in DOMAIN idle : \E i \in DOMAIN idle[t] :
              idle' = [idle EXCEPT ![t][i].open = FALSE] /\ UNCHANGED user
    BY <1>1
  <2>1. PICK i \in DOMAIN idle[t] : idle' = [idle EXCEPT ![t][i].open = FALSE] /\ UNCHANGED user
    BY <2>0
  <2>2. PICK old : old = idle[t]
    OBVIOUS
  <2>3. /\ old \in Seq(Streams) /\ Len(old) <= MAX_IDLE
        /\ \A j \in 1..Len(old) : old[j].addr = e[t]
    BY <1>i, <2>1, <2>2 DEF IdleGood
  <2>4. i \in 1..Len(old)
    BY <2>1, <2>2, <2>3, LenProperties
  <2>5. PICK z : z = [old[i] EXCEPT !.open = FALSE]
    OBVIOUS
  <2>6. old[i] \in Streams
    BY <2>3, <2>4, ElementOfSeq
  <2>7. z \in Streams /\ z.addr = e[t]
    BY <2>3, <2>4, <2>5, <2>6 DEF Streams
  <2>8. PICK new : new = [old EXCEPT ![i] = z]
    OBVIOUS
  <2>9. /\ new \in Seq(Streams) /\ Len(new) = Len(old)
        /\ \A j \in 1..Len(old) : new[j] = IF j = i THEN z ELSE old[j]
    BY <2>3, <2>4, <2>7, <2>8, ExceptSeq
  <2>10. Len(new) <= MAX_IDLE /\ \A j \in 1..Len(new) : new[j].addr = e[t]
    BY <2>3, <2>7, <2>9
  <2>11. idle' = [idle EXCEPT ![t] = new]
    BY <2>1, <2>2, <2>5, <2>8
  <2>12. IdleGood(idle', e, made) /\ DOMAIN idle' = DOMAIN idle
    <3>1. IdleGood([idle EXCEPT ![t] = new], e, made) /\ DOMAIN [idle EXCEPT ![t] = new] = DOMAIN idle
      BY <1>i, <2>9, <2>10, IdleSet
    <3> QED BY <2>11, <3>1
  <2>13. CacheGood(cache', e, DOMAIN idle) /\ NetGood(net', scene, begun) /\ SharedGood(shared', scene, made)
    BY <1>0 DEF LinksGood
  <2>14. LinksGood(e)'
    BY <1>0, <2>1, <2>12, <2>13, NoneMoves
  <2>15. PoolsInv(user, sockets, permits)'
    BY <1>0, <2>1
  <2> QED BY <2>14, <2>15 DEF LinksInv
<1>2. CASE \E u \in Users :
              /\ Reads(u) /\ user[u].stream.open
              /\ user' = [user EXCEPT ![u].stream = [@ EXCEPT !.open = FALSE, !.wire = <<>>], ![u].hurt = TRUE]
              /\ UNCHANGED idle
  <2>1. PICK u \in Users :
              /\ Reads(u) /\ user[u].stream.open
              /\ user' = [user EXCEPT ![u].stream = [@ EXCEPT !.open = FALSE, !.wire = <<>>], ![u].hurt = TRUE]
              /\ UNCHANGED idle
    BY <1>2
  <2>2. user[u].pc \in {"pooled", "fresh"} /\ user[u].pc \in Underway /\ user[u].pc # "recv"
    BY <2>1 DEF Reads, Underway
  <2>3. PICK x, s : x = user[u] /\ s = [user[u].stream EXCEPT !.open = FALSE, !.wire = <<>>]
    OBVIOUS
  <2>4. WaitGood(x, e, DOMAIN idle, scene, begun, made, closed) /\ DOMAIN user = Users
    BY <2>2, <2>3, Waits
  <2>5. PICK y : y = [x EXCEPT !.stream = s, !.hurt = TRUE]
    OBVIOUS
  <2>6. user' = [user EXCEPT ![u] = y]
    BY <2>1, <2>3, <2>4, <2>5
  <2>7. {"pc", "proto", "m", "t", "hurt", "stream"} \subseteq DOMAIN x /\ x.hurt \in BOOLEAN
    BY <2>2, <2>3, <2>4 DEF WaitGood, Fits
  <2>8. /\ {"pc", "proto", "m", "t", "hurt", "stream"} \subseteq DOMAIN y /\ y.pc = x.pc
        /\ y.proto = x.proto /\ y.m = x.m /\ y.t = x.t /\ y.hurt = TRUE /\ y.stream = s
    BY <2>5, <2>7
  <2>9. s \in [addr : {x.proto.addr}, open : BOOLEAN,
               wire : {<<>>, <<ReplyIn(scene, x.m, x.proto.addr, FALSE)>>}]
    BY <2>2, <2>3, <2>4 DEF WaitGood, Fits
  <2>10. Fits(y, scene, made', closed) /\ y.pc \in Underway
    BY <2>2, <2>3, <2>8, <2>9 DEF Fits
  <2>11. UserGood(y, e, DOMAIN idle, scene, begun, made', closed)
    BY <2>4, <2>8, <2>10, GoesOn
  <2>12. /\ made' \in Nat /\ made <= made' /\ DOMAIN idle' = DOMAIN idle /\ IdleGood(idle', e, made')
         /\ NetGood(net', scene, begun) /\ SharedGood(shared', scene, made')
    BY <1>0, <2>1 DEF LinksGood
  <2>13. LinksGood(e)'
    BY <1>0, <2>6, <2>11, <2>12, OneMoves
  <2>14. PoolsInv(user, sockets, permits)'
    BY <1>0, <2>2, <2>3, <2>4, <2>6, <2>8, PoolsLeft
  <2> QED BY <2>13, <2>14 DEF LinksInv
<1> QED BY <1>1, <1>2, ZenonT(60) DEF CloseStream

\* What a connection is to the exchange that uses it.
ConnFits(c, proto, k) ==
    /\ c \in Conns /\ c.no \in 1..k
    /\ proto.kind # "h3" /\ proto.addr # NoAddress => c.addr = proto.addr

\* A connection found in the pool fits who looks for it.
LEMMA SharedHas ==
    ASSUME NEW sc, NEW S, NEW k, SharedGood(S, sc, k), NEW proto \in Protos,
           KindFits(proto.kind, sc), pool_key(proto) \in DOMAIN S
    PROVE  ConnFits(S[pool_key(proto)], proto, k)
<1>1. proto.kind # "h3" => sc.kind # "h3" /\ pool_key(proto) = <<proto.addr, proto.host>>
  BY DEF KindFits, pool_key
<1>2. proto.kind # "h3" => pool_key(proto)[1] = proto.addr
  BY <1>1
<1> QED BY <1>1, <1>2 DEF SharedGood, ConnFits

\* A connection is taken from the pool.
LEMMA SharedDrops ==
    ASSUME NEW sc, NEW S, NEW k, SharedGood(S, sc, k), NEW key
    PROVE  SharedGood(Del(S, key), sc, k)
BY DEF SharedGood, Del, Restrict

\* A connection is put into the pool.
LEMMA SharedGets ==
    ASSUME NEW sc, NEW S, NEW k \in Nat, SharedGood(S, sc, k), NEW k2 \in Nat, k <= k2,
           NEW proto \in Protos, KindFits(proto.kind, sc), NEW c, ConnFits(c, proto, k2)
    PROVE  SharedGood(Put(S, pool_key(proto), c), sc, k2)
<1>1. sc.kind # "h3" => proto.kind # "h3"
  BY DEF KindFits
<1>2. sc.kind # "h3" => pool_key(proto) = <<proto.addr, proto.host>>
  BY <1>1 DEF pool_key
<1>3. sc.kind # "h3" => pool_key(proto)[1] = proto.addr
  BY <1>2
<1>4. \A n \in 1..k : n \in 1..k2
  OBVIOUS
<1> DEFINE Q == Put(S, pool_key(proto), c)
<1>5. DOMAIN Q = DOMAIN S \cup {pool_key(proto)} /\ Q[pool_key(proto)] = c
      /\ \A key \in DOMAIN S : key # pool_key(proto) => Q[key] = S[key]
  BY DEF Put
<1> HIDE DEF Q
<1> SUFFICES ASSUME NEW key \in DOMAIN Q
             PROVE  /\ Q[key] \in Conns /\ Q[key].no \in 1..k2
                    /\ sc.kind # "h3" /\ key[1] # NoAddress => Q[key].addr = key[1]
  BY DEF SharedGood, Q
<1>6. CASE key = pool_key(proto)
  BY <1>1, <1>3, <1>5, <1>6 DEF ConnFits
<1>7. CASE key # pool_key(proto)
  <2>1. key \in DOMAIN S /\ Q[key] = S[key]
    BY <1>5, <1>7
  <2> QED BY <1>4, <2>1 DEF SharedGood
<1> QED BY <1>6, <1>7

\* A new connection is to the address of the transport, or of the hostname.
LEMMA NewConnFits ==
    ASSUME SetsTyped, made \in Nat, NEW proto \in Protos
    PROVE  /\ ConnFits(connect_new(proto, dns), proto, made + 1)
           /\ connect_new(proto, dns).no = made + 1
<1>1. proto.addr \in Known /\ dns[proto.host] \in Known
  BY DEF Protos, SetsTyped, Known
<1>2. resolve_addr(proto, dns) \in Known
  BY <1>1 DEF resolve_addr
<1>3. proto.addr # NoAddress => resolve_addr(proto, dns) = proto.addr
  BY DEF resolve_addr
<1> QED BY <1>2, <1>3 DEF connect_new, Conns, ConnFits

\* An exchange on a connection.
LEMMA AsksGood ==
    ASSUME NEW x, NEW e, NEW D, NEW sc, NEW b, NEW k, NEW k2, NEW cl,
           WaitGood(x, e, D, sc, b, k, cl), NEW c, ConnFits(c, x.proto, k2),
           NEW y, {"pc", "proto", "m", "t", "hurt", "conn"} \subseteq DOMAIN y,
           y.pc \in {"ask", "again"}, y.conn = c, y.pc = "again" => c.no \notin cl,
           y.proto = x.proto, y.m = x.m, y.t = x.t, y.hurt = x.hurt
    PROVE  UserGood(y, e, D, sc, b, k2, cl)
<1>1. x.hurt \in BOOLEAN
  BY DEF WaitGood
<1>2. Fits(y, sc, k2, cl) /\ y.pc \in Underway
  BY DEF Fits, ConnFits, Underway
<1> QED BY <1>1, <1>2, GoesOn

\* get_or_connect, up to the handshake
LEMMA LookupKeeps ==
    ASSUME NEW e, LinksGood(e), PoolsInv(user, sockets, permits), NEW u \in Users, Lookup(u)
    PROVE  LinksInv'
<1>1. user[u].pc = "lookup" /\ user[u].pc \in Underway
  BY DEF Lookup, Underway
<1>2. PICK x, key : x = user[u] /\ key = pool_key(user[u].proto)
  OBVIOUS
<1>3. WaitGood(x, e, DOMAIN idle, scene, begun, made, closed) /\ DOMAIN user = Users /\ made \in Nat
  BY <1>1, <1>2, Waits
<1>4. {"pc", "proto", "m", "t", "hurt"} \subseteq DOMAIN x /\ x.hurt \in BOOLEAN
      /\ x.proto \in Protos /\ KindFits(x.proto.kind, scene)
  BY <1>3 DEF WaitGood
<1>d. {"pc", "proto", "m", "t", "hurt"} \subseteq DOMAIN x
  BY <1>3 DEF WaitGood
<1>5. UNCHANGED <<scene, cache, idle, sockets, permits, net, closed, made, begun>>
  BY DEF Lookup
<1>6. SharedGood(shared, scene, made)
  BY DEF LinksGood
<1>7. /\ made' \in Nat /\ made <= made' /\ made' = made /\ DOMAIN idle' = DOMAIN idle
      /\ IdleGood(idle', e, made') /\ NetGood(net', scene, begun)
  BY <1>3, <1>5 DEF LinksGood
<1>8. \E y : /\ user' = [user EXCEPT ![u] = y] /\ y.pc # "recv"
             /\ UserGood(y, e, DOMAIN idle, scene, begun, made, closed)
             /\ SharedGood(shared', scene, made)
  <2>1. CASE key \in DOMAIN shared /\ Usable(x.proto.kind, shared[key])
    <3>1. PICK c : c = shared[key]
      OBVIOUS
    <3>2. ConnFits(c, x.proto, made)
      BY <1>2, <1>4, <1>6, <2>1, <3>1, SharedHas
    <3>3. PICK y : y = Over([pc |-> "ask", conn |-> c], x)
      OBVIOUS
    <3>4w. /\ {"pc", "proto", "m", "t", "hurt", "conn"} \subseteq DOMAIN y
          /\ y.pc = "ask" /\ y.conn = c
          /\ y.proto = x.proto /\ y.m = x.m /\ y.t = x.t /\ y.hurt = x.hurt
      BY <1>3, <3>2, <3>3, <1>d, WithConn
    <3>4. UserGood(y, e, DOMAIN idle, scene, begun, made, closed) /\ y.pc = "ask"
      BY <1>3, <3>2, <3>3, <3>4w, AsksGood
    <3>5. user' = [user EXCEPT ![u] = y] /\ shared' = shared
      BY <1>2, <2>1, <3>1, <3>3 DEF Lookup, Ask
    <3> QED BY <1>6, <3>4, <3>5
  <2>2. CASE ~(key \in DOMAIN shared /\ Usable(x.proto.kind, shared[key]))
    <3>1. PICK y : y = [x EXCEPT !.pc = "dial"]
      OBVIOUS
    <3>2. user' = [user EXCEPT ![u] = y] /\ shared' = Del(shared, key)
      BY <1>2, <2>2, <3>1 DEF Lookup
    <3>3. /\ {"pc", "proto", "m", "t", "hurt"} \subseteq DOMAIN y /\ y.pc = "dial"
          /\ y.proto = x.proto /\ y.m = x.m /\ y.t = x.t /\ y.hurt = x.hurt
      BY <1>4, <3>1, AtStep
    <3>4. Fits(y, scene, made, closed) /\ y.pc \in Underway
      BY <3>3 DEF Fits, Underway
    <3>5. UserGood(y, e, DOMAIN idle, scene, begun, made, closed)
      BY <1>3, <1>4, <3>3, <3>4, GoesOn
    <3>6. SharedGood(shared', scene, made)
      BY <1>6, <3>2, SharedDrops
    <3> QED BY <3>2, <3>3, <3>5, <3>6
  <2> QED BY <2>1, <2>2
<1>9. PICK y : /\ user' = [user EXCEPT ![u] = y] /\ y.pc # "recv"
               /\ UserGood(y, e, DOMAIN idle, scene, begun, made', closed)
               /\ SharedGood(shared', scene, made')
  BY <1>7, <1>8
<1>10. LinksGood(e)'
  BY <1>5, <1>7, <1>9, OneMoves
<1>11. PoolsInv(user, sockets, permits)'
  BY <1>1, <1>3, <1>5, <1>9, PoolsLeft
<1> QED BY <1>10, <1>11 DEF LinksInv

\* get_or_connect, after the handshake
LEMMA DialKeeps ==
    ASSUME SetsTyped, NEW e, LinksGood(e), PoolsInv(user, sockets, permits), NEW u \in Users,
           Dial(u, dns)
    PROVE  LinksInv'
<1>1. user[u].pc = "dial" /\ user[u].pc \in Underway
  BY DEF Dial, Underway
<1>2. PICK x, key : x = user[u] /\ key = pool_key(user[u].proto)
  OBVIOUS
<1>3. WaitGood(x, e, DOMAIN idle, scene, begun, made, closed) /\ DOMAIN user = Users /\ made \in Nat
  BY <1>1, <1>2, Waits
<1>4. x.proto \in Protos /\ KindFits(x.proto.kind, scene)
  BY <1>3 DEF WaitGood
<1>d. {"pc", "proto", "m", "t", "hurt"} \subseteq DOMAIN x
  BY <1>3 DEF WaitGood
<1>5. UNCHANGED <<scene, cache, idle, sockets, permits, net, closed, begun>>
  BY DEF Dial
<1>6. SharedGood(shared, scene, made)
  BY DEF LinksGood
<1>7. \E y : /\ user' = [user EXCEPT ![u] = y] /\ y.pc # "recv"
             /\ made' \in Nat /\ made <= made'
             /\ UserGood(y, e, DOMAIN idle, scene, begun, made', closed)
             /\ SharedGood(shared', scene, made')
  <2>1. CASE key \in DOMAIN shared /\ Usable(x.proto.kind, shared[key])
    <3>1. PICK c : c = shared[key]
      OBVIOUS
    <3>2. ConnFits(c, x.proto, made)
      BY <1>2, <1>4, <1>6, <2>1, <3>1, SharedHas
    <3>3. PICK y : y = Over([pc |-> "ask", conn |-> c], x)
      OBVIOUS
    <3>4w. /\ {"pc", "proto", "m", "t", "hurt", "conn"} \subseteq DOMAIN y
          /\ y.pc = "ask" /\ y.conn = c
          /\ y.proto = x.proto /\ y.m = x.m /\ y.t = x.t /\ y.hurt = x.hurt
      BY <1>3, <3>2, <3>3, <1>d, WithConn
    <3>4. UserGood(y, e, DOMAIN idle, scene, begun, made, closed) /\ y.pc = "ask"
      BY <1>3, <3>2, <3>3, <3>4w, AsksGood
    <3>5. user' = [user EXCEPT ![u] = y] /\ shared' = shared /\ made' = made
      BY <1>2, <2>1, <3>1, <3>3 DEF Dial, Ask
    <3>6. made' \in Nat /\ made <= made'
      BY <1>3, <3>5
    <3>7. /\ UserGood(y, e, DOMAIN idle, scene, begun, made', closed) /\ y.pc # "recv"
          /\ SharedGood(shared', scene, made')
      BY <1>6, <3>4, <3>5
    <3> QED BY <3>5, <3>6, <3>7
  <2>2. CASE ~(key \in DOMAIN shared /\ Usable(x.proto.kind, shared[key]))
    <3>1. PICK c : c = connect_new(x.proto, dns)
      OBVIOUS
    <3>2. ConnFits(c, x.proto, made + 1)
      BY <1>3, <1>4, <3>1, NewConnFits
    <3>3. PICK y : y = Over([pc |-> "ask", conn |-> c], x)
      OBVIOUS
    <3>4w. /\ {"pc", "proto", "m", "t", "hurt", "conn"} \subseteq DOMAIN y
          /\ y.pc = "ask" /\ y.conn = c
          /\ y.proto = x.proto /\ y.m = x.m /\ y.t = x.t /\ y.hurt = x.hurt
      BY <1>3, <3>2, <3>3, <1>d, WithConn
    <3>4. UserGood(y, e, DOMAIN idle, scene, begun, made + 1, closed) /\ y.pc = "ask"
      BY <1>3, <3>2, <3>3, <3>4w, AsksGood
    <3>5. user' = [user EXCEPT ![u] = y] /\ shared' = Put(shared, key, c) /\ made' = made + 1
      BY <1>2, <2>2, <3>1, <3>3 DEF Dial, Ask
    <3>6. made + 1 \in Nat /\ made <= made + 1
      BY <1>3
    <3>7. SharedGood(Put(shared, key, c), scene, made + 1)
      BY <1>2, <1>3, <1>4, <1>6, <3>2, <3>6, SharedGets
    <3> QED BY <3>4, <3>5, <3>6, <3>7
  <2> QED BY <2>1, <2>2
<1>8. PICK y : /\ user' = [user EXCEPT ![u] = y] /\ y.pc # "recv"
               /\ made' \in Nat /\ made <= made'
               /\ UserGood(y, e, DOMAIN idle, scene, begun, made', closed)
               /\ SharedGood(shared', scene, made')
  BY <1>7
<1>9. DOMAIN idle' = DOMAIN idle /\ IdleGood(idle', e, made') /\ NetGood(net', scene, begun)
  <2>1. \A i \in 1..made : i \in 1..made'
    BY <1>3, <1>8
  <2> QED BY <1>5, <2>1 DEF LinksGood, IdleGood
<1>10. LinksGood(e)'
  BY <1>5, <1>8, <1>9, OneMoves
<1>11. PoolsInv(user, sockets, permits)'
  BY <1>1, <1>3, <1>5, <1>8, PoolsLeft
<1> QED BY <1>10, <1>11 DEF LinksInv

\* The reconnection of send, after the pooled connection was lost
LEMMA RedialKeeps ==
    ASSUME SetsTyped, NEW e, LinksGood(e), PoolsInv(user, sockets, permits), NEW u \in Users,
           Redial(u, dns)
    PROVE  LinksInv'
<1>1. user[u].pc = "redial" /\ user[u].pc \in Underway
  BY DEF Redial, Underway
<1>2. PICK x, key : x = user[u] /\ key = pool_key(user[u].proto)
  OBVIOUS
<1>3. WaitGood(x, e, DOMAIN idle, scene, begun, made, closed) /\ DOMAIN user = Users /\ made \in Nat
      /\ closed \subseteq 1..made
  BY <1>1, <1>2, Waits DEF Counted
<1>4. x.proto \in Protos /\ KindFits(x.proto.kind, scene)
  BY <1>3 DEF WaitGood
<1>d. {"pc", "proto", "m", "t", "hurt"} \subseteq DOMAIN x
  BY <1>3 DEF WaitGood
<1>5. UNCHANGED <<scene, cache, idle, sockets, permits, net, closed, begun>>
  BY DEF Redial
<1>6. SharedGood(shared, scene, made)
  BY DEF LinksGood
<1>7. PICK c : c = connect_new(x.proto, dns)
  OBVIOUS
<1>8. ConnFits(c, x.proto, made + 1) /\ c.no = made + 1
  BY <1>3, <1>4, <1>7, NewConnFits
<1>9. PICK y : y = Over([pc |-> "again", conn |-> c], x)
  OBVIOUS
<1>10. c.no \notin closed
  BY <1>3, <1>8
<1>11w. /\ {"pc", "proto", "m", "t", "hurt", "conn"} \subseteq DOMAIN y
      /\ y.pc = "again" /\ y.conn = c
      /\ y.proto = x.proto /\ y.m = x.m /\ y.t = x.t /\ y.hurt = x.hurt
  BY <1>3, <1>8, <1>9, <1>10, <1>d, WithConn
<1>11. UserGood(y, e, DOMAIN idle, scene, begun, made + 1, closed) /\ y.pc = "again"
  BY <1>3, <1>8, <1>9, <1>10, <1>11w, AsksGood
<1>12. user' = [user EXCEPT ![u] = y] /\ shared' = Put(shared, key, c) /\ made' = made + 1
  BY <1>2, <1>7, <1>9 DEF Redial
<1>13. made + 1 \in Nat /\ made <= made + 1
  BY <1>3
<1>14. SharedGood(Put(shared, key, c), scene, made + 1)
  BY <1>2, <1>3, <1>4, <1>6, <1>8, <1>13, SharedGets
<1>15. DOMAIN idle' = DOMAIN idle /\ IdleGood(idle', e, made') /\ NetGood(net', scene, begun)
  <2>1. \A i \in 1..made : i \in 1..made'
    BY <1>3, <1>12
  <2> QED BY <1>5, <2>1 DEF LinksGood, IdleGood
<1>16. /\ made' \in Nat /\ made <= made' /\ SharedGood(shared', scene, made')
       /\ UserGood(y, e, DOMAIN idle, scene, begun, made', closed)
  BY <1>11, <1>12, <1>13, <1>14
<1>17. LinksGood(e)'
  BY <1>5, <1>12, <1>15, <1>16, OneMoves
<1>18. PoolsInv(user, sockets, permits)'
  BY <1>1, <1>3, <1>5, <1>11, <1>12, PoolsLeft
<1> QED BY <1>17, <1>18 DEF LinksInv

\* An answer over a connection, or over HTTPS.
LEMMA AnswerEnds ==
    ASSUME NEW e, LinksGood(e), PoolsInv(user, sockets, permits), NEW u \in Users,
           user[u].pc \in Underway, user[u].pc # "recv", NEW addr,
           user[u].proto.kind # "h3" /\ user[u].proto.addr # NoAddress => addr = user[u].proto.addr,
           Deliver(u, Reply(user[u].m, addr, FALSE), idle),
           UNCHANGED <<scene, sockets, permits, net, shared, closed, begun>>
    PROVE  LinksInv'
<1>1. PICK x, r, park : x = user[u] /\ r = Reply(user[u].m, addr, FALSE) /\ park = idle
  OBVIOUS
<1>2. /\ WaitGood(x, e, DOMAIN idle, scene, begun, made, closed) /\ DOMAIN user = Users
      /\ Counted
  BY <1>1, Waits
<1>3. PICK n \in 1..begun : x.m = Sent(scene, n)
  BY <1>2 DEF WaitGood
<1>4. /\ Answer(r, scene, begun) /\ r.by = addr /\ r.tc = FALSE /\ r.n = x.m.n
  <2>1. r = ReplyIn(scene, x.m, addr, FALSE)
    BY <1>1, ReplyIs
  <2>2. r.by = addr /\ r.tc = FALSE /\ r.n = x.m.n
    BY <2>1 DEF ReplyIn
  <2> QED BY <1>3, <2>1, <2>2 DEF Answer
<1>5. /\ Deliver(u, r, park) /\ DOMAIN park = DOMAIN idle /\ IdleGood(park, e, made)
      /\ net' \subseteq net
      /\ x.proto.kind # "h3" /\ x.proto.addr # NoAddress => r.by = x.proto.addr
  BY <1>1, <1>4 DEF LinksGood
<1>6. /\ \E f : LinksGood(f)'
      /\ \E y : user' = [user EXCEPT ![u] = y] /\ y.pc # "recv"
  <2>1. scene' = scene /\ begun' = begun /\ closed' = closed /\ shared' = shared
    OBVIOUS
  <2>2. x = user[u] /\ ~r.tc
    BY <1>1, <1>4
  <2> QED BY <1>2, <1>4, <1>5, <2>1, <2>2, Delivered
<1>7. PoolsInv(user, sockets, permits)'
  BY <1>2, <1>6, PoolsLeft
<1> QED BY <1>6, <1>7 DEF LinksInv

\* send_on_stream, execute_request
LEMMA StreamAnswersKeeps ==
    ASSUME NEW e, LinksGood(e), PoolsInv(user, sockets, permits), NEW u \in Users, StreamAnswers(u)
    PROVE  LinksInv'
<1>1. user[u].pc \in {"ask", "again"}
  BY DEF StreamAnswers, Asks
<1>2. user[u].pc \in Underway /\ user[u].pc # "recv"
  BY <1>1 DEF Underway
<1>3. PICK x, m, c : x = user[u] /\ m = user[u].m /\ c = user[u].conn
  OBVIOUS
<1>4. WaitGood(x, e, DOMAIN idle, scene, begun, made, closed) /\ Counted
  BY <1>2, <1>3, Waits
<1>5. PICK n \in 1..begun : m = Sent(scene, n)
  BY <1>3, <1>4 DEF WaitGood
<1>6. m = [id |-> scene.sends[n].id, q |-> scene.sends[n].q, n |-> n,
           checked |-> scene.sends[n].checked]
  BY <1>4, <1>5, SentIs
<1>7. PICK addr : addr = c.addr
  OBVIOUS
<1>8. send_on_stream(m, c) = Reply(m, addr, FALSE)
  <2>1. PICK z : z = [m EXCEPT !.id = 0]
    OBVIOUS
  <2>2. z.q = m.q /\ z.n = m.n /\ z.checked = m.checked
    BY <1>6, <2>1
  <2>3. Spelling(scene, z) = Spelling(scene, m)
    BY <2>2 DEF Spelling
  <2>4. ReplyIn(scene, m, addr, FALSE) = [ReplyIn(scene, z, addr, FALSE) EXCEPT !.id = m.id]
    <3>1. PICK no, cookie, owners : /\ no = FALSE /\ cookie = (m.checked /\ scene.cookie)
                                /\ owners = <<Spelling(scene, m),
                                              IF scene.literal THEN Spelling(scene, m) ELSE "pointer">>
      OBVIOUS
    <3>2. ReplyIn(scene, z, addr, FALSE) = [id |-> z.id, q |-> m.q, n |-> m.n, by |-> addr,
              tc |-> no, cookie |-> cookie, owners |-> owners]
      BY <2>2, <2>3, <3>1 DEF ReplyIn
    <3>3. ReplyIn(scene, m, addr, FALSE) = [id |-> m.id, q |-> m.q, n |-> m.n, by |-> addr,
              tc |-> no, cookie |-> cookie, owners |-> owners]
      BY <3>1 DEF ReplyIn
    <3>4. PICK a, b, q, nr : a = z.id /\ b = m.id /\ q = m.q /\ nr = m.n
      OBVIOUS
    <3>5. PICK R : R = ReplyIn(scene, z, addr, FALSE)
      OBVIOUS
    <3>6. R = [id |-> a, q |-> q, n |-> nr, by |-> addr, tc |-> no, cookie |-> cookie, owners |-> owners]
      BY <3>2, <3>4, <3>5
    <3>7. [R EXCEPT !.id = b]
          = [id |-> b, q |-> q, n |-> nr, by |-> addr, tc |-> no, cookie |-> cookie, owners |-> owners]
      BY <3>6
    <3> QED BY <3>3, <3>4, <3>5, <3>7
  <2>5. Reply(z, addr, FALSE) = ReplyIn(scene, z, addr, FALSE)
        /\ Reply(m, addr, FALSE) = ReplyIn(scene, m, addr, FALSE)
    BY ReplyIs
  <2> QED BY <1>7, <2>1, <2>4, <2>5 DEF send_on_stream
<1>9. execute_request(m, c) = Reply(m, addr, FALSE)
  BY <1>7 DEF execute_request
<1>10. Deliver(u, Reply(user[u].m, addr, FALSE), idle)
  BY <1>3, <1>8, <1>9 DEF StreamAnswers
<1>11. user[u].proto.kind # "h3" /\ user[u].proto.addr # NoAddress => addr = user[u].proto.addr
  BY <1>1, <1>3, <1>4, <1>7 DEF WaitGood, Fits
<1>12. UNCHANGED <<scene, sockets, permits, net, shared, closed, begun>>
  BY DEF StreamAnswers
<1> QED BY <1>2, <1>10, <1>11, <1>12, AnswerEnds

\* An answer over HTTPS, from the addresses the client was made with
LEMMA HttpsAnswersKeeps ==
    ASSUME NEW e, LinksGood(e), PoolsInv(user, sockets, permits), NEW u \in Users,
           HttpsAnswers(u, dns)
    PROVE  LinksInv'
<1>1. user[u].pc \in Underway /\ user[u].pc # "recv"
  BY DEF HttpsAnswers, Underway
<1>2. PICK addr : addr = resolve_addr(user[u].proto, dns)
  OBVIOUS
<1>3. user[u].proto.addr # NoAddress => addr = user[u].proto.addr
  BY <1>2 DEF resolve_addr
<1>4. Deliver(u, Reply(user[u].m, addr, FALSE), idle)
      /\ UNCHANGED <<scene, sockets, permits, net, shared, closed, begun>>
  BY <1>2 DEF HttpsAnswers
<1> QED BY <1>1, <1>3, <1>4, AnswerEnds

\* A failure of an exchange that has no socket.
LEMMA FailKeeps ==
    ASSUME NEW e, LinksGood(e), PoolsInv(user, sockets, permits), NEW u \in Users,
           user[u].pc # "recv", NEW x, NEW why, EndWith(u, Failed(x, why)),
           x.hurt \/ why \in {"timeout", "unresolved"},
           UNCHANGED <<scene, idle, sockets, permits, net, closed, begun>>,
           SharedGood(shared', scene, made)
    PROVE  LinksInv'
<1>1. LinksGood(e)' /\ \E y : user' = [user EXCEPT ![u] = y] /\ y.pc = "done"
  BY FailsGood
<1>2. PICK y : user' = [user EXCEPT ![u] = y] /\ y.pc = "done"
  BY <1>1
<1>3. DOMAIN user = Users
  BY DEF LinksGood, Counted
<1>4. PoolsInv(user, sockets, permits)'
  BY <1>2, <1>3, PoolsLeft
<1> QED BY <1>1, <1>4 DEF LinksInv

\* A connection lost: once the exchange is tried again, the second time it fails.
LEMMA ConnectionLostKeeps ==
    ASSUME NEW e, LinksGood(e), PoolsInv(user, sockets, permits), NEW u \in Users, ConnectionLost(u)
    PROVE  LinksInv'
<1>1. user[u].pc \in {"ask", "again"}
  BY DEF ConnectionLost, Asks
<1>2. user[u].pc \in Underway /\ user[u].pc # "recv"
  BY <1>1 DEF Underway
<1>3. PICK w, no : w = user[u] /\ no = user[u].conn.no
  OBVIOUS
<1>4. WaitGood(w, e, DOMAIN idle, scene, begun, made, closed) /\ DOMAIN user = Users /\ made \in Nat
  BY <1>2, <1>3, Waits
<1>5. {"pc", "proto", "m", "t", "hurt"} \subseteq DOMAIN w /\ w.hurt \in BOOLEAN
  BY <1>4 DEF WaitGood
<1>6. PICK x : x = [w EXCEPT !.hurt = @ \/ no \notin closed]
  OBVIOUS
<1>7. /\ {"pc", "proto", "m", "t", "hurt"} \subseteq DOMAIN x /\ x.pc = w.pc
      /\ x.proto = w.proto /\ x.m = w.m /\ x.t = w.t /\ x.hurt = (w.hurt \/ no \notin closed)
  BY <1>5, <1>6
<1>8. UNCHANGED <<scene, idle, sockets, permits, net, closed, begun>>
  BY DEF ConnectionLost
<1>9. SharedGood(shared, scene, made)
  BY DEF LinksGood
<1>10. CASE x.pc = "ask"
  <2>1. PICK y, key : y = [x EXCEPT !.pc = "redial"] /\ key = pool_key(x.proto)
    OBVIOUS
  <2>2. /\ user' = [user EXCEPT ![u] = y] /\ cache' = cache /\ made' = made
        /\ shared' = Del(shared, key)
    BY <1>3, <1>6, <1>10, <2>1 DEF ConnectionLost, EndWith
  <2>3. /\ {"pc", "proto", "m", "t", "hurt"} \subseteq DOMAIN y /\ y.pc = "redial"
        /\ y.proto = x.proto /\ y.m = x.m /\ y.t = x.t /\ y.hurt = x.hurt
    BY <1>7, <2>1, AtStep
  <2>4. Fits(y, scene, made', closed) /\ y.pc \in Underway
    BY <2>3 DEF Fits, Underway
  <2>5. y.hurt \in BOOLEAN /\ y.proto = w.proto /\ y.m = w.m /\ y.t = w.t
    BY <1>5, <1>7, <2>3
  <2>6. UserGood(y, e, DOMAIN idle, scene, begun, made', closed)
    BY <1>4, <2>3, <2>4, <2>5, GoesOn
  <2>7. SharedGood(shared', scene, made')
    BY <1>9, <2>2, SharedDrops
  <2>8. /\ made' \in Nat /\ made <= made' /\ DOMAIN idle' = DOMAIN idle /\ IdleGood(idle', e, made')
        /\ NetGood(net', scene, begun)
    BY <1>4, <1>8, <2>2 DEF LinksGood
  <2>9. LinksGood(e)'
    BY <1>8, <2>2, <2>6, <2>7, <2>8, OneMoves
  <2>10. PoolsInv(user, sockets, permits)'
    BY <1>2, <1>4, <1>8, <2>2, <2>3, PoolsLeft
  <2> QED BY <2>9, <2>10 DEF LinksInv
<1>11. CASE x.pc # "ask"
  <2>1. EndWith(u, Failed(x, "reset")) /\ shared' = shared
    BY <1>3, <1>6, <1>11 DEF ConnectionLost
  <2>2. w.pc = "again"
    BY <1>1, <1>3, <1>7, <1>11
  <2>3. x.hurt
    BY <1>3, <1>4, <1>7, <2>2 DEF WaitGood, Fits
  <2>4. SharedGood(shared', scene, made)
    BY <1>9, <2>1
  <2> QED BY <1>2, <1>8, <2>1, <2>3, <2>4, FailKeeps
<1> QED BY <1>10, <1>11

\* A connection refused, or an HTTP answer that is wrong
LEMMA RefusedKeeps ==
    ASSUME NEW e, LinksGood(e), PoolsInv(user, sockets, permits), NEW u \in Users, Refused(u)
    PROVE  LinksInv'
<1>1. user[u].pc \in {"connect", "dial", "redial", "request", "ask", "again"}
  BY DEF Refused, Asks
<1>2. user[u].pc \in Underway /\ user[u].pc # "recv"
  BY <1>1 DEF Underway
<1>3. "hurt" \in DOMAIN user[u]
  BY <1>2, Waits DEF WaitGood
<1>4. PICK x : x = [user[u] EXCEPT !.hurt = TRUE]
  OBVIOUS
<1>5. x.hurt
  BY <1>3, <1>4
<1>6. EndWith(u, Failed(x, "refused"))
      /\ UNCHANGED <<scene, idle, sockets, permits, net, shared, closed, begun>>
  BY <1>4 DEF Refused
<1>7. SharedGood(shared', scene, made)
  BY <1>6 DEF LinksGood
<1> QED BY <1>2, <1>5, <1>6, <1>7, FailKeeps

\* The time of an exchange is up.
LEMMA ExpireKeeps ==
    ASSUME NEW e, LinksGood(e), PoolsInv(user, sockets, permits), NEW u \in Users, Expire(u)
    PROVE  LinksInv'
<1>1. user[u].pc # "recv"
  BY DEF Expire
<1>2. PICK x, key : x = user[u] /\ key = pool_key(user[u].proto)
  OBVIOUS
<1>3. EndWith(u, Failed(x, "timeout"))
      /\ UNCHANGED <<scene, idle, sockets, permits, net, closed, begun>>
  BY <1>2 DEF Expire
<1>4. shared' = shared \/ shared' = Del(shared, key)
  BY <1>2 DEF Expire
<1>5. SharedGood(shared, scene, made)
  BY DEF LinksGood
<1>6. SharedGood(shared', scene, made)
  BY <1>4, <1>5, SharedDrops
<1> QED BY <1>1, <1>3, <1>6, FailKeeps

\* A task dropped where it waits
LEMMA CancelKeeps ==
    ASSUME NEW e, LinksGood(e), PoolsInv(user, sockets, permits), NEW u \in Users, Cancel(u)
    PROVE  LinksInv'
<1>1. PICK y : y = NoExchange
  OBVIOUS
<1>2. y.pc = "idle" /\ y.pc # "recv"
  BY <1>1 DEF NoExchange
<1>3. user' = [user EXCEPT ![u] = y] /\ UNCHANGED <<scene, cache, idle, net, shared, closed, made, begun>>
  BY <1>1 DEF Cancel
<1>4. DOMAIN user = Users /\ made \in Nat
  BY DEF LinksGood, Counted
<1>5. UserGood(y, e, DOMAIN idle, scene, begun, made', closed)
  BY <1>2 DEF UserGood
<1>6. /\ made' \in Nat /\ made <= made' /\ DOMAIN idle' = DOMAIN idle /\ IdleGood(idle', e, made')
      /\ NetGood(net', scene, begun) /\ SharedGood(shared', scene, made')
  BY <1>3, <1>4 DEF LinksGood
<1>7. LinksGood(e)'
  BY <1>3, <1>5, <1>6, OneMoves
<1>8. CASE user[u].pc = "recv"
  <2>1. PICK addr : addr = user[u].proto.addr
    OBVIOUS
  <2>2. permits' = permits + 1 /\ sockets' = Drop(sockets, user[u].sock, addr)
    BY <1>8, <2>1 DEF Cancel, Busy
  <2>3. PoolsInv([user EXCEPT ![u] = y], sockets', permits + 1)
    BY <1>2, <1>4, <1>8, <2>2, SocketBack
  <2>4. PoolsInv(user, sockets, permits)'
    BY <1>3, <2>2, <2>3
  <2> QED BY <1>7, <2>4 DEF LinksInv
<1>9. CASE user[u].pc # "recv"
  <2>1. permits' = permits /\ sockets' = sockets
    BY <1>9 DEF Cancel, Busy
  <2>2. PoolsInv(user, sockets, permits)'
    BY <1>2, <1>3, <1>4, <1>9, <2>1, PoolsLeft
  <2> QED BY <1>7, <2>2 DEF LinksInv
<1> QED BY <1>8, <1>9

\* The server closes a connection: those on it are hurt.
LEMMA CloseSharedKeeps ==
    ASSUME NEW e, LinksGood(e), PoolsInv(user, sockets, permits), CloseShared
    PROVE  LinksInv'
<1>0. UNCHANGED <<scene, cache, idle, sockets, permits, net, shared, made, begun>>
      /\ DOMAIN user = Users /\ made \in Nat /\ closed \subseteq 1..made
  BY DEF CloseShared, LinksGood, Counted
<1>1. PICK c : /\ c \in {shared[k].no : k \in DOMAIN shared}
                      \cup {user[v].conn.no : v \in {w \in Users : Asks(w)}}
               /\ closed' = closed \cup {c}
               /\ user' = [v \in Users |-> IF Asks(v) /\ user[v].conn.no = c
                                           THEN [user[v] EXCEPT !.hurt = TRUE] ELSE user[v]]
  BY DEF CloseShared
<1>2. c \in 1..made
  <2>1. \A k \in DOMAIN shared : shared[k].no \in 1..made
    BY DEF LinksGood, SharedGood
  <2>2. ASSUME NEW v \in Users, Asks(v) PROVE user[v].conn.no \in 1..made
    <3>1. user[v].pc \in {"ask", "again"} /\ user[v].pc \in Underway
      BY <2>2 DEF Asks, Underway
    <3> QED BY <3>1, Waits DEF WaitGood, Fits
  <2> QED BY <1>1, <2>1, <2>2
<1>3. ASSUME NEW v \in Users
      PROVE  /\ UserGood(user'[v], e, DOMAIN idle, scene, begun, made, closed')
             /\ user'[v].pc = user[v].pc /\ (user[v].pc = "recv" => user'[v] = user[v])
  <2>1. PICK x, y : x = user[v] /\ y = user'[v]
    OBVIOUS
  <2>2. UserGood(x, e, DOMAIN idle, scene, begun, made, closed)
    BY <2>1 DEF LinksGood
  <2>3. CASE Asks(v)
    <3>1. x.pc \in {"ask", "again"} /\ x.pc \in Underway
      BY <2>1, <2>3 DEF Asks, Underway
    <3>2. WaitGood(x, e, DOMAIN idle, scene, begun, made, closed)
      BY <2>1, <3>1, Waits
    <3>3. /\ {"pc", "proto", "m", "t", "hurt", "conn"} \subseteq DOMAIN x /\ x.hurt \in BOOLEAN
          /\ Fits(x, scene, made, closed)
      BY <3>1, <3>2 DEF WaitGood, Fits
    <3>4. /\ {"pc", "proto", "m", "t", "hurt", "conn"} \subseteq DOMAIN y /\ y.pc = x.pc
          /\ y.proto = x.proto /\ y.m = x.m /\ y.t = x.t /\ y.hurt \in BOOLEAN /\ y.conn = x.conn
          /\ (x.hurt => y.hurt) /\ (x.conn.no = c => y.hurt)
      <4>1. CASE x.conn.no = c
        <5>1. y = [x EXCEPT !.hurt = TRUE]
          BY <1>1, <2>1, <2>3, <4>1
        <5> QED BY <3>3, <5>1
      <4>2. CASE x.conn.no # c
        <5>1. y = x
          BY <1>1, <2>1, <2>3, <4>2
        <5> QED BY <3>3, <4>2, <5>1
      <4> QED BY <4>1, <4>2
    <3>5. Fits(y, scene, made, closed')
      BY <1>1, <3>1, <3>3, <3>4 DEF Fits
    <3>6. WaitGood(y, e, DOMAIN idle, scene, begun, made, closed')
      BY <3>1, <3>2, <3>4, <3>5 DEF WaitGood
    <3>7. UserGood(y, e, DOMAIN idle, scene, begun, made, closed')
      BY <3>6 DEF UserGood
    <3> QED BY <2>1, <3>1, <3>4, <3>7
  <2>4. CASE ~Asks(v)
    <3>1. y = x /\ x.pc \notin {"ask", "again"}
      BY <1>1, <2>1, <2>4 DEF Asks
    <3>2. UserGood(x, e, DOMAIN idle, scene, begun, made, closed')
      BY <2>2, <3>1 DEF UserGood, WaitGood, Fits
    <3> QED BY <2>1, <3>1, <3>2
  <2> QED BY <2>3, <2>4
<1>4. Counted'
  BY <1>0, <1>1, <1>2 DEF LinksGood, Counted
<1>5. LinksGood(e)'
  BY <1>0, <1>3, <1>4 DEF LinksGood
<1>6. \A v \in Users : /\ user'[v].pc = "recv" <=> user[v].pc = "recv"
                       /\ user[v].pc = "recv" => user'[v].sock = user[v].sock
  BY <1>3
<1>7. PoolsInv(user', sockets, permits)
  BY <1>6, PoolsQuiet
<1>8. PoolsInv(user, sockets, permits)'
  BY <1>0, <1>7
<1> QED BY <1>5, <1>8 DEF LinksInv

\* A connection of the pool outlives its TTL.
LEMMA AgeKeeps ==
    ASSUME NEW e, LinksGood(e), PoolsInv(user, sockets, permits), Age
    PROVE  LinksInv'
<1>1. PICK k \in DOMAIN shared : shared' = [shared EXCEPT ![k].aged = TRUE]
  BY DEF Age
<1>2. UNCHANGED <<scene, cache, idle, sockets, permits, net, closed, user, made, begun>>
  BY DEF Age
<1>3. SharedGood(shared, scene, made)
  BY DEF LinksGood
<1>4. PICK c : c = [shared[k] EXCEPT !.aged = TRUE]
  OBVIOUS
<1>5. c \in Conns /\ c.no = shared[k].no /\ c.addr = shared[k].addr
  BY <1>3, <1>4 DEF SharedGood, Conns
<1>6. DOMAIN shared' = DOMAIN shared /\ \A o \in DOMAIN shared : shared'[o] = IF o = k THEN c ELSE shared[o]
  BY <1>1, <1>4
<1>7. SharedGood(shared', scene, made)
  BY <1>3, <1>5, <1>6 DEF SharedGood
<1>8. CacheGood(cache', e, DOMAIN idle) /\ DOMAIN idle' = DOMAIN idle
      /\ IdleGood(idle', e, made) /\ NetGood(net', scene, begun)
  BY <1>2 DEF LinksGood
<1>9. LinksGood(e)'
  BY <1>2, <1>7, <1>8, NoneMoves
<1> QED BY <1>2, <1>9 DEF LinksInv

\* What a query finds in the live set.
LEMMA ProtocolFits ==
    ASSUME SetsTyped, Counted, NEW p \in Protocols
    PROVE  p \in Protos /\ p.kind = scene.kind
<1>1. PICK pool \in Pools, h \in Hosts :
          /\ Lists(live.config, pool, h)
          /\ p = [kind |-> scene.kind, host |-> h, addr |-> live.addr[pool][h]]
  BY DEF Protocols
<1>2. live.addr[pool] \in [live.config.pools[pool] -> Known]
  BY InPoolSet DEF SetsTyped
<1>3. live.addr[pool][h] \in Known
  BY <1>1, <1>2 DEF Lists
<1>4. scene.kind \in Kinds
  BY TransportAssumption DEF Counted, Kinds
<1> QED BY <1>1, <1>3, <1>4 DEF Protos

\* A query or probe begins.
LEMMA BeginKeeps ==
    ASSUME SetsTyped, NEW e, LinksGood(e), PoolsInv(user, sockets, permits), NEW u \in Users,
           NEW p \in Protocols, Begin(u, p)
    PROVE  LinksInv'
<1>1. user[u].pc # "recv"
  BY DEF Begin, Waiting
<1>2. Counted /\ begun \in Nat /\ DOMAIN user = Users
  BY DEF LinksGood, Counted
<1>3. p \in Protos /\ p.kind = scene.kind
  BY <1>2, ProtocolFits
<1>4. PICK n, x : n = begun + 1
                  /\ x = [proto |-> p, hurt |-> FALSE, m |-> build_query_hardened(scene.sends[n], n)]
  OBVIOUS
<1>5. get_or_create_transport(u, x) /\ begun' = begun + 1
      /\ UNCHANGED <<scene, sockets, permits, net, shared, closed>>
  BY <1>4 DEF Begin
<1>6. x.proto \in Protos /\ KindFits(x.proto.kind, scene) /\ x.hurt \in BOOLEAN /\ x.m = Sent(scene, n)
  BY <1>3, <1>4 DEF KindFits, Sent
<1>7. Len(scene.sends) \in Nat /\ begun < Len(scene.sends)
  BY <1>2, TransportAssumption DEF Counted, Begin
<1>8. begun' \in Nat /\ begun <= begun' /\ begun' <= Len(scene.sends) /\ n \in 1..begun'
  BY <1>2, <1>4, <1>5, <1>7
<1>9. NetGood(net', scene, begun')
  <2>1. \A i \in 1..begun : i \in 1..begun'
    BY <1>2, <1>8
  <2> QED BY <1>5, <2>1 DEF LinksGood, NetGood, Answer
<1>10. \E f : LinksGood(f)'
  BY <1>5, <1>6, <1>8, <1>9, TransportMade
<1>11. PICK y : user' = [user EXCEPT ![u] = y] /\ (y.pc = FirstStep(x.proto.kind) \/ y.pc = "done")
  BY <1>5, TransportTaken
<1>12. x.proto.kind \in Kinds
  BY <1>6 DEF Protos
<1>13. y.pc # "recv"
  BY <1>11, <1>12 DEF FirstStep, Kinds
<1>14. PoolsInv(user, sockets, permits)'
  BY <1>1, <1>2, <1>5, <1>11, <1>13, PoolsLeft
<1> QED BY <1>10, <1>14 DEF LinksInv

\* refresh_hostname forgets transports; who holds one keeps it.
LEMMA LookupPatchesKeeps ==
    ASSUME NEW e, LinksGood(e), PoolsInv(user, sockets, permits), LookupPatches
    PROVE  LinksInv'
<1>1. UNCHANGED <<scene, idle, sockets, permits, net, shared, closed, user, made, begun>>
  BY DEF LookupPatches
<1>2. CacheGood(cache, e, DOMAIN idle)
  BY DEF LinksGood
<1>3. CacheGood(cache', e, DOMAIN idle)
  <2>1. CASE cache' = cache
    BY <1>2, <2>1
  <2>2. CASE cache' # cache
    <3>1. PICK G : Forget(G)
      BY <2>2 DEF LookupPatches
    <3>2. DOMAIN cache' \subseteq DOMAIN cache /\ \A p \in DOMAIN cache' : cache'[p] = cache[p]
      BY <3>1 DEF Forget, Restrict
    <3> QED BY <1>2, <3>2 DEF CacheGood
  <2> QED BY <2>1, <2>2
<1>4. DOMAIN idle' = DOMAIN idle /\ IdleGood(idle', e, made) /\ NetGood(net', scene, begun)
      /\ SharedGood(shared', scene, made)
  BY <1>1 DEF LinksGood
<1>5. LinksGood(e)'
  BY <1>1, <1>3, <1>4, NoneMoves
<1> QED BY <1>1, <1>5 DEF LinksInv

\* No step of the composition breaks the invariant.
LEMMA LinksStep ==
    ASSUME SetsInv, LinksInv, [NextLinks]_allVars
    PROVE  LinksInv'
<1>0. SetsTyped /\ PoolsInv(user, sockets, permits)
  BY DEF SetsInv, LinksInv
<1>e. PICK e : LinksGood(e)
  BY DEF LinksInv
<1>1. CASE UNCHANGED linkVars
  <2>1. UNCHANGED <<scene, user, begun, made, closed, cache, idle, net, shared, sockets, permits>>
    BY <1>1 DEF linkVars
  <2>2. LinksGood(e)'
    BY <1>e, <2>1 DEF LinksGood, Counted
  <2> QED BY <1>0, <2>1, <2>2 DEF LinksInv
<1>2. CASE LookupPatches
  BY <1>0, <1>e, <1>2, LookupPatchesKeeps
<1>3. CASE BeginOne
  BY <1>0, <1>e, <1>3, BeginKeeps DEF BeginOne
<1>4. CASE LinkNext(dns)
  <2>1. CASE Duplicate
    BY <1>0, <1>e, <2>1, DuplicateKeeps
  <2>2. CASE CloseStream
    BY <1>0, <1>e, <2>2, CloseStreamKeeps
  <2>3. CASE CloseShared
    BY <1>0, <1>e, <2>3, CloseSharedKeeps
  <2>4. CASE Age
    BY <1>0, <1>e, <2>4, AgeKeeps
  <2>5. CASE \E u \in Users : Exchange(u, dns)
    <3>1. PICK u \in Users : Exchange(u, dns)
      BY <2>5
    <3>2. CASE UdpSend(u)
      BY <1>0, <1>e, <3>2, UdpSendKeeps
    <3>3. CASE UdpSendFails(u)
      BY <1>0, <1>e, <3>3, UdpSendFailsKeeps
    <3>4. CASE UdpRecv(u)
      BY <1>0, <1>e, <3>4, UdpRecvKeeps
    <3>5. CASE UdpGivesUp(u)
      BY <1>0, <1>e, <3>5, UdpGivesUpKeeps
    <3>6. CASE Take(u)
      BY <1>0, <1>e, <3>6, TakeKeeps
    <3>7. CASE Connect(u)
      BY <1>0, <1>e, <3>7, ConnectKeeps
    <3>8. CASE StreamRead(u)
      BY <1>0, <1>e, <3>8, StreamReadKeeps
    <3>9. CASE StreamFails(u)
      BY <1>0, <1>e, <3>9, StreamFailsKeeps
    <3>10. CASE Lookup(u)
      BY <1>0, <1>e, <3>10, LookupKeeps
    <3>11. CASE Dial(u, dns)
      BY <1>0, <1>e, <3>11, DialKeeps
    <3>12. CASE StreamAnswers(u)
      BY <1>0, <1>e, <3>12, StreamAnswersKeeps
    <3>13. CASE ConnectionLost(u)
      BY <1>0, <1>e, <3>13, ConnectionLostKeeps
    <3>14. CASE Redial(u, dns)
      BY <1>0, <1>e, <3>14, RedialKeeps
    <3>15. CASE HttpsAnswers(u, dns)
      BY <1>0, <1>e, <3>15, HttpsAnswersKeeps
    <3>16. CASE Refused(u)
      BY <1>0, <1>e, <3>16, RefusedKeeps
    <3>17. CASE Expire(u)
      BY <1>0, <1>e, <3>17, ExpireKeeps
    <3>18. CASE Cancel(u)
      BY <1>0, <1>e, <3>18, CancelKeeps
    <3> QED
      BY <3>1, <3>2, <3>3, <3>4, <3>5, <3>6, <3>7, <3>8, <3>9, <3>10, <3>11, <3>12, <3>13,
         <3>14, <3>15, <3>16, <3>17, <3>18 DEF Exchange
  <2> QED BY <1>4, <2>1, <2>2, <2>3, <2>4, <2>5 DEF LinkNext
<1> QED BY <1>1, <1>2, <1>3, <1>4 DEF NextLinks, SetStep, LinkStep, allVars

\* The invariant holds at the start.
LEMMA LinksInitInv == InitLinks => LinksInv
<1> SUFFICES ASSUME InitLinks PROVE LinksInv
  OBVIOUS
<1>1. LinksInit
  BY DEF InitLinks
<1>2. scene \in Scenes /\ (begun = Len(scene.sends) \/ begun = 0)
  BY DEF InitLinks, LinksInit
<1>3. Len(scene.sends) \in Nat /\ TOTAL_LIMIT \in Nat
  BY <1>2, TransportAssumption
<1>4. \A v \in Users : user[v].pc = "idle"
  BY <1>1 DEF LinksInit, NoExchange
<1>5. Counted
  BY <1>1, <1>2, <1>3 DEF LinksInit, Counted
<1>6. DOMAIN cache = {} /\ DOMAIN idle = {} /\ DOMAIN sockets = {} /\ DOMAIN shared = {} /\ net = {}
  BY <1>1 DEF LinksInit
<1>7. LinksGood(0)
  BY <1>4, <1>5, <1>6 DEF LinksGood, CacheGood, IdleGood, NetGood, SharedGood, UserGood
<1>8. BusyIn(user) = {}
  BY <1>4 DEF BusyIn
<1>9. permits \in Nat /\ permits + Cardinality(BusyIn(user)) = TOTAL_LIMIT
  <2>1. permits = TOTAL_LIMIT
    BY <1>1 DEF LinksInit
  <2>2. Cardinality(BusyIn(user)) = 0
    BY <1>8, FS_EmptySet
  <2> QED BY <1>3, <2>1, <2>2
<1>10. PoolsFit(sockets) /\ HoldersFit(user, sockets)
  BY <1>6, <1>8 DEF PoolsFit, HoldersFit
<1> QED BY <1>7, <1>9, <1>10 DEF LinksInv, PoolsInv

\* The invariant gives what the run checks.
LEMMA LinksInvGives == LinksInv => AnswersMatch /\ LinksServe
<1> SUFFICES ASSUME LinksInv PROVE AnswersMatch /\ LinksServe
  OBVIOUS
<1>e. PICK e : LinksGood(e)
  BY DEF LinksInv
<1>1. ASSUME NEW u \in Users, Ended(u) PROVE DoneGood(user[u], scene)
  <2>1. user[u].pc = "done"
    BY <1>1 DEF Ended
  <2>2. user[u].pc \notin Underway /\ user[u].pc # "idle"
    BY <2>1 DEF Underway
  <2>3. UserGood(user[u], e, DOMAIN idle, scene, begun, made, closed)
    BY <1>e DEF LinksGood
  <2> QED BY <2>2, <2>3 DEF UserGood, WaitGood
<1>2. AnswersMatch
  BY <1>1 DEF AnswersMatch, DoneGood, OkGood
<1>3. NoNeedlessFailure
  BY <1>1 DEF NoNeedlessFailure, DoneGood, FailGood
<1>4. PoolsFit(sockets) /\ HoldersFit(user, sockets)
      /\ permits + Cardinality(BusyIn(user)) = TOTAL_LIMIT
  BY DEF LinksInv, PoolsInv
<1>5. BusyIn(user) = {u \in Users : Busy(u)}
  BY DEF BusyIn, Busy
<1>6. \A a \in DOMAIN sockets : DOMAIN sockets[a] = 1..Len(sockets[a])
  BY <1>4, LenProperties DEF PoolsFit
<1>7. \A a \in DOMAIN sockets :
          /\ Len(sockets[a]) <= MAX_PER_SERVER
          /\ \A s \in Range(sockets[a]) : s.uses < ROTATION
  BY <1>4, <1>6 DEF PoolsFit, Range
<1>8. \A u \in Users : Busy(u) => user[u].sock.uses <= ROTATION
  BY <1>4, <1>5 DEF HoldersFit
<1>9. PortsApart
  <2>1. \A u, v \in Users : Busy(u) /\ Busy(v) /\ user[u].sock.port = user[v].sock.port => u = v
    BY <1>4, <1>5 DEF HoldersFit
  <2>2. \A a, b \in DOMAIN sockets : \A i \in DOMAIN sockets[a], j \in DOMAIN sockets[b] :
           sockets[a][i].port = sockets[b][j].port => a = b /\ i = j
    BY <1>4, <1>6 DEF PoolsFit
  <2>3. \A u \in Users, a \in DOMAIN sockets : Busy(u) =>
           \A i \in DOMAIN sockets[a] : sockets[a][i].port # user[u].sock.port
    BY <1>4, <1>5, <1>6 DEF HoldersFit, InPool
  <2> QED BY <2>1, <2>2, <2>3 DEF PortsApart
<1>10. \A t \in DOMAIN idle : Len(idle[t]) <= MAX_IDLE /\ \A s \in Range(idle[t]) : s.wire = <<>>
  <2> SUFFICES ASSUME NEW t \in DOMAIN idle
               PROVE  Len(idle[t]) <= MAX_IDLE /\ \A s \in Range(idle[t]) : s.wire = <<>>
    OBVIOUS
  <2>1. idle[t] \in Seq(Streams) /\ Len(idle[t]) <= MAX_IDLE
    BY <1>e DEF LinksGood, IdleGood
  <2>2. \A i \in DOMAIN idle[t] : idle[t][i] \in Streams
    BY <2>1, LenProperties, ElementOfSeq
  <2> QED BY <2>1, <2>2 DEF Range, Streams
<1>11. PoolsSound
  BY <1>4, <1>5, <1>7, <1>8, <1>9, <1>10 DEF PoolsSound
<1> QED BY <1>2, <1>3, <1>11 DEF LinksServe

\* The answer an exchange ends with is to its own question, complete, free of the
\* spelling drawn for it, and from the address asked: for any tasks, ports, messages
\* and number of mishaps (exchange, validate, canonicalize, the pools of every kind).
THEOREM AnswersAlwaysMatch == SpecLinks => []AnswersMatch
<1>1. InitLinks => SetsInv /\ LinksInv
  BY SetsInitInv, LinksInitInv DEF InitLinks, Init
<1>2. SetsInv /\ LinksInv /\ [NextLinks]_allVars => SetsInv' /\ LinksInv'
  BY LinksLeaveSets, SetsStep, LinksStep
<1>3. LinksInv => AnswersMatch
  BY LinksInvGives
<1> QED BY <1>1, <1>2, <1>3, PTL DEF SpecLinks

\* The pools serve the exchanges: permits are conserved, no port has two owners, no
\* socket outlives its rotation, a parked stream owes nobody an answer, and what went
\* stale in a pool fails no exchange (udp_pool.rs, IdlePool, the send of each kind).
THEOREM LinksAlwaysServe == SpecLinks => []LinksServe
<1>1. InitLinks => SetsInv /\ LinksInv
  BY SetsInitInv, LinksInitInv DEF InitLinks, Init
<1>2. SetsInv /\ LinksInv /\ [NextLinks]_allVars => SetsInv' /\ LinksInv'
  BY LinksLeaveSets, SetsStep, LinksStep
<1>3. LinksInv => LinksServe
  BY LinksInvGives
<1> QED BY <1>1, <1>2, <1>3, PTL DEF SpecLinks

=============================================================================
