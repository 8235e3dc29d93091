------------------------------ MODULE CacheMap ------------------------------
(***************************************************************************)
(* Who holds which answer in DnsCache: the shared map (L2), the copies in  *)
(* every thread's L1, the bloom filter that gates the map, and the         *)
(* registry of local records (permanent_records)                           *)
(* (crates/infrastructure/src/dns/cache/{storage,l1,bloom}.rs), with the   *)
(* local-record use cases that write through it                            *)
(* (crates/application/src/use_cases/local_records).                       *)
(*                                                                         *)
(* Every structure has its own locks, so each operation is a sequence of   *)
(* steps other threads may come between.  One step is one critical section *)
(* of one structure; reading an entry and promoting it to L1 is one step,  *)
(* under the entry's guard.  A key stands for a name and type in the       *)
(* shared view; its answers are addresses, the only kind L1 mirrors.       *)
(***************************************************************************)
EXTENDS FiniteSets

CONSTANTS
    Threads,
    Routings,   \* upstream routings, each standing for the answers got through it
    Preloaded,  \* what each local record of the config file says at startup
    Traffics    \* what may be done to which keys, chosen once

AllOps == {"get", "store", "local", "clear", "evict", "rotate"}
NoAnswer == "no_answer"
NoThread == "no_thread"

ASSUME CacheMapAssumption ==
    /\ NoThread \notin Threads
    /\ \A tr \in Traffics :
        /\ tr.local \subseteq tr.keys /\ tr.upstream \subseteq tr.keys
        /\ Routings \cap tr.addresses = {} /\ NoAnswer \notin tr.addresses \cup Routings
        /\ Preloaded \in tr.addresses /\ tr.ops \subseteq AllOps

VARIABLES
    traffic,  \* one of Traffics
    map,      \* DnsCache.cache
    owned,    \* permanent_records
    fresh,    \* the active slot of the bloom filter
    aged,     \* its inactive slot
    l1,       \* each thread's L1
    behind,   \* threads whose L1 generation is not the global one
    config,   \* dns.local_records of the running config
    routing,  \* the routing the pools are live with
    late,     \* history: keys stored with an answer of a routing that is gone
    missed,   \* history: keys stored under a clear, which emptied the bloom filter after them
    struck,   \* history: keys whose local record another operation took or put back
    shadowed, \* history: keys whose record was inserted under an upstream answer in an L1
    writer,   \* the thread that holds the config lock for writing, or NoThread
    carried,  \* threads between bloom.set and their map write when the bloom rotated
    op        \* the step each thread is at

Keys         == traffic.keys
LocalKeys    == traffic.local      \* keys the operator may edit
UpstreamKeys == traffic.upstream   \* keys an upstream answer may arrive for
Addresses    == traffic.addresses  \* what a local record may say
Ops          == traffic.ops        \* operations that run

shared == <<map, owned, fresh, aged>>
vars == <<map, owned, fresh, aged, l1, behind, config, routing, late, missed, struck, shadowed,
          writer, carried, op>>
history == <<late, missed, struck, shadowed>>

Idle     == [at |-> "idle"]
Vacant   == [kind |-> "vacant", val |-> NoAnswer, marked |-> FALSE]
Entry(kind, v) == [kind |-> kind, val |-> v, marked |-> FALSE]
Permanent(k) == map[k].kind = "permanent"
Held(k)      == map[k].kind # "vacant"

\* Startup preloads the local records of the config file.
Init ==
    /\ traffic \in Traffics
    /\ config = [k \in LocalKeys |-> Preloaded]
    /\ owned = LocalKeys
    /\ map = [k \in Keys |-> IF k \in owned THEN Entry("permanent", Preloaded) ELSE Vacant]
    /\ fresh = owned /\ aged = {}
    /\ l1 = [t \in Threads |-> [k \in Keys |-> NoAnswer]]
    /\ behind = {}
    /\ routing \in Routings
    /\ late = {} /\ missed = {} /\ struck = {} /\ shadowed = {}
    /\ writer = NoThread
    /\ carried = {}
    /\ op = [t \in Threads |-> Idle]

At(t, label) == op[t].at = label
Goto(t, o)   == op' = [op EXCEPT ![t] = o]
Step(t, label) == op' = [op EXCEPT ![t].at = label]
Starts(t, name) == name \in Ops /\ op[t] = Idle

(***************************************************************************)
(* L1                                                                      *)
(***************************************************************************)

L1Empty == [k \in Keys |-> NoAnswer]

\* What a thread behind the generation holds, or puts in, is dropped before its
\* next lookup (lookup_l1): here it is gone at once.
L1Put(t, k, v) == l1' = IF t \in behind THEN l1 ELSE [l1 EXCEPT ![t][k] = v]

\* l1_clear: every other thread finds out by the generation.
L1Clear(t) ==
    /\ behind' = Threads \ {t}
    /\ l1' = [u \in Threads |-> L1Empty]
    /\ shadowed' = {}

\* Another thread has, or is about to copy to its L1, an upstream answer for k: the map's
\* guard is released before the L1 is written.
Astray(t, k) ==
    \E u \in Threads \ (behind \cup {t}) :
        l1[u][k] \in Routings \/ (op[u].at = "store_l1" /\ op[u].key = k)

\* A record goes into the map: the L1 of the other threads is left as it is.
Shadows(t, k) == shadowed' = IF Astray(t, k) THEN shadowed \cup {k} ELSE shadowed

\* A copy lapses with its TTL, or ages out of the LRU.
L1Lapse(t, k) ==
    /\ l1[t][k] # NoAnswer /\ op[t] = Idle
    /\ L1Put(t, k, NoAnswer)
    /\ UNCHANGED <<shared, behind, config, routing, history, writer, carried, op>>

\* get: the L1 lookup.  A thread behind the generation catches up, empty.
GetL1(t, k) ==
    /\ Starts(t, "get")
    /\ l1[t][k] = NoAnswer
    /\ behind' = behind \ {t}
    /\ Goto(t, [at |-> "probe", key |-> k])
    /\ UNCHANGED <<shared, l1, config, routing, history, writer, carried>>

Admitted(k) == k \in fresh \cup aged

\* get: the bloom gate, the map, and promote_to_l1 under the entry's guard.
GetMap(t) ==
    LET k == op[t].key IN
    /\ At(t, "probe")
    /\ IF Admitted(k) /\ Held(k) THEN L1Put(t, k, map[k].val) ELSE UNCHANGED l1
    /\ Goto(t, Idle)
    /\ UNCHANGED <<shared, behind, config, routing, history, writer, carried>>

(***************************************************************************)
(* Upstream answers                                                        *)
(***************************************************************************)

\* A leader asks the pools it finds ...
Resolve(t, k) ==
    /\ Starts(t, "store")
    /\ Goto(t, [at |-> "store_bloom", key |-> k, via |-> routing])
    /\ UNCHANGED <<shared, l1, behind, config, routing, history, writer, carried>>

\* ... and stores what they answered.  store: bloom.set ...
StoreBloom(t) ==
    /\ At(t, "store_bloom")
    /\ fresh' = fresh \cup {op[t].key}
    /\ Step(t, "store_map")
    /\ UNCHANGED <<map, owned, aged, l1, behind, config, routing, history, writer, carried>>

\* ... then the map, where a local record stays as it is ...
StoreMap(t) ==
    LET k == op[t].key IN
    /\ At(t, "store_map")
    /\ IF Permanent(k)
       THEN Goto(t, Idle) /\ UNCHANGED <<map, late>>
       ELSE /\ Step(t, "store_l1")
            /\ map' = [map EXCEPT ![k] = Entry("cached", op[t].via)]
            /\ late' = IF op[t].via = routing THEN late ELSE late \cup {k}
    /\ carried' = carried \ {t}
    /\ UNCHANGED <<owned, fresh, aged, l1, behind, config, routing, missed, struck, shadowed,
                   writer>>

\* ... then this thread's L1.
StoreL1(t) ==
    /\ At(t, "store_l1")
    /\ L1Put(t, op[t].key, op[t].via)
    /\ Goto(t, Idle)
    /\ UNCHANGED <<shared, behind, config, routing, history, writer, carried>>

\* A record the registry names goes: an operation that is none of its edits took it.
Strikes(k) == struck' = IF Permanent(k) THEN struck \cup {k} ELSE struck

\* refresh_entry asks again for a cached entry ...
Renew(t, k) ==
    /\ Starts(t, "store")
    /\ map[k].kind = "cached" /\ ~map[k].marked
    /\ Goto(t, [at |-> "renew", key |-> k, via |-> routing])
    /\ UNCHANGED <<shared, l1, behind, config, routing, history, writer, carried>>

\* ... keeps the entry if nothing better came ...
RenewKept(t) ==
    /\ At(t, "renew")
    /\ Goto(t, Idle)
    /\ UNCHANGED <<shared, l1, behind, config, routing, history, writer, carried>>

\* ... or stores the answer (refresh_record_of) under the write guard of what is a cached
\* entry yet, L1 and bloom included ...
RenewStore(t) ==
    LET k == op[t].key IN
    /\ At(t, "renew")
    /\ map[k].kind = "cached" /\ ~map[k].marked
    /\ map' = [map EXCEPT ![k].val = op[t].via]
    /\ fresh' = fresh \cup {k}
    /\ L1Put(t, k, op[t].via)
    /\ late' = IF op[t].via = routing THEN late ELSE late \cup {k}
    /\ Goto(t, Idle)
    /\ UNCHANGED <<owned, aged, behind, config, routing, missed, struck, shadowed, writer, carried>>

\* ... or, the answer being bogus, removes whatever the key holds by now, ...
RenewBogus(t) ==
    LET k == op[t].key IN
    /\ At(t, "renew") /\ Held(k)
    /\ map' = [map EXCEPT ![k] = Vacant]
    /\ owned' = owned \ {k}
    /\ Strikes(k)
    /\ Goto(t, [at |-> "bogus_l1"])
    /\ UNCHANGED <<fresh, aged, l1, behind, config, routing, late, missed, shadowed, writer, carried>>

\* ... and from every L1.
BogusL1(t) ==
    /\ At(t, "bogus_l1")
    /\ L1Clear(t)
    /\ Goto(t, Idle)
    /\ UNCHANGED <<shared, config, routing, late, missed, struck, writer, carried>>

\* remove_dead removes a cached entry that is marked or dead.  The L1 copies of a
\* dead one carry its expiry, so none is left by then.
Expire(k) ==
    /\ map[k].kind = "cached"
    /\ \/ map[k].marked
       \/ \A t \in Threads : l1[t][k] \notin Routings /\ ~(At(t, "store_l1") /\ op[t].key = k)
    /\ map' = [map EXCEPT ![k] = Vacant]
    /\ UNCHANGED <<owned, fresh, aged, l1, behind, config, routing, history, writer, carried, op>>

(***************************************************************************)
(* Local records: the use cases change the config under its lock and then  *)
(* refresh the key (LiveRecordSinks::refresh): remove, then insert         *)
(***************************************************************************)

\* A record is created, deleted or given another address ...
Edit(t, k, v) ==
    /\ Starts(t, "local") /\ writer = NoThread
    /\ v # config[k]
    /\ writer' = t
    /\ config' = [config EXCEPT ![k] = v]
    /\ Goto(t, [at |-> "remove", key |-> k, then |-> {}])
    /\ UNCHANGED <<shared, l1, behind, routing, history, carried>>

\* ... or another name: the old name is refreshed first.
Rename(t, k, j) ==
    /\ Starts(t, "local") /\ writer = NoThread
    /\ config[k] # NoAnswer /\ config[j] = NoAnswer
    /\ writer' = t
    /\ config' = [config EXCEPT ![k] = NoAnswer, ![j] = config[k]]
    /\ Goto(t, [at |-> "remove", key |-> k, then |-> {j}])
    /\ UNCHANGED <<shared, l1, behind, routing, history, carried>>

\* A key is refreshed: on to the next, or the lock is given back.
Refreshed(t) ==
    IF op[t].then = {}
    THEN Goto(t, Idle) /\ writer' = NoThread
    ELSE \E k \in op[t].then :
             Goto(t, [at |-> "remove", key |-> k, then |-> {}]) /\ UNCHANGED writer

\* Where refresh goes once the old entry is gone.
AfterRemove(t) ==
    IF config[op[t].key] # NoAnswer
    THEN Step(t, "insert_bloom") /\ UNCHANGED writer
    ELSE Refreshed(t)

ClearSteps == {"clear_save", "clear_map", "clear_bloom", "clear_owned", "clear_l1", "restore"}

\* A clear has copied the record out, to put it back.
ClearHolds(k) ==
    \E u \in Threads : op[u].at \in ClearSteps \ {"clear_save"} /\ \E r \in op[u].saved : r.key = k

\* A clear has copied the records out and is yet to empty the map or the registry.
ClearTakes == \E u \in Threads : op[u].at \in {"clear_map", "clear_bloom", "clear_owned"}

\* remove, under the lock of the name's registry entry.
Remove(t) ==
    LET k == op[t].key IN
    /\ At(t, "remove")
    /\ IF Held(k)
       THEN /\ map' = [map EXCEPT ![k] = Vacant]
            /\ owned' = owned \ {k}
            /\ Step(t, "remove_l1") /\ UNCHANGED writer
       ELSE AfterRemove(t) /\ UNCHANGED <<map, owned>>
    /\ struck' = IF ClearHolds(k) THEN struck \cup {k} ELSE struck
    /\ UNCHANGED <<fresh, aged, l1, behind, config, routing, late, missed, shadowed, carried>>

\* Mutant: remove leaves the other threads' L1 alone.
RemoveL1Own(t) ==
    /\ At(t, "remove_l1")
    /\ l1' = [l1 EXCEPT ![t] = L1Empty]
    /\ AfterRemove(t)
    /\ UNCHANGED <<shared, behind, config, routing, history, carried>>

RemoveL1(t) ==
    /\ At(t, "remove_l1")
    /\ L1Clear(t)
    /\ AfterRemove(t)
    /\ UNCHANGED <<shared, config, routing, late, missed, struck, carried>>

\* insert_permanent: bloom.set, ...
InsertBloom(t) ==
    /\ At(t, "insert_bloom")
    /\ fresh' = fresh \cup {op[t].key}
    /\ Step(t, "insert_room")
    /\ UNCHANGED <<map, owned, aged, l1, behind, config, routing, history, writer, carried>>

\* ... an eviction first if the cache is full (EvictWalk), ...
InsertRoom(t) ==
    /\ At(t, "insert_room")
    /\ Step(t, "insert_map")
    /\ UNCHANGED <<shared, l1, behind, config, routing, history, writer, carried>>

\* ... the registry and the map under the registry entry's lock, ...
InsertMap(t) ==
    LET k == op[t].key IN
    /\ At(t, "insert_map")
    /\ owned' = owned \cup {k}
    /\ map' = [map EXCEPT ![k] = Entry("permanent", config[k])]
    /\ Step(t, "insert_l1")
    /\ carried' = carried \ {t}
    /\ struck' = IF ClearTakes THEN struck \cup {k} ELSE struck
    /\ Shadows(t, k)
    /\ UNCHANGED <<fresh, aged, l1, behind, config, routing, late, missed, writer>>

\* ... and this thread's L1.
InsertL1(t) ==
    /\ At(t, "insert_l1")
    /\ L1Put(t, op[t].key, config[op[t].key])
    /\ Refreshed(t)
    /\ UNCHANGED <<shared, behind, config, routing, history, carried>>

\* u is between its bloom.set and its map write.
BloomSet(u) ==
    \/ op[u].at \in {"store_map", "insert_room", "insert_map"}
    \/ At(u, "evict") /\ op[u].caller # Idle

\* A thread has set k in the bloom filter and not yet written the map.
BeingStored(k) ==
    \E u \in Threads :
        BloomSet(u) /\ k = IF At(u, "evict") THEN op[u].caller.key ELSE op[u].key

(***************************************************************************)
(* clear                                                                   *)
(***************************************************************************)

\* UpstreamReloadAdapter::reload_pools applies the new pools, and clears the
\* cache if they route names elsewhere.  Reloads take turns (config_writer);
\* local-record edits do not wait for them.
Reload(t, r) ==
    /\ Starts(t, "clear") /\ \A u \in Threads : op[u].at \notin ClearSteps
    /\ r # routing
    /\ routing' = r
    /\ Goto(t, [at |-> "clear_save"])
    /\ UNCHANGED <<shared, l1, behind, config, history, writer, carried>>

\* The local records are copied out ...
ClearSave(t) ==
    /\ At(t, "clear_save")
    /\ Goto(t, [at |-> "clear_map",
                saved |-> {[key |-> k, val |-> map[k].val] : k \in {o \in owned : Held(o)}}])
    /\ UNCHANGED <<shared, l1, behind, config, routing, history, writer, carried>>

\* ... each structure is emptied in turn ...
ClearMap(t) ==
    /\ At(t, "clear_map")
    /\ map' = [k \in Keys |-> Vacant]
    /\ Step(t, "clear_bloom")
    /\ UNCHANGED <<owned, fresh, aged, l1, behind, config, routing, history, writer, carried>>

ClearBloom(t) ==
    /\ At(t, "clear_bloom")
    /\ fresh' = {} /\ aged' = {}
    /\ missed' = missed \cup {k \in Keys : Held(k) \/ BeingStored(k)}
    /\ Step(t, "clear_owned")
    /\ UNCHANGED <<map, owned, l1, behind, config, routing, late, struck, shadowed, writer, carried>>

ClearOwned(t) ==
    /\ At(t, "clear_owned")
    /\ owned' = {}
    /\ Step(t, "clear_l1")
    /\ UNCHANGED <<map, fresh, aged, l1, behind, config, routing, history, writer, carried>>

\* Mutant: clear bumps no generation.
ClearL1Own(t) ==
    /\ At(t, "clear_l1")
    /\ l1' = [l1 EXCEPT ![t] = L1Empty]
    /\ Step(t, "restore")
    /\ UNCHANGED <<shared, behind, config, routing, history, writer, carried>>

ClearL1(t) ==
    /\ At(t, "clear_l1")
    /\ L1Clear(t)
    /\ Step(t, "restore")
    /\ UNCHANGED <<shared, config, routing, late, missed, struck, writer, carried>>

\* ... and the copies go back, one by one.
Restore(t) ==
    /\ At(t, "restore")
    /\ \E r \in op[t].saved :
           /\ fresh' = fresh \cup {r.key}
           /\ owned' = owned \cup {r.key}
           /\ map' = [map EXCEPT ![r.key] = Entry("permanent", r.val)]
           /\ op' = [op EXCEPT ![t].saved = @ \ {r}]
           /\ Shadows(t, r.key)
    /\ UNCHANGED <<aged, l1, behind, config, routing, late, missed, struck, writer, carried>>

ClearDone(t) ==
    /\ At(t, "restore") /\ op[t].saved = {}
    /\ Goto(t, Idle)
    /\ UNCHANGED <<shared, l1, behind, config, routing, history, writer, carried>>

(***************************************************************************)
(* Eviction (evict_by_strategy): candidates are picked in one walk; any    *)
(* choice stands for the scores                                            *)
(***************************************************************************)

Candidates == {k \in Keys : map[k].kind = "cached" /\ ~map[k].marked}

\* The worker finds the cache full, or insert_permanent does; there is no telling
\* when, so it is a choice.  The walk takes one entry at a time; what is said below
\* is said of one key at a time, for which it is one step.
EvictWalk(t) ==
    /\ Starts(t, "evict") \/ ("evict" \in Ops /\ At(t, "insert_room"))
    /\ \E urgent \in SUBSET Candidates :
       \E scored \in SUBSET (Candidates \ urgent) :
           Goto(t, [at |-> "evict", urgent |-> urgent, scored |-> scored,
                    retain |-> urgent # {}, caller |-> op[t]])
    /\ UNCHANGED <<shared, l1, behind, config, routing, history, writer, carried>>

\* Marks whatever the key of an urgent candidate holds by now ...
EvictMark(t) ==
    /\ At(t, "evict")
    /\ \E k \in op[t].urgent :
           /\ map' = [map EXCEPT ![k].marked = @ \/ Held(k)]
           /\ op' = [op EXCEPT ![t].urgent = @ \ {k}]
           /\ Strikes(k)
    /\ UNCHANGED <<owned, fresh, aged, l1, behind, config, routing, late, missed, shadowed, writer,
                   carried>>

\* ... then removes whatever the key of a scored one holds ...
EvictRemove(t) ==
    /\ At(t, "evict") /\ op[t].urgent = {}
    /\ \E k \in op[t].scored :
           /\ map' = [map EXCEPT ![k] = Vacant]
           /\ op' = [op EXCEPT ![t].scored = @ \ {k}]
           /\ Strikes(k)
    /\ UNCHANGED <<owned, fresh, aged, l1, behind, config, routing, late, missed, shadowed, writer,
                   carried>>

\* ... and, if it marked any, everything marked.
EvictRetain(t) ==
    /\ At(t, "evict") /\ op[t].urgent = {} /\ op[t].scored = {}
    /\ map' = IF op[t].retain THEN [k \in Keys |-> IF map[k].marked THEN Vacant ELSE map[k]] ELSE map
    /\ Goto(t, IF op[t].caller = Idle THEN Idle ELSE [op[t].caller EXCEPT !.at = "insert_map"])
    /\ UNCHANGED <<owned, fresh, aged, l1, behind, config, routing, history, writer, carried>>

(***************************************************************************)
(* rotate_bloom                                                            *)
(***************************************************************************)

\* The period is minutes: no store or insert is between its bloom.set and its
\* map write for two rotations, and rotations do not overlap.
RotateClear(t) ==
    /\ Starts(t, "rotate") /\ carried = {}
    /\ \A u \in Threads : op[u].at \notin {"flip", "reseed"}
    /\ aged' = {}
    /\ Goto(t, [at |-> "flip"])
    /\ UNCHANGED <<map, owned, fresh, l1, behind, config, routing, history, writer, carried>>

RotateFlip(t) ==
    /\ At(t, "flip")
    /\ aged' = fresh /\ fresh' = {}
    /\ carried' = {u \in Threads : BloomSet(u)}
    /\ Goto(t, [at |-> "reseed", todo |-> Keys])
    /\ UNCHANGED <<map, owned, l1, behind, config, routing, history, writer>>

\* Mutant: only the registry's names are put back.
ReseedOwned(t) ==
    /\ At(t, "reseed")
    /\ fresh' = fresh \cup owned
    /\ Goto(t, Idle)
    /\ UNCHANGED <<map, owned, aged, l1, behind, config, routing, history, writer, carried>>

\* Every entry the map holds unmarked is put back ...
Reseed(t) ==
    /\ At(t, "reseed")
    /\ \E k \in op[t].todo :
           /\ fresh' = IF Held(k) /\ ~map[k].marked THEN fresh \cup {k} ELSE fresh
           /\ op' = [op EXCEPT ![t].todo = @ \ {k}]
    /\ UNCHANGED <<map, owned, aged, l1, behind, config, routing, history, writer, carried>>

\* ... then the registry's names.
ReseedDone(t) ==
    /\ At(t, "reseed") /\ op[t].todo = {}
    /\ fresh' = fresh \cup owned
    /\ Goto(t, Idle)
    /\ UNCHANGED <<map, owned, aged, l1, behind, config, routing, history, writer, carried>>

(***************************************************************************)
(* Specification                                                           *)
(***************************************************************************)

Get(t)    == (\E k \in Keys : GetL1(t, k) \/ L1Lapse(t, k)) \/ GetMap(t)
Store(t)  == \/ \E k \in UpstreamKeys : Resolve(t, k) \/ Renew(t, k)
             \/ StoreBloom(t) \/ StoreMap(t) \/ StoreL1(t)
             \/ RenewKept(t) \/ RenewStore(t) \/ RenewBogus(t) \/ BogusL1(t)
Local(t)  == \/ \E k \in LocalKeys, v \in Addresses \cup {NoAnswer} : Edit(t, k, v)
             \/ \E k, j \in LocalKeys : Rename(t, k, j)
             \/ Remove(t) \/ RemoveL1(t)
             \/ InsertBloom(t) \/ InsertRoom(t) \/ InsertMap(t) \/ InsertL1(t)
Clear(t)  == \/ \E r \in Routings : Reload(t, r)
             \/ ClearSave(t) \/ ClearMap(t) \/ ClearBloom(t) \/ ClearOwned(t) \/ ClearL1(t)
             \/ Restore(t) \/ ClearDone(t)
Evict(t)  == EvictWalk(t) \/ EvictMark(t) \/ EvictRemove(t) \/ EvictRetain(t)
Rotate(t) == RotateClear(t) \/ RotateFlip(t) \/ Reseed(t) \/ ReseedDone(t)

Next ==
    /\ \/ \E k \in Keys : Expire(k)
       \/ \E t \in Threads : Get(t) \/ Store(t) \/ Local(t) \/ Clear(t) \/ Evict(t) \/ Rotate(t)
    /\ UNCHANGED traffic

Spec == Init /\ [][Next]_<<vars, traffic>>

(***************************************************************************)
(* Properties                                                              *)
(***************************************************************************)

Answers == Addresses \cup Routings \cup {NoAnswer}

TypeOK ==
    /\ map \in [Keys -> [kind : {"vacant", "cached", "permanent"}, val : Answers,
                         marked : BOOLEAN]]
    /\ owned \subseteq LocalKeys
    /\ fresh \subseteq Keys /\ aged \subseteq Keys
    /\ l1 \in [Threads -> [Keys -> Answers]]
    /\ behind \subseteq Threads /\ carried \subseteq Threads
    /\ config \in [LocalKeys -> Addresses \cup {NoAnswer}]
    /\ routing \in Routings /\ late \subseteq Keys /\ missed \subseteq Keys
    /\ struck \subseteq Keys /\ shadowed \subseteq Keys
    /\ writer \in Threads \cup {NoThread}

\* No operation is half way.
Quiet == \A t \in Threads : op[t] = Idle

IsLocal(k) == k \in LocalKeys /\ config[k] # NoAnswer

\* A local record of the config is in the map and the registry once the
\* operations on the cache are over, and nothing else is: "local DNS records
\* live here and nothing reloads them" (storage.rs).  Three races strike a record out,
\* or leave an old one in its place (see the README): an eviction that picked the entry
\* before the record was inserted, a renewal of that entry that comes back bogus, and an
\* edit of the record while a clear holds its copy or empties the cache under it.
RecordsHeld ==
    Quiet => \A k \in LocalKeys \ struck :
        /\ IsLocal(k) => map[k].kind = "permanent" /\ map[k].val = config[k]
        /\ k \in owned <=> IsLocal(k)
        /\ ~IsLocal(k) => ~Permanent(k)

\* No thread's L1 answers for a local name with anything but its record:
\* "Removing first also retires the old answer from every thread's L1"
\* (LiveRecordSinks::refresh), and an upstream answer "must not replace it, here
\* or in L1" (store).  Until the next l1_clear, an upstream answer shadows the record if
\* another thread had it in its L1, or on its way there, when the record was inserted.
LocalAnswersEverywhere ==
    Quiet => \A k \in LocalKeys \ struck, t \in Threads \ behind :
        l1[t][k] \in IF IsLocal(k)
                     THEN {NoAnswer, config[k]} \cup (IF k \in shadowed THEN Routings ELSE {})
                     ELSE {NoAnswer} \cup Routings

\* Local records win over everything else: edits, upstream answers, renewals, evictions
\* and clears of several threads on the same name leave them in the map, the registry and
\* every L1, but for the races named above.
LocalRecordsHeld == TypeOK /\ RecordsHeld /\ LocalAnswersEverywhere

\* An answer k may be served with: the map's, or a thread's copy.
Served(k) ==
    {map[k].val} \cup {l1[t][k] : t \in Threads \ behind}

\* The cache is cleared "so an answer cached under the old routing is not served
\* after it" (UpstreamReloadAdapter): what was cached is gone from the map and every
\* thread's L1, but for the keys a query stored after the reload with an answer from
\* before it, and for a struck record's name, whose cached answer a clear puts back.
CachedRoutingForgotten ==
    Quiet => \A k \in Keys \ (late \cup struck) : Served(k) \cap Routings \subseteq {routing}

\* "The filter is an authoritative negative gate": whatever the map holds
\* unmarked, it admits, but for the time a rotation takes to come to the key
\* (rotate_bloom: "an entry nobody wrote to for two rotations stays reachable").
\* An entry stored while clear was between the map and the filter is only missed.
HeldIsAdmitted ==
    \A k \in Keys \ missed : Held(k) /\ ~map[k].marked =>
        \/ Admitted(k)
        \/ \E t \in Threads : At(t, "flip") \/ (At(t, "reseed") /\ k \in op[t].todo)

=============================================================================
