--------------------------- MODULE CacheMapProofs ---------------------------
(***************************************************************************)
(* Theorems about CacheMap, for any threads, routings, keys and traffic:   *)
(* what the bloom filter admits, which answers outlive a change of routing *)
(* and where the local records are.                                        *)
(***************************************************************************)
EXTENDS CacheMap, TLAPS

(***************************************************************************)
(* Types                                                                   *)
(***************************************************************************)

Records == [kind : {"vacant", "cached", "permanent"}, val : Answers, marked : BOOLEAN]

\* What a thread carries from step to step of an operation.
LocalSteps == {"remove", "remove_l1", "insert_bloom", "insert_room", "insert_map", "insert_l1"}
StoreSteps == {"store_bloom", "store_map", "store_l1", "renew"}

ProbeOps  == [at : {"probe"}, key : Keys]
StoreOps  == [at : StoreSteps, key : UpstreamKeys, via : Routings]
LocalOps  == [at : LocalSteps, key : LocalKeys, then : SUBSET LocalKeys]
ClearOps  == [at : ClearSteps \ {"clear_save"}, saved : SUBSET [key : LocalKeys, val : Answers]]
EvictOps  == [at : {"evict"}, urgent : SUBSET Keys, scored : SUBSET Keys, retain : BOOLEAN,
              caller : {Idle} \cup LocalOps]
RotateOps == [at : {"reseed"}, todo : SUBSET Keys]
BareOps   == [at : {"idle", "clear_save", "flip", "bogus_l1"}]

Steps ==
    BareOps \cup ProbeOps \cup StoreOps \cup LocalOps \cup ClearOps \cup EvictOps \cup RotateOps

Typed ==
    /\ traffic \in Traffics
    /\ TypeOK
    /\ op \in [Threads -> Steps]
    /\ \A t \in Threads : At(t, "evict") => op[t].caller = Idle \/ op[t].caller.at = "insert_room"

\* The assumptions on the traffic a behaviour starts with.
LEMMA TrafficFacts ==
    ASSUME traffic \in Traffics
    PROVE  /\ LocalKeys \subseteq Keys /\ UpstreamKeys \subseteq Keys
           /\ Routings \cap Addresses = {} /\ NoAnswer \notin Addresses /\ NoAnswer \notin Routings
           /\ Preloaded \in Addresses /\ Ops \subseteq AllOps
BY CacheMapAssumption DEF LocalKeys, UpstreamKeys, Keys, Addresses, Ops

\* The traffic of a behaviour stays the same.
LEMMA TrafficStays ==
    ASSUME UNCHANGED traffic
    PROVE  /\ Keys' = Keys /\ LocalKeys' = LocalKeys /\ UpstreamKeys' = UpstreamKeys
           /\ Addresses' = Addresses /\ Ops' = Ops /\ Answers' = Answers
           /\ Records' = Records /\ Steps' = Steps
<1>1. /\ Keys' = Keys /\ LocalKeys' = LocalKeys /\ UpstreamKeys' = UpstreamKeys
      /\ Addresses' = Addresses /\ Ops' = Ops
  BY DEF LocalKeys, UpstreamKeys, Keys, Addresses, Ops
<1>2. Answers' = Answers
  BY <1>1 DEF Answers
<1>3. Records' = Records
  BY <1>2 DEF Records
<1>4. /\ ProbeOps' = ProbeOps /\ StoreOps' = StoreOps /\ LocalOps' = LocalOps
      /\ ClearOps' = ClearOps /\ RotateOps' = RotateOps /\ BareOps' = BareOps
  BY <1>1, <1>2 DEF ProbeOps, StoreOps, LocalOps, ClearOps, RotateOps, BareOps
<1>5. EvictOps' = EvictOps
  BY <1>1, <1>4 DEF EvictOps
<1> QED BY <1>1, <1>2, <1>3, <1>4, <1>5 DEF Steps

\* What a thread carries at each step.
LEMMA StepFacts ==
    ASSUME NEW x \in Steps
    PROVE  /\ x.at = "idle" => x = Idle
           /\ x.at = "probe" => x \in ProbeOps /\ x.key \in Keys
           /\ x.at \in StoreSteps =>
                  x \in StoreOps /\ x.key \in UpstreamKeys /\ x.via \in Routings
           /\ x.at \in LocalSteps => x \in LocalOps /\ x.key \in LocalKeys
                                     /\ x.then \in SUBSET LocalKeys
           /\ x.at \in ClearSteps \ {"clear_save"} =>
                  x \in ClearOps /\ x.saved \in SUBSET [key : LocalKeys, val : Answers]
           /\ x.at = "evict" => x \in EvictOps /\ x.urgent \in SUBSET Keys
                                /\ x.scored \in SUBSET Keys /\ x.caller \in {Idle} \cup LocalOps
           /\ x.at = "reseed" => x \in RotateOps /\ x.todo \in SUBSET Keys
<1>1. x.at = "idle" => x = Idle
  BY DEF Steps, ProbeOps, StoreOps, LocalOps, ClearOps, EvictOps, RotateOps, BareOps,
      LocalSteps, StoreSteps, ClearSteps, Idle
<1>2. x.at = "probe" => x \in ProbeOps /\ x.key \in Keys
  BY DEF Steps, ProbeOps, StoreOps, LocalOps, ClearOps, EvictOps, RotateOps, BareOps,
      LocalSteps, StoreSteps, ClearSteps
<1>3. x.at \in StoreSteps =>
          x \in StoreOps /\ x.key \in UpstreamKeys /\ x.via \in Routings
  BY DEF Steps, ProbeOps, StoreOps, LocalOps, ClearOps, EvictOps, RotateOps, BareOps,
      LocalSteps, StoreSteps, ClearSteps
<1>4. x.at \in LocalSteps => x \in LocalOps /\ x.key \in LocalKeys /\ x.then \in SUBSET LocalKeys
  BY DEF Steps, ProbeOps, StoreOps, LocalOps, ClearOps, EvictOps, RotateOps, BareOps,
      LocalSteps, StoreSteps, ClearSteps
<1>5. x.at \in ClearSteps \ {"clear_save"} =>
          x \in ClearOps /\ x.saved \in SUBSET [key : LocalKeys, val : Answers]
  BY DEF Steps, ProbeOps, StoreOps, LocalOps, ClearOps, EvictOps, RotateOps, BareOps,
      LocalSteps, StoreSteps, ClearSteps
<1>6. x.at = "evict" => x \in EvictOps /\ x.urgent \in SUBSET Keys
                        /\ x.scored \in SUBSET Keys /\ x.caller \in {Idle} \cup LocalOps
  BY DEF Steps, ProbeOps, StoreOps, LocalOps, ClearOps, EvictOps, RotateOps, BareOps,
      LocalSteps, StoreSteps, ClearSteps
<1>7. x.at = "reseed" => x \in RotateOps /\ x.todo \in SUBSET Keys
  BY DEF Steps, ProbeOps, StoreOps, LocalOps, ClearOps, EvictOps, RotateOps, BareOps,
      LocalSteps, StoreSteps, ClearSteps
<1> QED BY <1>1, <1>2, <1>3, <1>4, <1>5, <1>6, <1>7

\* A thread that goes on to another step keeps what it carries.
LEMMA StepMoves ==
    ASSUME op \in [Threads -> Steps], NEW t \in Threads, NEW label, Step(t, label)
    PROVE  /\ DOMAIN op' = Threads
           /\ \A u \in Threads \ {t} : op'[u] = op[u]
           /\ op[t] \in StoreOps /\ label \in StoreSteps =>
                  /\ op'[t] \in StoreOps /\ op' \in [Threads -> Steps]
                  /\ op'[t].at = label /\ op'[t].key = op[t].key /\ op'[t].via = op[t].via
           /\ op[t] \in LocalOps /\ label \in LocalSteps =>
                  /\ op'[t] \in LocalOps /\ op' \in [Threads -> Steps]
                  /\ op'[t].at = label /\ op'[t].key = op[t].key /\ op'[t].then = op[t].then
           /\ op[t] \in ClearOps /\ label \in ClearSteps \ {"clear_save"} =>
                  /\ op'[t] \in ClearOps /\ op' \in [Threads -> Steps]
                  /\ op'[t].at = label /\ op'[t].saved = op[t].saved
<1>1. op' = [op EXCEPT ![t] = [op[t] EXCEPT !.at = label]]
  BY DEF Step
<1>2. op[t] \in StoreOps /\ label \in StoreSteps =>
          /\ [op[t] EXCEPT !.at = label] \in StoreOps
          /\ [op[t] EXCEPT !.at = label].at = label
          /\ [op[t] EXCEPT !.at = label].key = op[t].key
          /\ [op[t] EXCEPT !.at = label].via = op[t].via
  BY DEF StoreOps
<1>3. op[t] \in LocalOps /\ label \in LocalSteps =>
          /\ [op[t] EXCEPT !.at = label] \in LocalOps
          /\ [op[t] EXCEPT !.at = label].at = label
          /\ [op[t] EXCEPT !.at = label].key = op[t].key
          /\ [op[t] EXCEPT !.at = label].then = op[t].then
  BY DEF LocalOps
<1>4. op[t] \in ClearOps /\ label \in ClearSteps \ {"clear_save"} =>
          /\ [op[t] EXCEPT !.at = label] \in ClearOps
          /\ [op[t] EXCEPT !.at = label].at = label
          /\ [op[t] EXCEPT !.at = label].saved = op[t].saved
  BY DEF ClearOps
<1>5. StoreOps \subseteq Steps /\ LocalOps \subseteq Steps /\ ClearOps \subseteq Steps
  BY DEF Steps
<1> DEFINE x == [op[t] EXCEPT !.at = label]
<1> HIDE DEF x
<1>6. op' = [op EXCEPT ![t] = x]
  BY <1>1 DEF x
<1>7. DOMAIN op' = Threads /\ (\A u \in Threads \ {t} : op'[u] = op[u]) /\ op'[t] = x
  BY <1>6
<1>8. x \in Steps => op' \in [Threads -> Steps]
  BY <1>6
<1> QED BY <1>2, <1>3, <1>4, <1>5, <1>7, <1>8 DEF x

\* A thread that starts on something else carries that.
LEMMA GotoMoves ==
    ASSUME op \in [Threads -> Steps], NEW t \in Threads, NEW x \in Steps, Goto(t, x)
    PROVE  /\ op' \in [Threads -> Steps] /\ op'[t] = x
           /\ \A u \in Threads \ {t} : op'[u] = op[u]
BY DEF Goto

\* What may be gone to.
LEMMA MakesSteps ==
    /\ Idle \in Steps /\ Idle.at = "idle"
    /\ \A l \in {"clear_save", "flip", "bogus_l1"} : [at |-> l] \in Steps /\ [at |-> l].at = l
    /\ \A k \in Keys : [at |-> "probe", key |-> k] \in Steps
    /\ \A l \in {"store_bloom", "renew"}, k \in UpstreamKeys, r \in Routings :
           [at |-> l, key |-> k, via |-> r] \in Steps
    /\ \A k \in LocalKeys, rest \in SUBSET LocalKeys :
           [at |-> "remove", key |-> k, then |-> rest] \in Steps
    /\ \A saved \in SUBSET [key : LocalKeys, val : Answers] :
           [at |-> "clear_map", saved |-> saved] \in Steps
    /\ \A todo \in SUBSET Keys : [at |-> "reseed", todo |-> todo] \in Steps
<1>1. Idle \in BareOps /\ Idle.at = "idle"
      /\ \A l \in {"clear_save", "flip", "bogus_l1"} : [at |-> l] \in BareOps /\ [at |-> l].at = l
  BY DEF BareOps, Idle
<1>2. \A k \in Keys : [at |-> "probe", key |-> k] \in ProbeOps
  BY DEF ProbeOps
<1>3. \A l \in {"store_bloom", "renew"}, k \in UpstreamKeys, r \in Routings :
          [at |-> l, key |-> k, via |-> r] \in StoreOps
  BY DEF StoreOps, StoreSteps
<1>4. \A k \in LocalKeys, rest \in SUBSET LocalKeys :
          [at |-> "remove", key |-> k, then |-> rest] \in LocalOps
  BY DEF LocalOps, LocalSteps
<1>5. \A saved \in SUBSET [key : LocalKeys, val : Answers] :
          [at |-> "clear_map", saved |-> saved] \in ClearOps
  BY DEF ClearOps, ClearSteps
<1>6. \A todo \in SUBSET Keys : [at |-> "reseed", todo |-> todo] \in RotateOps
  BY DEF RotateOps
<1> QED BY <1>1, <1>2, <1>3, <1>4, <1>5, <1>6 DEF Steps

\* The end of a key's refresh: the edit is over, or goes on to the next key.
LEMMA RefreshedMoves ==
    ASSUME op \in [Threads -> Steps], NEW t \in Threads, op[t] \in LocalOps, Refreshed(t)
    PROVE  /\ op' \in [Threads -> Steps]
           /\ \A u \in Threads \ {t} : op'[u] = op[u]
           /\ \/ op[t].then = {} /\ op'[t].at = "idle" /\ writer' = NoThread
              \/ /\ \E k \in op[t].then :
                        op'[t].at = "remove" /\ op'[t].key = k /\ op'[t].then = {}
                 /\ UNCHANGED writer
<1>1. CASE op[t].then = {}
  <2>1. Goto(t, Idle) /\ writer' = NoThread
    BY <1>1 DEF Refreshed
  <2> QED BY <1>1, <2>1, GotoMoves, MakesSteps
<1>2. CASE op[t].then # {}
  <2>1. PICK k \in op[t].then :
            Goto(t, [at |-> "remove", key |-> k, then |-> {}]) /\ UNCHANGED writer
    BY <1>2 DEF Refreshed
  <2>2. k \in LocalKeys /\ {} \in SUBSET LocalKeys
    BY DEF LocalOps
  <2>3. [at |-> "remove", key |-> k, then |-> {}] \in Steps
    BY <2>2, MakesSteps
  <2> QED BY <2>1, <2>3, GotoMoves
<1> QED BY <1>1, <1>2

\* What follows a removal: the record is inserted if the config has one.
LEMMA AfterRemoveMoves ==
    ASSUME op \in [Threads -> Steps], NEW t \in Threads, op[t] \in LocalOps, AfterRemove(t)
    PROVE  /\ op' \in [Threads -> Steps]
           /\ \A u \in Threads \ {t} : op'[u] = op[u]
           /\ \/ /\ config[op[t].key] # NoAnswer /\ UNCHANGED writer
                 /\ op'[t] \in LocalOps /\ op'[t].at = "insert_bloom"
                 /\ op'[t].key = op[t].key /\ op'[t].then = op[t].then
              \/ /\ config[op[t].key] = NoAnswer
                 /\ op[t].then = {} /\ op'[t].at = "idle" /\ writer' = NoThread
              \/ /\ config[op[t].key] = NoAnswer /\ UNCHANGED writer
                 /\ \E k \in op[t].then :
                        op'[t].at = "remove" /\ op'[t].key = k /\ op'[t].then = {}
<1>1. CASE config[op[t].key] # NoAnswer
  <2>1. Step(t, "insert_bloom") /\ UNCHANGED writer
    BY <1>1 DEF AfterRemove
  <2>2. "insert_bloom" \in LocalSteps
    BY DEF LocalSteps
  <2> QED BY <1>1, <2>1, <2>2, StepMoves
<1>2. CASE config[op[t].key] = NoAnswer
  <2>1. Refreshed(t)
    BY <1>2 DEF AfterRemove
  <2> QED BY <1>2, <2>1, RefreshedMoves
<1> QED BY <1>1, <1>2

(***************************************************************************)
(* The inductive invariant: the bloom filter                               *)
(***************************************************************************)

\* Rotations take turns.
OneRotation ==
    \A t, u \in Threads :
        op[t].at \in {"flip", "reseed"} /\ op[u].at \in {"flip", "reseed"} => t = u

\* Nobody is left over from the last rotation while one is about to flip.
FlipCarriesNone == \A t \in Threads : At(t, "flip") => carried = {}

\* The key a thread has set in the filter and will write to the map.
SetKey(u) == IF At(u, "evict") THEN op[u].caller.key ELSE op[u].key

\* Such a key is admitted, but for a clear: by the active slot, or by the other one
\* for a thread a rotation has overtaken.
SetIsAdmitted ==
    \A u \in Threads : BloomSet(u) /\ SetKey(u) \notin missed =>
        SetKey(u) \in fresh \/ (SetKey(u) \in aged /\ u \in carried)

(***************************************************************************)
(* ... the routing                                                         *)
(***************************************************************************)

\* u is at an edit of a local record, or at the eviction the edit makes room with.
Editing(u) == op[u].at \in LocalSteps \/ (At(u, "evict") /\ op[u].caller # Idle)

\* Reloads take turns.
OneClear ==
    \A t, u \in Threads : op[t].at \in ClearSteps /\ op[u].at \in ClearSteps => t = u

Outdated(v) == v \in Routings \ {routing}

ClearingMap == \E t \in Threads : op[t].at \in {"clear_save", "clear_map"}
ClearingL1  == \E t \in Threads : op[t].at \in ClearSteps \ {"restore"}

\* Answers of a routing that is gone are about to be cleared: in the map, in a
\* thread's L1, and on their way there.
MapIsCurrent == \A k \in Keys \ (late \cup struck) : Outdated(map[k].val) => ClearingMap

L1IsCurrent ==
    \A t \in Threads \ behind, k \in Keys \ (late \cup struck) :
        Outdated(l1[t][k]) => ClearingL1

StoreIsCurrent ==
    \A t \in Threads : At(t, "store_l1") /\ Outdated(op[t].via) /\ op[t].key \notin late =>
        t \in behind \/ ClearingL1

BehindIsEmpty == \A t \in behind : \A k \in Keys : l1[t][k] = NoAnswer

(***************************************************************************)
(* ... and the local records                                               *)
(***************************************************************************)

EditThen(u) == IF At(u, "evict") THEN op[u].caller.then ELSE op[u].then

\* Edits take turns, come to at most two keys, to each once, and insert what the config
\* has.
OneEditor ==
    \A t \in Threads : Editing(t) =>
        /\ writer = t
        /\ SetKey(t) \notin EditThen(t)
        /\ \A j, k \in EditThen(t) : j = k
        /\ op[t].at \notin {"remove", "remove_l1"} => config[SetKey(t)] # NoAnswer

\* An edit has yet to bring the key in step with the config.
EditDue(k) ==
    \E t \in Threads : Editing(t) /\ ((k = SetKey(t) /\ ~At(t, "insert_l1")) \/ k \in EditThen(t))

\* A clear has copied the records out; k is one of them.
Holding(t)  == op[t].at \in ClearSteps \ {"clear_save"}
Saves(t, k) == \E r \in op[t].saved : r.key = k

\* A clear has emptied the map of k, and has yet to empty the registry or to put k back.
Wiped(k) ==
    \E t \in Threads :
        \/ op[t].at \in {"clear_bloom", "clear_owned"}
        \/ op[t].at \in {"clear_l1", "restore"} /\ Saves(t, k)

\* The names no race has struck.
Ours == LocalKeys \ struck

InStep(k) ==
    IF IsLocal(k) THEN Permanent(k) /\ map[k].val = config[k] ELSE ~Permanent(k)

\* Registry and map go together, and with the config, outside a clear or an edit.
RegistryInStep == \A k \in Ours : ~Wiped(k) => (k \in owned <=> Permanent(k))
RecordsInStep  == \A k \in Ours : ~EditDue(k) /\ ~Wiped(k) => InStep(k)

\* Between the clearing of the map and the restoring of k there is no record ...
WipedIsFree ==
    \A k \in Ours :
        /\ Wiped(k) => ~Permanent(k)
        /\ \A t \in Threads :
               op[t].at \in {"clear_l1", "restore"} /\ Saves(t, k) => k \notin owned

\* ... and none between an edit's removal and its insertion, nor a copy to restore.
EditedIsFree ==
    \A t \in Threads :
        Editing(t) /\ op[t].at \notin {"remove", "insert_l1"} /\ SetKey(t) \notin struck =>
            ~Permanent(SetKey(t)) /\ SetKey(t) \notin owned /\ ~ClearHolds(SetKey(t))

\* What a clear has copied out is what the config says, and all of it.
SavedInStep ==
    \A t \in Threads : Holding(t) =>
        /\ \A r, q \in op[t].saved : r.key = q.key => r = q
        /\ \A r \in op[t].saved : r.key \notin struck =>
               r.val \in Addresses /\ (~EditDue(r.key) => r.val = config[r.key])
        /\ op[t].at \in {"clear_map", "clear_bloom", "clear_owned"} =>
               \A k \in Ours : k \in owned \/ (~EditDue(k) /\ IsLocal(k)) => Saves(t, k)
        /\ At(t, "clear_map") =>
               \A k \in Ours : Permanent(k) => [key |-> k, val |-> map[k].val] \in op[t].saved

\* A cached answer is an upstream's, a record the operator's and unmarked.
Kinds ==
    \A k \in Keys :
        /\ map[k].kind = "cached" => map[k].val \in Routings
        /\ Permanent(k) => k \in LocalKeys
        /\ k \in Ours /\ Permanent(k) => map[k].val \in Addresses /\ map[k].marked = FALSE

LocalInv ==
    RegistryInStep /\ RecordsInStep /\ WipedIsFree /\ EditedIsFree /\ SavedInStep /\ Kinds

\* A copy of a record is of one in the map, of one a clear will put back, or about to be
\* retired by the edit that removed it.
CopiesInStep ==
    \A k \in Ours, t \in Threads \ behind : l1[t][k] \in Addresses =>
        \/ Permanent(k) /\ map[k].val = l1[t][k]
        \/ \E u \in Threads : Holding(u) /\ [key |-> k, val |-> l1[t][k]] \in op[u].saved
        \/ \E u \in Threads : At(u, "remove_l1") /\ op[u].key = k

\* Where there is a record no L1 has an upstream answer, but for the editor's own, which
\* it is about to replace.
NoneAstray ==
    \A k \in Ours \ shadowed, u \in Threads \ behind : Permanent(k) =>
        /\ l1[u][k] \in Routings => At(u, "insert_l1") /\ op[u].key = k
        /\ ~(At(u, "store_l1") /\ op[u].key = k)

\* The thread that restores has looked nothing up since it cleared its L1.
RestorerIsEmpty == \A t \in Threads : At(t, "restore") => \A k \in Keys : l1[t][k] = NoAnswer

CopyInv == CopiesInStep /\ NoneAstray /\ RestorerIsEmpty

CacheInv ==
    /\ Typed
    /\ OneRotation /\ FlipCarriesNone /\ SetIsAdmitted /\ HeldIsAdmitted
    /\ OneClear /\ OneEditor
    /\ MapIsCurrent /\ L1IsCurrent /\ StoreIsCurrent /\ BehindIsEmpty
    /\ LocalInv /\ CopyInv

(***************************************************************************)
(* CacheInv is inductive                                                   *)
(***************************************************************************)

\* What L1Put leaves.
LEMMA PutFacts ==
    ASSUME l1 \in [Threads -> [Keys -> Answers]], NEW t \in Threads, NEW k \in Keys,
           NEW v \in Answers, L1Put(t, k, v)
    PROVE  /\ l1' \in [Threads -> [Keys -> Answers]]
           /\ \A u \in Threads, j \in Keys :
                  l1'[u][j] = IF u = t /\ j = k /\ t \notin behind THEN v ELSE l1[u][j]
BY DEF L1Put

\* An edit's key is one the operator may edit, and so are the ones it comes to next.
LEMMA EditKeys ==
    ASSUME Typed, NEW t \in Threads, Editing(t)
    PROVE  SetKey(t) \in LocalKeys /\ EditThen(t) \subseteq LocalKeys
<1>1. CASE op[t].at \in LocalSteps
  BY <1>1, StepFacts DEF Typed, SetKey, EditThen, LocalSteps, At
<1>2. CASE At(t, "evict") /\ op[t].caller # Idle
  <2>1. op[t].caller \in LocalOps
    BY <1>2, StepFacts DEF Typed, At
  <2> QED BY <1>2, <2>1 DEF LocalOps, SetKey, EditThen
<1> QED BY <1>1, <1>2 DEF Editing

\* Only one thread edits.
LEMMA SoleEditor ==
    ASSUME CacheInv
    PROVE  /\ \A t, u \in Threads : Editing(t) /\ Editing(u) => t = u
           /\ writer = NoThread => \A t \in Threads : ~Editing(t)
BY CacheMapAssumption DEF CacheInv, OneEditor

\* Only one thread clears.
LEMMA SoleClearer ==
    ASSUME CacheInv
    PROVE  /\ \A t, u \in Threads : Holding(t) /\ Holding(u) => t = u
           /\ \A t \in Threads : Holding(t) => \A k \in LocalKeys :
                  /\ ClearHolds(k) <=> Saves(t, k)
                  /\ Wiped(k) <=> \/ op[t].at \in {"clear_bloom", "clear_owned"}
                                  \/ op[t].at \in {"clear_l1", "restore"} /\ Saves(t, k)
           /\ (\A t \in Threads : ~Holding(t)) => \A k \in LocalKeys : ~Wiped(k) /\ ~ClearHolds(k)
           /\ \A t \in Threads : Holding(t) => ~Editing(t)
<1>1. \A t, u \in Threads : Holding(t) /\ Holding(u) => t = u
  BY DEF CacheInv, OneClear, Holding
<1>2. \A t \in Threads : op[t].at \in {"clear_bloom", "clear_owned", "clear_l1", "restore"} => Holding(t)
  BY DEF Holding, ClearSteps
<1>3. \A t \in Threads : Holding(t) => ~Editing(t)
  BY DEF Holding, ClearSteps, Editing, LocalSteps, At
<1> QED BY <1>1, <1>2, <1>3 DEF ClearHolds, Wiped, Saves, Holding

\* What an edit leaves of the clear.
LEMMA ClearStays ==
    ASSUME CacheInv, \A u \in Threads : op'[u] = op[u] \/ (~Holding(u) /\ ~Holding(u)')
    PROVE  /\ \A u \in Threads : (Holding(u)' <=> Holding(u)) /\ (Holding(u) => op'[u] = op[u])
           /\ \A k \in LocalKeys : (Wiped(k)' <=> Wiped(k)) /\ (ClearHolds(k)' <=> ClearHolds(k))
           /\ ClearTakes' <=> ClearTakes
<1>1. \A u \in Threads : (Holding(u)' <=> Holding(u)) /\ (Holding(u) => op'[u] = op[u])
  BY DEF Holding
<1>2. /\ \A u \in Threads : op[u].at \in {"clear_map", "clear_bloom", "clear_owned", "clear_l1", "restore"}
             <=> Holding(u)
      /\ \A u \in Threads : op'[u].at \in {"clear_map", "clear_bloom", "clear_owned", "clear_l1", "restore"}
             <=> Holding(u)'
  BY DEF Holding, ClearSteps
<1>3. \A k \in LocalKeys : Wiped(k)' <=> Wiped(k)
  BY <1>1, <1>2 DEF Wiped, Saves
<1>4. \A k \in LocalKeys : ClearHolds(k)' <=> ClearHolds(k)
  BY <1>1 DEF ClearHolds, Holding
<1>5. ClearTakes' <=> ClearTakes
  BY <1>1, <1>2 DEF ClearTakes
<1> QED BY <1>1, <1>3, <1>4, <1>5

\* What a clear leaves of the edit.
LEMMA EditsStay ==
    ASSUME CacheInv,
           \A u \in Threads :
               \/ op'[u] = op[u] \/ (~Editing(u) /\ ~Editing(u)')
               \/ /\ Editing(u) /\ Editing(u)'
                  /\ SetKey(u)' = SetKey(u) /\ EditThen(u)' = EditThen(u)
                  /\ op[u].at \notin {"remove", "insert_l1"}
                  /\ op'[u].at \notin {"remove", "insert_l1"}
    PROVE  /\ \A u \in Threads : /\ Editing(u)' <=> Editing(u)
                                 /\ Editing(u) => SetKey(u)' = SetKey(u) /\ EditThen(u)' = EditThen(u)
                                 /\ op'[u].at \in {"remove", "insert_l1"} <=>
                                        op[u].at \in {"remove", "insert_l1"}
           /\ \A k \in LocalKeys : EditDue(k)' <=> EditDue(k)
<1>1. \A u \in Threads :
          /\ Editing(u)' <=> Editing(u)
          /\ Editing(u) => SetKey(u)' = SetKey(u) /\ EditThen(u)' = EditThen(u)
          /\ Editing(u) => (At(u, "insert_l1")' <=> At(u, "insert_l1"))
  BY DEF Editing, SetKey, EditThen, At
<1>2. \A u \in Threads : /\ op[u].at \in {"remove", "insert_l1"} => Editing(u)
                         /\ op'[u].at \in {"remove", "insert_l1"} => Editing(u)'
  BY DEF Editing, LocalSteps
<1>3. \A u \in Threads : op'[u].at \in {"remove", "insert_l1"} <=> op[u].at \in {"remove", "insert_l1"}
  BY <1>2
<1>4. \A k \in LocalKeys : EditDue(k)' <=> EditDue(k)
  BY <1>1 DEF EditDue
<1> QED BY <1>1, <1>3, <1>4

\* The records and the registry of the names that are not struck stay, but for what a
\* clear is about to empty of the registry.
SameRecords ==
    \A k \in LocalKeys \ struck' :
        /\ k \notin struck
        /\ k \in owned' => k \in owned
        /\ k \in owned => k \in owned' \/ Wiped(k)
        /\ Permanent(k)' <=> Permanent(k)
        /\ Permanent(k) => map'[k] = map[k]

\* u is at no edit and has nothing to put back.
Aside(u) == ~Editing(u) /\ (Holding(u) => At(u, "restore") /\ op[u].saved = {})

\* What keeps the stage of every edit and clear.
SameStages ==
    \A u \in Threads :
        \/ op'[u] = op[u]
        \/ Aside(u) /\ Aside(u)'
        \/ /\ Editing(u) /\ Editing(u)'
           /\ SetKey(u)' = SetKey(u) /\ EditThen(u)' = EditThen(u)
           /\ op[u].at \notin {"remove", "insert_l1"}
           /\ op'[u].at \notin {"remove", "insert_l1"}
           /\ ~At(u, "remove_l1")
        \/ /\ Holding(u) /\ Holding(u)' /\ op'[u].saved = op[u].saved
           /\ \E pair \in {{"clear_bloom", "clear_owned"}, {"clear_l1", "restore"}} :
                  op[u].at \in pair /\ op'[u].at \in pair

\* A stage that is kept.
LEMMA StagesStay ==
    ASSUME CacheInv, SameStages
    PROVE  /\ \A k \in LocalKeys : (Wiped(k)' <=> Wiped(k)) /\ (ClearHolds(k)' <=> ClearHolds(k))
                                   /\ (EditDue(k)' <=> EditDue(k))
           /\ \A u \in Threads : /\ Editing(u)' <=> Editing(u)
                                 /\ Editing(u) => SetKey(u)' = SetKey(u)
                                 /\ Editing(u)' => (op'[u].at \in {"remove", "insert_l1"} <=>
                                        op[u].at \in {"remove", "insert_l1"})
           /\ \A u \in Threads : Holding(u)' =>
                  \/ /\ Holding(u) /\ op'[u].saved = op[u].saved
                     /\ op'[u].at \in {"clear_map"} <=> op[u].at \in {"clear_map"}
                     /\ op'[u].at \in {"clear_bloom", "clear_owned"} <=>
                            op[u].at \in {"clear_bloom", "clear_owned"}
                     /\ op'[u].at \in {"clear_l1", "restore"} <=> op[u].at \in {"clear_l1", "restore"}
                  \/ op'[u].saved = {} /\ op'[u].at = "restore"
           /\ \A u \in Threads : Holding(u) /\ op[u].saved # {} =>
                  Holding(u)' /\ op'[u].saved = op[u].saved
           /\ \A u \in Threads : At(u, "remove_l1") => op'[u] = op[u]
<1>0. /\ \A u \in Threads : Holding(u) <=> op[u].at \in
             {"clear_map", "clear_bloom", "clear_owned", "clear_l1", "restore"}
      /\ \A u \in Threads : Holding(u)' <=> op'[u].at \in
             {"clear_map", "clear_bloom", "clear_owned", "clear_l1", "restore"}
  BY DEF Holding, ClearSteps
<1>1. \A u \in Threads : (Holding(u) => ~Editing(u)) /\ (Holding(u)' => ~Editing(u)')
  BY <1>0 DEF Editing, LocalSteps, At
<1>2. /\ \A u \in Threads : Holding(u)' =>
             \/ /\ Holding(u) /\ op'[u].saved = op[u].saved
                /\ op'[u].at \in {"clear_map"} <=> op[u].at \in {"clear_map"}
                /\ op'[u].at \in {"clear_bloom", "clear_owned"} <=>
                       op[u].at \in {"clear_bloom", "clear_owned"}
                /\ op'[u].at \in {"clear_l1", "restore"} <=> op[u].at \in {"clear_l1", "restore"}
             \/ op'[u].saved = {} /\ op'[u].at = "restore"
  BY <1>0, <1>1 DEF SameStages, Aside, At
<1>3. /\ \A u \in Threads : Holding(u) =>
             \/ /\ Holding(u)' /\ op'[u].saved = op[u].saved
                /\ op'[u].at \in {"clear_map"} <=> op[u].at \in {"clear_map"}
                /\ op'[u].at \in {"clear_bloom", "clear_owned"} <=>
                       op[u].at \in {"clear_bloom", "clear_owned"}
                /\ op'[u].at \in {"clear_l1", "restore"} <=> op[u].at \in {"clear_l1", "restore"}
             \/ op[u].saved = {} /\ op[u].at = "restore"
  BY <1>0, <1>1 DEF SameStages, Aside, At
<1>4. \A k \in LocalKeys : Wiped(k)' <=> Wiped(k)
  BY <1>0, <1>2, <1>3 DEF Wiped, Saves
<1>5. \A k \in LocalKeys : ClearHolds(k)' <=> ClearHolds(k)
  BY <1>2, <1>3 DEF ClearHolds, Holding
<1>6. \A u \in Threads :
           \/ op'[u] = op[u] \/ (~Editing(u) /\ ~Editing(u)')
           \/ /\ Editing(u) /\ Editing(u)'
              /\ SetKey(u)' = SetKey(u) /\ EditThen(u)' = EditThen(u)
              /\ op[u].at \notin {"remove", "insert_l1"}
              /\ op'[u].at \notin {"remove", "insert_l1"}
  BY <1>1 DEF SameStages, Aside
<1>7. \A u \in Threads : At(u, "remove_l1") => op'[u] = op[u]
  <2>1. \A u \in Threads : At(u, "remove_l1") => Editing(u)
    BY DEF Editing, LocalSteps, At
  <2> QED BY <1>1, <2>1 DEF SameStages, Aside
<1> QED BY <1>2, <1>3, <1>4, <1>5, <1>6, <1>7, EditsStay

\* Steps that leave the records, the registry, the config and every edit and clear as
\* they are.
LEMMA LocalsStay ==
    ASSUME CacheInv, UNCHANGED <<traffic, config>>, SameRecords, SameStages
    PROVE  RegistryInStep' /\ RecordsInStep' /\ WipedIsFree' /\ EditedIsFree' /\ SavedInStep'
<1>0. LocalKeys' = LocalKeys /\ Addresses' = Addresses /\ Ours' = LocalKeys \ struck'
  BY TrafficStays DEF Ours
<1>1. \A k \in Ours' : /\ k \in Ours /\ k \in LocalKeys
                       /\ k \in owned' => k \in owned
                       /\ k \in owned => k \in owned' \/ Wiped(k)
                       /\ Permanent(k)' <=> Permanent(k)
                       /\ Permanent(k) => map'[k] = map[k]
                       /\ IsLocal(k)' <=> IsLocal(k)
  BY <1>0 DEF SameRecords, Ours, IsLocal
<1>2. \A k \in Ours' : InStep(k)' <=> InStep(k)
  BY <1>1 DEF InStep
<1>3. RegistryInStep'
  BY <1>1, StagesStay DEF CacheInv, LocalInv, RegistryInStep
<1>4. RecordsInStep'
  BY <1>1, <1>2, StagesStay DEF CacheInv, LocalInv, RecordsInStep
<1>5. WipedIsFree'
  <2>1. \A k \in Ours' : Wiped(k)' => ~Permanent(k)'
    BY <1>1, StagesStay DEF CacheInv, LocalInv, WipedIsFree
  <2>2. \A t \in Threads : op'[t].at \in {"clear_l1", "restore"} => Holding(t)'
    BY DEF Holding, ClearSteps
  <2>3. ASSUME NEW k \in Ours', NEW t \in Threads, op'[t].at \in {"clear_l1", "restore"},
               Saves(t, k)'
        PROVE  k \notin owned'
    <3>1. op[t].at \in {"clear_l1", "restore"} /\ Saves(t, k)
      BY <2>2, <2>3, StagesStay DEF Saves
    <3> QED BY <1>1, <3>1 DEF CacheInv, LocalInv, WipedIsFree
  <2> QED BY <2>1, <2>3 DEF WipedIsFree
<1>6. EditedIsFree'
  <2> SUFFICES ASSUME NEW t \in Threads, Editing(t)', op'[t].at \notin {"remove", "insert_l1"},
                      SetKey(t)' \notin struck'
               PROVE  /\ ~Permanent(SetKey(t))' /\ SetKey(t)' \notin owned'
                      /\ ~ClearHolds(SetKey(t))'
    BY DEF EditedIsFree
  <2>1. Editing(t) /\ SetKey(t)' = SetKey(t) /\ op[t].at \notin {"remove", "insert_l1"}
    BY StagesStay
  <2>2. SetKey(t) \in Ours'
    BY <1>0, <2>1, EditKeys DEF CacheInv
  <2>3. ~Permanent(SetKey(t)) /\ SetKey(t) \notin owned /\ ~ClearHolds(SetKey(t))
    BY <1>1, <2>1, <2>2 DEF CacheInv, LocalInv, EditedIsFree, Ours
  <2>4. PICK k \in Ours' : k = SetKey(t)
    BY <2>2
  <2>5. ~Permanent(k)' /\ k \notin owned' /\ ~ClearHolds(k)'
    BY <1>1, <2>3, <2>4, StagesStay
  <2> QED BY <2>1, <2>4, <2>5 DEF Permanent, ClearHolds
<1>7. SavedInStep'
  <2> SUFFICES ASSUME NEW t \in Threads, Holding(t)'
               PROVE  /\ \A r, q \in op'[t].saved : r.key = q.key => r = q
                      /\ \A r \in op'[t].saved : r.key \notin struck' =>
                             r.val \in Addresses /\ (~EditDue(r.key)' => r.val = config[r.key])
                      /\ op'[t].at \in {"clear_map", "clear_bloom", "clear_owned"} =>
                             \A k \in Ours' : k \in owned' \/ (~EditDue(k)' /\ IsLocal(k)') =>
                                 Saves(t, k)'
                      /\ At(t, "clear_map")' => \A k \in Ours' : Permanent(k)' =>
                             [key |-> k, val |-> map'[k].val] \in op'[t].saved
    BY <1>0 DEF SavedInStep, EditDue
  <2>1. CASE op'[t].saved = {} /\ op'[t].at = "restore"
    BY <2>1 DEF At
  <2>2. CASE /\ Holding(t) /\ op'[t].saved = op[t].saved
             /\ op'[t].at \in {"clear_map"} <=> op[t].at \in {"clear_map"}
             /\ op'[t].at \in {"clear_bloom", "clear_owned"} <=>
                    op[t].at \in {"clear_bloom", "clear_owned"}
    <3>1. op[t].saved \in SUBSET [key : LocalKeys, val : Answers]
      BY <2>2, StepFacts DEF CacheInv, Typed, Holding
    <3>2. \A r \in op[t].saved : r.key \in LocalKeys
      BY <3>1
    <3>3. \A r \in op'[t].saved : r.key \notin struck' => r.key \in Ours'
      BY <1>0, <2>2, <3>2
    <3>4. \A r \in op'[t].saved : r.key \notin struck' =>
              r.val \in Addresses /\ (~EditDue(r.key)' => r.val = config[r.key])
      BY <1>1, <2>2, <3>3, StagesStay DEF CacheInv, LocalInv, SavedInStep, Ours
    <3>5. \A k \in LocalKeys : Saves(t, k)' <=> Saves(t, k)
      BY <2>2 DEF Saves
    <3>6. op'[t].at \in {"clear_map", "clear_bloom", "clear_owned"} =>
              \A k \in Ours' : k \in owned' \/ (~EditDue(k)' /\ IsLocal(k)') => Saves(t, k)'
      BY <1>1, <2>2, <3>5, StagesStay DEF CacheInv, LocalInv, SavedInStep
    <3>7. At(t, "clear_map")' => \A k \in Ours' : Permanent(k)' =>
              [key |-> k, val |-> map'[k].val] \in op'[t].saved
      BY <1>1, <2>2 DEF CacheInv, LocalInv, SavedInStep, At
    <3>8. \A r, q \in op'[t].saved : r.key = q.key => r = q
      BY <2>2 DEF CacheInv, LocalInv, SavedInStep
    <3> QED BY <3>4, <3>6, <3>7, <3>8
  <2> QED BY <2>1, <2>2, StagesStay
<1> QED BY <1>3, <1>4, <1>5, <1>6, <1>7

\* Such steps put in an L1 nothing but what the map has, or a cached answer no record is
\* in the place of.
LEMMA CopiesStay ==
    ASSUME CacheInv, UNCHANGED traffic, SameRecords, SameStages,
           \A k \in LocalKeys : k \in shadowed => k \in shadowed',
           \A u \in Threads \ behind', k \in LocalKeys :
               \/ l1'[u][k] = NoAnswer
               \/ u \notin behind /\ l1'[u][k] = l1[u][k]
               \/ Permanent(k) /\ l1'[u][k] = map[k].val
               \/ ~Permanent(k) /\ l1'[u][k] \in Routings
               \/ u \notin behind /\ At(u, "store_l1") /\ op[u].key = k /\ l1'[u][k] \in Routings,
           \A u \in Threads \ behind' :
               /\ At(u, "store_l1")' =>
                      \/ ~Permanent(op'[u].key)
                      \/ u \notin behind /\ At(u, "store_l1") /\ op'[u].key = op[u].key
               /\ At(u, "insert_l1") => At(u, "insert_l1")' /\ op'[u].key = op[u].key
    PROVE  CopiesInStep' /\ NoneAstray'
<1>0. /\ LocalKeys' = LocalKeys /\ Addresses' = Addresses /\ Ours' = LocalKeys \ struck'
      /\ LocalKeys \subseteq Keys /\ Routings \cap Addresses = {}
      /\ NoAnswer \notin Addresses /\ NoAnswer \notin Routings
  BY TrafficStays, TrafficFacts DEF Ours, CacheInv, Typed
<1>1. \A k \in Ours' : /\ k \in Ours /\ k \in LocalKeys /\ k \in Keys
                       /\ Permanent(k)' <=> Permanent(k)
                       /\ Permanent(k) => map'[k] = map[k] /\ map[k].val \in Addresses
  BY <1>0 DEF SameRecords, Ours, CacheInv, LocalInv, Kinds
<1>2. CopiesInStep'
  <2> SUFFICES ASSUME NEW k \in Ours', NEW t \in Threads \ behind', l1'[t][k] \in Addresses
               PROVE  \/ Permanent(k)' /\ map'[k].val = l1'[t][k]
                      \/ \E u \in Threads : Holding(u)' /\ [key |-> k, val |-> l1'[t][k]] \in op'[u].saved
                      \/ \E u \in Threads : At(u, "remove_l1")' /\ op'[u].key = k
    BY <1>0 DEF CopiesInStep
  <2>1. CASE Permanent(k) /\ l1'[t][k] = map[k].val
    BY <1>1, <2>1
  <2>2. CASE t \notin behind /\ l1'[t][k] = l1[t][k]
    <3>1. \/ Permanent(k) /\ map[k].val = l1[t][k]
          \/ \E u \in Threads : Holding(u) /\ [key |-> k, val |-> l1[t][k]] \in op[u].saved
          \/ \E u \in Threads : At(u, "remove_l1") /\ op[u].key = k
      BY <1>1, <2>2 DEF CacheInv, CopyInv, CopiesInStep
    <3>2. CASE \E u \in Threads : Holding(u) /\ [key |-> k, val |-> l1[t][k]] \in op[u].saved
      BY <2>2, <3>2, StagesStay
    <3>3. CASE \E u \in Threads : At(u, "remove_l1") /\ op[u].key = k
      BY <3>3, StagesStay DEF At
    <3> QED BY <1>1, <2>2, <3>1, <3>2, <3>3
  <2> QED BY <1>0, <1>1, <2>1, <2>2
<1>3. NoneAstray'
  <2> SUFFICES ASSUME NEW k \in Ours' \ shadowed', NEW u \in Threads \ behind', Permanent(k)'
               PROVE  /\ l1'[u][k] \in Routings => At(u, "insert_l1")' /\ op'[u].key = k
                      /\ ~(At(u, "store_l1")' /\ op'[u].key = k)
    BY <1>0 DEF NoneAstray
  <2>1. k \in Ours \ shadowed /\ Permanent(k) /\ k \in LocalKeys
    BY <1>1
  <2>2. u \notin behind => /\ l1[u][k] \in Routings => At(u, "insert_l1") /\ op[u].key = k
                           /\ ~(At(u, "store_l1") /\ op[u].key = k)
    BY <2>1 DEF CacheInv, CopyInv, NoneAstray
  <2>3. ~(At(u, "store_l1")' /\ op'[u].key = k)
    BY <2>1, <2>2
  <2>4. l1'[u][k] \in Routings => At(u, "insert_l1")' /\ op'[u].key = k
    BY <1>0, <1>1, <2>1, <2>2
  <2> QED BY <2>3, <2>4
<1> QED BY <1>2, <1>3

\* Where every L1 is cleared nothing is left of a copy.
LEMMA CopiesGone ==
    ASSUME UNCHANGED traffic, traffic \in Traffics, NEW t \in Threads, behind' = Threads \ {t},
           \A u \in Threads, k \in Keys : l1'[u][k] = NoAnswer, op'[t].at # "store_l1"
    PROVE  CopyInv'
<1>0. /\ LocalKeys' = LocalKeys /\ Addresses' = Addresses /\ Ours' = LocalKeys \ struck'
      /\ LocalKeys \subseteq Keys /\ Keys' = Keys
      /\ NoAnswer \notin Addresses /\ NoAnswer \notin Routings
  BY TrafficStays, TrafficFacts DEF Ours
<1>1. CopiesInStep'
  BY <1>0 DEF CopiesInStep
<1>2. NoneAstray'
  BY <1>0 DEF NoneAstray, At
<1>3. RestorerIsEmpty'
  BY <1>0 DEF RestorerIsEmpty
<1> QED BY <1>1, <1>2, <1>3 DEF CopyInv

\* How a step of an edit may treat a name: it keeps its record, the edit is yet to come
\* to it, its record is gone, or in place, or was not there and is not to be.
KeepsRecord(k) ==
    /\ k \in owned' <=> k \in owned
    /\ Permanent(k)' <=> Permanent(k)
    /\ Permanent(k) => map'[k] = map[k]

KeyStep(k) ==
    \/ KeepsRecord(k) /\ config'[k] = config[k] /\ (EditDue(k) => EditDue(k)')
    \/ KeepsRecord(k) /\ EditDue(k)'
    \/ EditDue(k)' /\ k \notin owned' /\ ~Permanent(k)' /\ ~ClearHolds(k)
    \/ /\ k \in owned' /\ Permanent(k)' /\ IsLocal(k)' /\ map'[k].val = config'[k]
       /\ ~ClearTakes /\ ~ClearHolds(k)
    \/ KeepsRecord(k) /\ k \notin owned /\ ~Permanent(k) /\ ~IsLocal(k)' /\ ~ClearHolds(k)

\* A step of an edit.
LEMMA EditSteps ==
    ASSUME CacheInv, UNCHANGED traffic, NEW t \in Threads, ~Holding(t), ~Holding(t)',
           \A u \in Threads \ {t} : op'[u] = op[u],
           \A k \in LocalKeys \ struck' : k \notin struck /\ KeyStep(k)
    PROVE  RegistryInStep' /\ RecordsInStep' /\ WipedIsFree' /\ SavedInStep'
<1>0. LocalKeys' = LocalKeys /\ Addresses' = Addresses /\ Ours' = LocalKeys \ struck'
  BY TrafficStays DEF Ours
<1>1. /\ \A u \in Threads : (Holding(u)' <=> Holding(u)) /\ (Holding(u) => op'[u] = op[u])
      /\ \A k \in LocalKeys : (Wiped(k)' <=> Wiped(k)) /\ (ClearHolds(k)' <=> ClearHolds(k))
  BY ClearStays
<1>2. \A k \in LocalKeys : Wiped(k) => ClearTakes \/ ClearHolds(k)
  BY DEF Wiped, ClearTakes, ClearHolds, Saves, ClearSteps
<1>3. \A k \in Ours' : k \in Ours /\ k \in LocalKeys /\ KeyStep(k)
  BY <1>0 DEF Ours
<1>4. ASSUME NEW k \in Ours', ~Wiped(k)
      PROVE  k \in owned' <=> Permanent(k)'
  BY <1>3, <1>4 DEF KeyStep, KeepsRecord, CacheInv, LocalInv, RegistryInStep
<1>5. ASSUME NEW k \in Ours', ~Wiped(k), ~EditDue(k)'
      PROVE  InStep(k)'
  <2>1. CASE KeepsRecord(k) /\ config'[k] = config[k] /\ (EditDue(k) => EditDue(k)')
    <3>1. InStep(k)
      BY <1>3, <1>5, <2>1 DEF CacheInv, LocalInv, RecordsInStep
    <3> QED BY <1>0, <1>3, <2>1, <3>1 DEF InStep, IsLocal, KeepsRecord
  <2> QED BY <1>3, <1>5, <2>1 DEF KeyStep, KeepsRecord, InStep
<1>6. ASSUME NEW k \in Ours', Wiped(k)
      PROVE  ~Permanent(k)'
  BY <1>2, <1>3, <1>6 DEF KeyStep, KeepsRecord, CacheInv, LocalInv, WipedIsFree
<1>7. ASSUME NEW k \in Ours', NEW u \in Threads, op'[u].at \in {"clear_l1", "restore"}, Saves(u, k)'
      PROVE  k \notin owned'
  <2>1. Holding(u)'
    BY <1>7 DEF Holding, ClearSteps
  <2>2. op[u].at \in {"clear_l1", "restore"} /\ Saves(u, k) /\ Holding(u)
    BY <1>1, <1>7, <2>1 DEF Saves
  <2>3. k \notin owned /\ ClearHolds(k)
    BY <1>3, <2>2 DEF CacheInv, LocalInv, WipedIsFree, ClearHolds, Saves, Holding
  <2> QED BY <1>3, <2>3 DEF KeyStep, KeepsRecord
<1>8. ASSUME NEW u \in Threads, Holding(u)
      PROVE  /\ \A r, q \in op[u].saved : r.key = q.key => r = q
             /\ \A r \in op[u].saved : r.key \notin struck' =>
                    r.val \in Addresses /\ (~EditDue(r.key)' => r.val = config'[r.key])
             /\ op[u].at \in {"clear_map", "clear_bloom", "clear_owned"} =>
                    \A k \in Ours' : k \in owned' \/ (~EditDue(k)' /\ IsLocal(k)') => Saves(u, k)
             /\ At(u, "clear_map") => \A k \in Ours' : Permanent(k)' =>
                    [key |-> k, val |-> map'[k].val] \in op[u].saved
  <2>1. op[u].saved \in SUBSET [key : LocalKeys, val : Answers]
    BY <1>8, StepFacts DEF CacheInv, Typed, Holding
  <2>2. \A r, q \in op[u].saved : r.key = q.key => r = q
    BY <1>8 DEF CacheInv, LocalInv, SavedInStep
  <2>3. ASSUME NEW r \in op[u].saved, r.key \notin struck'
        PROVE  r.val \in Addresses /\ (~EditDue(r.key)' => r.val = config'[r.key])
    <3>1. PICK k \in LocalKeys : k = r.key
      BY <2>1
    <3>2. k \in Ours' /\ k \in Ours /\ KeyStep(k) /\ ClearHolds(k)
      BY <1>0, <1>3, <1>8, <2>3, <3>1 DEF ClearHolds, Holding
    <3>3. r.val \in Addresses /\ (~EditDue(k) => r.val = config[k])
      BY <1>8, <3>1, <3>2 DEF CacheInv, LocalInv, SavedInStep, Ours
    <3>4. ~EditDue(k)' => config'[k] = config[k] /\ ~EditDue(k)
      BY <3>2 DEF KeyStep
    <3>5. EditDue(k)' <=> EditDue(r.key)'
      BY <3>1 DEF EditDue
    <3> QED BY <3>1, <3>3, <3>4, <3>5
  <2>4. ASSUME NEW k \in Ours', op[u].at \in {"clear_map", "clear_bloom", "clear_owned"},
               k \in owned' \/ (~EditDue(k)' /\ IsLocal(k)')
        PROVE  Saves(u, k)
    <3>1. ClearTakes
      BY <2>4 DEF ClearTakes
    <3>2. k \in owned \/ (~EditDue(k) /\ IsLocal(k))
      BY <1>0, <1>3, <2>4, <3>1 DEF KeyStep, KeepsRecord, IsLocal
    <3> QED BY <1>3, <1>8, <2>4, <3>2 DEF CacheInv, LocalInv, SavedInStep
  <2>5. ASSUME NEW k \in Ours', At(u, "clear_map"), Permanent(k)'
        PROVE  [key |-> k, val |-> map'[k].val] \in op[u].saved
    <3>1. ClearTakes
      BY <2>5 DEF ClearTakes, At
    <3>2. Permanent(k) /\ map'[k] = map[k]
      BY <1>3, <2>5, <3>1 DEF KeyStep, KeepsRecord
    <3> QED BY <1>3, <1>8, <2>5, <3>2 DEF CacheInv, LocalInv, SavedInStep
  <2> QED BY <2>2, <2>3, <2>4, <2>5
<1>9. RegistryInStep' /\ RecordsInStep'
  BY <1>0, <1>1, <1>3, <1>4, <1>5 DEF RegistryInStep, RecordsInStep
<1>10. WipedIsFree'
  BY <1>1, <1>3, <1>6, <1>7 DEF WipedIsFree
<1>11. SavedInStep'
  <2>1. ASSUME NEW u \in Threads, Holding(u)'
        PROVE  Holding(u) /\ op'[u] = op[u] /\ \A k \in LocalKeys : Saves(u, k)' <=> Saves(u, k)
    BY <1>1, <2>1 DEF Saves
  <2> QED BY <1>0, <1>3, <1>8, <2>1, SMTT(30) DEF SavedInStep, At
<1> QED BY <1>9, <1>10, <1>11

\* l1_clear leaves every thread's L1 empty.
LEMMA ClearedFacts ==
    ASSUME NEW t \in Threads, L1Clear(t)
    PROVE  /\ behind' = Threads \ {t}
           /\ l1' \in [Threads -> [Keys -> Answers]]
           /\ \A u \in Threads, j \in Keys : l1'[u][j] = NoAnswer
           /\ shadowed' = {}
BY DEF L1Clear, L1Empty, Answers

\* A key a thread has set in the filter is one of Keys.
LEMMA SetKeys ==
    ASSUME Typed, NEW u \in Threads, BloomSet(u)
    PROVE  SetKey(u) \in Keys
<1>1. LocalKeys \subseteq Keys /\ UpstreamKeys \subseteq Keys
  BY TrafficFacts DEF Typed
<1>2. CASE At(u, "evict")
  <2>1. Editing(u)
    BY <1>2 DEF BloomSet, Editing, At
  <2> QED BY <1>1, <2>1, EditKeys
<1>3. CASE op[u].at = "store_map"
  BY <1>1, <1>3, StepFacts DEF Typed, StoreSteps, SetKey, At
<1>4. CASE op[u].at \in {"insert_room", "insert_map"}
  <2>1. Editing(u)
    BY <1>4 DEF Editing, LocalSteps
  <2> QED BY <1>1, <2>1, EditKeys
<1> QED BY <1>2, <1>3, <1>4 DEF BloomSet, At

\* What is left to put back, to mark, to remove or to put back in the filter.
LEMMA FewerLeft ==
    /\ \A x \in ClearOps, rest \in SUBSET [key : LocalKeys, val : Answers] :
           LET y == [x EXCEPT !.saved = rest]
           IN  y \in Steps /\ y.at = x.at /\ y.saved = rest
    /\ \A x \in EvictOps, rest \in SUBSET Keys :
           LET y == [x EXCEPT !.urgent = rest]
           IN  y \in Steps /\ y.at = x.at /\ y.urgent = rest /\ y.scored = x.scored
               /\ y.caller = x.caller
    /\ \A x \in EvictOps, rest \in SUBSET Keys :
           LET y == [x EXCEPT !.scored = rest]
           IN  y \in Steps /\ y.at = x.at /\ y.scored = rest /\ y.urgent = x.urgent
               /\ y.caller = x.caller
    /\ \A x \in RotateOps, rest \in SUBSET Keys :
           LET y == [x EXCEPT !.todo = rest]
           IN  y \in Steps /\ y.at = x.at /\ y.todo = rest
<1>1. ASSUME NEW x \in ClearOps, NEW rest \in SUBSET [key : LocalKeys, val : Answers]
      PROVE  LET y == [x EXCEPT !.saved = rest]
             IN  y \in ClearOps /\ y.at = x.at /\ y.saved = rest
  BY DEF ClearOps
<1>2. ASSUME NEW x \in EvictOps, NEW rest \in SUBSET Keys
      PROVE  LET y == [x EXCEPT !.urgent = rest]
             IN  y \in EvictOps /\ y.at = x.at /\ y.urgent = rest /\ y.scored = x.scored
                 /\ y.caller = x.caller
  BY DEF EvictOps
<1>3. ASSUME NEW x \in EvictOps, NEW rest \in SUBSET Keys
      PROVE  LET y == [x EXCEPT !.scored = rest]
             IN  y \in EvictOps /\ y.at = x.at /\ y.scored = rest /\ y.urgent = x.urgent
                 /\ y.caller = x.caller
  BY DEF EvictOps
<1>4. ASSUME NEW x \in RotateOps, NEW rest \in SUBSET Keys
      PROVE  LET y == [x EXCEPT !.todo = rest]
             IN  y \in RotateOps /\ y.at = x.at /\ y.todo = rest
  BY DEF RotateOps
<1> QED BY <1>1, <1>2, <1>3, <1>4, SMTT(30) DEF Steps

\* Lookups, upstream answers and expiry keep CacheInv.
LEMMA QueriesKeep ==
    ASSUME CacheInv, UNCHANGED traffic,
           \/ \E k \in Keys : Expire(k)
           \/ \E t \in Threads : Get(t) \/ Store(t)
    PROVE  CacheInv'
<1> USE DEF CacheInv
<1>0. /\ Keys' = Keys /\ LocalKeys' = LocalKeys /\ UpstreamKeys' = UpstreamKeys
      /\ Addresses' = Addresses /\ Ops' = Ops /\ Answers' = Answers
      /\ Records' = Records /\ Steps' = Steps
  BY TrafficStays
<1>t. /\ LocalKeys \subseteq Keys /\ UpstreamKeys \subseteq Keys
      /\ Routings \cap Addresses = {} /\ NoAnswer \notin Addresses /\ NoAnswer \notin Routings
      /\ Preloaded \in Addresses
  BY TrafficFacts DEF Typed
<1> USE <1>0
<1>1. ASSUME NEW k \in Keys, Expire(k)
      PROVE  CacheInv'
  <2> USE <1>1
  <2>e. /\ map' = [map EXCEPT ![k] = Vacant] /\ map[k].kind = "cached"
        /\ UNCHANGED <<owned, fresh, aged, l1, behind, config, routing, late, missed, struck,
                       shadowed, writer, carried, op>>
    BY DEF Expire, history
  <2>v. Vacant \in Records /\ Vacant.kind = "vacant" /\ Vacant.val = NoAnswer
    BY DEF Vacant, Records, Answers
  <2>1. Typed'
    BY <2>e, <2>v, <1>t DEF Typed, TypeOK, At, Records
  <2>2. OneRotation' /\ FlipCarriesNone' /\ SetIsAdmitted' /\ HeldIsAdmitted'
    BY <2>e, <2>v, <1>t DEF OneRotation, FlipCarriesNone, At, SetIsAdmitted, BloomSet, SetKey,
        HeldIsAdmitted, Held, Admitted, Typed
  <2>3. OneClear'
    BY <2>e, <2>v, <1>t DEF OneClear, Editing, At, ClearSteps, LocalSteps, Permanent, Typed
  <2>4. MapIsCurrent' /\ L1IsCurrent' /\ StoreIsCurrent' /\ BehindIsEmpty'
    BY <2>e, <2>v, <1>t DEF MapIsCurrent, Outdated, ClearingMap, L1IsCurrent, ClearingL1,
        ClearSteps, StoreIsCurrent, At, BehindIsEmpty, Typed
  <2>5. OneEditor'
    BY <2>e, <2>v, <1>t DEF OneEditor, Editing, SetKey, EditThen, At, LocalSteps, ClearingMap,
        ClearSteps, Permanent, Typed
  <2>6. SameRecords
    BY <2>e, <2>v, <1>t DEF SameRecords, Permanent, Typed, TypeOK
  <2>7. SameStages
    BY <2>e, <2>v, <1>t DEF SameStages, Aside, Editing, Holding, SetKey, EditThen, LocalSteps,
        ClearSteps, At
  <2>8. Kinds'
    BY <2>e, <2>v, <1>t DEF Kinds, Permanent, Ours, LocalInv, Typed, TypeOK
  <2>9. LocalInv'
    BY <2>e, <2>v, <1>t, <2>6, <2>7, <2>8, LocalsStay DEF LocalInv
  <2>10. CopyInv'
    <3>1. CopiesInStep' /\ NoneAstray'
      BY <2>e, <2>v, <1>t, <2>6, <2>7, CopiesStay DEF At
    <3>2. RestorerIsEmpty'
      BY <2>e, <2>v, <1>t DEF CopyInv, RestorerIsEmpty, At, TypeOK, Typed
    <3> QED BY <3>1, <3>2 DEF CopyInv
  <2> QED BY <2>1, <2>2, <2>3, <2>4, <2>5, <2>6, <2>7, <2>8, <2>9, <2>10
<1>2. ASSUME NEW t \in Threads, NEW k \in Keys, L1Lapse(t, k)
      PROVE  CacheInv'
  <2> USE <1>2
  <2>e. /\ l1' = IF t \in behind THEN l1 ELSE [l1 EXCEPT ![t][k] = NoAnswer]
        /\ UNCHANGED <<map, owned, fresh, aged, behind, config, routing, late, missed, struck,
                       shadowed, writer, carried, op>>
    BY DEF L1Lapse, L1Put, shared, history
  <2>1. Typed'
    BY <2>e, <1>t DEF Typed, TypeOK, At, Answers
  <2>2. OneRotation' /\ FlipCarriesNone' /\ SetIsAdmitted' /\ HeldIsAdmitted'
    BY <2>e, <1>t DEF OneRotation, FlipCarriesNone, At, SetIsAdmitted, BloomSet, SetKey,
        HeldIsAdmitted, Held, Admitted, Typed
  <2>3. OneClear'
    BY <2>e, <1>t DEF OneClear, Editing, At, ClearSteps, LocalSteps, Permanent, Typed
  <2>4. MapIsCurrent' /\ L1IsCurrent' /\ StoreIsCurrent' /\ BehindIsEmpty'
    BY <2>e, <1>t DEF MapIsCurrent, Outdated, ClearingMap, L1IsCurrent, ClearingL1, ClearSteps,
        StoreIsCurrent, At, BehindIsEmpty, Typed
  <2>5. OneEditor'
    BY <2>e, <1>t DEF OneEditor, Editing, SetKey, EditThen, At, LocalSteps, ClearingMap,
        ClearSteps, Permanent, Typed
  <2>6. SameRecords
    BY <2>e, <1>t DEF SameRecords, Permanent, Typed, TypeOK
  <2>7. SameStages
    BY <2>e, <1>t DEF SameStages, Aside, Editing, Holding, SetKey, EditThen, LocalSteps,
        ClearSteps, At
  <2>8. Kinds'
    BY <2>e, <1>t DEF Kinds, Permanent, Ours, LocalInv, Typed, TypeOK
  <2>9. LocalInv'
    BY <2>e, <1>t, <2>6, <2>7, <2>8, LocalsStay DEF LocalInv
  <2>10. CopyInv'
    <3>1. CopiesInStep' /\ NoneAstray'
      BY <2>e, <1>t, <2>6, <2>7, CopiesStay DEF At, TypeOK
    <3>2. RestorerIsEmpty'
      BY <2>e, <1>t DEF CopyInv, RestorerIsEmpty, At, TypeOK, Typed
    <3> QED BY <3>1, <3>2 DEF CopyInv
  <2> QED BY <2>1, <2>2, <2>3, <2>4, <2>5, <2>6, <2>7, <2>8, <2>9, <2>10
<1>3. ASSUME NEW t \in Threads, NEW k \in Keys, GetL1(t, k)
      PROVE  CacheInv'
  <2> USE <1>3
  <2>m. /\ op' \in [Threads -> Steps] /\ \A u \in Threads \ {t} : op'[u] = op[u]
        /\ op[t] = Idle /\ op[t].at = "idle" /\ op'[t].at = "probe"
    BY MakesSteps, GotoMoves DEF GetL1, Starts, Typed
  <2>e. /\ behind' = behind \ {t}
        /\ UNCHANGED <<map, owned, fresh, aged, l1, config, routing, late, missed, struck,
                       shadowed, writer,
                       carried>>
    BY DEF GetL1, shared, history
  <2>1. Typed'
    BY <2>m, <2>e DEF Typed, TypeOK, At
  <2>2. OneRotation' /\ FlipCarriesNone' /\ SetIsAdmitted' /\ HeldIsAdmitted'
    BY <2>m, <2>e DEF OneRotation, FlipCarriesNone, At, SetIsAdmitted, BloomSet, SetKey,
        HeldIsAdmitted, Held, Admitted, Typed
  <2>3. OneClear'
    BY <2>m, <2>e DEF OneClear, Editing, At, ClearSteps, LocalSteps, Permanent, Typed
  <2>4. MapIsCurrent' /\ StoreIsCurrent' /\ BehindIsEmpty'
    BY <2>m, <2>e DEF MapIsCurrent, Outdated, ClearingMap, StoreIsCurrent, ClearingL1,
        ClearSteps, At, BehindIsEmpty, Typed
  <2>5. L1IsCurrent'
    BY <2>m, <2>e, <1>t DEF L1IsCurrent, Outdated, ClearingL1, ClearSteps, BehindIsEmpty, Typed
  <2>6. OneEditor'
    BY <2>m, <2>e DEF OneEditor, Editing, SetKey, EditThen, At, LocalSteps, ClearingMap,
        ClearSteps, Permanent, Typed
  <2>7. SameRecords
    BY <2>m, <2>e, <1>t DEF SameRecords, Permanent, Typed, TypeOK
  <2>8. SameStages
    BY <2>m, <2>e, <1>t DEF SameStages, Aside, Editing, Holding, SetKey, EditThen, LocalSteps,
        ClearSteps, At
  <2>9. Kinds'
    BY <2>m, <2>e, <1>t DEF Kinds, Permanent, Ours, LocalInv, Typed, TypeOK
  <2>10. LocalInv'
    BY <2>m, <2>e, <1>t, <2>7, <2>8, <2>9, LocalsStay DEF LocalInv
  <2>11. CopyInv'
    <3>1. CopiesInStep' /\ NoneAstray'
      BY <2>m, <2>e, <1>t, <2>7, <2>8, CopiesStay DEF At, BehindIsEmpty
    <3>2. RestorerIsEmpty'
      BY <2>m, <2>e, <1>t DEF CopyInv, RestorerIsEmpty, At, TypeOK, Typed
    <3> QED BY <3>1, <3>2 DEF CopyInv
  <2> QED BY <2>1, <2>2, <2>3, <2>4, <2>5, <2>6, <2>7, <2>8, <2>9, <2>10, <2>11
<1>4. ASSUME NEW t \in Threads, GetMap(t)
      PROVE  CacheInv'
  <2> USE <1>4
  <2>k. PICK k \in Keys : k = op[t].key
    BY StepFacts DEF GetMap, At, Typed
  <2>m. /\ op' \in [Threads -> Steps] /\ \A u \in Threads \ {t} : op'[u] = op[u]
        /\ op[t].at = "probe" /\ op'[t] = Idle /\ op'[t].at = "idle"
    BY MakesSteps, GotoMoves, StepFacts DEF GetMap, At, Typed
  <2>e. UNCHANGED <<map, owned, fresh, aged, behind, config, routing, late, missed, struck,
                    shadowed, writer,
                    carried>>
    BY DEF GetMap, shared, history
  <2>c. ClearingMap => ClearingL1
    BY DEF ClearingMap, ClearingL1, ClearSteps
  <2>p. PICK v \in Answers : v = map[k].val
    BY DEF Typed, TypeOK
  <2>l. /\ l1' \in [Threads -> [Keys -> Answers]]
        /\ \/ \A u \in Threads, j \in Keys :
                  l1'[u][j] = IF u = t /\ j = k /\ t \notin behind THEN v ELSE l1[u][j]
           \/ l1' = l1
    BY <2>k, <2>p, PutFacts DEF GetMap, Typed, TypeOK
  <2>1. Typed'
    BY <2>m, <2>e, <2>l DEF Typed, TypeOK, At
  <2>2. OneRotation' /\ FlipCarriesNone' /\ SetIsAdmitted' /\ HeldIsAdmitted'
    BY <2>m, <2>e DEF OneRotation, FlipCarriesNone, At, SetIsAdmitted, BloomSet, SetKey,
        HeldIsAdmitted, Held, Admitted, Typed
  <2>3. OneClear'
    BY <2>m, <2>e DEF OneClear, Editing, At, ClearSteps, LocalSteps, Permanent, Typed
  <2>4. MapIsCurrent' /\ StoreIsCurrent'
    BY <2>m, <2>e DEF MapIsCurrent, Outdated, ClearingMap, StoreIsCurrent, ClearingL1,
        ClearSteps, At, Typed
  <2>5. L1IsCurrent'
    BY <2>m, <2>e, <2>c, <2>l, <2>p, <2>k DEF L1IsCurrent, Outdated, ClearingL1, ClearSteps,
        MapIsCurrent, Typed
  <2>6. BehindIsEmpty'
    BY <2>m, <2>e, <2>l, SMTT(30) DEF BehindIsEmpty, TypeOK, Typed
  <2>7. OneEditor'
    BY <2>m, <2>e DEF OneEditor, Editing, SetKey, EditThen, At, LocalSteps, ClearingMap,
        ClearSteps, Permanent, Typed
  <2>8. l1' # l1 => Held(k)
    BY <2>k DEF GetMap
  <2>9. SameRecords
    BY <2>m, <2>e, <1>t DEF SameRecords, Permanent, Typed, TypeOK
  <2>10. SameStages
    BY <2>m, <2>e, <1>t DEF SameStages, Aside, Editing, Holding, SetKey, EditThen, LocalSteps,
        ClearSteps, At
  <2>11. Kinds'
    BY <2>m, <2>e, <1>t DEF Kinds, Permanent, Ours, LocalInv, Typed, TypeOK
  <2>12. LocalInv'
    BY <2>m, <2>e, <1>t, <2>9, <2>10, <2>11, LocalsStay DEF LocalInv
  <2>13. CopyInv'
    <3>1. CopiesInStep' /\ NoneAstray'
      <4>1. l1' # l1 => \/ Permanent(k)
                        \/ ~Permanent(k) /\ v \in Routings
        BY <2>8, <2>p DEF Held, Permanent, Kinds, LocalInv, Typed, TypeOK
      <4>2. \A u \in Threads \ behind', j \in LocalKeys :
                \/ l1'[u][j] = l1[u][j]
                \/ Permanent(j) /\ l1'[u][j] = map[j].val
                \/ ~Permanent(j) /\ l1'[u][j] \in Routings
        BY <2>l, <2>p, <1>t, <4>1
      <4> QED BY <2>m, <2>e, <2>9, <2>10, <4>2, CopiesStay DEF At
    <3>2. RestorerIsEmpty'
      <4>1. \A u \in Threads \ {t}, j \in Keys : l1'[u][j] = l1[u][j]
        BY <2>l
      <4> QED BY <2>m, <4>1 DEF CopyInv, RestorerIsEmpty, At
    <3> QED BY <3>1, <3>2 DEF CopyInv
  <2> QED BY <2>1, <2>2, <2>3, <2>4, <2>5, <2>6, <2>7, <2>8, <2>9, <2>10, <2>11, <2>12, <2>13
<1>5. ASSUME NEW t \in Threads, NEW k \in UpstreamKeys, Resolve(t, k)
      PROVE  CacheInv'
  <2> USE <1>5
  <2>m. /\ op' \in [Threads -> Steps] /\ \A u \in Threads \ {t} : op'[u] = op[u]
        /\ op[t] = Idle /\ op[t].at = "idle"
        /\ op'[t].at = "store_bloom" /\ op'[t].key = k /\ op'[t].via = routing
    BY MakesSteps, GotoMoves DEF Resolve, Starts, Typed, TypeOK
  <2>e. UNCHANGED <<map, owned, fresh, aged, l1, behind, config, routing, late, missed, struck,
                    shadowed, writer, carried>>
    BY DEF Resolve, shared, history
  <2>1. Typed'
    BY <2>m, <2>e DEF Typed, TypeOK, At
  <2>2. OneRotation' /\ FlipCarriesNone' /\ SetIsAdmitted' /\ HeldIsAdmitted'
    BY <2>m, <2>e DEF OneRotation, FlipCarriesNone, At, SetIsAdmitted, BloomSet, SetKey,
        HeldIsAdmitted, Held, Admitted, Typed
  <2>3. OneClear'
    BY <2>m, <2>e DEF OneClear, Editing, At, ClearSteps, LocalSteps, Permanent, Typed
  <2>4. MapIsCurrent' /\ L1IsCurrent' /\ StoreIsCurrent' /\ BehindIsEmpty'
    BY <2>m, <2>e DEF MapIsCurrent, Outdated, ClearingMap, L1IsCurrent, ClearingL1, ClearSteps,
        StoreIsCurrent, At, BehindIsEmpty, Typed
  <2>5. OneEditor'
    BY <2>m, <2>e DEF OneEditor, Editing, SetKey, EditThen, At, LocalSteps, ClearingMap,
        ClearSteps, Permanent, Typed
  <2>6. SameRecords
    BY <2>m, <2>e, <1>t DEF SameRecords, Permanent, Typed, TypeOK
  <2>7. SameStages
    BY <2>m, <2>e, <1>t DEF SameStages, Aside, Editing, Holding, SetKey, EditThen, LocalSteps,
        ClearSteps, At
  <2>8. Kinds'
    BY <2>m, <2>e, <1>t DEF Kinds, Permanent, Ours, LocalInv, Typed, TypeOK
  <2>9. LocalInv'
    BY <2>m, <2>e, <1>t, <2>6, <2>7, <2>8, LocalsStay DEF LocalInv
  <2>10. CopyInv'
    <3>1. CopiesInStep' /\ NoneAstray'
      BY <2>m, <2>e, <1>t, <2>6, <2>7, CopiesStay DEF At
    <3>2. RestorerIsEmpty'
      BY <2>m, <2>e, <1>t DEF CopyInv, RestorerIsEmpty, At, TypeOK, Typed
    <3> QED BY <3>1, <3>2 DEF CopyInv
  <2> QED BY <2>1, <2>2, <2>3, <2>4, <2>5, <2>6, <2>7, <2>8, <2>9, <2>10
<1>6. ASSUME NEW t \in Threads, NEW k \in UpstreamKeys, Renew(t, k)
      PROVE  CacheInv'
  <2> USE <1>6
  <2>m. /\ op' \in [Threads -> Steps] /\ \A u \in Threads \ {t} : op'[u] = op[u]
        /\ op[t] = Idle /\ op[t].at = "idle"
        /\ op'[t].at = "renew" /\ op'[t].key = k /\ op'[t].via = routing
    BY MakesSteps, GotoMoves DEF Renew, Starts, Typed, TypeOK
  <2>e. UNCHANGED <<map, owned, fresh, aged, l1, behind, config, routing, late, missed, struck,
                    shadowed, writer,
                       carried>>
    BY DEF Renew, shared, history
  <2>1. Typed'
    <3>1. TypeOK'
      BY <2>m, <2>e DEF Typed, TypeOK, Answers
    <3>2. \A u \in Threads : At(u, "evict")' => op'[u].caller = Idle \/ op'[u].caller.at = "insert_room"
      BY <2>m, <2>e DEF Typed, At
    <3> QED BY <2>m, <3>1, <3>2 DEF Typed, At
  <2>2. OneRotation' /\ FlipCarriesNone' /\ SetIsAdmitted' /\ HeldIsAdmitted'
    BY <2>m, <2>e DEF OneRotation, FlipCarriesNone, At, SetIsAdmitted, BloomSet, SetKey,
        HeldIsAdmitted, Held, Admitted, Typed
  <2>3. OneClear'
    BY <2>m, <2>e DEF OneClear, ClearSteps
  <2>4. MapIsCurrent' /\ L1IsCurrent' /\ StoreIsCurrent' /\ BehindIsEmpty'
    BY <2>m, <2>e DEF MapIsCurrent, Outdated, ClearingMap, L1IsCurrent, ClearingL1,
        ClearSteps, StoreIsCurrent, At, BehindIsEmpty, Typed
  <2>5. OneEditor'
    BY <2>m, <2>e DEF OneEditor, Editing, SetKey, EditThen, At, LocalSteps
  <2>6. SameRecords
    BY <2>m, <2>e, <1>t DEF SameRecords, Permanent, Typed, TypeOK
  <2>7. SameStages
    BY <2>m, <2>e, <1>t DEF SameStages, Aside, Editing, Holding, SetKey, EditThen, LocalSteps,
        ClearSteps, At
  <2>8. Kinds'
    BY <2>m, <2>e, <1>t DEF Kinds, Permanent, Ours, LocalInv, Typed, TypeOK
  <2>9. LocalInv'
    BY <2>m, <2>e, <1>t, <2>6, <2>7, <2>8, LocalsStay DEF LocalInv
  <2>10. CopyInv'
    <3>1. CopiesInStep' /\ NoneAstray'
      BY <2>m, <2>e, <1>t, <2>6, <2>7, CopiesStay DEF At
    <3>2. RestorerIsEmpty'
      BY <2>m, <2>e, <1>t DEF CopyInv, RestorerIsEmpty, At, TypeOK, Typed
    <3> QED BY <3>1, <3>2 DEF CopyInv
  <2> QED BY <2>1, <2>2, <2>3, <2>4, <2>5, <2>9, <2>10
<1>7. ASSUME NEW t \in Threads, RenewKept(t)
      PROVE  CacheInv'
  <2> USE <1>7
  <2>m. /\ op' \in [Threads -> Steps] /\ \A u \in Threads \ {t} : op'[u] = op[u]
        /\ op[t].at = "renew" /\ op'[t] = Idle /\ op'[t].at = "idle"
    BY MakesSteps, GotoMoves DEF RenewKept, At, Typed
  <2>e. UNCHANGED <<map, owned, fresh, aged, l1, behind, config, routing, late, missed, struck,
                    shadowed, writer,
                       carried>>
    BY DEF RenewKept, shared, history
  <2>1. Typed'
    <3>1. TypeOK'
      BY <2>m, <2>e DEF Typed, TypeOK, Answers
    <3>2. \A u \in Threads : At(u, "evict")' => op'[u].caller = Idle \/ op'[u].caller.at = "insert_room"
      BY <2>m, <2>e DEF Typed, At
    <3> QED BY <2>m, <3>1, <3>2 DEF Typed, At
  <2>2. OneRotation' /\ FlipCarriesNone' /\ SetIsAdmitted' /\ HeldIsAdmitted'
    BY <2>m, <2>e DEF OneRotation, FlipCarriesNone, At, SetIsAdmitted, BloomSet, SetKey,
        HeldIsAdmitted, Held, Admitted, Typed
  <2>3. OneClear'
    BY <2>m, <2>e DEF OneClear, ClearSteps
  <2>4. MapIsCurrent' /\ L1IsCurrent' /\ StoreIsCurrent' /\ BehindIsEmpty'
    BY <2>m, <2>e DEF MapIsCurrent, Outdated, ClearingMap, L1IsCurrent, ClearingL1,
        ClearSteps, StoreIsCurrent, At, BehindIsEmpty, Typed
  <2>5. OneEditor'
    BY <2>m, <2>e DEF OneEditor, Editing, SetKey, EditThen, At, LocalSteps
  <2>6. SameRecords
    BY <2>m, <2>e, <1>t DEF SameRecords, Permanent, Typed, TypeOK
  <2>7. SameStages
    BY <2>m, <2>e, <1>t DEF SameStages, Aside, Editing, Holding, SetKey, EditThen, LocalSteps,
        ClearSteps, At
  <2>8. Kinds'
    BY <2>m, <2>e, <1>t DEF Kinds, Permanent, Ours, LocalInv, Typed, TypeOK
  <2>9. LocalInv'
    BY <2>m, <2>e, <1>t, <2>6, <2>7, <2>8, LocalsStay DEF LocalInv
  <2>10. CopyInv'
    <3>1. CopiesInStep' /\ NoneAstray'
      BY <2>m, <2>e, <1>t, <2>6, <2>7, CopiesStay DEF At
    <3>2. RestorerIsEmpty'
      BY <2>m, <2>e, <1>t DEF CopyInv, RestorerIsEmpty, At, TypeOK, Typed
    <3> QED BY <3>1, <3>2 DEF CopyInv
  <2> QED BY <2>1, <2>2, <2>3, <2>4, <2>5, <2>9, <2>10
<1>8. ASSUME NEW t \in Threads, RenewStore(t)
      PROVE  CacheInv'
  <2> USE <1>8
  <2>k. PICK k \in UpstreamKeys, via \in Routings :
            k = op[t].key /\ via = op[t].via /\ op[t] \in StoreOps
    BY StepFacts DEF StoreSteps, RenewStore, At, Typed
  <2>m. /\ op' \in [Threads -> Steps] /\ \A u \in Threads \ {t} : op'[u] = op[u]
        /\ op[t].at = "renew" /\ op'[t] = Idle /\ op'[t].at = "idle"
    BY MakesSteps, GotoMoves DEF RenewStore, At, Typed
  <2>e. /\ map[k].kind = "cached" /\ map' \in [Keys -> Records]
        /\ map'[k].kind = "cached" /\ map'[k].val = via /\ map'[k].marked = map[k].marked
        /\ \A j \in Keys \ {k} : map'[j] = map[j]
        /\ fresh' = fresh \cup {k}
        /\ late' = IF via = routing THEN late ELSE late \cup {k}
        /\ UNCHANGED <<owned, aged, behind, config, routing, missed, struck, shadowed, writer,
                       carried>>
    BY <2>k, <1>t DEF RenewStore, Records, Typed, TypeOK, Answers
  <2>l. /\ l1' \in [Threads -> [Keys -> Answers]]
        /\ \A u \in Threads, j \in Keys :
               l1'[u][j] = IF u = t /\ j = k /\ t \notin behind THEN via ELSE l1[u][j]
    BY <2>k, <1>t, PutFacts DEF RenewStore, Typed, TypeOK, Answers
  <2>1. Typed'
    <3>1. TypeOK'
      BY <2>k, <2>m, <2>e, <2>l, <1>t DEF Typed, TypeOK, Records
    <3>2. \A u \in Threads : At(u, "evict")' => op'[u].caller = Idle \/ op'[u].caller.at = "insert_room"
      BY <2>k, <2>m, <2>e, <2>l, <1>t DEF Typed, At
    <3> QED BY <2>m, <3>1, <3>2 DEF Typed, At
  <2>2. OneRotation' /\ FlipCarriesNone' /\ SetIsAdmitted'
    BY <2>k, <2>m, <2>e, <1>t DEF OneRotation, FlipCarriesNone, At, SetIsAdmitted, BloomSet, SetKey
  <2>a. HeldIsAdmitted'
    <3>1. \A j \in Keys : Held(j)' /\ ~map'[j].marked => j = k \/ (Held(j) /\ ~map[j].marked)
      BY <2>e DEF Held
    <3> QED BY <2>k, <2>m, <2>e, <3>1 DEF HeldIsAdmitted, Admitted, At
  <2>3. OneClear'
    BY <2>k, <2>m, <2>e, <2>l, <1>t DEF OneClear, ClearSteps
  <2>c. /\ ClearingMap' <=> ClearingMap
        /\ ClearingL1' <=> ClearingL1
        /\ \A x : Outdated(x)' <=> Outdated(x)
    BY <2>m, <2>e DEF ClearingMap, ClearingL1, ClearSteps, Outdated
  <2>b. /\ \A j \in Keys : map'[j].val = map[j].val \/ j \in late' \/ (j = k /\ map'[j].val = routing)
        /\ \A u \in Threads, j \in Keys : l1'[u][j] = l1[u][j] \/ j \in late' \/ l1'[u][j] = routing
        /\ \A j \in Keys : j \in late => j \in late'
    BY <2>e, <2>l
  <2>4. MapIsCurrent' /\ L1IsCurrent'
    BY <2>b, <2>c, <2>e DEF MapIsCurrent, L1IsCurrent, Outdated
  <2>d. StoreIsCurrent'
    BY <2>m, <2>c, <2>e DEF StoreIsCurrent, At
  <2>f. BehindIsEmpty'
    BY <2>l, <2>e DEF BehindIsEmpty, Typed, TypeOK
  <2>5. OneEditor'
    BY <2>k, <2>m, <2>e, <2>l, <1>t DEF OneEditor, Editing, SetKey, EditThen, At, LocalSteps
  <2>6. SameRecords
    BY <2>k, <2>m, <2>e, <2>l, <1>t DEF SameRecords, Permanent, Typed, TypeOK
  <2>7. SameStages
    BY <2>k, <2>m, <2>e, <2>l, <1>t DEF SameStages, Aside, Editing, Holding, SetKey, EditThen,
        LocalSteps, ClearSteps, At
  <2>8. Kinds'
    BY <2>k, <2>m, <2>e, <2>l, <1>t DEF Kinds, Permanent, Ours, LocalInv, Typed, TypeOK
  <2>9. LocalInv'
    BY <2>k, <2>m, <2>e, <2>l, <1>t, <2>6, <2>7, <2>8, LocalsStay DEF LocalInv
  <2>10. CopyInv'
    <3>1. \A u \in Threads \ behind', j \in LocalKeys :
              l1'[u][j] = l1[u][j] \/ (~Permanent(j) /\ l1'[u][j] \in Routings)
      BY <2>e, <2>l, <1>t DEF Permanent
    <3>2. CopiesInStep' /\ NoneAstray'
      BY <2>m, <2>e, <2>6, <2>7, <3>1, CopiesStay DEF At
    <3>3. RestorerIsEmpty'
      <4>1. \A u \in Threads \ {t}, j \in Keys : l1'[u][j] = l1[u][j]
        BY <2>l
      <4> QED BY <2>m, <4>1 DEF CopyInv, RestorerIsEmpty, At
    <3> QED BY <3>2, <3>3 DEF CopyInv
  <2> QED BY <2>1, <2>2, <2>a, <2>3, <2>4, <2>d, <2>f, <2>5, <2>9, <2>10
<1>9. ASSUME NEW t \in Threads, RenewBogus(t)
      PROVE  CacheInv'
  <2> USE <1>9
  <2>k. PICK k \in UpstreamKeys, via \in Routings :
            k = op[t].key /\ via = op[t].via /\ op[t] \in StoreOps
    BY StepFacts DEF StoreSteps, RenewBogus, At, Typed
  <2>m. /\ op' \in [Threads -> Steps] /\ \A u \in Threads \ {t} : op'[u] = op[u]
        /\ op[t].at = "renew" /\ op'[t].at = "bogus_l1"
    BY MakesSteps, GotoMoves DEF RenewBogus, At, Typed
  <2>v. Vacant \in Records /\ Vacant.kind = "vacant" /\ Vacant.val = NoAnswer
    BY DEF Vacant, Records, Answers
  <2>e. /\ map' \in [Keys -> Records]
        /\ map'[k] = Vacant /\ \A j \in Keys \ {k} : map'[j] = map[j]
        /\ owned' = owned \ {k}
        /\ struck' = IF Permanent(k) THEN struck \cup {k} ELSE struck
        /\ UNCHANGED <<fresh, aged, l1, behind, config, routing, late, missed, shadowed, writer,
                       carried>>
    BY <2>k, <2>v, <1>t DEF RenewBogus, Strikes, Records, Typed, TypeOK
  <2>1. Typed'
    <3>1. TypeOK'
      BY <2>k, <2>m, <2>e, <2>v, <1>t DEF Typed, TypeOK, Records
    <3>2. \A u \in Threads : At(u, "evict")' => op'[u].caller = Idle \/ op'[u].caller.at = "insert_room"
      BY <2>k, <2>m, <2>e, <2>v, <1>t DEF Typed, At
    <3> QED BY <2>m, <3>1, <3>2 DEF Typed, At
  <2>2. OneRotation' /\ FlipCarriesNone' /\ SetIsAdmitted' /\ HeldIsAdmitted'
    BY <2>k, <2>m, <2>e, <2>v, <1>t DEF OneRotation, FlipCarriesNone, At, SetIsAdmitted,
        BloomSet, SetKey,
        HeldIsAdmitted, Held, Admitted, Typed
  <2>3. OneClear'
    BY <2>k, <2>m, <2>e, <2>v, <1>t DEF OneClear, ClearSteps
  <2>4. MapIsCurrent' /\ L1IsCurrent' /\ StoreIsCurrent' /\ BehindIsEmpty'
    BY <2>k, <2>m, <2>e, <2>v, <1>t DEF MapIsCurrent, Outdated, ClearingMap, L1IsCurrent,
        ClearingL1,
        ClearSteps, StoreIsCurrent, At, BehindIsEmpty, Typed
  <2>5. OneEditor'
    BY <2>k, <2>m, <2>e, <2>v, <1>t DEF OneEditor, Editing, SetKey, EditThen, At, LocalSteps
  <2>6. SameRecords
    BY <2>k, <2>m, <2>e, <2>v, <1>t DEF SameRecords, Permanent, Typed, TypeOK, LocalInv,
        RegistryInStep, Ours
  <2>7. SameStages
    BY <2>k, <2>m, <2>e, <2>v, <1>t DEF SameStages, Aside, Editing, Holding, SetKey, EditThen,
        LocalSteps, ClearSteps, At
  <2>8. Kinds'
    BY <2>k, <2>m, <2>e, <2>v, <1>t DEF Kinds, Permanent, Ours, LocalInv, Typed, TypeOK
  <2>9. LocalInv'
    BY <2>k, <2>m, <2>e, <2>v, <1>t, <2>6, <2>7, <2>8, LocalsStay DEF LocalInv
  <2>10. CopyInv'
    <3>1. CopiesInStep' /\ NoneAstray'
      BY <2>k, <2>m, <2>e, <2>v, <1>t, <2>6, <2>7, CopiesStay DEF At
    <3>2. RestorerIsEmpty'
      BY <2>k, <2>m, <2>e, <2>v, <1>t DEF CopyInv, RestorerIsEmpty, At, TypeOK, Typed
    <3> QED BY <3>1, <3>2 DEF CopyInv
  <2> QED BY <2>1, <2>2, <2>3, <2>4, <2>5, <2>9, <2>10
<1>10. ASSUME NEW t \in Threads, BogusL1(t)
      PROVE  CacheInv'
  <2> USE <1>10
  <2>m. /\ op' \in [Threads -> Steps] /\ \A u \in Threads \ {t} : op'[u] = op[u]
        /\ op[t].at = "bogus_l1" /\ op'[t] = Idle /\ op'[t].at = "idle"
    BY MakesSteps, GotoMoves DEF BogusL1, At, Typed
  <2>l. /\ l1' \in [Threads -> [Keys -> Answers]] /\ behind' = Threads \ {t}
        /\ \A u \in Threads, j \in Keys : l1'[u][j] = NoAnswer
        /\ shadowed' = {}
    BY ClearedFacts DEF BogusL1
  <2>e. UNCHANGED <<map, owned, fresh, aged, config, routing, late, missed, struck, writer,
                    carried>>
    BY DEF BogusL1, shared
  <2>1. Typed'
    <3>1. TypeOK'
      BY <2>m, <2>e, <2>l, <1>t DEF Typed, TypeOK, Answers
    <3>2. \A u \in Threads : At(u, "evict")' => op'[u].caller = Idle \/ op'[u].caller.at = "insert_room"
      BY <2>m, <2>e, <2>l, <1>t DEF Typed, At
    <3> QED BY <2>m, <3>1, <3>2 DEF Typed, At
  <2>2. OneRotation' /\ FlipCarriesNone' /\ SetIsAdmitted' /\ HeldIsAdmitted'
    BY <2>m, <2>e, <2>l, <1>t DEF OneRotation, FlipCarriesNone, At, SetIsAdmitted, BloomSet, SetKey,
        HeldIsAdmitted, Held, Admitted, Typed
  <2>3. OneClear'
    BY <2>m, <2>e, <2>l, <1>t DEF OneClear, ClearSteps
  <2>4. MapIsCurrent' /\ L1IsCurrent' /\ StoreIsCurrent' /\ BehindIsEmpty'
    BY <2>m, <2>e, <2>l, <1>t DEF MapIsCurrent, Outdated, ClearingMap, L1IsCurrent, ClearingL1,
        ClearSteps, StoreIsCurrent, At, BehindIsEmpty, Typed
  <2>5. OneEditor'
    BY <2>m, <2>e, <2>l, <1>t DEF OneEditor, Editing, SetKey, EditThen, At, LocalSteps
  <2>6. SameRecords
    BY <2>m, <2>e, <2>l, <1>t DEF SameRecords, Permanent, Typed, TypeOK
  <2>7. SameStages
    BY <2>m, <2>e, <2>l, <1>t DEF SameStages, Aside, Editing, Holding, SetKey, EditThen,
        LocalSteps, ClearSteps, At
  <2>8. Kinds'
    BY <2>m, <2>e, <2>l, <1>t DEF Kinds, Permanent, Ours, LocalInv, Typed, TypeOK
  <2>9. LocalInv'
    BY <2>m, <2>e, <2>l, <1>t, <2>6, <2>7, <2>8, LocalsStay DEF LocalInv
  <2>10. CopyInv'
    BY <2>m, <2>l, CopiesGone DEF Typed
  <2> QED BY <2>1, <2>2, <2>3, <2>4, <2>5, <2>9, <2>10
<1>11. ASSUME NEW t \in Threads, StoreBloom(t)
      PROVE  CacheInv'
  <2> USE <1>11
  <2>k. PICK k \in UpstreamKeys, via \in Routings :
            k = op[t].key /\ via = op[t].via /\ op[t] \in StoreOps
    BY StepFacts DEF StoreSteps, StoreBloom, At, Typed
  <2>m. /\ op' \in [Threads -> Steps] /\ \A u \in Threads \ {t} : op'[u] = op[u]
        /\ op[t].at = "store_bloom" /\ op'[t].at = "store_map"
        /\ op'[t].key = k /\ op'[t].via = via
    BY <2>k, StepMoves DEF StoreSteps, StoreBloom, At, Typed
  <2>e. /\ fresh' = fresh \cup {k}
        /\ UNCHANGED <<map, owned, aged, l1, behind, config, routing, late, missed, struck,
                       shadowed, writer,
                       carried>>
    BY <2>k DEF StoreBloom, history
  <2>1. Typed'
    BY <2>k, <2>m, <2>e, <1>t DEF Typed, TypeOK, At
  <2>2. OneRotation' /\ FlipCarriesNone' /\ SetIsAdmitted' /\ HeldIsAdmitted'
    BY <2>k, <2>m, <2>e, <1>t DEF OneRotation, FlipCarriesNone, At, SetIsAdmitted, BloomSet,
        SetKey, HeldIsAdmitted, Held, Admitted, Typed
  <2>3. OneClear'
    BY <2>k, <2>m, <2>e, <1>t DEF OneClear, Editing, At, ClearSteps, LocalSteps, Permanent, Typed
  <2>4. MapIsCurrent' /\ L1IsCurrent' /\ StoreIsCurrent' /\ BehindIsEmpty'
    BY <2>k, <2>m, <2>e, <1>t DEF MapIsCurrent, Outdated, ClearingMap, L1IsCurrent, ClearingL1,
        ClearSteps, StoreIsCurrent, At, BehindIsEmpty, Typed
  <2>5. OneEditor'
    BY <2>k, <2>m, <2>e, <1>t DEF OneEditor, Editing, SetKey, EditThen, At, LocalSteps,
        ClearingMap, ClearSteps, Permanent, Typed
  <2>6. SameRecords
    BY <2>k, <2>m, <2>e, <1>t DEF SameRecords, Permanent, Typed, TypeOK
  <2>7. SameStages
    BY <2>k, <2>m, <2>e, <1>t DEF SameStages, Aside, Editing, Holding, SetKey, EditThen,
        LocalSteps, ClearSteps, At
  <2>8. Kinds'
    BY <2>k, <2>m, <2>e, <1>t DEF Kinds, Permanent, Ours, LocalInv, Typed, TypeOK
  <2>9. LocalInv'
    BY <2>k, <2>m, <2>e, <1>t, <2>6, <2>7, <2>8, LocalsStay DEF LocalInv
  <2>10. CopyInv'
    <3>1. CopiesInStep' /\ NoneAstray'
      BY <2>k, <2>m, <2>e, <1>t, <2>6, <2>7, CopiesStay DEF At
    <3>2. RestorerIsEmpty'
      BY <2>k, <2>m, <2>e, <1>t DEF CopyInv, RestorerIsEmpty, At, TypeOK, Typed
    <3> QED BY <3>1, <3>2 DEF CopyInv
  <2> QED BY <2>1, <2>2, <2>3, <2>4, <2>5, <2>6, <2>7, <2>8, <2>9, <2>10
<1>12. ASSUME NEW t \in Threads, StoreMap(t), Permanent(op[t].key)
      PROVE  CacheInv'
  <2> USE <1>12
  <2>m. /\ op' \in [Threads -> Steps] /\ \A u \in Threads \ {t} : op'[u] = op[u]
        /\ op[t].at = "store_map" /\ op'[t] = Idle /\ op'[t].at = "idle"
    BY MakesSteps, GotoMoves, StepFacts DEF StoreMap, At, Typed
  <2>e. /\ carried' = carried \ {t}
        /\ UNCHANGED <<map, owned, fresh, aged, l1, behind, config, routing, late, missed,
                       struck, shadowed, writer>>
    BY DEF StoreMap
  <2>1. Typed'
    BY <2>m, <2>e DEF Typed, TypeOK, At
  <2>2. OneRotation' /\ FlipCarriesNone' /\ SetIsAdmitted' /\ HeldIsAdmitted'
    BY <2>m, <2>e DEF OneRotation, FlipCarriesNone, At, SetIsAdmitted, BloomSet, SetKey,
        HeldIsAdmitted, Held, Admitted, Typed
  <2>3. OneClear'
    BY <2>m, <2>e DEF OneClear, Editing, At, ClearSteps, LocalSteps, Permanent, Typed
  <2>4. MapIsCurrent' /\ L1IsCurrent' /\ StoreIsCurrent' /\ BehindIsEmpty'
    BY <2>m, <2>e DEF MapIsCurrent, Outdated, ClearingMap, L1IsCurrent, ClearingL1, ClearSteps,
        StoreIsCurrent, At, BehindIsEmpty, Typed
  <2>5. OneEditor'
    BY <2>m, <2>e DEF OneEditor, Editing, SetKey, EditThen, At, LocalSteps, ClearingMap,
        ClearSteps, Permanent, Typed
  <2>6. SameRecords
    BY <2>m, <2>e, <1>t DEF SameRecords, Permanent, Typed, TypeOK
  <2>7. SameStages
    BY <2>m, <2>e, <1>t DEF SameStages, Aside, Editing, Holding, SetKey, EditThen, LocalSteps,
        ClearSteps, At
  <2>8. Kinds'
    BY <2>m, <2>e, <1>t DEF Kinds, Permanent, Ours, LocalInv, Typed, TypeOK
  <2>9. LocalInv'
    BY <2>m, <2>e, <1>t, <2>6, <2>7, <2>8, LocalsStay DEF LocalInv
  <2>10. CopyInv'
    <3>1. CopiesInStep' /\ NoneAstray'
      BY <2>m, <2>e, <1>t, <2>6, <2>7, CopiesStay DEF At
    <3>2. RestorerIsEmpty'
      BY <2>m, <2>e, <1>t DEF CopyInv, RestorerIsEmpty, At, TypeOK, Typed
    <3> QED BY <3>1, <3>2 DEF CopyInv
  <2> QED BY <2>1, <2>2, <2>3, <2>4, <2>5, <2>6, <2>7, <2>8, <2>9, <2>10
<1>13. ASSUME NEW t \in Threads, StoreMap(t), ~Permanent(op[t].key)
      PROVE  CacheInv'
  <2> USE <1>13
  <2>k. PICK k \in UpstreamKeys, via \in Routings :
            k = op[t].key /\ via = op[t].via /\ op[t] \in StoreOps
    BY StepFacts DEF StoreSteps, StoreMap, At, Typed
  <2>m. /\ op' \in [Threads -> Steps] /\ \A u \in Threads \ {t} : op'[u] = op[u]
        /\ op[t].at = "store_map" /\ op'[t].at = "store_l1"
        /\ op'[t].key = k /\ op'[t].via = via
    BY <2>k, StepMoves DEF StoreSteps, StoreMap, At, Typed
  <2>e. /\ ~Permanent(k) /\ map' = [map EXCEPT ![k] = Entry("cached", via)]
        /\ late' = IF via = routing THEN late ELSE late \cup {k}
        /\ carried' = carried \ {t}
        /\ UNCHANGED <<owned, fresh, aged, l1, behind, config, routing, missed, struck, shadowed,
                       writer>>
    BY <2>k DEF StoreMap
  <2>v. Entry("cached", via) \in Records /\ Entry("cached", via).kind = "cached"
        /\ Entry("cached", via).val = via
    BY DEF Entry, Records, Answers
  <2>1. Typed'
    <3>1. TypeOK'
      BY <2>k, <2>m, <2>e, <2>v, <1>t DEF Typed, TypeOK, Records
    <3>2. op' \in [Threads -> Steps]
      BY <2>m
    <3>3. \A u \in Threads : At(u, "evict")' => op'[u].caller = Idle \/ op'[u].caller.at = "insert_room"
      BY <2>k, <2>m, <2>e, <2>v, <1>t DEF Typed, At
    <3> QED BY <1>t, <3>1, <3>2, <3>3 DEF Typed, At
  <2>2. OneRotation' /\ FlipCarriesNone' /\ SetIsAdmitted'
    BY <2>k, <2>m, <2>e, <2>v, <1>t DEF OneRotation, FlipCarriesNone, At, SetIsAdmitted,
        BloomSet, SetKey, Typed
  <2>3. HeldIsAdmitted'
    BY <2>k, <2>m, <2>e, <2>v, <1>t DEF HeldIsAdmitted, Held, Admitted, At, SetIsAdmitted,
        BloomSet, SetKey, Typed
  <2>4. OneClear'
    BY <2>k, <2>m, <2>e, <2>v, <1>t DEF OneClear, Editing, At, ClearSteps, LocalSteps, Permanent,
        Typed
  <2>5. MapIsCurrent' /\ L1IsCurrent' /\ StoreIsCurrent' /\ BehindIsEmpty'
    BY <2>k, <2>m, <2>e, <2>v, <1>t DEF MapIsCurrent, Outdated, ClearingMap, L1IsCurrent,
        ClearingL1, ClearSteps, StoreIsCurrent, At, BehindIsEmpty, Typed
  <2>6. OneEditor'
    BY <2>k, <2>m, <2>e, <2>v, <1>t DEF OneEditor, Editing, SetKey, EditThen, At, LocalSteps,
        ClearingMap, ClearSteps, Permanent, Typed
  <2>7. SameRecords
    BY <2>k, <2>m, <2>e, <2>v, <1>t DEF SameRecords, Permanent, Typed, TypeOK
  <2>8. SameStages
    BY <2>k, <2>m, <2>e, <2>v, <1>t DEF SameStages, Aside, Editing, Holding, SetKey, EditThen,
        LocalSteps, ClearSteps, At
  <2>9. Kinds'
    BY <2>k, <2>m, <2>e, <2>v, <1>t DEF Kinds, Permanent, Ours, LocalInv, Typed, TypeOK
  <2>10. LocalInv'
    BY <2>k, <2>m, <2>e, <2>v, <1>t, <2>7, <2>8, <2>9, LocalsStay DEF LocalInv
  <2>11. CopyInv'
    <3>1. CopiesInStep' /\ NoneAstray'
      BY <2>k, <2>m, <2>e, <2>v, <1>t, <2>7, <2>8, CopiesStay DEF At
    <3>2. RestorerIsEmpty'
      BY <2>k, <2>m, <2>e, <2>v, <1>t DEF CopyInv, RestorerIsEmpty, At, TypeOK, Typed
    <3> QED BY <3>1, <3>2 DEF CopyInv
  <2> QED BY <2>1, <2>2, <2>3, <2>4, <2>5, <2>6, <2>7, <2>8, <2>9, <2>10, <2>11
<1>14. ASSUME NEW t \in Threads, StoreL1(t)
      PROVE  CacheInv'
  <2> USE <1>14
  <2>k. PICK k \in UpstreamKeys, via \in Routings :
            k = op[t].key /\ via = op[t].via /\ op[t] \in StoreOps
    BY StepFacts DEF StoreSteps, StoreL1, At, Typed
  <2>m. /\ op' \in [Threads -> Steps] /\ \A u \in Threads \ {t} : op'[u] = op[u]
        /\ op[t].at = "store_l1" /\ op'[t] = Idle /\ op'[t].at = "idle"
    BY MakesSteps, GotoMoves, StepFacts DEF StoreL1, At, Typed
  <2>e. /\ l1' = IF t \in behind THEN l1 ELSE [l1 EXCEPT ![t][k] = via]
        /\ UNCHANGED <<map, owned, fresh, aged, behind, config, routing, late, missed, struck,
                       shadowed, writer, carried>>
    BY <2>k DEF StoreL1, L1Put, shared, history
  <2>l. /\ l1' \in [Threads -> [Keys -> Answers]]
        /\ \A u \in Threads, j \in Keys :
               l1'[u][j] = IF u = t /\ j = k /\ t \notin behind THEN via ELSE l1[u][j]
    <3>1. via \in Answers /\ L1Put(t, k, via)
      BY <2>k DEF Answers, StoreL1
    <3> QED BY <2>k, <3>1, <1>t, PutFacts DEF Typed, TypeOK
  <2>1. Typed'
    <3>1. TypeOK'
      BY <2>e, <2>l DEF Typed, TypeOK
    <3>2. \A u \in Threads : At(u, "evict")' => op'[u].caller = Idle \/ op'[u].caller.at = "insert_room"
      BY <2>m DEF Typed, At
    <3> QED BY <2>m, <3>1, <3>2 DEF Typed, At
  <2>2. OneRotation' /\ FlipCarriesNone' /\ SetIsAdmitted' /\ HeldIsAdmitted'
    BY <2>k, <2>m, <2>e, <1>t DEF OneRotation, FlipCarriesNone, At, SetIsAdmitted, BloomSet,
        SetKey, HeldIsAdmitted, Held, Admitted, Typed
  <2>3. OneClear'
    BY <2>k, <2>m, <2>e, <1>t DEF OneClear, Editing, At, ClearSteps, LocalSteps, Permanent, Typed
  <2>4. MapIsCurrent' /\ StoreIsCurrent'
    BY <2>k, <2>m, <2>e, <1>t DEF MapIsCurrent, Outdated, ClearingMap, StoreIsCurrent,
        ClearingL1, ClearSteps, At, Typed
  <2>5. L1IsCurrent'
    BY <2>k, <2>m, <2>e, <1>t, <2>l DEF L1IsCurrent, Outdated, ClearingL1, ClearSteps,
        StoreIsCurrent, At, Typed
  <2>6. BehindIsEmpty'
    BY <2>k, <2>m, <2>e, <1>t, <2>l DEF BehindIsEmpty, Typed
  <2>7. OneEditor'
    BY <2>k, <2>m, <2>e, <1>t DEF OneEditor, Editing, SetKey, EditThen, At, LocalSteps,
        ClearingMap, ClearSteps, Permanent, Typed
  <2>8. SameRecords
    BY <2>k, <2>m, <2>e, <1>t DEF SameRecords, Permanent, Typed, TypeOK
  <2>9. SameStages
    BY <2>k, <2>m, <2>e, <1>t DEF SameStages, Aside, Editing, Holding, SetKey, EditThen,
        LocalSteps, ClearSteps, At
  <2>10. Kinds'
    BY <2>k, <2>m, <2>e, <1>t DEF Kinds, Permanent, Ours, LocalInv, Typed, TypeOK
  <2>11. LocalInv'
    BY <2>k, <2>m, <2>e, <1>t, <2>8, <2>9, <2>10, LocalsStay DEF LocalInv
  <2>12. CopyInv'
    <3>1. CopiesInStep' /\ NoneAstray'
      BY <2>k, <2>m, <2>e, <2>l, <1>t, <2>8, <2>9, CopiesStay DEF At
    <3>2. RestorerIsEmpty'
      BY <2>k, <2>m, <2>e, <2>l, <1>t DEF CopyInv, RestorerIsEmpty, At, TypeOK, Typed
    <3> QED BY <3>1, <3>2 DEF CopyInv
  <2> QED BY <2>1, <2>2, <2>3, <2>4, <2>5, <2>6, <2>7, <2>8, <2>9, <2>10, <2>11, <2>12
<1> HIDE DEF CacheInv
<1> QED BY <1>1, <1>2, <1>3, <1>4, <1>5, <1>6, <1>7, <1>8, <1>9, <1>10, <1>11, <1>12, <1>13, <1>14 DEF Get, Store
\* Edits of local records keep CacheInv.
LEMMA EditsKeep ==
    ASSUME CacheInv, UNCHANGED traffic,
           \E t \in Threads : Local(t)
    PROVE  CacheInv'
<1> USE DEF CacheInv
<1>0. /\ Keys' = Keys /\ LocalKeys' = LocalKeys /\ UpstreamKeys' = UpstreamKeys
      /\ Addresses' = Addresses /\ Ops' = Ops /\ Answers' = Answers
      /\ Records' = Records /\ Steps' = Steps
  BY TrafficStays
<1>t. /\ LocalKeys \subseteq Keys /\ UpstreamKeys \subseteq Keys
      /\ Routings \cap Addresses = {} /\ NoAnswer \notin Addresses /\ NoAnswer \notin Routings
      /\ Preloaded \in Addresses
  BY TrafficFacts DEF Typed
<1> USE <1>0
<1>1. ASSUME NEW t \in Threads, NEW k \in LocalKeys,
             NEW v \in Addresses \cup {NoAnswer}, Edit(t, k, v)
      PROVE  CacheInv'
  <2> USE <1>1
  <2>r. [at |-> "remove", key |-> k, then |-> {}] \in Steps
    BY MakesSteps
  <2>m. /\ op' \in [Threads -> Steps] /\ \A u \in Threads \ {t} : op'[u] = op[u]
        /\ op[t] = Idle /\ op[t].at = "idle"
        /\ op'[t].at = "remove" /\ op'[t].key = k /\ op'[t].then = {}
    BY <2>r, MakesSteps, GotoMoves DEF Edit, Starts, Typed
  <2>e. /\ writer = NoThread /\ writer' = t /\ config' = [config EXCEPT ![k] = v]
        /\ UNCHANGED <<map, owned, fresh, aged, l1, behind, routing, late, missed, struck,
                       shadowed, carried>>
    BY DEF Edit, shared, history
  <2>d. \A u \in Threads : ~Editing(u)
    BY <2>e, SoleEditor
  <2>1. Typed'
    BY <2>m, <2>e, <1>t, <2>d DEF Typed, TypeOK, At
  <2>2. OneRotation' /\ FlipCarriesNone' /\ SetIsAdmitted' /\ HeldIsAdmitted'
    BY <2>m, <2>e, <1>t, <2>d DEF OneRotation, FlipCarriesNone, At, SetIsAdmitted, BloomSet,
        SetKey, HeldIsAdmitted, Held, Admitted, Typed
  <2>3. OneClear'
    BY <2>m, <2>e, <1>t, <2>d DEF OneClear, Editing, At, ClearSteps, LocalSteps, Permanent, Typed
  <2>4. MapIsCurrent' /\ L1IsCurrent' /\ StoreIsCurrent' /\ BehindIsEmpty'
    BY <2>m, <2>e, <1>t, <2>d DEF MapIsCurrent, Outdated, ClearingMap, L1IsCurrent, ClearingL1,
        ClearSteps, StoreIsCurrent, At, BehindIsEmpty, Typed
  <2>5. OneEditor'
    BY <2>m, <2>e, <1>t, <2>d DEF OneEditor, Editing, SetKey, EditThen, At, LocalSteps, Typed
  <2>6. ~Holding(t) /\ ~Holding(t)'
    BY <2>m DEF Holding, ClearSteps
  <2>7. /\ EditDue(k)' /\ \A j \in LocalKeys : ~EditDue(j)
        /\ \A j \in LocalKeys \ {k} : config'[j] = config[j]
    BY <2>m, <2>d, <2>e DEF EditDue, Editing, LocalSteps, SetKey, At, Typed, TypeOK
  <2>8. \A j \in LocalKeys \ struck' : j \notin struck /\ KeyStep(j)
    BY <2>e, <2>7 DEF KeyStep, KeepsRecord, Permanent
  <2>9. EditedIsFree'
    <3>1. \A u \in Threads \ {t} : ~Editing(u)'
      BY <2>d, <2>m DEF Editing, At
    <3> QED BY <2>m, <3>1 DEF EditedIsFree
  <2>10. Kinds'
    BY <2>e DEF Kinds, Permanent, Ours, LocalInv
  <2>11. LocalInv'
    BY <2>6, <2>8, <2>9, <2>10, <2>m, EditSteps DEF LocalInv
  <2>12. CopyInv'
    BY <2>m, <2>e, <1>t DEF CopyInv, CopiesInStep, NoneAstray, RestorerIsEmpty, Permanent, Holding,
        ClearSteps, At, Ours
  <2> QED BY <2>1, <2>2, <2>3, <2>4, <2>5, <2>6, <2>7, <2>8, <2>9, <2>10, <2>11, <2>12
<1>2. ASSUME NEW t \in Threads, NEW k \in LocalKeys, NEW j \in LocalKeys, Rename(t, k, j)
      PROVE  CacheInv'
  <2> USE <1>2
  <2>r. [at |-> "remove", key |-> k, then |-> {j}] \in Steps
    BY MakesSteps
  <2>m. /\ op' \in [Threads -> Steps] /\ \A u \in Threads \ {t} : op'[u] = op[u]
        /\ op[t] = Idle /\ op[t].at = "idle"
        /\ op'[t].at = "remove" /\ op'[t].key = k /\ op'[t].then = {j}
    BY <2>r, MakesSteps, GotoMoves DEF Rename, Starts, Typed
  <2>e. /\ writer = NoThread /\ writer' = t /\ k # j
        /\ config' = [config EXCEPT ![k] = NoAnswer, ![j] = config[k]]
        /\ UNCHANGED <<map, owned, fresh, aged, l1, behind, routing, late, missed, struck,
                       shadowed, carried>>
    BY DEF Rename, shared, history
  <2>d. \A u \in Threads : ~Editing(u)
    BY <2>e, SoleEditor
  <2>1. Typed'
    BY <2>m, <2>e, <1>t, <2>d DEF Typed, TypeOK, At
  <2>2. OneRotation' /\ FlipCarriesNone' /\ SetIsAdmitted' /\ HeldIsAdmitted'
    BY <2>m, <2>e, <1>t, <2>d DEF OneRotation, FlipCarriesNone, At, SetIsAdmitted, BloomSet,
        SetKey, HeldIsAdmitted, Held, Admitted, Typed
  <2>3. OneClear'
    BY <2>m, <2>e, <1>t, <2>d DEF OneClear, Editing, At, ClearSteps, LocalSteps, Permanent, Typed
  <2>4. MapIsCurrent' /\ L1IsCurrent' /\ StoreIsCurrent' /\ BehindIsEmpty'
    BY <2>m, <2>e, <1>t, <2>d DEF MapIsCurrent, Outdated, ClearingMap, L1IsCurrent, ClearingL1,
        ClearSteps, StoreIsCurrent, At, BehindIsEmpty, Typed
  <2>5. OneEditor'
    BY <2>m, <2>e, <1>t, <2>d DEF OneEditor, Editing, SetKey, EditThen, At, LocalSteps, Typed
  <2>6. ~Holding(t) /\ ~Holding(t)'
    BY <2>m DEF Holding, ClearSteps
  <2>7. /\ EditDue(k)' /\ EditDue(j)' /\ \A i \in LocalKeys : ~EditDue(i)
        /\ \A i \in LocalKeys \ {k, j} : config'[i] = config[i]
    BY <2>m, <2>d, <2>e DEF EditDue, Editing, LocalSteps, SetKey, EditThen, At, Typed, TypeOK
  <2>8. \A i \in LocalKeys \ struck' : i \notin struck /\ KeyStep(i)
    BY <2>e, <2>7 DEF KeyStep, KeepsRecord, Permanent
  <2>9. EditedIsFree'
    <3>1. \A u \in Threads \ {t} : ~Editing(u)'
      BY <2>d, <2>m DEF Editing, At
    <3> QED BY <2>m, <3>1 DEF EditedIsFree
  <2>10. Kinds'
    BY <2>e DEF Kinds, Permanent, Ours, LocalInv
  <2>11. LocalInv'
    BY <2>6, <2>8, <2>9, <2>10, <2>m, EditSteps DEF LocalInv
  <2>12. CopyInv'
    BY <2>m, <2>e, <1>t DEF CopyInv, CopiesInStep, NoneAstray, RestorerIsEmpty, Permanent, Holding,
        ClearSteps, At, Ours
  <2> QED BY <2>1, <2>2, <2>3, <2>4, <2>5, <2>6, <2>7, <2>8, <2>9, <2>10, <2>11, <2>12
<1>3. ASSUME NEW t \in Threads, Remove(t), Held(op[t].key)
      PROVE  CacheInv'
  <2> USE <1>3
  <2>k. PICK k \in LocalKeys, rest \in SUBSET LocalKeys :
            /\ k = op[t].key /\ rest = op[t].then /\ op[t] \in LocalOps
            /\ op[t].at = "remove" /\ op[t].at \in LocalSteps
    BY StepFacts DEF Remove, At, Typed, LocalSteps
  <2>d. Editing(t) /\ \A u \in Threads \ {t} : ~Editing(u)
    BY <2>k, SoleEditor DEF Editing
  <2>m. /\ op' \in [Threads -> Steps] /\ \A u \in Threads \ {t} : op'[u] = op[u]
        /\ op'[t].at = "remove_l1" /\ op'[t].key = k /\ op'[t].then = rest
    BY <2>k, StepMoves DEF Remove, At, Typed, LocalSteps
  <2>e. /\ map' = [map EXCEPT ![k] = Vacant] /\ owned' = owned \ {k}
        /\ struck' = IF ClearHolds(k) THEN struck \cup {k} ELSE struck
        /\ UNCHANGED <<fresh, aged, l1, behind, config, routing, late, missed, shadowed, writer,
                       carried>>
    BY <2>k DEF Remove, history
  <2>v. Vacant \in Records /\ Vacant.kind = "vacant" /\ Vacant.val = NoAnswer
    BY DEF Vacant, Records, Answers
  <2>1. Typed'
    <3>1. TypeOK'
      BY <2>k, <2>m, <2>e, <2>d, <1>t, <2>v DEF Typed, TypeOK, Records
    <3>2. op' \in [Threads -> Steps]
      BY <2>m
    <3>3. \A u \in Threads : At(u, "evict")' => op'[u].caller = Idle \/ op'[u].caller.at = "insert_room"
      BY <2>k, <2>m, <2>e, <2>d, <1>t, <2>v DEF Typed, At
    <3> QED BY <1>t, <3>1, <3>2, <3>3 DEF Typed, At
  <2>2. OneRotation' /\ FlipCarriesNone' /\ SetIsAdmitted' /\ HeldIsAdmitted'
    BY <2>k, <2>m, <2>e, <2>d, <1>t, <2>v DEF OneRotation, FlipCarriesNone, At, SetIsAdmitted,
        BloomSet, SetKey, HeldIsAdmitted, Held, Admitted, Typed
  <2>3. OneClear'
    BY <2>k, <2>m, <2>e, <2>d, <1>t, <2>v DEF OneClear, Editing, At, ClearSteps, LocalSteps,
        Permanent, Typed
  <2>4. MapIsCurrent' /\ L1IsCurrent' /\ StoreIsCurrent' /\ BehindIsEmpty'
    BY <2>k, <2>m, <2>e, <2>d, <1>t, <2>v DEF MapIsCurrent, Outdated, ClearingMap, L1IsCurrent,
        ClearingL1, ClearSteps, StoreIsCurrent, At, BehindIsEmpty, Typed
  <2>5. OneEditor'
    BY <2>k, <2>m, <2>e, <2>d, <1>t, <2>v DEF OneEditor, Editing, SetKey, EditThen, At,
        LocalSteps, Typed
  <2>6. ~Holding(t) /\ ~Holding(t)'
    BY <2>k, <2>m DEF Holding, ClearSteps
  <2>7. /\ SetKey(t) = k /\ SetKey(t)' = k /\ Editing(t)' /\ EditThen(t) = rest /\ EditThen(t)' = rest
        /\ \A u \in Threads \ {t} : ~Editing(u)'
    BY <2>k, <2>m, <2>d DEF SetKey, EditThen, Editing, LocalSteps, At
  <2>8. EditDue(k)' /\ \A j \in LocalKeys : EditDue(j)' <=> EditDue(j)
    BY <2>7, <2>d, <2>k, <2>m DEF EditDue, At
  <2>9. map'[k] = Vacant /\ \A j \in Keys \ {k} : map'[j] = map[j]
    BY <2>e, <1>t DEF Typed, TypeOK
  <2>10. \A j \in LocalKeys \ struck' : j \notin struck /\ KeyStep(j)
    BY <2>e, <2>v, <2>8, <2>9, <1>t DEF KeyStep, KeepsRecord, Permanent
  <2>11. EditedIsFree'
    <3>1. k \notin struck' => ~ClearHolds(k)
      BY <2>e
    <3>2. ClearHolds(k)' <=> ClearHolds(k)
      BY <2>6, <2>m, ClearStays
    <3>3. ~Permanent(k)' /\ k \notin owned'
      BY <2>e, <2>v, <2>9 DEF Permanent
    <3>4. SetKey(t)' \notin struck' =>
              ~Permanent(SetKey(t))' /\ SetKey(t)' \notin owned' /\ ~ClearHolds(SetKey(t))'
      BY <2>7, <3>1, <3>2, <3>3 DEF Permanent, ClearHolds
    <3> QED BY <2>7, <3>4 DEF EditedIsFree
  <2>12. Kinds'
    BY <2>e, <2>v, <2>9, <1>t DEF Kinds, Permanent, Ours, LocalInv
  <2>13. LocalInv'
    BY <2>6, <2>10, <2>11, <2>12, <2>m, EditSteps DEF LocalInv
  <2>14. CopyInv'
    <3>1. CopiesInStep'
      BY <2>k, <2>m, <2>e, <2>v, <2>9, <1>t DEF CopyInv, CopiesInStep, Permanent, Holding,
          ClearSteps, At, Ours
    <3>2. NoneAstray' /\ RestorerIsEmpty'
      BY <2>k, <2>m, <2>e, <2>v, <2>9, <1>t DEF CopyInv, NoneAstray, RestorerIsEmpty, Permanent,
          At, Ours
    <3> QED BY <3>1, <3>2 DEF CopyInv
  <2> QED BY <2>1, <2>2, <2>3, <2>4, <2>5, <2>6, <2>7, <2>8, <2>9, <2>10, <2>11, <2>12, <2>13, <2>14
<1>4. ASSUME NEW t \in Threads, Remove(t), ~Held(op[t].key)
      PROVE  CacheInv'
  <2> USE <1>4
  <2>k. PICK k \in LocalKeys, rest \in SUBSET LocalKeys :
            /\ k = op[t].key /\ rest = op[t].then /\ op[t] \in LocalOps
            /\ op[t].at = "remove" /\ op[t].at \in LocalSteps
    BY StepFacts DEF Remove, At, Typed, LocalSteps
  <2>d. Editing(t) /\ \A u \in Threads \ {t} : ~Editing(u)
    BY <2>k, SoleEditor DEF Editing
  <2>m. /\ op' \in [Threads -> Steps] /\ \A u \in Threads \ {t} : op'[u] = op[u]
        /\ \/ /\ config[k] # NoAnswer /\ writer' = writer
              /\ op'[t].at = "insert_bloom" /\ op'[t].key = k /\ op'[t].then = rest
           \/ /\ config[k] = NoAnswer /\ rest = {} /\ writer' = NoThread
              /\ op'[t].at = "idle"
           \/ /\ config[k] = NoAnswer /\ writer' = writer
              /\ \E j \in rest : op'[t].at = "remove" /\ op'[t].key = j /\ op'[t].then = {}
    <3>1. AfterRemove(t)
      BY <2>k DEF Remove
    <3> QED BY <3>1, <2>k, AfterRemoveMoves DEF Typed
  <2>e. /\ struck' = IF ClearHolds(k) THEN struck \cup {k} ELSE struck
        /\ UNCHANGED <<map, owned, fresh, aged, l1, behind, config, routing, late, missed,
                       shadowed, carried>>
    BY <2>k DEF Remove, history
  <2>1. Typed'
    BY <2>k, <2>m, <2>e, <2>d, <1>t DEF Typed, TypeOK, At
  <2>2. OneRotation' /\ FlipCarriesNone' /\ SetIsAdmitted' /\ HeldIsAdmitted'
    BY <2>k, <2>m, <2>e, <2>d, <1>t DEF OneRotation, FlipCarriesNone, At, SetIsAdmitted,
        BloomSet, SetKey, HeldIsAdmitted, Held, Admitted, Typed
  <2>3. OneClear'
    BY <2>k, <2>m, <2>e, <2>d, <1>t DEF OneClear, Editing, At, ClearSteps, LocalSteps, Permanent,
        Typed
  <2>4. MapIsCurrent' /\ L1IsCurrent' /\ StoreIsCurrent' /\ BehindIsEmpty'
    BY <2>k, <2>m, <2>e, <2>d, <1>t DEF MapIsCurrent, Outdated, ClearingMap, L1IsCurrent,
        ClearingL1, ClearSteps, StoreIsCurrent, At, BehindIsEmpty, Typed
  <2>5. OneEditor'
    BY <2>k, <2>m, <2>e, <2>d, <1>t DEF OneEditor, Editing, SetKey, EditThen, At, LocalSteps, Typed
  <2>6. /\ op'[t].at \in {"insert_bloom", "idle", "remove"} /\ ~Holding(t) /\ ~Holding(t)'
        /\ \A u \in Threads \ {t} : ~Editing(u)'
    BY <2>k, <2>m, <2>d DEF Holding, ClearSteps, Editing, At
  <2>7. SetKey(t) = k /\ EditThen(t) = rest /\ ~Permanent(k) /\ EditDue(k)
    BY <2>k, <2>d DEF SetKey, EditThen, Permanent, Held, EditDue, At
  <2>8. k \notin struck' => k \notin owned /\ ~ClearHolds(k)
    <3> SUFFICES ASSUME k \notin struck, ~ClearHolds(k)
                 PROVE  k \notin owned
      BY <2>e
    <3>1. CASE ~Wiped(k)
      BY <3>1, <2>7, <2>k DEF LocalInv, RegistryInStep, Ours
    <3>2. CASE Wiped(k)
      <4>1. PICK u \in Threads : op[u].at \in {"clear_bloom", "clear_owned"}
        BY <3>2 DEF Wiped, ClearHolds, Saves, ClearSteps
      <4>2. Holding(u) /\ ~Saves(u, k)
        BY <4>1 DEF Holding, ClearSteps, ClearHolds, Saves
      <4> QED BY <4>1, <4>2, <2>k DEF LocalInv, SavedInStep, Ours
    <3> QED BY <3>1, <3>2
  <2>9. ASSUME op'[t].at = "insert_bloom"
        PROVE  /\ Editing(t)' /\ SetKey(t)' = k /\ EditThen(t)' = rest
               /\ \A j \in LocalKeys : EditDue(j)' <=> EditDue(j)
    <3>1. Editing(t)' /\ SetKey(t)' = k /\ EditThen(t)' = rest
      BY <2>9, <2>k, <2>m DEF Editing, LocalSteps, SetKey, EditThen, At
    <3> QED BY <3>1, <2>6, <2>7, <2>9, <2>d, <2>k DEF EditDue, At
  <2>10. ASSUME op'[t].at # "insert_bloom"
         PROVE  ~IsLocal(k) /\ \A j \in LocalKeys \ {k} : EditDue(j) => EditDue(j)'
    <3>1. ~IsLocal(k)
      BY <2>10, <2>k, <2>m DEF IsLocal
    <3>2. ASSUME NEW j \in LocalKeys \ {k}, EditDue(j)
          PROVE  EditDue(j)'
      <4>1. j \in rest
        BY <3>2, <2>7, <2>d DEF EditDue
      <4>2. op'[t].at = "remove" /\ op'[t].key = j
        BY <2>10, <2>7, <2>m, <2>k, <2>d, <4>1 DEF OneEditor
      <4> QED BY <4>2 DEF EditDue, Editing, LocalSteps, SetKey, At
    <3> QED BY <3>1, <3>2
  <2>11. \A j \in LocalKeys \ struck' : j \notin struck /\ KeyStep(j)
    <3>1. \A j \in LocalKeys : KeepsRecord(j) /\ config'[j] = config[j] /\ (IsLocal(j)' <=> IsLocal(j))
      BY <2>e DEF KeepsRecord, Permanent, IsLocal
    <3> QED BY <2>e, <2>7, <2>8, <2>9, <2>10, <3>1 DEF KeyStep
  <2>12. EditedIsFree'
    <3>1. ClearHolds(k)' <=> ClearHolds(k)
      BY <2>6, <2>m, ClearStays
    <3>2. ~Permanent(k)' /\ (k \notin struck' => k \notin owned')
      BY <2>e, <2>7, <2>8 DEF Permanent
    <3>3. ASSUME op'[t].at = "insert_bloom", SetKey(t)' \notin struck'
          PROVE  ~Permanent(SetKey(t))' /\ SetKey(t)' \notin owned' /\ ~ClearHolds(SetKey(t))'
      BY <2>8, <2>9, <3>1, <3>2, <3>3 DEF Permanent, ClearHolds
    <3>4. Editing(t)' => op'[t].at \in {"insert_bloom", "remove"}
      BY <2>6 DEF Editing, LocalSteps, At
    <3> QED BY <2>6, <3>3, <3>4 DEF EditedIsFree
  <2>13. Kinds'
    BY <2>e DEF Kinds, Permanent, Ours, LocalInv
  <2>14. LocalInv'
    BY <2>6, <2>11, <2>12, <2>13, <2>m, EditSteps DEF LocalInv
  <2>15. CopyInv'
    <3>1. CopiesInStep'
      BY <2>6, <2>k, <2>m, <2>e, <1>t DEF CopyInv, CopiesInStep, Permanent, Holding, ClearSteps,
          At, Ours
    <3>2. NoneAstray' /\ RestorerIsEmpty'
      BY <2>6, <2>k, <2>m, <2>e, <1>t DEF CopyInv, NoneAstray, RestorerIsEmpty, Permanent, At, Ours
    <3> QED BY <3>1, <3>2 DEF CopyInv
  <2> QED BY <2>1, <2>2, <2>3, <2>4, <2>5, <2>6, <2>7, <2>8, <2>9, <2>10, <2>11, <2>12, <2>13,
      <2>14, <2>15
<1>5. ASSUME NEW t \in Threads, RemoveL1(t)
      PROVE  CacheInv'
  <2> USE <1>5
  <2>k. PICK k \in LocalKeys, rest \in SUBSET LocalKeys :
            /\ k = op[t].key /\ rest = op[t].then /\ op[t] \in LocalOps
            /\ op[t].at = "remove_l1" /\ op[t].at \in LocalSteps
    BY StepFacts DEF RemoveL1, At, Typed, LocalSteps
  <2>d. Editing(t) /\ \A u \in Threads \ {t} : ~Editing(u)
    BY <2>k, SoleEditor DEF Editing
  <2>m. /\ op' \in [Threads -> Steps] /\ \A u \in Threads \ {t} : op'[u] = op[u]
        /\ \/ /\ config[k] # NoAnswer /\ writer' = writer
              /\ op'[t].at = "insert_bloom" /\ op'[t].key = k /\ op'[t].then = rest
           \/ /\ config[k] = NoAnswer /\ rest = {} /\ writer' = NoThread
              /\ op'[t].at = "idle"
           \/ /\ config[k] = NoAnswer /\ writer' = writer
              /\ \E j \in rest : op'[t].at = "remove" /\ op'[t].key = j /\ op'[t].then = {}
    <3>1. AfterRemove(t)
      BY <2>k DEF RemoveL1
    <3> QED BY <3>1, <2>k, AfterRemoveMoves DEF Typed
  <2>e. UNCHANGED <<map, owned, fresh, aged, config, routing, late, missed, struck, carried>>
    BY DEF RemoveL1, shared, history
  <2>l. /\ behind' = Threads \ {t} /\ l1' \in [Threads -> [Keys -> Answers]]
        /\ \A u \in Threads, j \in Keys : l1'[u][j] = NoAnswer
        /\ shadowed' = {}
    BY ClearedFacts DEF RemoveL1
  <2>1. Typed'
    <3>1. TypeOK'
      BY <2>k, <2>m, <2>e, <2>d, <1>t, <2>l DEF Typed, TypeOK
    <3>2. op' \in [Threads -> Steps]
      BY <2>m
    <3>3. \A u \in Threads : At(u, "evict")' => op'[u].caller = Idle \/ op'[u].caller.at = "insert_room"
      BY <2>k, <2>m, <2>e, <2>d, <1>t, <2>l DEF Typed, At
    <3> QED BY <1>t, <3>1, <3>2, <3>3 DEF Typed, At
  <2>2. OneRotation'
    BY <2>k, <2>m, <2>e, <2>d, <1>t, <2>l DEF OneRotation, Typed
  <2>3. FlipCarriesNone'
    BY <2>k, <2>m, <2>e, <2>d, <1>t, <2>l DEF FlipCarriesNone, At, Typed
  <2>4. SetIsAdmitted'
    BY <2>k, <2>m, <2>e, <2>d, <1>t, <2>l DEF SetIsAdmitted, BloomSet, SetKey, At, Typed
  <2>5. HeldIsAdmitted'
    BY <2>k, <2>m, <2>e, <2>d, <1>t, <2>l DEF HeldIsAdmitted, Held, Admitted, At, Typed
  <2>6. OneClear'
    BY <2>k, <2>m, <2>e, <2>d, <1>t, <2>l, SMTT(30) DEF OneClear, Editing, At, ClearSteps,
        LocalSteps, Typed
  <2>7. MapIsCurrent' /\ L1IsCurrent' /\ StoreIsCurrent' /\ BehindIsEmpty'
    BY <2>k, <2>m, <2>e, <2>d, <1>t, <2>l DEF MapIsCurrent, Outdated, ClearingMap, L1IsCurrent,
        ClearingL1, ClearSteps, StoreIsCurrent, At, BehindIsEmpty, Typed
  <2>8. OneEditor'
    BY <2>k, <2>m, <2>e, <2>d, <1>t, <2>l DEF OneEditor, Editing, SetKey, EditThen, At,
        LocalSteps, Typed
  <2>9. /\ op'[t].at \in {"insert_bloom", "idle", "remove"} /\ ~Holding(t) /\ ~Holding(t)'
        /\ \A u \in Threads \ {t} : ~Editing(u)'
    BY <2>k, <2>m, <2>d DEF Holding, ClearSteps, Editing, At
  <2>10. SetKey(t) = k /\ EditThen(t) = rest /\ EditDue(k)
    BY <2>k, <2>d DEF SetKey, EditThen, EditDue, At
  <2>11. k \notin struck => ~Permanent(k) /\ k \notin owned /\ ~ClearHolds(k)
    BY <2>10, <2>d, <2>k DEF LocalInv, EditedIsFree
  <2>12. ASSUME op'[t].at = "insert_bloom"
         PROVE  /\ Editing(t)' /\ SetKey(t)' = k /\ EditThen(t)' = rest
                /\ \A j \in LocalKeys : EditDue(j)' <=> EditDue(j)
    <3>1. Editing(t)' /\ SetKey(t)' = k /\ EditThen(t)' = rest
      BY <2>12, <2>k, <2>m DEF Editing, LocalSteps, SetKey, EditThen, At
    <3> QED BY <3>1, <2>9, <2>10, <2>12, <2>d, <2>k DEF EditDue, At
  <2>13. ASSUME op'[t].at # "insert_bloom"
         PROVE  ~IsLocal(k) /\ \A j \in LocalKeys \ {k} : EditDue(j) => EditDue(j)'
    <3>1. ~IsLocal(k)
      BY <2>13, <2>k, <2>m DEF IsLocal
    <3>2. ASSUME NEW j \in LocalKeys \ {k}, EditDue(j)
          PROVE  EditDue(j)'
      <4>1. j \in rest
        BY <3>2, <2>10, <2>d DEF EditDue
      <4>2. op'[t].at = "remove" /\ op'[t].key = j
        BY <2>13, <2>10, <2>m, <2>k, <2>d, <4>1 DEF OneEditor
      <4> QED BY <4>2 DEF EditDue, Editing, LocalSteps, SetKey, At
    <3> QED BY <3>1, <3>2
  <2>14. \A j \in LocalKeys \ struck' : j \notin struck /\ KeyStep(j)
    <3>1. \A j \in LocalKeys : KeepsRecord(j) /\ config'[j] = config[j] /\ (IsLocal(j)' <=> IsLocal(j))
      BY <2>e DEF KeepsRecord, Permanent, IsLocal
    <3> QED BY <2>e, <2>10, <2>11, <2>12, <2>13, <3>1 DEF KeyStep
  <2>15. EditedIsFree'
    <3>1. ClearHolds(k)' <=> ClearHolds(k)
      BY <2>9, <2>m, ClearStays
    <3>2. (Permanent(k)' <=> Permanent(k)) /\ (k \in owned' <=> k \in owned) /\ struck' = struck
      BY <2>e DEF Permanent
    <3>3. ASSUME op'[t].at = "insert_bloom", SetKey(t)' \notin struck'
          PROVE  ~Permanent(SetKey(t))' /\ SetKey(t)' \notin owned' /\ ~ClearHolds(SetKey(t))'
      BY <2>11, <2>12, <3>1, <3>2, <3>3 DEF Permanent, ClearHolds
    <3>4. Editing(t)' => op'[t].at \in {"insert_bloom", "remove"}
      BY <2>9 DEF Editing, LocalSteps, At
    <3> QED BY <2>9, <3>3, <3>4 DEF EditedIsFree
  <2>16. Kinds'
    BY <2>e DEF Kinds, Permanent, Ours, LocalInv
  <2>17. LocalInv'
    BY <2>9, <2>14, <2>15, <2>16, <2>m, EditSteps DEF LocalInv
  <2>18. CopyInv'
    BY <2>9, <2>l, CopiesGone DEF Typed
  <2> QED BY <2>1, <2>2, <2>3, <2>4, <2>5, <2>6, <2>7, <2>8, <2>9, <2>10, <2>11, <2>12, <2>13,
      <2>14, <2>15, <2>16, <2>17, <2>18
<1>6. ASSUME NEW t \in Threads, InsertBloom(t)
      PROVE  CacheInv'
  <2> USE <1>6
  <2>k. PICK k \in LocalKeys, rest \in SUBSET LocalKeys :
            /\ k = op[t].key /\ rest = op[t].then /\ op[t] \in LocalOps
            /\ op[t].at = "insert_bloom" /\ op[t].at \in LocalSteps
    BY StepFacts DEF InsertBloom, At, Typed, LocalSteps
  <2>d. Editing(t) /\ \A u \in Threads \ {t} : ~Editing(u)
    BY <2>k, SoleEditor DEF Editing
  <2>m. /\ op' \in [Threads -> Steps] /\ \A u \in Threads \ {t} : op'[u] = op[u]
        /\ op'[t].at = "insert_room" /\ op'[t].key = k /\ op'[t].then = rest
    BY <2>k, StepMoves DEF InsertBloom, At, Typed, LocalSteps
  <2>e. /\ fresh' = fresh \cup {k}
        /\ UNCHANGED <<map, owned, aged, l1, behind, config, routing, late, missed, struck,
                       shadowed, writer,
                       carried>>
    BY <2>k DEF InsertBloom, history
  <2>1. Typed'
    BY <2>k, <2>m, <2>e, <2>d, <1>t DEF Typed, TypeOK, At
  <2>2. OneRotation' /\ FlipCarriesNone' /\ SetIsAdmitted' /\ HeldIsAdmitted'
    BY <2>k, <2>m, <2>e, <2>d, <1>t DEF OneRotation, FlipCarriesNone, At, SetIsAdmitted,
        BloomSet, SetKey, HeldIsAdmitted, Held, Admitted, Typed
  <2>3. OneClear'
    BY <2>k, <2>m, <2>e, <2>d, <1>t DEF OneClear, Editing, At, ClearSteps, LocalSteps, Permanent,
        Typed
  <2>4. MapIsCurrent' /\ L1IsCurrent' /\ StoreIsCurrent' /\ BehindIsEmpty'
    BY <2>k, <2>m, <2>e, <2>d, <1>t DEF MapIsCurrent, Outdated, ClearingMap, L1IsCurrent,
        ClearingL1, ClearSteps, StoreIsCurrent, At, BehindIsEmpty, Typed
  <2>5. OneEditor'
    BY <2>k, <2>m, <2>e, <2>d, <1>t DEF OneEditor, Editing, SetKey, EditThen, At, LocalSteps, Typed
  <2>6. SameRecords
    BY <2>k, <2>m, <2>e, <2>d, <1>t DEF SameRecords, Permanent, Typed, TypeOK
  <2>7. SameStages
    BY <2>k, <2>m, <2>e, <2>d, <1>t DEF SameStages, Aside, Editing, Holding, SetKey, EditThen,
        LocalSteps, ClearSteps, At
  <2>8. Kinds'
    BY <2>k, <2>m, <2>e, <2>d, <1>t DEF Kinds, Permanent, Ours, LocalInv, Typed, TypeOK
  <2>9. LocalInv'
    BY <2>k, <2>m, <2>e, <2>d, <1>t, <2>6, <2>7, <2>8, LocalsStay DEF LocalInv
  <2>10. CopyInv'
    <3>1. CopiesInStep' /\ NoneAstray'
      BY <2>k, <2>m, <2>e, <2>d, <1>t, <2>6, <2>7, CopiesStay DEF At
    <3>2. RestorerIsEmpty'
      BY <2>k, <2>m, <2>e, <2>d, <1>t DEF CopyInv, RestorerIsEmpty, At, TypeOK, Typed
    <3> QED BY <3>1, <3>2 DEF CopyInv
  <2> QED BY <2>1, <2>2, <2>3, <2>4, <2>5, <2>6, <2>7, <2>8, <2>9, <2>10
<1>7. ASSUME NEW t \in Threads, InsertRoom(t)
      PROVE  CacheInv'
  <2> USE <1>7
  <2>k. PICK k \in LocalKeys, rest \in SUBSET LocalKeys :
            /\ k = op[t].key /\ rest = op[t].then /\ op[t] \in LocalOps
            /\ op[t].at = "insert_room" /\ op[t].at \in LocalSteps
    BY StepFacts DEF InsertRoom, At, Typed, LocalSteps
  <2>d. Editing(t) /\ \A u \in Threads \ {t} : ~Editing(u)
    BY <2>k, SoleEditor DEF Editing
  <2>m. /\ op' \in [Threads -> Steps] /\ \A u \in Threads \ {t} : op'[u] = op[u]
        /\ op'[t].at = "insert_map" /\ op'[t].key = k /\ op'[t].then = rest
    BY <2>k, StepMoves DEF InsertRoom, At, Typed, LocalSteps
  <2>e. UNCHANGED <<map, owned, fresh, aged, l1, behind, config, routing, late, missed, struck,
                    shadowed, writer, carried>>
    BY DEF InsertRoom, shared, history
  <2>1. Typed'
    <3>1. TypeOK'
      BY <2>k, <2>m, <2>e, <2>d, <1>t DEF Typed, TypeOK
    <3>2. op' \in [Threads -> Steps]
      BY <2>m
    <3>3. \A u \in Threads : At(u, "evict")' => op'[u].caller = Idle \/ op'[u].caller.at = "insert_room"
      BY <2>k, <2>m, <2>e, <2>d, <1>t DEF Typed, At
    <3> QED BY <1>t, <3>1, <3>2, <3>3 DEF Typed, At
  <2>2. OneRotation' /\ FlipCarriesNone' /\ SetIsAdmitted' /\ HeldIsAdmitted'
    BY <2>k, <2>m, <2>e, <2>d, <1>t DEF OneRotation, FlipCarriesNone, At, SetIsAdmitted,
        BloomSet, SetKey, HeldIsAdmitted, Held, Admitted, Typed
  <2>3. OneClear'
    BY <2>k, <2>m, <2>e, <2>d, <1>t DEF OneClear, Editing, At, ClearSteps, LocalSteps, Permanent,
        Typed
  <2>4. MapIsCurrent' /\ L1IsCurrent' /\ StoreIsCurrent' /\ BehindIsEmpty'
    BY <2>k, <2>m, <2>e, <2>d, <1>t DEF MapIsCurrent, Outdated, ClearingMap, L1IsCurrent,
        ClearingL1, ClearSteps, StoreIsCurrent, At, BehindIsEmpty, Typed
  <2>5. OneEditor'
    BY <2>k, <2>m, <2>e, <2>d, <1>t DEF OneEditor, Editing, SetKey, EditThen, At, LocalSteps, Typed
  <2>6. SameRecords
    BY <2>k, <2>m, <2>e, <2>d, <1>t DEF SameRecords, Permanent, Typed, TypeOK
  <2>7. SameStages
    BY <2>k, <2>m, <2>e, <2>d, <1>t DEF SameStages, Aside, Editing, Holding, SetKey, EditThen,
        LocalSteps, ClearSteps, At
  <2>8. Kinds'
    BY <2>k, <2>m, <2>e, <2>d, <1>t DEF Kinds, Permanent, Ours, LocalInv, Typed, TypeOK
  <2>9. LocalInv'
    BY <2>k, <2>m, <2>e, <2>d, <1>t, <2>6, <2>7, <2>8, LocalsStay DEF LocalInv
  <2>10. CopyInv'
    <3>1. CopiesInStep' /\ NoneAstray'
      BY <2>k, <2>m, <2>e, <2>d, <1>t, <2>6, <2>7, CopiesStay DEF At
    <3>2. RestorerIsEmpty'
      BY <2>k, <2>m, <2>e, <2>d, <1>t DEF CopyInv, RestorerIsEmpty, At, TypeOK, Typed
    <3> QED BY <3>1, <3>2 DEF CopyInv
  <2> QED BY <2>1, <2>2, <2>3, <2>4, <2>5, <2>6, <2>7, <2>8, <2>9, <2>10
<1>8. ASSUME NEW t \in Threads, InsertMap(t)
      PROVE  CacheInv'
  <2> USE <1>8
  <2>k. PICK k \in LocalKeys, rest \in SUBSET LocalKeys :
            /\ k = op[t].key /\ rest = op[t].then /\ op[t] \in LocalOps
            /\ op[t].at = "insert_map" /\ op[t].at \in LocalSteps
    BY StepFacts DEF InsertMap, At, Typed, LocalSteps
  <2>d. Editing(t) /\ \A u \in Threads \ {t} : ~Editing(u)
    BY <2>k, SoleEditor DEF Editing
  <2>m. /\ op' \in [Threads -> Steps] /\ \A u \in Threads \ {t} : op'[u] = op[u]
        /\ op'[t].at = "insert_l1" /\ op'[t].key = k /\ op'[t].then = rest
    BY <2>k, StepMoves DEF InsertMap, At, Typed, LocalSteps
  <2>p. PICK v \in Addresses \cup {NoAnswer} : v = config[k]
    BY DEF Typed, TypeOK
  <2>e. /\ map' = [map EXCEPT ![k] = Entry("permanent", v)] /\ owned' = owned \cup {k}
        /\ struck' = IF ClearTakes THEN struck \cup {k} ELSE struck
        /\ shadowed' = IF Astray(t, k) THEN shadowed \cup {k} ELSE shadowed
        /\ carried' = carried \ {t}
        /\ UNCHANGED <<fresh, aged, l1, behind, config, routing, late, missed, writer>>
    BY <2>k, <2>p DEF InsertMap, Shadows, history
  <2>v. /\ Entry("permanent", v) \in Records /\ Entry("permanent", v).kind = "permanent"
        /\ Entry("permanent", v).val = v /\ Entry("permanent", v).marked = FALSE
    BY DEF Entry, Records, Answers
  <2>s. SetKey(t) = k /\ BloomSet(t) /\ k \notin EditThen(t) /\ v # NoAnswer /\ EditThen(t) = rest
    BY <2>k, <2>d, <2>p DEF SetKey, EditThen, BloomSet, OneEditor, At
  <2>1. Typed'
    <3>1. TypeOK'
      BY <2>k, <2>m, <2>e, <2>d, <1>t, <2>p, <2>v, <2>s DEF Typed, TypeOK, Records
    <3>2. op' \in [Threads -> Steps]
      BY <2>m
    <3>3. \A u \in Threads : At(u, "evict")' => op'[u].caller = Idle \/ op'[u].caller.at = "insert_room"
      BY <2>k, <2>m, <2>e, <2>d, <1>t, <2>p, <2>v, <2>s DEF Typed, At
    <3> QED BY <1>t, <3>1, <3>2, <3>3 DEF Typed, At
  <2>2. OneRotation' /\ FlipCarriesNone' /\ SetIsAdmitted'
    BY <2>k, <2>m, <2>e, <2>d, <1>t, <2>p, <2>v, <2>s DEF OneRotation, FlipCarriesNone, At,
        SetIsAdmitted, BloomSet, SetKey, Typed
  <2>3. HeldIsAdmitted'
    BY <2>k, <2>m, <2>e, <2>d, <1>t, <2>p, <2>v, <2>s DEF HeldIsAdmitted, Held, Admitted, At,
        SetIsAdmitted, Typed
  <2>4. OneClear'
    BY <2>k, <2>m, <2>e, <2>d, <1>t, <2>p, <2>v, <2>s DEF OneClear, Editing, At, ClearSteps,
        LocalSteps, Permanent, Typed
  <2>5. MapIsCurrent' /\ L1IsCurrent' /\ StoreIsCurrent' /\ BehindIsEmpty'
    BY <2>k, <2>m, <2>e, <2>d, <1>t, <2>p, <2>v, <2>s DEF MapIsCurrent, Outdated, ClearingMap,
        L1IsCurrent, ClearingL1, ClearSteps, StoreIsCurrent, At, BehindIsEmpty, Typed
  <2>6. OneEditor'
    BY <2>k, <2>m, <2>e, <2>d, <1>t, <2>p, <2>v, <2>s DEF OneEditor, Editing, SetKey, EditThen,
        At, LocalSteps, Typed
  <2>7. ~Holding(t) /\ ~Holding(t)'
    BY <2>k, <2>m DEF Holding, ClearSteps
  <2>8. /\ SetKey(t)' = k /\ Editing(t)' /\ EditThen(t)' = rest
        /\ \A u \in Threads \ {t} : ~Editing(u)'
    BY <2>k, <2>m, <2>d DEF SetKey, EditThen, Editing, LocalSteps, At
  <2>9. \A j \in LocalKeys \ {k} : EditDue(j) => EditDue(j)'
    BY <2>8, <2>s, <2>d, <2>k, <2>m DEF EditDue, At
  <2>10. map'[k] = Entry("permanent", v) /\ \A j \in Keys \ {k} : map'[j] = map[j]
    BY <2>e, <1>t DEF Typed, TypeOK
  <2>11. k \notin struck => ~Permanent(k) /\ k \notin owned /\ ~ClearHolds(k)
    BY <2>s, <2>d, <2>k DEF LocalInv, EditedIsFree
  <2>12. \A j \in LocalKeys \ struck' : j \notin struck /\ KeyStep(j)
    <3>1. \A j \in LocalKeys \ {k} : KeepsRecord(j) /\ config'[j] = config[j]
      BY <2>e, <2>10, <1>t DEF KeepsRecord, Permanent
    <3>2. k \notin struck' => k \notin struck /\ KeyStep(k)
      BY <2>e, <2>p, <2>s, <2>v, <2>10, <2>11 DEF KeyStep, Permanent, IsLocal
    <3> QED BY <2>e, <2>9, <3>1, <3>2 DEF KeyStep
  <2>13. EditedIsFree'
    BY <2>m, <2>8 DEF EditedIsFree
  <2>14. Kinds'
    BY <2>e, <2>v, <2>s, <2>10, <1>t DEF Kinds, Permanent, Ours, LocalInv
  <2>15. LocalInv'
    BY <2>7, <2>12, <2>13, <2>14, <2>m, EditSteps DEF LocalInv
  <2>16. CopiesInStep'
    <3>1. \A u \in Threads : ~At(u, "remove_l1")
      BY <2>d, <2>k DEF Editing, LocalSteps, At
    <3>2. \A u \in Threads, a \in Answers :
              ~(Holding(u) /\ [key |-> k, val |-> a] \in op[u].saved) \/ ClearHolds(k)
      BY DEF ClearHolds, Holding
    <3>3. \A u \in Threads \ behind : k \notin struck => l1[u][k] \notin Addresses
      <4>1. \A u \in Threads : l1[u][k] \in Answers
        BY <2>k, <1>t DEF Typed, TypeOK
      <4>2. k \notin struck => k \in Ours
        BY <2>k DEF Ours
      <4> QED BY <2>11, <3>1, <3>2, <4>1, <4>2 DEF CopyInv, CopiesInStep
    <3>4. \A u \in Threads : (Holding(u)' <=> Holding(u)) /\ (Holding(u) => op'[u] = op[u])
      BY <2>7, <2>m, ClearStays
    <3> QED BY <2>e, <2>10, <3>1, <3>3, <3>4, <1>t DEF CopyInv, CopiesInStep, Permanent, Ours
  <2>17. NoneAstray' /\ RestorerIsEmpty'
    <3>1. k \notin shadowed' => \A u \in Threads \ (behind \cup {t}) :
              l1[u][k] \notin Routings /\ ~(At(u, "store_l1") /\ op[u].key = k)
      BY <2>e DEF Astray, At
    <3>2. \A j \in Keys : j \notin shadowed' => j \notin shadowed
      BY <2>e
    <3>3. NoneAstray'
      BY <2>k, <2>m, <2>e, <2>10, <3>1, <3>2, <1>t DEF CopyInv, NoneAstray, Permanent, Ours, At
    <3> QED BY <3>3, <2>k, <2>m, <2>e DEF CopyInv, RestorerIsEmpty, At
  <2>18. CopyInv'
    BY <2>16, <2>17 DEF CopyInv
  <2> QED BY <2>1, <2>2, <2>3, <2>4, <2>5, <2>6, <2>7, <2>8, <2>9, <2>10, <2>11, <2>12, <2>13,
      <2>14, <2>15, <2>16, <2>17, <2>18
<1>9. ASSUME NEW t \in Threads, InsertL1(t)
      PROVE  CacheInv'
  <2> USE <1>9
  <2>k. PICK k \in LocalKeys, rest \in SUBSET LocalKeys :
            /\ k = op[t].key /\ rest = op[t].then /\ op[t] \in LocalOps
            /\ op[t].at = "insert_l1" /\ op[t].at \in LocalSteps
    BY StepFacts DEF InsertL1, At, Typed, LocalSteps
  <2>d. Editing(t) /\ \A u \in Threads \ {t} : ~Editing(u)
    BY <2>k, SoleEditor DEF Editing
  <2>m. /\ op' \in [Threads -> Steps] /\ \A u \in Threads \ {t} : op'[u] = op[u]
        /\ \/ /\ rest = {} /\ writer' = NoThread /\ op'[t].at = "idle"
           \/ /\ writer' = writer
              /\ \E j \in rest : op'[t].at = "remove" /\ op'[t].key = j /\ op'[t].then = {}
    BY <2>k, RefreshedMoves DEF InsertL1, Typed
  <2>w. op'[t].at \in {"idle", "remove"}
    BY <2>m
  <2>p. PICK v \in Addresses \cup {NoAnswer} : v = config[k]
    BY DEF Typed, TypeOK
  <2>e. UNCHANGED <<map, owned, fresh, aged, behind, config, routing, late, missed, struck,
                    shadowed, carried>>
    BY DEF InsertL1, shared, history
  <2>l. /\ l1' \in [Threads -> [Keys -> Answers]]
        /\ \A u \in Threads, j \in Keys :
               l1'[u][j] = IF u = t /\ j = k /\ t \notin behind THEN v ELSE l1[u][j]
    <3>1. v \in Answers /\ L1Put(t, k, v)
      BY <2>k, <2>p DEF Answers, InsertL1
    <3> QED BY <2>k, <3>1, <1>t, PutFacts DEF Typed, TypeOK
  <2>1. Typed'
    BY <2>w, <2>m, <2>e, <2>l DEF Typed, TypeOK, At
  <2>2. OneRotation'
    BY <2>k, <2>m, <2>e, <2>d, <1>t, <2>p, <2>l DEF OneRotation, Typed
  <2>3. FlipCarriesNone'
    BY <2>k, <2>m, <2>e, <2>d, <1>t, <2>p, <2>l DEF FlipCarriesNone, At, Typed
  <2>4. SetIsAdmitted'
    BY <2>k, <2>m, <2>e, <2>d, <1>t, <2>p, <2>l DEF SetIsAdmitted, BloomSet, SetKey, At, Typed
  <2>5. HeldIsAdmitted'
    BY <2>k, <2>m, <2>e, <2>d, <1>t, <2>p, <2>l DEF HeldIsAdmitted, Held, Admitted, At, Typed
  <2>6. OneClear'
    BY <2>k, <2>m, <2>e, <2>d, <1>t, <2>p, <2>l, SMTT(30) DEF OneClear, Editing, At, ClearSteps,
        LocalSteps, Typed
  <2>7. MapIsCurrent' /\ StoreIsCurrent'
    BY <2>k, <2>m, <2>e, <2>d, <1>t, <2>p, <2>l, ZenonT(60) DEF MapIsCurrent, Outdated,
        ClearingMap, StoreIsCurrent, ClearingL1, ClearSteps, At, Typed
  <2>8. L1IsCurrent'
    BY <2>w, <2>k, <2>m, <2>e, <2>l, <2>p, <1>t DEF L1IsCurrent, Outdated, ClearingL1,
        ClearSteps, Typed
  <2>9. BehindIsEmpty'
    BY <2>k, <2>m, <2>e, <2>d, <1>t, <2>p, <2>l DEF BehindIsEmpty, TypeOK, Typed
  <2>10. OneEditor'
    BY <2>k, <2>m, <2>e, <2>d, <1>t, <2>p, <2>l, SMTT(30) DEF OneEditor, Editing, SetKey,
        EditThen, At, LocalSteps, Typed
  <2>11. /\ ~Holding(t) /\ ~Holding(t)' /\ \A u \in Threads \ {t} : ~Editing(u)'
    BY <2>k, <2>w, <2>m, <2>d DEF Holding, ClearSteps, Editing, At
  <2>12. /\ SetKey(t) = k /\ EditThen(t) = rest /\ k \notin rest /\ ~EditDue(k)
         /\ v # NoAnswer /\ IsLocal(k)
    BY <2>k, <2>p, <2>d DEF SetKey, EditThen, EditDue, OneEditor, IsLocal, At
  <2>13. \A j \in LocalKeys : EditDue(j) => EditDue(j)'
    <3> SUFFICES ASSUME NEW j \in LocalKeys, EditDue(j)
                 PROVE  EditDue(j)'
      OBVIOUS
    <3>1. j \in rest
      BY <2>12, <2>d, <2>k DEF EditDue, At
    <3>2. op'[t].at = "remove" /\ op'[t].key = j
      BY <2>12, <2>m, <2>k, <2>d, <3>1 DEF OneEditor
    <3> QED BY <3>2 DEF EditDue, Editing, LocalSteps, SetKey, At
  <2>14. \A j \in LocalKeys \ struck' : j \notin struck /\ KeyStep(j)
    BY <2>e, <2>13 DEF KeyStep, KeepsRecord, Permanent
  <2>15. EditedIsFree'
    <3>1. Editing(t)' => op'[t].at = "remove"
      BY <2>w DEF Editing, LocalSteps, At
    <3> QED BY <2>11, <3>1 DEF EditedIsFree
  <2>16. Kinds'
    BY <2>e DEF Kinds, Permanent, Ours, LocalInv
  <2>17. LocalInv'
    BY <2>11, <2>14, <2>15, <2>16, <2>m, EditSteps DEF LocalInv
  <2>18. k \notin struck =>
             \/ Permanent(k) /\ map[k].val = v
             \/ \E u \in Threads : Holding(u) /\ [key |-> k, val |-> v] \in op[u].saved
    <3> SUFFICES ASSUME k \in Ours, Wiped(k)
                 PROVE  \E u \in Threads : Holding(u) /\ [key |-> k, val |-> v] \in op[u].saved
      BY <2>12, <2>p, <2>k DEF LocalInv, RecordsInStep, InStep, Ours
    <3>1. PICK u \in Threads : \/ op[u].at \in {"clear_bloom", "clear_owned"}
                               \/ op[u].at \in {"clear_l1", "restore"} /\ Saves(u, k)
      BY DEF Wiped
    <3>2. Holding(u)
      BY <3>1 DEF Holding, ClearSteps
    <3>3. Saves(u, k)
      BY <2>12, <3>1, <3>2 DEF LocalInv, SavedInStep
    <3>4. PICK r \in op[u].saved : r.key = k
      BY <3>3 DEF Saves
    <3>5. r.val = v
      BY <2>12, <2>p, <3>2, <3>4 DEF LocalInv, SavedInStep, Ours
    <3>6. r \in [key : LocalKeys, val : Answers]
      BY <3>2, <3>4, StepFacts DEF Typed, Holding
    <3>7. r = [key |-> k, val |-> v]
      BY <3>4, <3>5, <3>6
    <3> QED BY <3>2, <3>4, <3>7
  <2>19. CopiesInStep'
    <3>1. \A u \in Threads : ~At(u, "remove_l1")
      BY <2>d, <2>k DEF Editing, LocalSteps, At
    <3>2. \A u \in Threads : (Holding(u)' <=> Holding(u)) /\ (Holding(u) => op'[u] = op[u])
      BY <2>11, <2>m, ClearStays
    <3> SUFFICES ASSUME NEW j \in Ours, NEW u \in Threads \ behind, l1'[u][j] \in Addresses
                 PROVE  \/ Permanent(j) /\ map[j].val = l1'[u][j]
                        \/ \E x \in Threads : Holding(x) /\ [key |-> j, val |-> l1'[u][j]] \in op[x].saved
      BY <2>e, <3>2 DEF CopiesInStep, Permanent, Ours
    <3>3. CASE u = t /\ j = k
      BY <3>3, <2>18, <2>l, <1>t DEF Ours
    <3>4. CASE ~(u = t /\ j = k)
      <4>1. l1'[u][j] = l1[u][j]
        BY <3>4, <2>l, <1>t DEF Ours
      <4> QED BY <3>1, <4>1 DEF CopyInv, CopiesInStep
    <3> QED BY <3>3, <3>4
  <2>20. NoneAstray' /\ RestorerIsEmpty'
    <3>1. v \in Addresses
      BY <2>12
    <3>2. NoneAstray'
      BY <3>1, <2>k, <2>w, <2>m, <2>e, <2>l, <1>t DEF CopyInv, NoneAstray, Permanent, Ours, At
    <3> QED BY <3>2, <2>w, <2>k, <2>m, <2>e, <2>l DEF CopyInv, RestorerIsEmpty, At
  <2>21. CopyInv'
    BY <2>19, <2>20 DEF CopyInv
  <2> QED BY <2>1, <2>2, <2>3, <2>4, <2>5, <2>6, <2>7, <2>8, <2>9, <2>10, <2>11, <2>12, <2>13,
      <2>14, <2>15, <2>16, <2>17, <2>18, <2>19, <2>20, <2>21
<1> HIDE DEF CacheInv
<1> QED BY <1>1, <1>2, <1>3, <1>4, <1>5, <1>6, <1>7, <1>8, <1>9 DEF Local

\* A reload and the clear it makes keep CacheInv.
LEMMA ReloadsKeep ==
    ASSUME CacheInv, UNCHANGED traffic,
           \E t \in Threads : Clear(t)
    PROVE  CacheInv'
<1> USE DEF CacheInv
<1>0. /\ Keys' = Keys /\ LocalKeys' = LocalKeys /\ UpstreamKeys' = UpstreamKeys
      /\ Addresses' = Addresses /\ Ops' = Ops /\ Answers' = Answers
      /\ Records' = Records /\ Steps' = Steps
  BY TrafficStays
<1>t. /\ LocalKeys \subseteq Keys /\ UpstreamKeys \subseteq Keys
      /\ Routings \cap Addresses = {} /\ NoAnswer \notin Addresses /\ NoAnswer \notin Routings
      /\ Preloaded \in Addresses
  BY TrafficFacts DEF Typed
<1> USE <1>0
<1>1. ASSUME NEW t \in Threads, NEW r \in Routings, Reload(t, r)
      PROVE  CacheInv'
  <2> USE <1>1
  <2>m. /\ op' \in [Threads -> Steps] /\ \A u \in Threads \ {t} : op'[u] = op[u]
        /\ op[t] = Idle /\ op[t].at = "idle" /\ op'[t].at = "clear_save"
    BY MakesSteps, GotoMoves DEF Reload, Starts, Typed
  <2>d. \A u \in Threads \ {t} : op[u].at \notin ClearSteps
    BY DEF Reload
  <2>c. op[t].at \notin ClearSteps
    BY DEF Reload
  <2>e. /\ routing' = r
        /\ UNCHANGED <<map, owned, fresh, aged, l1, behind, config, late, missed, struck,
                       shadowed, writer,
                       carried>>
    BY DEF Reload, shared, history
  <2>1. Typed'
    BY <2>m, <2>e, <2>d, <2>c DEF Typed, TypeOK, At
  <2>2. OneRotation' /\ FlipCarriesNone' /\ SetIsAdmitted' /\ HeldIsAdmitted'
    BY <2>m, <2>e, <2>d, <2>c DEF OneRotation, FlipCarriesNone, At, SetIsAdmitted, BloomSet,
        SetKey, HeldIsAdmitted, Held, Admitted, Typed
  <2>3. OneClear'
    BY <2>m, <2>e, <2>d, <2>c DEF OneClear, Editing, At, ClearSteps, LocalSteps, Permanent, Typed
  <2>4. MapIsCurrent' /\ L1IsCurrent' /\ StoreIsCurrent' /\ BehindIsEmpty'
    BY <2>m, <2>e, <2>d, <2>c DEF MapIsCurrent, Outdated, ClearingMap, L1IsCurrent, ClearingL1,
        ClearSteps, StoreIsCurrent, At, BehindIsEmpty, Typed
  <2>5. OneEditor'
    BY <2>m, <2>e, <2>d, <2>c DEF OneEditor, Editing, SetKey, EditThen, At, LocalSteps,
        ClearingMap, ClearSteps, Permanent, Typed
  <2>6. SameRecords
    BY <2>m, <2>e, <2>d, <2>c, <1>t DEF SameRecords, Permanent, Typed, TypeOK
  <2>7. SameStages
    BY <2>m, <2>e, <2>d, <2>c, <1>t DEF SameStages, Aside, Editing, Holding, SetKey, EditThen,
        LocalSteps, ClearSteps, At
  <2>8. Kinds'
    BY <2>m, <2>e, <2>d, <2>c, <1>t DEF Kinds, Permanent, Ours, LocalInv, Typed, TypeOK
  <2>9. LocalInv'
    BY <2>m, <2>e, <2>d, <2>c, <1>t, <2>6, <2>7, <2>8, LocalsStay DEF LocalInv
  <2>10. CopyInv'
    <3>1. CopiesInStep' /\ NoneAstray'
      BY <2>m, <2>e, <2>d, <2>c, <1>t, <2>6, <2>7, CopiesStay DEF At
    <3>2. RestorerIsEmpty'
      BY <2>m, <2>e, <2>d, <2>c, <1>t DEF CopyInv, RestorerIsEmpty, At, TypeOK, Typed
    <3> QED BY <3>1, <3>2 DEF CopyInv
  <2> QED BY <2>1, <2>2, <2>3, <2>4, <2>5, <2>6, <2>7, <2>8, <2>9, <2>10
<1>2. ASSUME NEW t \in Threads, ClearSave(t)
      PROVE  CacheInv'
  <2> USE <1>2
  <2>a. op[t].at = "clear_save"
    BY DEF ClearSave, At
  <2>d. \A u \in Threads \ {t} : op[u].at \notin ClearSteps
    BY <2>a DEF OneClear, ClearSteps
  <2>k. PICK saved \in SUBSET [key : LocalKeys, val : Answers] :
            saved = {[key |-> k, val |-> map[k].val] : k \in {o \in owned : Held(o)}}
    <3>1. \A k \in owned : k \in LocalKeys /\ map[k].val \in Answers
      BY <1>t DEF Typed, TypeOK
    <3>2. \A k \in owned : [key |-> k, val |-> map[k].val] \in [key : LocalKeys, val : Answers]
      BY <3>1
    <3> QED BY <3>2
  <2>m. /\ op' \in [Threads -> Steps] /\ \A u \in Threads \ {t} : op'[u] = op[u]
        /\ op'[t].at = "clear_map" /\ op'[t].saved = saved
    <3>1. [at |-> "clear_map", saved |-> saved] \in Steps
      BY <2>k, MakesSteps
    <3> QED BY <2>k, <3>1, GotoMoves DEF ClearSave, Typed
  <2>e. UNCHANGED <<map, owned, fresh, aged, l1, behind, config, routing, late, missed, struck,
                    shadowed, writer, carried>>
    BY DEF ClearSave, shared, history
  <2>1. Typed'
    BY <2>k, <2>m, <2>e, <2>d, <1>t, <2>a DEF Typed, TypeOK, At
  <2>2. OneRotation' /\ FlipCarriesNone' /\ SetIsAdmitted' /\ HeldIsAdmitted'
    BY <2>k, <2>m, <2>e, <2>d, <1>t, <2>a DEF OneRotation, FlipCarriesNone, At, SetIsAdmitted,
        BloomSet, SetKey, HeldIsAdmitted, Held, Admitted, Typed
  <2>3. OneClear'
    BY <2>k, <2>m, <2>e, <2>d, <1>t, <2>a DEF OneClear, Editing, At, ClearSteps, LocalSteps,
        Permanent, Typed
  <2>4. MapIsCurrent' /\ L1IsCurrent' /\ StoreIsCurrent' /\ BehindIsEmpty'
    BY <2>k, <2>m, <2>e, <2>d, <1>t, <2>a DEF MapIsCurrent, Outdated, ClearingMap, L1IsCurrent,
        ClearingL1, ClearSteps, StoreIsCurrent, At, BehindIsEmpty, Typed
  <2>5. OneEditor'
    BY <2>k, <2>m, <2>e, <2>d, <1>t, <2>a DEF OneEditor, Editing, SetKey, EditThen, At,
        LocalSteps, Typed
  <2>6. /\ \A u \in Threads : ~Holding(u) /\ (Holding(u)' <=> u = t)
        /\ \A u \in Threads : op'[u] = op[u] \/ (~Editing(u) /\ ~Editing(u)')
    BY <2>a, <2>d, <2>m DEF Holding, ClearSteps, Editing, LocalSteps, At
  <2>7. \A j \in LocalKeys : ~Wiped(j) /\ ~Wiped(j)' /\ (EditDue(j)' <=> EditDue(j))
    <3>1. \A j \in LocalKeys : ~Wiped(j)
      BY <2>6, SoleClearer
    <3>2. \A j \in LocalKeys : ~Wiped(j)'
      BY <2>m, <2>d DEF Wiped, ClearSteps
    <3> QED BY <2>6, <3>1, <3>2, EditsStay
  <2>8. \A j \in LocalKeys : ClearHolds(j)' => j \in owned
    BY <2>6, <2>m, <2>k DEF ClearHolds, Holding
  <2>9. \A j \in Ours : j \in owned <=> Permanent(j)
    BY <2>7 DEF LocalInv, RegistryInStep, Ours
  <2>10. RegistryInStep' /\ RecordsInStep'
    BY <2>7, <2>e DEF LocalInv, RegistryInStep, RecordsInStep, InStep, IsLocal, Permanent, Ours
  <2>11. WipedIsFree'
    BY <2>7, <2>m, <2>d DEF WipedIsFree, ClearSteps, Ours
  <2>12. EditedIsFree'
    <3> SUFFICES ASSUME NEW u \in Threads, Editing(u)', op'[u].at \notin {"remove", "insert_l1"},
                        SetKey(u)' \notin struck'
                 PROVE  ~Permanent(SetKey(u))' /\ SetKey(u)' \notin owned' /\ ~ClearHolds(SetKey(u))'
      BY DEF EditedIsFree
    <3>1. Editing(u) /\ SetKey(u)' = SetKey(u) /\ op[u].at \notin {"remove", "insert_l1"}
      BY <2>6, EditsStay
    <3>2. PICK j \in LocalKeys : j = SetKey(u)
      BY <3>1, EditKeys
    <3>3. ~Permanent(j) /\ j \notin owned
      BY <3>1, <3>2, <2>e DEF LocalInv, EditedIsFree
    <3>4. ~Permanent(j)' /\ j \notin owned' /\ ~ClearHolds(j)'
      BY <3>3, <2>e, <2>8 DEF Permanent
    <3> QED BY <3>1, <3>2, <3>4 DEF Permanent, ClearHolds
  <2>13. /\ \A r, q \in saved : r.key = q.key => r = q
         /\ \A r \in saved : r.key \notin struck =>
                r.val \in Addresses /\ (~EditDue(r.key) => r.val = config[r.key])
         /\ \A j \in Ours : j \in owned \/ (~EditDue(j) /\ IsLocal(j)) => Saves(t, j)'
         /\ \A j \in Ours : Permanent(j) => [key |-> j, val |-> map[j].val] \in saved
    <3>1. \A r, q \in saved : r.key = q.key => r = q
      BY <2>k
    <3>2. ASSUME NEW r \in saved, r.key \notin struck
          PROVE  r.val \in Addresses /\ (~EditDue(r.key) => r.val = config[r.key])
      <4>1. PICK j \in owned : r = [key |-> j, val |-> map[j].val]
        BY <2>k
      <4>2. j \in Ours /\ j \in Keys /\ Permanent(j) /\ r.key = j /\ r.val = map[j].val
        BY <3>2, <4>1, <2>9, <1>t DEF Ours, Typed, TypeOK
      <4>3. r.val \in Addresses
        BY <4>2 DEF LocalInv, Kinds
      <4>4. ~EditDue(j) => r.val = config[j]
        BY <4>2, <2>7 DEF LocalInv, RecordsInStep, InStep, Ours
      <4> QED BY <4>2, <4>3, <4>4
    <3>3. \A j \in Ours : Permanent(j) => [key |-> j, val |-> map[j].val] \in saved
      BY <2>k, <2>9 DEF Held, Permanent
    <3>4. \A j \in Ours : Permanent(j) => Saves(t, j)'
      BY <3>3, <2>m DEF Saves
    <3>5. \A j \in Ours : ~EditDue(j) /\ IsLocal(j) => Permanent(j)
      BY <2>7 DEF LocalInv, RecordsInStep, InStep, Ours
    <3> QED BY <3>1, <3>2, <3>3, <3>4, <3>5, <2>9
  <2>14. SavedInStep'
    <3>1. \A r \in saved : r.key \in LocalKeys
      BY <2>k
    <3>2. \A j \in LocalKeys : IsLocal(j)' <=> IsLocal(j)
      BY <2>e DEF IsLocal
    <3> QED BY <3>1, <3>2, <2>6, <2>7, <2>13, <2>m, <2>e DEF SavedInStep, Permanent, Ours, At
  <2>15. Kinds'
    BY <2>e DEF Kinds, Permanent, Ours, LocalInv
  <2>16. LocalInv'
    BY <2>10, <2>11, <2>12, <2>14, <2>15 DEF LocalInv
  <2>17. CopyInv'
    <3>1. CopiesInStep'
      BY <2>a, <2>6, <2>m, <2>e DEF CopyInv, CopiesInStep, Permanent, At, Ours
    <3>2. NoneAstray' /\ RestorerIsEmpty'
      BY <2>a, <2>m, <2>e DEF CopyInv, NoneAstray, RestorerIsEmpty, Permanent, At, Ours
    <3> QED BY <3>1, <3>2 DEF CopyInv
  <2> QED BY <2>1, <2>2, <2>3, <2>4, <2>5, <2>6, <2>7, <2>8, <2>9, <2>10, <2>11, <2>12, <2>13,
      <2>14, <2>15, <2>16, <2>17
<1>3. ASSUME NEW t \in Threads, ClearMap(t)
      PROVE  CacheInv'
  <2> USE <1>3
  <2>k. PICK saved \in SUBSET [key : LocalKeys, val : Answers] :
            saved = op[t].saved /\ op[t] \in ClearOps /\ op[t].at = "clear_map"
    BY StepFacts DEF ClearMap, At, Typed, ClearSteps
  <2>d. \A u \in Threads \ {t} : op[u].at \notin ClearSteps
    BY <2>k DEF OneClear, ClearSteps
  <2>m. /\ op' \in [Threads -> Steps] /\ \A u \in Threads \ {t} : op'[u] = op[u]
        /\ op'[t].at = "clear_bloom" /\ op'[t].saved = saved
    BY <2>k, StepMoves DEF ClearMap, At, Typed, ClearSteps
  <2>v. Vacant \in Records /\ Vacant.kind = "vacant" /\ Vacant.val = NoAnswer
    BY DEF Vacant, Records, Answers
  <2>e. /\ map' = [k \in Keys |-> Vacant]
        /\ UNCHANGED <<owned, fresh, aged, l1, behind, config, routing, late, missed, struck,
                       shadowed, writer, carried>>
    BY DEF ClearMap, history
  <2>1. Typed'
    <3>1. TypeOK'
      BY <2>k, <2>m, <2>e, <2>d, <1>t, <2>v DEF Typed, TypeOK, Records
    <3>2. op' \in [Threads -> Steps]
      BY <2>m
    <3>3. \A u \in Threads : At(u, "evict")' => op'[u].caller = Idle \/ op'[u].caller.at = "insert_room"
      BY <2>k, <2>m, <2>e, <2>d, <1>t, <2>v DEF Typed, At
    <3> QED BY <1>t, <3>1, <3>2, <3>3 DEF Typed, At
  <2>2. OneRotation' /\ FlipCarriesNone' /\ SetIsAdmitted' /\ HeldIsAdmitted'
    BY <2>k, <2>m, <2>e, <2>d, <1>t, <2>v DEF OneRotation, FlipCarriesNone, At, SetIsAdmitted,
        BloomSet, SetKey, HeldIsAdmitted, Held, Admitted, Typed
  <2>3. OneClear'
    BY <2>k, <2>m, <2>e, <2>d, <1>t, <2>v DEF OneClear, Editing, At, ClearSteps, LocalSteps,
        Permanent, Typed
  <2>4. MapIsCurrent' /\ L1IsCurrent' /\ StoreIsCurrent' /\ BehindIsEmpty'
    BY <2>k, <2>m, <2>e, <2>d, <1>t, <2>v DEF MapIsCurrent, Outdated, ClearingMap, L1IsCurrent,
        ClearingL1, ClearSteps, StoreIsCurrent, At, BehindIsEmpty, Typed
  <2>5. OneEditor'
    BY <2>k, <2>m, <2>e, <2>d, <1>t, <2>v DEF OneEditor, Editing, SetKey, EditThen, At,
        LocalSteps, ClearingMap, ClearSteps, Permanent, Typed
  <2>6. /\ Holding(t) /\ \A u \in Threads : (Holding(u)' <=> u = t) /\ (Holding(u) <=> u = t)
        /\ \A u \in Threads : op'[u] = op[u] \/ (~Editing(u) /\ ~Editing(u)')
    BY <2>k, <2>d, <2>m DEF Holding, ClearSteps, Editing, LocalSteps, At
  <2>7. \A j \in LocalKeys : Wiped(j)' /\ ~Permanent(j)' /\ (EditDue(j)' <=> EditDue(j))
                             /\ (ClearHolds(j)' <=> ClearHolds(j))
    <3>1. \A j \in LocalKeys : Wiped(j)' /\ ~Permanent(j)'
      BY <2>m, <2>e, <2>v, <1>t DEF Wiped, Permanent
    <3>2. \A j \in LocalKeys : ClearHolds(j)' <=> ClearHolds(j)
      BY <2>6, <2>m, <2>k DEF ClearHolds, Holding
    <3> QED BY <2>6, <3>1, <3>2, EditsStay
  <2>8. RegistryInStep' /\ RecordsInStep' /\ WipedIsFree'
    BY <2>7, <2>m, <2>d DEF RegistryInStep, RecordsInStep, WipedIsFree, ClearSteps, Ours
  <2>9. EditedIsFree'
    <3> SUFFICES ASSUME NEW u \in Threads, Editing(u)', op'[u].at \notin {"remove", "insert_l1"},
                        SetKey(u)' \notin struck'
                 PROVE  ~Permanent(SetKey(u))' /\ SetKey(u)' \notin owned' /\ ~ClearHolds(SetKey(u))'
      BY DEF EditedIsFree
    <3>1. Editing(u) /\ SetKey(u)' = SetKey(u) /\ op[u].at \notin {"remove", "insert_l1"}
      BY <2>6, EditsStay
    <3>2. PICK j \in LocalKeys : j = SetKey(u)
      BY <3>1, EditKeys
    <3>3. j \notin owned /\ ~ClearHolds(j)
      BY <3>1, <3>2, <2>e DEF LocalInv, EditedIsFree
    <3>4. ~Permanent(j)' /\ j \notin owned' /\ ~ClearHolds(j)'
      BY <3>3, <2>e, <2>7
    <3> QED BY <3>1, <3>2, <3>4 DEF Permanent, ClearHolds
  <2>10. SavedInStep'
    <3>1. \A r \in saved : r.key \in LocalKeys
      BY <2>k
    <3>2. \A j \in LocalKeys : (IsLocal(j)' <=> IsLocal(j)) /\ (Saves(t, j)' <=> Saves(t, j))
      BY <2>e, <2>m, <2>k DEF IsLocal, Saves
    <3>3. /\ \A r, q \in saved : r.key = q.key => r = q
          /\ \A r \in saved : r.key \notin struck =>
                r.val \in Addresses /\ (~EditDue(r.key) => r.val = config[r.key])
          /\ \A j \in Ours : j \in owned \/ (~EditDue(j) /\ IsLocal(j)) => Saves(t, j)
      BY <2>6, <2>k DEF LocalInv, SavedInStep
    <3> QED BY <3>1, <3>2, <3>3, <2>6, <2>7, <2>m, <2>e DEF SavedInStep, Ours, At
  <2>11. Kinds'
    BY <2>e, <2>v DEF Kinds, Permanent
  <2>12. LocalInv'
    BY <2>8, <2>9, <2>10, <2>11 DEF LocalInv
  <2>13. CopyInv'
    <3>1. \A j \in Ours : Permanent(j) => [key |-> j, val |-> map[j].val] \in saved
      BY <2>6, <2>k DEF LocalInv, SavedInStep, At
    <3>2. ASSUME NEW j \in Ours, NEW u \in Threads \ behind, l1[u][j] \in Addresses
          PROVE  \/ [key |-> j, val |-> l1[u][j]] \in saved
                 \/ \E x \in Threads : At(x, "remove_l1") /\ op[x].key = j
      BY <3>1, <3>2, <2>6, <2>k DEF CopyInv, CopiesInStep
    <3>3. \A x \in Threads : At(x, "remove_l1") => At(x, "remove_l1")' /\ op'[x].key = op[x].key
      BY <2>k, <2>m DEF At
    <3>4. CopiesInStep'
      BY <2>6, <2>m, <2>e, <3>2, <3>3 DEF CopiesInStep, Ours
    <3>5. NoneAstray' /\ RestorerIsEmpty'
      BY <2>k, <2>m, <2>e, <2>7 DEF CopyInv, NoneAstray, RestorerIsEmpty, At, Ours
    <3> QED BY <3>4, <3>5 DEF CopyInv
  <2> QED BY <2>1, <2>2, <2>3, <2>4, <2>5, <2>6, <2>7, <2>8, <2>9, <2>10, <2>11, <2>12, <2>13
<1>4. ASSUME NEW t \in Threads, ClearBloom(t)
      PROVE  CacheInv'
  <2> USE <1>4
  <2>k. PICK saved \in SUBSET [key : LocalKeys, val : Answers] :
            saved = op[t].saved /\ op[t] \in ClearOps /\ op[t].at = "clear_bloom"
    BY StepFacts DEF ClearBloom, At, Typed, ClearSteps
  <2>d. \A u \in Threads \ {t} : op[u].at \notin ClearSteps
    BY <2>k DEF OneClear, ClearSteps
  <2>m. /\ op' \in [Threads -> Steps] /\ \A u \in Threads \ {t} : op'[u] = op[u]
        /\ op'[t].at = "clear_owned" /\ op'[t].saved = saved
    BY <2>k, StepMoves DEF ClearBloom, At, Typed, ClearSteps
  <2>e. /\ fresh' = {} /\ aged' = {}
        /\ missed' = missed \cup {k \in Keys : Held(k) \/ BeingStored(k)}
        /\ UNCHANGED <<map, owned, l1, behind, config, routing, late, struck, shadowed, writer,
                       carried>>
    BY DEF ClearBloom
  <2>1. Typed'
    BY <2>k, <2>m, <2>e, <2>d, <1>t DEF Typed, TypeOK, At
  <2>2. OneRotation' /\ FlipCarriesNone'
    BY <2>k, <2>m, <2>e, <2>d, <1>t DEF OneRotation, FlipCarriesNone, At, Typed
  <2>3. SetIsAdmitted'
    <3>1. ASSUME NEW u \in Threads, BloomSet(u)'
          PROVE  SetKey(u)' \in missed'
      <4>1. u # t /\ BloomSet(u) /\ SetKey(u)' = SetKey(u)
        BY <2>m, <3>1 DEF BloomSet, SetKey, At
      <4>2. SetKey(u) \in Keys
        BY <4>1, SetKeys
      <4>3. BeingStored(SetKey(u))
        BY <4>1 DEF BeingStored, SetKey
      <4> QED BY <2>e, <4>1, <4>2, <4>3
    <3> QED BY <3>1 DEF SetIsAdmitted
  <2>4. HeldIsAdmitted'
    <3>1. \A k \in Keys : Held(k)' => k \in missed'
      BY <2>e DEF Held
    <3> QED BY <3>1 DEF HeldIsAdmitted
  <2>5. OneClear'
    BY <2>k, <2>m, <2>e, <2>d, <1>t DEF OneClear, Editing, At, ClearSteps, LocalSteps, Permanent,
        Typed
  <2>6. MapIsCurrent' /\ L1IsCurrent' /\ StoreIsCurrent' /\ BehindIsEmpty'
    BY <2>k, <2>m, <2>e, <2>d, <1>t DEF MapIsCurrent, Outdated, ClearingMap, L1IsCurrent,
        ClearingL1, ClearSteps, StoreIsCurrent, At, BehindIsEmpty, Typed
  <2>7. OneEditor'
    BY <2>k, <2>m, <2>e, <2>d, <1>t DEF OneEditor, Editing, SetKey, EditThen, At, LocalSteps,
        ClearingMap, ClearSteps, Permanent, Typed
  <2>8. SameRecords
    BY <2>k, <2>m, <2>e, <2>d, <1>t DEF SameRecords, Permanent, Typed, TypeOK
  <2>9. SameStages
    BY <2>k, <2>m, <2>e, <2>d, <1>t DEF SameStages, Aside, Editing, Holding, SetKey, EditThen,
        LocalSteps, ClearSteps, At
  <2>10. Kinds'
    BY <2>k, <2>m, <2>e, <2>d, <1>t DEF Kinds, Permanent, Ours, LocalInv, Typed, TypeOK
  <2>11. LocalInv'
    BY <2>k, <2>m, <2>e, <2>d, <1>t, <2>8, <2>9, <2>10, LocalsStay DEF LocalInv
  <2>12. CopyInv'
    <3>1. CopiesInStep' /\ NoneAstray'
      BY <2>k, <2>m, <2>e, <2>d, <1>t, <2>8, <2>9, CopiesStay DEF At
    <3>2. RestorerIsEmpty'
      BY <2>k, <2>m, <2>e, <2>d, <1>t DEF CopyInv, RestorerIsEmpty, At, TypeOK, Typed
    <3> QED BY <3>1, <3>2 DEF CopyInv
  <2> QED BY <2>1, <2>2, <2>3, <2>4, <2>5, <2>6, <2>7, <2>8, <2>9, <2>10, <2>11, <2>12
<1>5. ASSUME NEW t \in Threads, ClearOwned(t)
      PROVE  CacheInv'
  <2> USE <1>5
  <2>k. PICK saved \in SUBSET [key : LocalKeys, val : Answers] :
            saved = op[t].saved /\ op[t] \in ClearOps /\ op[t].at = "clear_owned"
    BY StepFacts DEF ClearOwned, At, Typed, ClearSteps
  <2>d. \A u \in Threads \ {t} : op[u].at \notin ClearSteps
    BY <2>k DEF OneClear, ClearSteps
  <2>m. /\ op' \in [Threads -> Steps] /\ \A u \in Threads \ {t} : op'[u] = op[u]
        /\ op'[t].at = "clear_l1" /\ op'[t].saved = saved
    BY <2>k, StepMoves DEF ClearOwned, At, Typed, ClearSteps
  <2>e. /\ owned' = {}
        /\ UNCHANGED <<map, fresh, aged, l1, behind, config, routing, late, missed, struck,
                       shadowed, writer,
                       carried>>
    BY DEF ClearOwned, history
  <2>1. Typed'
    BY <2>k, <2>m, <2>e, <2>d, <1>t DEF Typed, TypeOK, At
  <2>2. OneRotation' /\ FlipCarriesNone' /\ SetIsAdmitted' /\ HeldIsAdmitted'
    BY <2>k, <2>m, <2>e, <2>d, <1>t DEF OneRotation, FlipCarriesNone, At, SetIsAdmitted,
        BloomSet, SetKey, HeldIsAdmitted, Held, Admitted, Typed
  <2>3. OneClear'
    BY <2>k, <2>m, <2>e, <2>d, <1>t DEF OneClear, Editing, At, ClearSteps, LocalSteps, Permanent,
        Typed
  <2>4. MapIsCurrent' /\ L1IsCurrent' /\ StoreIsCurrent' /\ BehindIsEmpty'
    BY <2>k, <2>m, <2>e, <2>d, <1>t DEF MapIsCurrent, Outdated, ClearingMap, L1IsCurrent,
        ClearingL1, ClearSteps, StoreIsCurrent, At, BehindIsEmpty, Typed
  <2>5. OneEditor'
    BY <2>k, <2>m, <2>e, <2>d, <1>t DEF OneEditor, Editing, SetKey, EditThen, At, LocalSteps,
        ClearingMap, ClearSteps, Permanent, Typed
  <2>6. /\ Holding(t) /\ \A u \in Threads : (Holding(u)' <=> u = t) /\ (Holding(u) <=> u = t)
        /\ \A u \in Threads : op'[u] = op[u] \/ (~Editing(u) /\ ~Editing(u)')
    BY <2>k, <2>d, <2>m DEF Holding, ClearSteps, Editing, LocalSteps, At
  <2>7. \A j \in LocalKeys : /\ Wiped(j) /\ (Wiped(j)' <=> Saves(t, j)) /\ (Saves(t, j)' <=> Saves(t, j))
                             /\ (Permanent(j)' <=> Permanent(j)) /\ (EditDue(j)' <=> EditDue(j))
                             /\ (ClearHolds(j)' <=> ClearHolds(j)) /\ (IsLocal(j)' <=> IsLocal(j))
    <3>1. \A j \in LocalKeys : Wiped(j) /\ (Saves(t, j)' <=> Saves(t, j))
      BY <2>k, <2>m DEF Wiped, Saves
    <3>2. \A j \in LocalKeys : Wiped(j)' <=> Saves(t, j)'
      BY <2>m, <2>d DEF Wiped, ClearSteps
    <3>3. \A j \in LocalKeys : ClearHolds(j)' <=> ClearHolds(j)
      BY <2>6, <2>m, <2>k DEF ClearHolds, Holding
    <3>4. \A j \in LocalKeys : (Permanent(j)' <=> Permanent(j)) /\ (IsLocal(j)' <=> IsLocal(j))
      BY <2>e DEF Permanent, IsLocal
    <3> QED BY <2>6, <3>1, <3>2, <3>3, <3>4, EditsStay
  <2>8. \A j \in Ours : ~Permanent(j) /\ (~EditDue(j) /\ IsLocal(j) => Saves(t, j))
    BY <2>6, <2>7, <2>k DEF LocalInv, WipedIsFree, SavedInStep, Ours
  <2>9. RegistryInStep' /\ RecordsInStep' /\ WipedIsFree'
    BY <2>7, <2>8, <2>e DEF RegistryInStep, RecordsInStep, WipedIsFree, InStep, Ours
  <2>10. EditedIsFree'
    <3> SUFFICES ASSUME NEW u \in Threads, Editing(u)', op'[u].at \notin {"remove", "insert_l1"},
                        SetKey(u)' \notin struck'
                 PROVE  ~Permanent(SetKey(u))' /\ SetKey(u)' \notin owned' /\ ~ClearHolds(SetKey(u))'
      BY DEF EditedIsFree
    <3>1. Editing(u) /\ SetKey(u)' = SetKey(u) /\ op[u].at \notin {"remove", "insert_l1"}
      BY <2>6, EditsStay
    <3>2. PICK j \in LocalKeys : j = SetKey(u)
      BY <3>1, EditKeys
    <3>3. ~Permanent(j) /\ ~ClearHolds(j)
      BY <3>1, <3>2, <2>e DEF LocalInv, EditedIsFree
    <3>4. ~Permanent(j)' /\ j \notin owned' /\ ~ClearHolds(j)'
      BY <3>3, <2>e, <2>7
    <3> QED BY <3>1, <3>2, <3>4 DEF Permanent, ClearHolds
  <2>11. SavedInStep'
    <3>1. \A r \in saved : r.key \in LocalKeys
      BY <2>k
    <3>2. /\ \A r, q \in saved : r.key = q.key => r = q
          /\ \A r \in saved : r.key \notin struck =>
                r.val \in Addresses /\ (~EditDue(r.key) => r.val = config[r.key])
      BY <2>6, <2>k DEF LocalInv, SavedInStep
    <3> QED BY <3>1, <3>2, <2>6, <2>7, <2>m, <2>e DEF SavedInStep, At
  <2>12. Kinds'
    BY <2>e DEF Kinds, Permanent, Ours, LocalInv
  <2>13. LocalInv'
    BY <2>9, <2>10, <2>11, <2>12 DEF LocalInv
  <2>14. CopyInv'
    <3>1. CopiesInStep'
      BY <2>k, <2>6, <2>m, <2>e DEF CopyInv, CopiesInStep, Permanent, At, Ours
    <3>2. NoneAstray' /\ RestorerIsEmpty'
      BY <2>k, <2>m, <2>e DEF CopyInv, NoneAstray, RestorerIsEmpty, Permanent, At, Ours
    <3> QED BY <3>1, <3>2 DEF CopyInv
  <2> QED BY <2>1, <2>2, <2>3, <2>4, <2>5, <2>6, <2>7, <2>8, <2>9, <2>10, <2>11, <2>12, <2>13, <2>14
<1>6. ASSUME NEW t \in Threads, ClearL1(t)
      PROVE  CacheInv'
  <2> USE <1>6
  <2>k. PICK saved \in SUBSET [key : LocalKeys, val : Answers] :
            saved = op[t].saved /\ op[t] \in ClearOps /\ op[t].at = "clear_l1"
    BY StepFacts DEF ClearL1, At, Typed, ClearSteps
  <2>d. \A u \in Threads \ {t} : op[u].at \notin ClearSteps
    BY <2>k DEF OneClear, ClearSteps
  <2>m. /\ op' \in [Threads -> Steps] /\ \A u \in Threads \ {t} : op'[u] = op[u]
        /\ op'[t].at = "restore" /\ op'[t].saved = saved
    BY <2>k, StepMoves DEF ClearL1, At, Typed, ClearSteps
  <2>e. UNCHANGED <<map, owned, fresh, aged, config, routing, late, missed, struck, writer,
                    carried>>
    BY DEF ClearL1, shared, history
  <2>l. /\ behind' = Threads \ {t} /\ l1' \in [Threads -> [Keys -> Answers]]
        /\ \A u \in Threads, j \in Keys : l1'[u][j] = NoAnswer
        /\ shadowed' = {}
    BY ClearedFacts DEF ClearL1
  <2>1. Typed'
    <3>1. TypeOK'
      BY <2>k, <2>m, <2>e, <2>d, <1>t, <2>l DEF Typed, TypeOK
    <3>2. op' \in [Threads -> Steps]
      BY <2>m
    <3>3. \A u \in Threads : At(u, "evict")' => op'[u].caller = Idle \/ op'[u].caller.at = "insert_room"
      BY <2>k, <2>m, <2>e, <2>d, <1>t, <2>l DEF Typed, At
    <3> QED BY <1>t, <3>1, <3>2, <3>3 DEF Typed, At
  <2>2. OneRotation' /\ FlipCarriesNone' /\ SetIsAdmitted' /\ HeldIsAdmitted'
    <3>1. OneRotation' /\ FlipCarriesNone'
      BY <2>k, <2>m, <2>e, <2>d, <1>t, <2>l DEF OneRotation, FlipCarriesNone, At, Typed
    <3>2. SetIsAdmitted'
      BY <2>k, <2>m, <2>e, <2>d, <1>t, <2>l DEF SetIsAdmitted, BloomSet, SetKey, Admitted, At, Typed
    <3>3. \A u \in Threads : /\ At(u, "flip") => At(u, "flip")'
                             /\ At(u, "reseed") => At(u, "reseed")' /\ op'[u].todo = op[u].todo
      BY <2>k, <2>m DEF At
    <3>4. HeldIsAdmitted'
      BY <2>e, <1>t, <3>3 DEF HeldIsAdmitted, Held, Admitted
    <3> QED BY <3>1, <3>2, <3>4
  <2>3. OneClear'
    BY <2>k, <2>m, <2>e, <2>d, <1>t, <2>l, ZenonT(60) DEF OneClear, Editing, At, ClearSteps,
        LocalSteps, Permanent, Typed
  <2>4. MapIsCurrent' /\ L1IsCurrent' /\ StoreIsCurrent' /\ BehindIsEmpty'
    BY <2>k, <2>m, <2>e, <2>d, <1>t, <2>l DEF MapIsCurrent, Outdated, ClearingMap, L1IsCurrent,
        ClearingL1, ClearSteps, StoreIsCurrent, At, BehindIsEmpty, Typed
  <2>5. OneEditor'
    BY <2>k, <2>m, <2>e, <2>d, <1>t, <2>l DEF OneEditor, Editing, SetKey, EditThen, At,
        LocalSteps, Typed
  <2>6. SameRecords
    BY <2>k, <2>m, <2>e, <2>d, <1>t DEF SameRecords, Permanent, Typed, TypeOK
  <2>7. SameStages
    BY <2>k, <2>m, <2>e, <2>d, <1>t DEF SameStages, Aside, Editing, Holding, SetKey, EditThen,
        LocalSteps, ClearSteps, At
  <2>8. Kinds'
    BY <2>k, <2>m, <2>e, <2>d, <1>t DEF Kinds, Permanent, Ours, LocalInv, Typed, TypeOK
  <2>9. LocalInv'
    BY <2>k, <2>m, <2>e, <2>d, <1>t, <2>6, <2>7, <2>8, LocalsStay DEF LocalInv
  <2>10. CopyInv'
    BY <2>m, <2>l, CopiesGone DEF Typed
  <2> QED BY <2>1, <2>2, <2>3, <2>4, <2>5, <2>6, <2>7, <2>8, <2>9, <2>10
<1>7. ASSUME NEW t \in Threads, Restore(t)
      PROVE  CacheInv'
  <2> USE <1>7
  <2>k. PICK saved \in SUBSET [key : LocalKeys, val : Answers] :
            saved = op[t].saved /\ op[t] \in ClearOps /\ op[t].at = "restore"
    BY StepFacts DEF Restore, At, Typed, ClearSteps
  <2>d. \A u \in Threads \ {t} : op[u].at \notin ClearSteps
    BY <2>k DEF OneClear, ClearSteps
  <2>r. PICK r \in saved :
            /\ fresh' = fresh \cup {r.key}
            /\ owned' = owned \cup {r.key}
            /\ map' = [map EXCEPT ![r.key] = Entry("permanent", r.val)]
            /\ op' = [op EXCEPT ![t].saved = @ \ {r}]
            /\ Shadows(t, r.key)
    BY <2>k DEF Restore
  <2>p. PICK k \in LocalKeys, v \in Answers : r.key = k /\ r.val = v
    BY <2>k
  <2>m. /\ op' \in [Threads -> Steps] /\ \A u \in Threads \ {t} : op'[u] = op[u]
        /\ op'[t].at = "restore" /\ op'[t].saved = saved \ {r}
    <3>0. PICK rest \in SUBSET [key : LocalKeys, val : Answers] : rest = saved \ {r}
      BY <2>k
    <3>1. PICK o \in ClearOps : o = op[t] /\ o.at = "restore"
      BY <2>k
    <3> DEFINE x == [o EXCEPT !.saved = rest]
    <3>2. x \in Steps /\ x.at = o.at /\ x.saved = rest
      BY <3>0, <3>1, FewerLeft, SMTT(30)
    <3>3. op' = [op EXCEPT ![t] = x]
      BY <2>k, <2>r, <3>0, <3>1
    <3> HIDE DEF x
    <3> QED BY <3>0, <3>1, <3>2, <3>3 DEF Typed
  <2>e. /\ map' = [map EXCEPT ![k] = Entry("permanent", v)]
        /\ fresh' = fresh \cup {k} /\ owned' = owned \cup {k}
        /\ shadowed' = IF Astray(t, k) THEN shadowed \cup {k} ELSE shadowed
        /\ UNCHANGED <<aged, l1, behind, config, routing, late, missed, struck, writer, carried>>
    BY <2>r, <2>p DEF Restore, Shadows, history
  <2>v. /\ Entry("permanent", v) \in Records /\ Entry("permanent", v).kind = "permanent"
        /\ Entry("permanent", v).val = v /\ Entry("permanent", v).marked = FALSE
    BY DEF Entry, Records
  <2>n. k \notin struck => v \in Addresses
    BY <2>k, <2>p, <2>r DEF LocalInv, SavedInStep, Holding, ClearSteps
  <2>1. Typed'
    <3>1. TypeOK'
      BY <2>k, <2>m, <2>e, <2>d, <1>t, <2>v, <2>n DEF Typed, TypeOK, Records
    <3>2. op' \in [Threads -> Steps]
      BY <2>m
    <3>3. \A u \in Threads : At(u, "evict")' => op'[u].caller = Idle \/ op'[u].caller.at = "insert_room"
      BY <2>k, <2>m, <2>e, <2>d, <1>t, <2>v, <2>n DEF Typed, At
    <3> QED BY <1>t, <3>1, <3>2, <3>3 DEF Typed, At
  <2>2. OneRotation' /\ FlipCarriesNone' /\ SetIsAdmitted' /\ HeldIsAdmitted'
    BY <2>k, <2>m, <2>e, <2>d, <1>t, <2>v, <2>n DEF OneRotation, FlipCarriesNone, At,
        SetIsAdmitted, BloomSet, SetKey, HeldIsAdmitted, Held, Admitted, Typed
  <2>3. OneClear'
    BY <2>k, <2>m, <2>e, <2>d, <1>t, <2>v, <2>n DEF OneClear, Editing, At, ClearSteps,
        LocalSteps, Permanent, Typed
  <2>4. MapIsCurrent' /\ L1IsCurrent' /\ StoreIsCurrent' /\ BehindIsEmpty'
    BY <2>k, <2>m, <2>e, <2>d, <1>t, <2>v, <2>n DEF MapIsCurrent, Outdated, ClearingMap,
        L1IsCurrent, ClearingL1, ClearSteps, StoreIsCurrent, At, BehindIsEmpty, Typed
  <2>5. OneEditor'
    BY <2>k, <2>m, <2>e, <2>d, <1>t, <2>v, <2>n DEF OneEditor, Editing, SetKey, EditThen, At,
        LocalSteps, Typed
  <2>6. /\ Holding(t) /\ \A u \in Threads : (Holding(u)' <=> u = t) /\ (Holding(u) <=> u = t)
        /\ \A u \in Threads : op'[u] = op[u] \/ (~Editing(u) /\ ~Editing(u)')
    BY <2>k, <2>d, <2>m DEF Holding, ClearSteps, Editing, LocalSteps, At
  <2>7. \A q \in saved : q.key = k => q = r
    BY <2>6, <2>k, <2>p, <2>r DEF LocalInv, SavedInStep
  <2>8. /\ \A j \in LocalKeys : (Wiped(j) <=> Saves(t, j)) /\ (Wiped(j)' <=> Saves(t, j)')
        /\ \A j \in LocalKeys \ {k} : Saves(t, j)' <=> Saves(t, j)
        /\ Saves(t, k) /\ ~Saves(t, k)'
        /\ \A j \in LocalKeys : (ClearHolds(j) <=> Saves(t, j)) /\ (ClearHolds(j)' <=> Saves(t, j)')
    <3>1. \A j \in LocalKeys : (Wiped(j) <=> Saves(t, j)) /\ (Wiped(j)' <=> Saves(t, j)')
      BY <2>k, <2>m, <2>d DEF Wiped, ClearSteps
    <3>2. \A j \in LocalKeys \ {k} : Saves(t, j)' <=> Saves(t, j)
      BY <2>k, <2>m, <2>p DEF Saves
    <3>3. Saves(t, k) /\ ~Saves(t, k)'
      BY <2>k, <2>m, <2>p, <2>r, <2>7 DEF Saves
    <3>4. \A j \in LocalKeys : (ClearHolds(j) <=> Saves(t, j)) /\ (ClearHolds(j)' <=> Saves(t, j)')
      BY <2>6 DEF ClearHolds, Saves, Holding
    <3> QED BY <3>1, <3>2, <3>3, <3>4
  <2>9. map'[k] = Entry("permanent", v) /\ \A j \in Keys \ {k} : map'[j] = map[j]
    BY <2>e, <1>t DEF Typed, TypeOK
  <2>10. \A j \in LocalKeys : (EditDue(j)' <=> EditDue(j)) /\ (IsLocal(j)' <=> IsLocal(j))
    BY <2>6, <2>e, EditsStay DEF IsLocal
  <2>11. k \notin struck => v \in Addresses /\ (~EditDue(k) => v = config[k]) /\ ~Permanent(k)
    BY <2>6, <2>8, <2>k, <2>p, <2>r DEF LocalInv, SavedInStep, WipedIsFree, Ours
  <2>12. RegistryInStep' /\ RecordsInStep'
    <3>1. \A j \in Ours \ {k} : ~Wiped(j)' =>
              (j \in owned' <=> Permanent(j)') /\ (~EditDue(j)' => InStep(j)')
      BY <2>8, <2>9, <2>10, <2>e, <1>t DEF LocalInv, RegistryInStep, RecordsInStep, InStep,
          Permanent, Ours
    <3>2. k \in Ours => k \in owned' /\ Permanent(k)' /\ (~EditDue(k)' => InStep(k)')
      BY <2>9, <2>10, <2>11, <2>v, <2>e, <1>t DEF InStep, IsLocal, Permanent, Ours
    <3> QED BY <3>1, <3>2, <2>e DEF RegistryInStep, RecordsInStep, Ours
  <2>13. WipedIsFree'
    <3>1. \A j \in Ours \ {k} : Saves(t, j) => ~Permanent(j)' /\ j \notin owned'
      BY <2>8, <2>9, <2>k, <2>e, <1>t DEF LocalInv, WipedIsFree, Permanent, Ours
    <3>2. \A u \in Threads : op'[u].at \in {"clear_l1", "restore"} => u = t
      BY <2>m, <2>d DEF ClearSteps
    <3> QED BY <3>1, <3>2, <2>8, <2>e DEF WipedIsFree, Ours
  <2>14. EditedIsFree'
    <3> SUFFICES ASSUME NEW u \in Threads, Editing(u)', op'[u].at \notin {"remove", "insert_l1"},
                        SetKey(u)' \notin struck'
                 PROVE  ~Permanent(SetKey(u))' /\ SetKey(u)' \notin owned' /\ ~ClearHolds(SetKey(u))'
      BY DEF EditedIsFree
    <3>1. Editing(u) /\ SetKey(u)' = SetKey(u) /\ op[u].at \notin {"remove", "insert_l1"}
      BY <2>6, EditsStay
    <3>2. PICK j \in LocalKeys : j = SetKey(u)
      BY <3>1, EditKeys
    <3>3. ~Permanent(j) /\ j \notin owned /\ ~ClearHolds(j)
      BY <3>1, <3>2, <2>e DEF LocalInv, EditedIsFree
    <3>4. j # k
      BY <3>3, <2>8
    <3>5. ~Permanent(j)' /\ j \notin owned' /\ ~ClearHolds(j)'
      BY <3>3, <3>4, <2>e, <2>8, <2>9, <1>t DEF Permanent
    <3> QED BY <3>1, <3>2, <3>5 DEF Permanent, ClearHolds
  <2>15. SavedInStep'
    <3>1. \A q \in saved : q.key \in LocalKeys
      BY <2>k
    <3>2. /\ \A q, w \in saved : q.key = w.key => q = w
          /\ \A q \in saved : q.key \notin struck =>
                q.val \in Addresses /\ (~EditDue(q.key) => q.val = config[q.key])
      BY <2>6, <2>k DEF LocalInv, SavedInStep
    <3> QED BY <3>1, <3>2, <2>6, <2>10, <2>m, <2>e DEF SavedInStep, At
  <2>16. Kinds'
    BY <2>9, <2>11, <2>v, <2>e, <1>t DEF Kinds, Permanent, Ours, LocalInv
  <2>17. LocalInv'
    BY <2>12, <2>13, <2>14, <2>15, <2>16 DEF LocalInv
  <2>18. CopiesInStep'
    <3> SUFFICES ASSUME NEW j \in Ours, NEW u \in Threads \ behind, l1[u][j] \in Addresses
                 PROVE  \/ Permanent(j)' /\ map'[j].val = l1[u][j]
                        \/ \E x \in Threads : Holding(x)' /\ [key |-> j, val |-> l1[u][j]] \in op'[x].saved
                        \/ \E x \in Threads : At(x, "remove_l1")' /\ op'[x].key = j
      BY <2>e DEF CopiesInStep, Ours
    <3>1. \/ Permanent(j) /\ map[j].val = l1[u][j]
          \/ [key |-> j, val |-> l1[u][j]] \in saved
          \/ \E x \in Threads : At(x, "remove_l1") /\ op[x].key = j
      BY <2>6, <2>k DEF CopyInv, CopiesInStep
    <3>2. \A x \in Threads : At(x, "remove_l1") => At(x, "remove_l1")' /\ op'[x].key = op[x].key
      BY <2>k, <2>m DEF At
    <3>3. CASE j = k
      <4>1. ~Permanent(j)
        BY <3>3, <2>11 DEF Ours
      <4>2. [key |-> j, val |-> l1[u][j]] \in saved => l1[u][j] = v
        BY <3>3, <2>7, <2>p
      <4> QED BY <3>1, <3>2, <3>3, <4>1, <4>2, <2>9, <2>v DEF Permanent
    <3>4. CASE j # k
      <4>1. [key |-> j, val |-> l1[u][j]] # r
        BY <3>4, <2>p
      <4>2. map'[j] = map[j]
        BY <3>4, <2>9, <1>t DEF Ours
      <4> QED BY <3>1, <3>2, <4>1, <4>2, <2>6, <2>m DEF Permanent
    <3> QED BY <3>3, <3>4
  <2>19. NoneAstray' /\ RestorerIsEmpty'
    <3>1. k \notin shadowed' => \A u \in Threads \ (behind \cup {t}) :
              l1[u][k] \notin Routings /\ ~(At(u, "store_l1") /\ op[u].key = k)
      BY <2>e DEF Astray, At
    <3>2. \A j \in Keys : j \notin shadowed' => j \notin shadowed
      BY <2>e
    <3>3. \A j \in Keys : l1[t][j] \notin Routings
      BY <2>k, <1>t DEF CopyInv, RestorerIsEmpty, At
    <3>4. NoneAstray'
      BY <2>k, <2>m, <2>e, <2>9, <3>1, <3>2, <3>3, <1>t DEF CopyInv, NoneAstray, Permanent, Ours, At
    <3> QED BY <3>4, <2>k, <2>m, <2>e DEF CopyInv, RestorerIsEmpty, At
  <2>20. CopyInv'
    BY <2>18, <2>19 DEF CopyInv
  <2> QED BY <2>1, <2>2, <2>3, <2>4, <2>5, <2>6, <2>7, <2>8, <2>9, <2>10, <2>11, <2>12, <2>13,
      <2>14, <2>15, <2>16, <2>17, <2>18, <2>19, <2>20
<1>8. ASSUME NEW t \in Threads, ClearDone(t)
      PROVE  CacheInv'
  <2> USE <1>8
  <2>k. PICK saved \in SUBSET [key : LocalKeys, val : Answers] :
            saved = op[t].saved /\ op[t] \in ClearOps /\ op[t].at = "restore"
    BY StepFacts DEF ClearDone, At, Typed, ClearSteps
  <2>d. \A u \in Threads \ {t} : op[u].at \notin ClearSteps
    BY <2>k DEF OneClear, ClearSteps
  <2>m. /\ op' \in [Threads -> Steps] /\ \A u \in Threads \ {t} : op'[u] = op[u]
        /\ op[t].saved = {} /\ op'[t] = Idle /\ op'[t].at = "idle"
    BY MakesSteps, GotoMoves, StepFacts DEF ClearDone, At, Typed
  <2>e. UNCHANGED <<map, owned, fresh, aged, l1, behind, config, routing, late, missed, struck,
                    shadowed, writer, carried>>
    BY DEF ClearDone, shared, history
  <2>1. Typed'
    BY <2>k, <2>m, <2>e, <2>d, <1>t DEF Typed, TypeOK, At
  <2>2. OneRotation' /\ FlipCarriesNone' /\ SetIsAdmitted' /\ HeldIsAdmitted'
    BY <2>k, <2>m, <2>e, <2>d, <1>t DEF OneRotation, FlipCarriesNone, At, SetIsAdmitted,
        BloomSet, SetKey, HeldIsAdmitted, Held, Admitted, Typed
  <2>3. OneClear'
    BY <2>k, <2>m, <2>e, <2>d, <1>t DEF OneClear, Editing, At, ClearSteps, LocalSteps, Permanent,
        Typed
  <2>4. MapIsCurrent' /\ L1IsCurrent' /\ StoreIsCurrent' /\ BehindIsEmpty'
    BY <2>k, <2>m, <2>e, <2>d, <1>t DEF MapIsCurrent, Outdated, ClearingMap, L1IsCurrent,
        ClearingL1, ClearSteps, StoreIsCurrent, At, BehindIsEmpty, Typed
  <2>5. OneEditor'
    BY <2>k, <2>m, <2>e, <2>d, <1>t DEF OneEditor, Editing, SetKey, EditThen, At, LocalSteps, Typed
  <2>6. SameRecords
    BY <2>k, <2>m, <2>e, <2>d, <1>t DEF SameRecords, Permanent, Typed, TypeOK
  <2>7. SameStages
    BY <2>k, <2>m, <2>e, <2>d, <1>t DEF SameStages, Aside, Editing, Holding, SetKey, EditThen,
        LocalSteps, ClearSteps, At
  <2>8. Kinds'
    BY <2>k, <2>m, <2>e, <2>d, <1>t DEF Kinds, Permanent, Ours, LocalInv, Typed, TypeOK
  <2>9. LocalInv'
    BY <2>k, <2>m, <2>e, <2>d, <1>t, <2>6, <2>7, <2>8, LocalsStay DEF LocalInv
  <2>10. CopyInv'
    <3>1. CopiesInStep' /\ NoneAstray'
      BY <2>k, <2>m, <2>e, <2>d, <1>t, <2>6, <2>7, CopiesStay DEF At
    <3>2. RestorerIsEmpty'
      BY <2>k, <2>m, <2>e, <2>d, <1>t DEF CopyInv, RestorerIsEmpty, At, TypeOK, Typed
    <3> QED BY <3>1, <3>2 DEF CopyInv
  <2> QED BY <2>1, <2>2, <2>3, <2>4, <2>5, <2>6, <2>7, <2>8, <2>9, <2>10
<1> HIDE DEF CacheInv
<1> QED BY <1>1, <1>2, <1>3, <1>4, <1>5, <1>6, <1>7, <1>8 DEF Clear

\* Evictions keep CacheInv.
LEMMA EvictionsKeep ==
    ASSUME CacheInv, UNCHANGED traffic,
           \E t \in Threads : Evict(t)
    PROVE  CacheInv'
<1> USE DEF CacheInv
<1>0. /\ Keys' = Keys /\ LocalKeys' = LocalKeys /\ UpstreamKeys' = UpstreamKeys
      /\ Addresses' = Addresses /\ Ops' = Ops /\ Answers' = Answers
      /\ Records' = Records /\ Steps' = Steps
  BY TrafficStays
<1>t. /\ LocalKeys \subseteq Keys /\ UpstreamKeys \subseteq Keys
      /\ Routings \cap Addresses = {} /\ NoAnswer \notin Addresses /\ NoAnswer \notin Routings
      /\ Preloaded \in Addresses
  BY TrafficFacts DEF Typed
<1> USE <1>0
<1>1. ASSUME NEW t \in Threads, EvictWalk(t), op[t] = Idle
      PROVE  CacheInv'
  <2> USE <1>1
  <2>i. op[t] = Idle /\ op[t].at = "idle"
    BY MakesSteps
  <2>s. PICK urgent \in SUBSET Candidates, scored \in SUBSET Candidates :
            Goto(t, [at |-> "evict", urgent |-> urgent, scored |-> scored,
                     retain |-> urgent # {}, caller |-> op[t]])
    BY DEF EvictWalk
  <2>k. Candidates \subseteq Keys /\ \A k \in Candidates : map[k].kind = "cached"
    BY DEF Candidates
  <2>m. /\ op' \in [Threads -> Steps] /\ \A u \in Threads \ {t} : op'[u] = op[u]
        /\ op'[t].at = "evict" /\ op'[t].urgent = urgent /\ op'[t].scored = scored
        /\ op'[t].caller = op[t]
    <3> DEFINE x == [at |-> "evict", urgent |-> urgent, scored |-> scored,
                     retain |-> urgent # {}, caller |-> op[t]]
    <3>1. /\ x \in EvictOps /\ x.at = "evict"
          /\ x.urgent = urgent /\ x.scored = scored /\ x.caller = op[t]
      BY <2>s, <2>k, <2>i DEF EvictOps
    <3>2. x \in Steps /\ Goto(t, x)
      BY <2>s, <3>1 DEF Steps
    <3> HIDE DEF x
    <3> QED BY <3>1, <3>2, GotoMoves DEF Typed
  <2>e. UNCHANGED <<map, owned, fresh, aged, l1, behind, config, routing, late, missed, struck,
                    shadowed, writer, carried>>
    BY DEF EvictWalk, shared, history
  <2>1. Typed'
    BY <2>i, <2>m, <2>e, <1>t DEF Typed, TypeOK, At
  <2>2. OneRotation' /\ FlipCarriesNone' /\ SetIsAdmitted' /\ HeldIsAdmitted'
    BY <2>i, <2>m, <2>e, <1>t DEF OneRotation, FlipCarriesNone, At, SetIsAdmitted, BloomSet,
        SetKey, HeldIsAdmitted, Held, Admitted, Typed
  <2>3. OneClear'
    BY <2>i, <2>m, <2>e, <1>t DEF OneClear, Editing, At, ClearSteps, LocalSteps, Permanent, Typed
  <2>4. MapIsCurrent' /\ L1IsCurrent' /\ StoreIsCurrent' /\ BehindIsEmpty'
    BY <2>i, <2>m, <2>e, <1>t DEF MapIsCurrent, Outdated, ClearingMap, L1IsCurrent, ClearingL1,
        ClearSteps, StoreIsCurrent, At, BehindIsEmpty, Typed
  <2>5. OneEditor'
    BY <2>i, <2>m, <2>e, <1>t DEF OneEditor, Editing, SetKey, EditThen, At, LocalSteps, Typed
  <2>6. SameRecords
    BY <2>i, <2>m, <2>e, <1>t DEF SameRecords, Permanent, Typed, TypeOK
  <2>7. SameStages
    BY <2>i, <2>m, <2>e, <1>t DEF SameStages, Aside, Editing, Holding, SetKey, EditThen,
        LocalSteps, ClearSteps, At
  <2>8. Kinds'
    BY <2>i, <2>m, <2>e, <1>t DEF Kinds, Permanent, Ours, LocalInv, Typed, TypeOK
  <2>9. LocalInv'
    BY <2>i, <2>m, <2>e, <1>t, <2>6, <2>7, <2>8, LocalsStay DEF LocalInv
  <2>10. CopyInv'
    <3>1. CopiesInStep' /\ NoneAstray'
      BY <2>i, <2>m, <2>e, <1>t, <2>6, <2>7, CopiesStay DEF At
    <3>2. RestorerIsEmpty'
      BY <2>i, <2>m, <2>e, <1>t DEF CopyInv, RestorerIsEmpty, At, TypeOK, Typed
    <3> QED BY <3>1, <3>2 DEF CopyInv
  <2> QED BY <2>1, <2>2, <2>3, <2>4, <2>5, <2>6, <2>7, <2>8, <2>9, <2>10
<1>2. ASSUME NEW t \in Threads, EvictWalk(t), op[t] # Idle
      PROVE  CacheInv'
  <2> USE <1>2
  <2>i. /\ op[t].at = "insert_room" /\ op[t] \in LocalOps /\ op[t] # Idle
        /\ Editing(t)
    <3>1. op[t].at = "insert_room"
      BY DEF EvictWalk, Starts, At
    <3> QED BY <3>1, StepFacts DEF Editing, LocalSteps, Typed
  <2>s. PICK urgent \in SUBSET Candidates, scored \in SUBSET Candidates :
            Goto(t, [at |-> "evict", urgent |-> urgent, scored |-> scored,
                     retain |-> urgent # {}, caller |-> op[t]])
    BY DEF EvictWalk
  <2>k. Candidates \subseteq Keys /\ \A k \in Candidates : map[k].kind = "cached"
    BY DEF Candidates
  <2>m. /\ op' \in [Threads -> Steps] /\ \A u \in Threads \ {t} : op'[u] = op[u]
        /\ op'[t].at = "evict" /\ op'[t].urgent = urgent /\ op'[t].scored = scored
        /\ op'[t].caller = op[t]
    <3> DEFINE x == [at |-> "evict", urgent |-> urgent, scored |-> scored,
                     retain |-> urgent # {}, caller |-> op[t]]
    <3>1. /\ x \in EvictOps /\ x.at = "evict"
          /\ x.urgent = urgent /\ x.scored = scored /\ x.caller = op[t]
      BY <2>s, <2>k, <2>i DEF EvictOps
    <3>2. x \in Steps /\ Goto(t, x)
      BY <2>s, <3>1 DEF Steps
    <3> HIDE DEF x
    <3> QED BY <3>1, <3>2, GotoMoves DEF Typed
  <2>e. UNCHANGED <<map, owned, fresh, aged, l1, behind, config, routing, late, missed, struck,
                    shadowed, writer, carried>>
    BY DEF EvictWalk, shared, history
  <2>d. \A u \in Threads \ {t} : ~Editing(u)
    BY <2>i, SoleEditor
  <2>1. Typed'
    BY <2>i, <2>m, <2>e, <1>t DEF Typed, TypeOK, At
  <2>2. OneRotation' /\ FlipCarriesNone' /\ SetIsAdmitted' /\ HeldIsAdmitted'
    BY <2>i, <2>m, <2>e, <1>t DEF OneRotation, FlipCarriesNone, At, SetIsAdmitted, BloomSet,
        SetKey, HeldIsAdmitted, Held, Admitted, Typed
  <2>3. OneClear'
    BY <2>i, <2>m, <2>e, <1>t DEF OneClear, Editing, At, ClearSteps, LocalSteps, Permanent, Typed
  <2>4. MapIsCurrent' /\ L1IsCurrent' /\ StoreIsCurrent' /\ BehindIsEmpty'
    BY <2>i, <2>m, <2>e, <1>t DEF MapIsCurrent, Outdated, ClearingMap, L1IsCurrent, ClearingL1,
        ClearSteps, StoreIsCurrent, At, BehindIsEmpty, Typed
  <2>5. OneEditor'
    BY <2>i, <2>m, <2>e, <1>t DEF OneEditor, Editing, SetKey, EditThen, At, LocalSteps, Typed
  <2>6. SameRecords
    BY <2>i, <2>m, <2>e, <1>t DEF SameRecords, Permanent, Typed, TypeOK
  <2>7. SameStages
    BY <2>i, <2>m, <2>e, <1>t DEF SameStages, Aside, Editing, Holding, SetKey, EditThen,
        LocalSteps, ClearSteps, At
  <2>8. Kinds'
    BY <2>i, <2>m, <2>e, <1>t DEF Kinds, Permanent, Ours, LocalInv, Typed, TypeOK
  <2>9. LocalInv'
    BY <2>i, <2>m, <2>e, <1>t, <2>6, <2>7, <2>8, LocalsStay DEF LocalInv
  <2>10. CopyInv'
    <3>1. CopiesInStep' /\ NoneAstray'
      BY <2>i, <2>m, <2>e, <1>t, <2>6, <2>7, CopiesStay DEF At
    <3>2. RestorerIsEmpty'
      BY <2>i, <2>m, <2>e, <1>t DEF CopyInv, RestorerIsEmpty, At, TypeOK, Typed
    <3> QED BY <3>1, <3>2 DEF CopyInv
  <2> QED BY <2>1, <2>2, <2>3, <2>4, <2>5, <2>6, <2>7, <2>8, <2>9, <2>10
<1>3. ASSUME NEW t \in Threads, EvictMark(t)
      PROVE  CacheInv'
  <2> USE <1>3
  <2>i. /\ op[t].at = "evict" /\ op[t] \in EvictOps
        /\ op[t].urgent \in SUBSET Keys /\ op[t].scored \in SUBSET Keys
    BY StepFacts DEF EvictMark, At, Typed
  <2>s. PICK k \in op[t].urgent :
            /\ map' = [map EXCEPT ![k].marked = @ \/ Held(k)]
            /\ op' = [op EXCEPT ![t].urgent = @ \ {k}]
            /\ Strikes(k)
    BY DEF EvictMark
  <2>m. /\ op' \in [Threads -> Steps] /\ \A u \in Threads \ {t} : op'[u] = op[u]
        /\ op'[t].at = "evict" /\ op'[t].urgent = op[t].urgent \ {k}
        /\ op'[t].scored = op[t].scored /\ op'[t].caller = op[t].caller
    <3>0. PICK rest \in SUBSET Keys : rest = op[t].urgent \ {k}
      BY <2>i
    <3>1. PICK o \in EvictOps : o = op[t]
      BY <2>i
    <3> DEFINE x == [o EXCEPT !.urgent = rest]
    <3>2. /\ x \in Steps /\ x.at = o.at /\ x.urgent = rest
          /\ x.scored = o.scored /\ x.caller = o.caller
      BY <3>0, <3>1, FewerLeft
    <3>3. op' = [op EXCEPT ![t] = x]
      BY <2>s, <3>0, <3>1
    <3> HIDE DEF x
    <3> QED BY <2>i, <3>0, <3>1, <3>2, <3>3 DEF Typed
  <2>e. UNCHANGED <<owned, fresh, aged, l1, behind, config, routing, late, missed, shadowed, writer,
                    carried>>
    BY DEF EvictMark, history
  <2>q. struck' = IF Permanent(k) THEN struck \cup {k} ELSE struck
    BY <2>s DEF Strikes
  <2>v. /\ map' \in [Keys -> Records] /\ \A j \in Keys \ {k} : map'[j] = map[j]
        /\ map'[k].kind = map[k].kind /\ map'[k].val = map[k].val
        /\ map'[k].marked = FALSE => map[k].marked = FALSE
    <3>1. PICK rec \in Records : rec = map[k]
      BY <2>i DEF Typed, TypeOK, Records
    <3>2. PICK b \in BOOLEAN : b = (rec.marked \/ Held(k))
      BY <3>1 DEF Records
    <3> DEFINE new == [rec EXCEPT !.marked = b]
    <3>3. new \in Records /\ new.kind = rec.kind /\ new.val = rec.val /\ new.marked = b
      BY <3>1, <3>2 DEF Records
    <3>4. map' = [map EXCEPT ![k] = new]
      BY <2>s, <3>1, <3>2
    <3> HIDE DEF new
    <3>5. b = FALSE => rec.marked = FALSE
      BY <3>1, <3>2 DEF Records
    <3>6. map \in [Keys -> Records] /\ k \in Keys
      BY <2>i, <2>s DEF Typed, TypeOK, Records
    <3> QED BY <3>1, <3>3, <3>4, <3>5, <3>6
  <2>1. Typed'
    BY <2>i, <2>s, <2>m, <2>e, <2>v, <2>q, <1>t DEF Typed, TypeOK, At, Records
  <2>2. OneRotation' /\ FlipCarriesNone' /\ SetIsAdmitted' /\ HeldIsAdmitted'
    BY <2>i, <2>s, <2>m, <2>e, <2>v, <2>q, <1>t DEF OneRotation, FlipCarriesNone, At,
        SetIsAdmitted, BloomSet, SetKey, HeldIsAdmitted, Held, Admitted, Typed
  <2>3. OneClear'
    BY <2>i, <2>s, <2>m, <2>e, <2>v, <2>q, <1>t DEF OneClear, Editing, At, ClearSteps,
        LocalSteps, Permanent, Typed
  <2>4. MapIsCurrent' /\ L1IsCurrent' /\ StoreIsCurrent' /\ BehindIsEmpty'
    BY <2>i, <2>s, <2>m, <2>e, <2>v, <2>q, <1>t DEF MapIsCurrent, Outdated, ClearingMap,
        L1IsCurrent, ClearingL1, ClearSteps, StoreIsCurrent, At, BehindIsEmpty, Typed
  <2>5. OneEditor'
    BY <2>i, <2>s, <2>m, <2>e, <2>v, <2>q, <1>t DEF OneEditor, Editing, SetKey, EditThen, At,
        LocalSteps, Typed
  <2>6. SameRecords
    BY <2>i, <2>s, <2>m, <2>e, <2>v, <2>q, <1>t DEF SameRecords, Permanent, Typed, TypeOK, Strikes
  <2>7. SameStages
    BY <2>i, <2>s, <2>m, <2>e, <2>v, <2>q, <1>t DEF SameStages, Aside, Editing, Holding, SetKey,
        EditThen, LocalSteps, ClearSteps, At
  <2>8. Kinds'
    BY <2>i, <2>s, <2>m, <2>e, <2>v, <2>q, <1>t DEF Kinds, Permanent, Ours, LocalInv, Typed, TypeOK
  <2>9. LocalInv'
    BY <2>i, <2>s, <2>m, <2>e, <2>v, <2>q, <1>t, <2>6, <2>7, <2>8, LocalsStay DEF LocalInv
  <2>10. CopyInv'
    <3>1. CopiesInStep' /\ NoneAstray'
      BY <2>i, <2>s, <2>m, <2>e, <2>v, <2>q, <1>t, <2>6, <2>7, CopiesStay DEF At
    <3>2. RestorerIsEmpty'
      BY <2>i, <2>s, <2>m, <2>e, <2>v, <2>q, <1>t DEF CopyInv, RestorerIsEmpty, At, TypeOK, Typed
    <3> QED BY <3>1, <3>2 DEF CopyInv
  <2> QED BY <2>1, <2>2, <2>3, <2>4, <2>5, <2>6, <2>7, <2>8, <2>9, <2>10
<1>4. ASSUME NEW t \in Threads, EvictRemove(t)
      PROVE  CacheInv'
  <2> USE <1>4
  <2>i. /\ op[t].at = "evict" /\ op[t] \in EvictOps
        /\ op[t].urgent \in SUBSET Keys /\ op[t].scored \in SUBSET Keys
    BY StepFacts DEF EvictRemove, At, Typed
  <2>s. PICK k \in op[t].scored :
            /\ map' = [map EXCEPT ![k] = Vacant]
            /\ op' = [op EXCEPT ![t].scored = @ \ {k}]
            /\ Strikes(k)
    BY DEF EvictRemove
  <2>m. /\ op' \in [Threads -> Steps] /\ \A u \in Threads \ {t} : op'[u] = op[u]
        /\ op'[t].at = "evict" /\ op'[t].scored = op[t].scored \ {k}
        /\ op'[t].urgent = op[t].urgent /\ op'[t].caller = op[t].caller
    <3>0. PICK rest \in SUBSET Keys : rest = op[t].scored \ {k}
      BY <2>i
    <3>1. PICK o \in EvictOps : o = op[t]
      BY <2>i
    <3> DEFINE x == [o EXCEPT !.scored = rest]
    <3>2. /\ x \in Steps /\ x.at = o.at /\ x.scored = rest
          /\ x.urgent = o.urgent /\ x.caller = o.caller
      BY <3>0, <3>1, FewerLeft
    <3>3. op' = [op EXCEPT ![t] = x]
      BY <2>s, <3>0, <3>1
    <3> HIDE DEF x
    <3> QED BY <2>i, <3>0, <3>1, <3>2, <3>3 DEF Typed
  <2>v. Vacant \in Records /\ Vacant.kind = "vacant" /\ Vacant.val = NoAnswer
    BY DEF Vacant, Records, Answers
  <2>e. UNCHANGED <<owned, fresh, aged, l1, behind, config, routing, late, missed, shadowed, writer,
                    carried>>
    BY DEF EvictRemove, history
  <2>q. struck' = IF Permanent(k) THEN struck \cup {k} ELSE struck
    BY <2>s DEF Strikes
  <2>w. /\ map' \in [Keys -> Records] /\ \A j \in Keys \ {k} : map'[j] = map[j]
        /\ map'[k] = Vacant
    BY <2>i, <2>s, <2>v DEF Typed, TypeOK, Records
  <2>1. Typed'
    <3>1. TypeOK'
      BY <2>i, <2>m, <2>e, <2>v, <2>w, <2>q, <1>t DEF Typed, TypeOK, Records
    <3>2. op' \in [Threads -> Steps]
      BY <2>m
    <3>3. \A u \in Threads : At(u, "evict")' => op'[u].caller = Idle \/ op'[u].caller.at = "insert_room"
      BY <2>i, <2>m, <2>e, <2>v, <2>w, <2>q, <1>t DEF Typed, At
    <3> QED BY <1>t, <3>1, <3>2, <3>3 DEF Typed, At
  <2>2. OneRotation' /\ FlipCarriesNone' /\ SetIsAdmitted' /\ HeldIsAdmitted'
    BY <2>i, <2>m, <2>e, <2>v, <2>w, <2>q, <1>t DEF OneRotation, FlipCarriesNone, At,
        SetIsAdmitted, BloomSet, SetKey, HeldIsAdmitted, Held, Admitted, Typed
  <2>3. OneClear'
    BY <2>i, <2>m, <2>e, <2>v, <2>w, <2>q, <1>t DEF OneClear, Editing, At, ClearSteps,
        LocalSteps, Permanent, Typed
  <2>4. MapIsCurrent' /\ L1IsCurrent' /\ StoreIsCurrent' /\ BehindIsEmpty'
    BY <2>i, <2>m, <2>e, <2>v, <2>w, <2>q, <1>t DEF MapIsCurrent, Outdated, ClearingMap,
        L1IsCurrent, ClearingL1, ClearSteps, StoreIsCurrent, At, BehindIsEmpty, Typed
  <2>5. OneEditor'
    BY <2>i, <2>m, <2>e, <2>v, <2>w, <2>q, <1>t DEF OneEditor, Editing, SetKey, EditThen, At,
        LocalSteps, Typed
  <2>6. SameRecords
    BY <2>i, <2>s, <2>m, <2>e, <2>v, <2>w, <2>q, <1>t DEF SameRecords, Permanent, Typed, TypeOK
  <2>7. SameStages
    BY <2>i, <2>s, <2>m, <2>e, <2>v, <2>w, <2>q, <1>t DEF SameStages, Aside, Editing, Holding,
        SetKey, EditThen, LocalSteps, ClearSteps, At
  <2>8. Kinds'
    BY <2>i, <2>s, <2>m, <2>e, <2>v, <2>w, <2>q, <1>t DEF Kinds, Permanent, Ours, LocalInv,
        Typed, TypeOK
  <2>9. LocalInv'
    BY <2>i, <2>s, <2>m, <2>e, <2>v, <2>w, <2>q, <1>t, <2>6, <2>7, <2>8, LocalsStay DEF LocalInv
  <2>10. CopyInv'
    <3>1. CopiesInStep' /\ NoneAstray'
      BY <2>i, <2>s, <2>m, <2>e, <2>v, <2>w, <2>q, <1>t, <2>6, <2>7, CopiesStay DEF At
    <3>2. RestorerIsEmpty'
      BY <2>i, <2>s, <2>m, <2>e, <2>v, <2>w, <2>q, <1>t DEF CopyInv, RestorerIsEmpty, At, TypeOK,
          Typed
    <3> QED BY <3>1, <3>2 DEF CopyInv
  <2> QED BY <2>1, <2>2, <2>3, <2>4, <2>5, <2>6, <2>7, <2>8, <2>9, <2>10
<1>5. ASSUME NEW t \in Threads, EvictRetain(t)
      PROVE  CacheInv'
  <2> USE <1>5
  <2>i. /\ op[t].at = "evict" /\ op[t] \in EvictOps
        /\ op[t].urgent \in SUBSET Keys /\ op[t].scored \in SUBSET Keys
    BY StepFacts DEF EvictRetain, At, Typed
  <2>v. Vacant \in Records /\ Vacant.kind = "vacant" /\ Vacant.val = NoAnswer
    BY DEF Vacant, Records, Answers
  <2>m. /\ op' \in [Threads -> Steps] /\ \A u \in Threads \ {t} : op'[u] = op[u]
        /\ \/ /\ op[t].caller = Idle /\ op'[t].at = "idle"
           \/ /\ op[t].caller # Idle /\ op'[t].at = "insert_map"
              /\ op'[t].key = op[t].caller.key /\ op'[t].then = op[t].caller.then
    <3>1. CASE op[t].caller = Idle
      BY <3>1, MakesSteps, GotoMoves DEF EvictRetain, Typed
    <3>2. CASE op[t].caller # Idle
      <4>1. PICK o \in LocalOps : o = op[t].caller
        BY <2>i, <3>2, StepFacts DEF Typed
      <4> DEFINE x == [o EXCEPT !.at = "insert_map"]
      <4>2. x \in LocalOps /\ x.at = "insert_map" /\ x.key = o.key /\ x.then = o.then
        BY <4>1 DEF LocalOps, LocalSteps
      <4>3. Goto(t, x) /\ x \in Steps
        BY <3>2, <4>1, <4>2 DEF EvictRetain, Steps
      <4> HIDE DEF x
      <4> QED BY <3>2, <4>1, <4>2, <4>3, GotoMoves DEF Typed
    <3> QED BY <3>1, <3>2
  <2>e. UNCHANGED <<owned, fresh, aged, l1, behind, config, routing, late, missed, struck,
                    shadowed, writer,
                    carried>>
    BY DEF EvictRetain, history
  <2>w. /\ map' \in [Keys -> Records]
        /\ \A j \in Keys : map'[j] = map[j] \/ (map[j].marked = TRUE /\ map'[j] = Vacant)
    BY <2>v DEF EvictRetain, Typed, TypeOK, Records
  <2>f. op'[t].at \in {"idle", "insert_map"}
    BY <2>m
  <2>1. Typed'
    <3>1. TypeOK'
      BY <2>i, <2>m, <2>e, <2>v, <2>w, <1>t, <2>f DEF Typed, TypeOK, Records
    <3>2. op' \in [Threads -> Steps]
      BY <2>m
    <3>3. \A u \in Threads : At(u, "evict")' => op'[u].caller = Idle \/ op'[u].caller.at = "insert_room"
      BY <2>i, <2>m, <2>e, <2>v, <2>w, <1>t, <2>f DEF Typed, At
    <3> QED BY <1>t, <3>1, <3>2, <3>3 DEF Typed, At
  <2>2. OneRotation' /\ FlipCarriesNone' /\ SetIsAdmitted' /\ HeldIsAdmitted'
    BY <2>i, <2>m, <2>e, <2>v, <2>w, <1>t, <2>f DEF OneRotation, FlipCarriesNone, At,
        SetIsAdmitted, BloomSet, SetKey, HeldIsAdmitted, Held, Admitted, Typed
  <2>3. OneClear'
    BY <2>i, <2>m, <2>e, <2>v, <2>w, <1>t, <2>f DEF OneClear, Editing, At, ClearSteps,
        LocalSteps, Permanent, Typed
  <2>4. MapIsCurrent' /\ L1IsCurrent' /\ StoreIsCurrent' /\ BehindIsEmpty'
    BY <2>i, <2>m, <2>e, <2>v, <2>w, <1>t, <2>f DEF MapIsCurrent, Outdated, ClearingMap,
        L1IsCurrent, ClearingL1, ClearSteps, StoreIsCurrent, At, BehindIsEmpty, Typed
  <2>5. OneEditor'
    BY <2>i, <2>m, <2>e, <2>v, <2>w, <1>t, <2>f DEF OneEditor, Editing, SetKey, EditThen, At,
        LocalSteps, Typed
  <2>6. SameRecords
    BY <2>i, <2>m, <2>f, <2>e, <2>v, <2>w, <1>t DEF SameRecords, Permanent, Typed, TypeOK, Kinds,
        LocalInv, Ours
  <2>7. SameStages
    BY <2>i, <2>m, <2>f, <2>e, <2>v, <2>w, <1>t DEF SameStages, Aside, Editing, Holding, SetKey,
        EditThen, LocalSteps, ClearSteps, At
  <2>8. Kinds'
    BY <2>i, <2>m, <2>f, <2>e, <2>v, <2>w, <1>t DEF Kinds, Permanent, Ours, LocalInv, Typed, TypeOK
  <2>9. LocalInv'
    BY <2>i, <2>m, <2>f, <2>e, <2>v, <2>w, <1>t, <2>6, <2>7, <2>8, LocalsStay DEF LocalInv
  <2>10. CopyInv'
    <3>1. CopiesInStep' /\ NoneAstray'
      BY <2>i, <2>m, <2>f, <2>e, <2>v, <2>w, <1>t, <2>6, <2>7, CopiesStay DEF At
    <3>2. RestorerIsEmpty'
      BY <2>i, <2>m, <2>f, <2>e, <2>v, <2>w, <1>t DEF CopyInv, RestorerIsEmpty, At, TypeOK, Typed
    <3> QED BY <3>1, <3>2 DEF CopyInv
  <2> QED BY <2>1, <2>2, <2>3, <2>4, <2>5, <2>6, <2>7, <2>8, <2>9, <2>10
<1> HIDE DEF CacheInv
<1> QED BY <1>1, <1>2, <1>3, <1>4, <1>5 DEF Evict

\* Rotations of the bloom filter keep CacheInv.
LEMMA RotationsKeep ==
    ASSUME CacheInv, UNCHANGED traffic,
           \E t \in Threads : Rotate(t)
    PROVE  CacheInv'
<1> USE DEF CacheInv
<1>0. /\ Keys' = Keys /\ LocalKeys' = LocalKeys /\ UpstreamKeys' = UpstreamKeys
      /\ Addresses' = Addresses /\ Ops' = Ops /\ Answers' = Answers
      /\ Records' = Records /\ Steps' = Steps
  BY TrafficStays
<1>t. /\ LocalKeys \subseteq Keys /\ UpstreamKeys \subseteq Keys
      /\ Routings \cap Addresses = {} /\ NoAnswer \notin Addresses /\ NoAnswer \notin Routings
      /\ Preloaded \in Addresses
  BY TrafficFacts DEF Typed
<1> USE <1>0
<1>1. ASSUME NEW t \in Threads, RotateClear(t)
      PROVE  CacheInv'
  <2> USE <1>1
  <2>m. /\ op' \in [Threads -> Steps] /\ \A u \in Threads \ {t} : op'[u] = op[u]
        /\ op[t].at = "idle" /\ op'[t].at = "flip"
    BY MakesSteps, GotoMoves DEF RotateClear, Starts, Typed
  <2>e. /\ aged' = {} /\ carried = {}
        /\ UNCHANGED <<map, owned, fresh, l1, behind, config, routing, late, missed, struck,
                       shadowed, writer, carried>>
    BY DEF RotateClear, history
  <2>d. \A u \in Threads : op[u].at \notin {"flip", "reseed"}
    BY DEF RotateClear
  <2>1. Typed'
    BY <2>m, <2>e, <2>d, <1>t DEF Typed, TypeOK, At
  <2>2. OneRotation' /\ FlipCarriesNone' /\ SetIsAdmitted' /\ HeldIsAdmitted'
    BY <2>m, <2>e, <2>d, <1>t DEF OneRotation, FlipCarriesNone, At, SetIsAdmitted, BloomSet,
        SetKey, HeldIsAdmitted, Held, Admitted, Typed
  <2>3. OneClear'
    BY <2>m, <2>e, <2>d, <1>t DEF OneClear, Editing, At, ClearSteps, LocalSteps, Permanent, Typed
  <2>4. MapIsCurrent' /\ L1IsCurrent' /\ StoreIsCurrent' /\ BehindIsEmpty'
    BY <2>m, <2>e, <2>d, <1>t DEF MapIsCurrent, Outdated, ClearingMap, L1IsCurrent, ClearingL1,
        ClearSteps, StoreIsCurrent, At, BehindIsEmpty, Typed
  <2>5. OneEditor'
    BY <2>m, <2>e, <2>d, <1>t DEF OneEditor, Editing, SetKey, EditThen, At, LocalSteps,
        ClearingMap, ClearSteps, Permanent, Typed
  <2>6. SameRecords
    BY <2>m, <2>e, <2>d, <1>t DEF SameRecords, Permanent, Typed, TypeOK
  <2>7. SameStages
    BY <2>m, <2>e, <2>d, <1>t DEF SameStages, Aside, Editing, Holding, SetKey, EditThen,
        LocalSteps, ClearSteps, At
  <2>8. Kinds'
    BY <2>m, <2>e, <2>d, <1>t DEF Kinds, Permanent, Ours, LocalInv, Typed, TypeOK
  <2>9. LocalInv'
    BY <2>m, <2>e, <2>d, <1>t, <2>6, <2>7, <2>8, LocalsStay DEF LocalInv
  <2>10. CopyInv'
    <3>1. CopiesInStep' /\ NoneAstray'
      BY <2>m, <2>e, <2>d, <1>t, <2>6, <2>7, CopiesStay DEF At
    <3>2. RestorerIsEmpty'
      BY <2>m, <2>e, <2>d, <1>t DEF CopyInv, RestorerIsEmpty, At, TypeOK, Typed
    <3> QED BY <3>1, <3>2 DEF CopyInv
  <2> QED BY <2>1, <2>2, <2>3, <2>4, <2>5, <2>6, <2>7, <2>8, <2>9, <2>10
<1>2. ASSUME NEW t \in Threads, RotateFlip(t)
      PROVE  CacheInv'
  <2> USE <1>2
  <2>a. op[t].at = "flip"
    BY DEF RotateFlip, At
  <2>m. /\ op' \in [Threads -> Steps] /\ \A u \in Threads \ {t} : op'[u] = op[u]
        /\ op[t].at = "flip" /\ op'[t].at = "reseed" /\ op'[t].todo = Keys
    <3>1. [at |-> "reseed", todo |-> Keys] \in Steps
      BY MakesSteps
    <3> QED BY <2>a, <3>1, GotoMoves DEF RotateFlip, Typed
  <2>e. /\ aged' = fresh /\ fresh' = {} /\ carried' = {u \in Threads : BloomSet(u)}
        /\ UNCHANGED <<map, owned, l1, behind, config, routing, late, missed, struck, shadowed,
                       writer>>
    BY DEF RotateFlip, history
  <2>d. \A u \in Threads \ {t} : op[u].at \notin {"flip", "reseed"}
    BY <2>a DEF OneRotation
  <2>c. carried = {}
    BY <2>a DEF FlipCarriesNone, At
  <2>1. Typed'
    BY <2>m, <2>e, <2>d, <1>t DEF Typed, TypeOK, At
  <2>2. OneRotation' /\ FlipCarriesNone' /\ HeldIsAdmitted'
    BY <2>m, <2>e, <2>d, <1>t DEF OneRotation, FlipCarriesNone, At, HeldIsAdmitted, Held,
        Admitted, Typed
  <2>3. SetIsAdmitted'
    BY <2>m, <2>e, <2>d, <1>t, <2>c DEF SetIsAdmitted, BloomSet, SetKey, At, Typed
  <2>4. OneClear'
    BY <2>m, <2>e, <2>d, <1>t DEF OneClear, Editing, At, ClearSteps, LocalSteps, Permanent, Typed
  <2>5. MapIsCurrent' /\ L1IsCurrent' /\ StoreIsCurrent' /\ BehindIsEmpty'
    BY <2>m, <2>e, <2>d, <1>t DEF MapIsCurrent, Outdated, ClearingMap, L1IsCurrent, ClearingL1,
        ClearSteps, StoreIsCurrent, At, BehindIsEmpty, Typed
  <2>6. OneEditor'
    BY <2>m, <2>e, <2>d, <1>t DEF OneEditor, Editing, SetKey, EditThen, At, LocalSteps,
        ClearingMap, ClearSteps, Permanent, Typed
  <2>7. SameRecords
    BY <2>m, <2>e, <2>d, <1>t DEF SameRecords, Permanent, Typed, TypeOK
  <2>8. SameStages
    BY <2>m, <2>e, <2>d, <1>t DEF SameStages, Aside, Editing, Holding, SetKey, EditThen,
        LocalSteps, ClearSteps, At
  <2>9. Kinds'
    BY <2>m, <2>e, <2>d, <1>t DEF Kinds, Permanent, Ours, LocalInv, Typed, TypeOK
  <2>10. LocalInv'
    BY <2>m, <2>e, <2>d, <1>t, <2>7, <2>8, <2>9, LocalsStay DEF LocalInv
  <2>11. CopyInv'
    <3>1. CopiesInStep' /\ NoneAstray'
      BY <2>m, <2>e, <2>d, <1>t, <2>7, <2>8, CopiesStay DEF At
    <3>2. RestorerIsEmpty'
      BY <2>m, <2>e, <2>d, <1>t DEF CopyInv, RestorerIsEmpty, At, TypeOK, Typed
    <3> QED BY <3>1, <3>2 DEF CopyInv
  <2> QED BY <2>1, <2>2, <2>3, <2>4, <2>5, <2>6, <2>7, <2>8, <2>9, <2>10, <2>11
<1>3. ASSUME NEW t \in Threads, Reseed(t)
      PROVE  CacheInv'
  <2> USE <1>3
  <2>a. PICK todo \in SUBSET Keys : todo = op[t].todo /\ op[t].at = "reseed" /\ op[t] \in RotateOps
    BY StepFacts DEF Reseed, At, Typed
  <2>d. \A u \in Threads \ {t} : op[u].at \notin {"flip", "reseed"}
    BY <2>a DEF OneRotation
  <2>s. PICK k \in todo :
            /\ fresh' = IF Held(k) /\ ~map[k].marked THEN fresh \cup {k} ELSE fresh
            /\ op' = [op EXCEPT ![t].todo = @ \ {k}]
    BY <2>a DEF Reseed
  <2>m. /\ op' \in [Threads -> Steps] /\ \A u \in Threads \ {t} : op'[u] = op[u]
        /\ op[t].at = "reseed" /\ op'[t].at = "reseed" /\ op'[t].todo = todo \ {k}
    <3>0. PICK rest \in SUBSET Keys : rest = todo \ {k}
      BY <2>a
    <3>1. PICK o \in RotateOps : o = op[t]
      BY <2>a
    <3> DEFINE x == [o EXCEPT !.todo = rest]
    <3>2. x \in Steps /\ x.at = o.at /\ x.todo = rest
      BY <3>0, <3>1, FewerLeft
    <3>3. op' = [op EXCEPT ![t] = x]
      BY <2>a, <2>s, <3>0, <3>1
    <3> HIDE DEF x
    <3> QED BY <2>a, <3>0, <3>1, <3>2, <3>3 DEF Typed
  <2>e. UNCHANGED <<map, owned, aged, l1, behind, config, routing, late, missed, struck,
                    shadowed, writer,
                    carried>>
    BY DEF Reseed, history
  <2>1. Typed'
    BY <2>a, <2>m, <2>s, <2>e, <2>d, <1>t DEF Typed, TypeOK, At
  <2>2. OneRotation' /\ FlipCarriesNone' /\ SetIsAdmitted' /\ HeldIsAdmitted'
    BY <2>a, <2>m, <2>s, <2>e, <2>d, <1>t DEF OneRotation, FlipCarriesNone, At, SetIsAdmitted,
        BloomSet, SetKey, HeldIsAdmitted, Held, Admitted, Typed
  <2>3. OneClear'
    BY <2>a, <2>m, <2>s, <2>e, <2>d, <1>t DEF OneClear, Editing, At, ClearSteps, LocalSteps,
        Permanent, Typed
  <2>4. MapIsCurrent' /\ L1IsCurrent' /\ StoreIsCurrent' /\ BehindIsEmpty'
    BY <2>a, <2>m, <2>s, <2>e, <2>d, <1>t DEF MapIsCurrent, Outdated, ClearingMap, L1IsCurrent,
        ClearingL1, ClearSteps, StoreIsCurrent, At, BehindIsEmpty, Typed
  <2>5. OneEditor'
    BY <2>a, <2>m, <2>s, <2>e, <2>d, <1>t DEF OneEditor, Editing, SetKey, EditThen, At,
        LocalSteps, ClearingMap, ClearSteps, Permanent, Typed
  <2>6. SameRecords
    BY <2>a, <2>m, <2>s, <2>e, <2>d, <1>t DEF SameRecords, Permanent, Typed, TypeOK
  <2>7. SameStages
    BY <2>a, <2>m, <2>s, <2>e, <2>d, <1>t DEF SameStages, Aside, Editing, Holding, SetKey,
        EditThen, LocalSteps, ClearSteps, At
  <2>8. Kinds'
    BY <2>a, <2>m, <2>s, <2>e, <2>d, <1>t DEF Kinds, Permanent, Ours, LocalInv, Typed, TypeOK
  <2>9. LocalInv'
    BY <2>a, <2>m, <2>s, <2>e, <2>d, <1>t, <2>6, <2>7, <2>8, LocalsStay DEF LocalInv
  <2>10. CopyInv'
    <3>1. CopiesInStep' /\ NoneAstray'
      BY <2>a, <2>m, <2>s, <2>e, <2>d, <1>t, <2>6, <2>7, CopiesStay DEF At
    <3>2. RestorerIsEmpty'
      BY <2>a, <2>m, <2>s, <2>e, <2>d, <1>t DEF CopyInv, RestorerIsEmpty, At, TypeOK, Typed
    <3> QED BY <3>1, <3>2 DEF CopyInv
  <2> QED BY <2>1, <2>2, <2>3, <2>4, <2>5, <2>6, <2>7, <2>8, <2>9, <2>10
<1>4. ASSUME NEW t \in Threads, ReseedDone(t)
      PROVE  CacheInv'
  <2> USE <1>4
  <2>a. PICK todo \in SUBSET Keys : todo = op[t].todo /\ op[t].at = "reseed" /\ op[t] \in RotateOps
    BY StepFacts DEF ReseedDone, At, Typed
  <2>d. \A u \in Threads \ {t} : op[u].at \notin {"flip", "reseed"}
    BY <2>a DEF OneRotation
  <2>m. /\ op' \in [Threads -> Steps] /\ \A u \in Threads \ {t} : op'[u] = op[u]
        /\ op[t].todo = {} /\ op[t].at = "reseed" /\ op'[t].at = "idle"
    BY <2>a, MakesSteps, GotoMoves DEF ReseedDone, Typed
  <2>e. /\ fresh' = fresh \cup owned
        /\ UNCHANGED <<map, owned, aged, l1, behind, config, routing, late, missed, struck,
                       shadowed, writer,
                       carried>>
    BY DEF ReseedDone, history
  <2>1. Typed'
    BY <2>a, <2>m, <2>e, <2>d, <1>t DEF Typed, TypeOK, At
  <2>2. OneRotation' /\ FlipCarriesNone' /\ SetIsAdmitted' /\ HeldIsAdmitted'
    BY <2>a, <2>m, <2>e, <2>d, <1>t DEF OneRotation, FlipCarriesNone, At, SetIsAdmitted,
        BloomSet, SetKey, HeldIsAdmitted, Held, Admitted, Typed
  <2>3. OneClear'
    BY <2>a, <2>m, <2>e, <2>d, <1>t DEF OneClear, Editing, At, ClearSteps, LocalSteps, Permanent,
        Typed
  <2>4. MapIsCurrent' /\ L1IsCurrent' /\ StoreIsCurrent' /\ BehindIsEmpty'
    BY <2>a, <2>m, <2>e, <2>d, <1>t DEF MapIsCurrent, Outdated, ClearingMap, L1IsCurrent,
        ClearingL1, ClearSteps, StoreIsCurrent, At, BehindIsEmpty, Typed
  <2>5. OneEditor'
    BY <2>a, <2>m, <2>e, <2>d, <1>t DEF OneEditor, Editing, SetKey, EditThen, At, LocalSteps,
        ClearingMap, ClearSteps, Permanent, Typed
  <2>6. SameRecords
    BY <2>a, <2>m, <2>e, <2>d, <1>t DEF SameRecords, Permanent, Typed, TypeOK
  <2>7. SameStages
    BY <2>a, <2>m, <2>e, <2>d, <1>t DEF SameStages, Aside, Editing, Holding, SetKey, EditThen,
        LocalSteps, ClearSteps, At
  <2>8. Kinds'
    BY <2>a, <2>m, <2>e, <2>d, <1>t DEF Kinds, Permanent, Ours, LocalInv, Typed, TypeOK
  <2>9. LocalInv'
    BY <2>a, <2>m, <2>e, <2>d, <1>t, <2>6, <2>7, <2>8, LocalsStay DEF LocalInv
  <2>10. CopyInv'
    <3>1. CopiesInStep' /\ NoneAstray'
      BY <2>a, <2>m, <2>e, <2>d, <1>t, <2>6, <2>7, CopiesStay DEF At
    <3>2. RestorerIsEmpty'
      BY <2>a, <2>m, <2>e, <2>d, <1>t DEF CopyInv, RestorerIsEmpty, At, TypeOK, Typed
    <3> QED BY <3>1, <3>2 DEF CopyInv
  <2> QED BY <2>1, <2>2, <2>3, <2>4, <2>5, <2>6, <2>7, <2>8, <2>9, <2>10
<1> HIDE DEF CacheInv
<1> QED BY <1>1, <1>2, <1>3, <1>4 DEF Rotate
\* Startup.
LEMMA InitCache ==
    ASSUME Init
    PROVE  CacheInv
<1>t. /\ LocalKeys \subseteq Keys /\ UpstreamKeys \subseteq Keys
      /\ Routings \cap Addresses = {} /\ NoAnswer \notin Addresses /\ NoAnswer \notin Routings
      /\ Preloaded \in Addresses
  BY TrafficFacts DEF Init
<1>i. /\ op \in [Threads -> Steps] /\ \A t \in Threads : op[t].at = "idle"
  BY MakesSteps DEF Init
<1>e. /\ Entry("permanent", Preloaded) \in Records /\ Vacant \in Records
      /\ Entry("permanent", Preloaded).kind = "permanent"
      /\ Entry("permanent", Preloaded).val = Preloaded
      /\ Entry("permanent", Preloaded).marked = FALSE
      /\ Vacant.kind = "vacant" /\ Vacant.val = NoAnswer
  BY <1>t DEF Entry, Vacant, Records, Answers
<1>m. /\ map \in [Keys -> Records]
      /\ \A k \in LocalKeys : map[k] = Entry("permanent", Preloaded)
      /\ \A k \in Keys \ LocalKeys : map[k] = Vacant
      /\ owned = LocalKeys /\ fresh = LocalKeys
  BY <1>e, <1>t DEF Init
<1>l. /\ l1 \in [Threads -> [Keys -> Answers]]
      /\ \A t \in Threads, k \in Keys : l1[t][k] = NoAnswer
  BY DEF Init, Answers
<1>n. \A t \in Threads : /\ ~Editing(t) /\ ~BloomSet(t) /\ op[t].at \notin ClearSteps
                         /\ ~At(t, "evict") /\ ~At(t, "store_l1")
  BY <1>i DEF Editing, BloomSet, At, LocalSteps, ClearSteps
<1>1. Typed
  BY <1>i, <1>m, <1>l, <1>t DEF Init, Typed, TypeOK, At, Records
<1>2. OneRotation /\ FlipCarriesNone /\ SetIsAdmitted
  BY <1>i, <1>n DEF OneRotation, FlipCarriesNone, SetIsAdmitted, At
<1>3. HeldIsAdmitted
  BY <1>m, <1>e DEF HeldIsAdmitted, Held, Admitted
<1>4. OneClear /\ OneEditor
  BY <1>n DEF OneClear, OneEditor
<1>5. MapIsCurrent
  BY <1>m, <1>e, <1>t DEF MapIsCurrent, Outdated
<1>6. L1IsCurrent /\ StoreIsCurrent /\ BehindIsEmpty
  BY <1>l, <1>n, <1>t DEF Init, L1IsCurrent, StoreIsCurrent, BehindIsEmpty, Outdated
<1>7. LocalInv
  <2>1. \A k \in LocalKeys : IsLocal(k) /\ config[k] = Preloaded
    BY <1>t DEF Init, IsLocal
  <2>2. \A k \in LocalKeys : InStep(k) /\ Permanent(k) /\ map[k].marked = FALSE
    BY <2>1, <1>m, <1>e DEF InStep, Permanent
  <2>3. \A t \in Threads : ~Holding(t)
    BY <1>n DEF Holding
  <2>4. \A k \in LocalKeys : ~Wiped(k)
    BY <1>n DEF Wiped, ClearSteps
  <2>5. RegistryInStep /\ RecordsInStep /\ WipedIsFree
    BY <2>2, <2>4, <1>m, <1>n DEF RegistryInStep, RecordsInStep, WipedIsFree, Ours, ClearSteps
  <2>6. EditedIsFree /\ SavedInStep
    BY <2>3, <1>n DEF EditedIsFree, SavedInStep
  <2>7. Kinds
    BY <1>m, <1>e, <1>t DEF Kinds, Permanent, Ours
  <2> QED BY <2>5, <2>6, <2>7 DEF LocalInv
<1>8. CopyInv
  <2>1. CopiesInStep
    BY <1>l, <1>t DEF CopiesInStep, Ours
  <2>2. NoneAstray
    BY <1>l, <1>t, <1>n DEF NoneAstray, Ours
  <2>3. RestorerIsEmpty
    BY <1>l DEF RestorerIsEmpty
  <2> QED BY <2>1, <2>2, <2>3 DEF CopyInv
<1> QED BY <1>1, <1>2, <1>3, <1>4, <1>5, <1>6, <1>7, <1>8 DEF CacheInv

\* Every step keeps CacheInv.
LEMMA NextCache ==
    ASSUME CacheInv, [Next]_<<vars, traffic>>
    PROVE  CacheInv'
<1>1. CASE Next
  BY <1>1, QueriesKeep, EditsKeep, ReloadsKeep, EvictionsKeep, RotationsKeep DEF Next
<1>2. CASE UNCHANGED <<vars, traffic>>
  <2>1. /\ Keys' = Keys /\ LocalKeys' = LocalKeys /\ UpstreamKeys' = UpstreamKeys
        /\ Addresses' = Addresses /\ Ops' = Ops /\ Answers' = Answers
        /\ Records' = Records /\ Steps' = Steps
    BY <1>2, TrafficStays
  <2>2. /\ UNCHANGED <<map, owned, fresh, aged, l1, behind, config, routing, late, missed>>
        /\ UNCHANGED <<struck, shadowed, writer, carried, op, traffic>>
    BY <1>2 DEF vars
  <2>3. Typed'
    BY <2>1, <2>2 DEF CacheInv, Typed, TypeOK, At
  <2>4. OneRotation'
    BY <2>1, <2>2 DEF CacheInv, OneRotation
  <2>5. FlipCarriesNone'
    BY <2>1, <2>2 DEF CacheInv, FlipCarriesNone, At
  <2>6. SetIsAdmitted'
    BY <2>1, <2>2 DEF CacheInv, SetIsAdmitted, BloomSet, SetKey, At
  <2>7. HeldIsAdmitted'
    BY <2>1, <2>2 DEF CacheInv, HeldIsAdmitted, Held, Admitted, At
  <2>8. OneClear'
    BY <2>1, <2>2 DEF CacheInv, OneClear, Editing, At, ClearSteps, LocalSteps
  <2>9. MapIsCurrent' /\ L1IsCurrent'
    BY <2>1, <2>2 DEF CacheInv, MapIsCurrent, L1IsCurrent, Outdated, ClearingMap, ClearingL1,
        ClearSteps
  <2>10. StoreIsCurrent' /\ BehindIsEmpty'
    BY <2>1, <2>2 DEF CacheInv, StoreIsCurrent, BehindIsEmpty, Outdated, ClearingL1, ClearSteps, At
  <2>11. OneEditor'
    BY <2>1, <2>2 DEF CacheInv, OneEditor, Editing, SetKey, EditThen, At, LocalSteps
  <2>12. SameRecords /\ SameStages
    BY <2>1, <2>2 DEF SameRecords, SameStages, Permanent
  <2>13. Kinds'
    BY <2>1, <2>2 DEF CacheInv, LocalInv, Kinds, Permanent, Ours
  <2>14. LocalInv'
    BY <2>2, <2>12, <2>13, LocalsStay DEF LocalInv
  <2>15. CopyInv'
    <3>1. CopiesInStep' /\ NoneAstray'
      BY <2>2, <2>12, CopiesStay DEF At
    <3>2. RestorerIsEmpty'
      BY <2>1, <2>2 DEF CacheInv, CopyInv, RestorerIsEmpty, At
    <3> QED BY <3>1, <3>2 DEF CopyInv
  <2> QED BY <2>3, <2>4, <2>5, <2>6, <2>7, <2>8, <2>9, <2>10, <2>11, <2>14, <2>15 DEF CacheInv
<1> QED BY <1>1, <1>2

\* CacheInv holds throughout: what follows is read off it.
THEOREM CacheInvariant == Spec => []CacheInv
<1>1. Init => CacheInv
  BY InitCache
<1>2. CacheInv /\ [Next]_<<vars, traffic>> => CacheInv'
  BY NextCache
<1> QED BY <1>1, <1>2, PTL DEF Spec

\* The bloom filter admits whatever the map holds unmarked (bloom.rs: "an authoritative
\* negative gate"), through any interleaving of stores, inserts, clears, evictions and
\* rotations, but for the keys a rotation has yet to come to and those stored while a
\* clear was between the map and the filter.
THEOREM FilterAdmitsHeld == Spec => []HeldIsAdmitted
<1>1. CacheInv => HeldIsAdmitted
  BY DEF CacheInv
<1> QED BY <1>1, CacheInvariant, PTL

\* After a reload that routes names elsewhere (UpstreamReloadAdapter), no answer got
\* through the old routing is left in the map or in a thread's L1 once the operations are
\* over, whatever queries, edits, renewals and evictions ran beside it: but for a query that
\* stored the answer after the reload, and for the name of a struck record.
THEOREM RoutingIsForgotten == Spec => []CachedRoutingForgotten
<1>1. ASSUME CacheInv
      PROVE  CachedRoutingForgotten
  <2> SUFFICES ASSUME Quiet, NEW k \in Keys \ (late \cup struck), NEW v \in Served(k) \cap Routings
               PROVE  v = routing
    BY DEF CachedRoutingForgotten
  <2>2. \A t \in Threads : op[t].at = "idle"
    BY MakesSteps DEF Quiet
  <2>3. ~ClearingMap /\ ~ClearingL1
    BY <2>2 DEF ClearingMap, ClearingL1, ClearSteps
  <2>4. ~Outdated(map[k].val) /\ \A t \in Threads \ behind : ~Outdated(l1[t][k])
    BY <1>1, <2>3 DEF CacheInv, MapIsCurrent, L1IsCurrent
  <2> QED BY <2>4 DEF Served, Outdated
<1> QED BY <1>1, CacheInvariant, PTL

\* Local records win over everything else (storage.rs: "local DNS records live here and
\* nothing reloads them"): whatever edits, upstream answers, renewals, evictions, reloads and
\* rotations of any threads meet on their names, every record of the config that no race
\* struck is in the map and the registry, and no L1 answers otherwise unless it shadows the
\* record, once the operations are over.
THEOREM LocalsAreHeld == Spec => []LocalRecordsHeld
<1>1. ASSUME CacheInv
      PROVE  LocalRecordsHeld
  <2>1. /\ LocalKeys \subseteq Keys /\ Routings \cap Addresses = {}
        /\ NoAnswer \notin Addresses /\ NoAnswer \notin Routings
    BY <1>1, TrafficFacts DEF CacheInv, Typed
  <2>2. TypeOK
    BY <1>1 DEF CacheInv, Typed
  <2>3. Quiet => \A t \in Threads : /\ op[t].at \notin ClearSteps /\ ~Editing(t)
                                    /\ ~At(t, "remove_l1") /\ ~At(t, "insert_l1")
    BY MakesSteps DEF Quiet, Editing, ClearSteps, LocalSteps, At
  <2>4. ASSUME Quiet, NEW k \in LocalKeys \ struck
        PROVE  InStep(k) /\ (k \in owned <=> Permanent(k))
    <3>1. ~EditDue(k) /\ ~Wiped(k)
      BY <2>3, <2>4 DEF EditDue, Wiped, ClearSteps
    <3> QED BY <1>1, <2>4, <3>1 DEF CacheInv, LocalInv, RegistryInStep, RecordsInStep, Ours
  <2>5. RecordsHeld
    BY <2>4 DEF RecordsHeld, InStep, Permanent
  <2>6. LocalAnswersEverywhere
    <3> SUFFICES ASSUME Quiet, NEW k \in LocalKeys \ struck, NEW t \in Threads \ behind
                 PROVE  l1[t][k] \in IF IsLocal(k)
                            THEN {NoAnswer, config[k]} \cup (IF k \in shadowed THEN Routings ELSE {})
                            ELSE {NoAnswer} \cup Routings
      BY DEF LocalAnswersEverywhere
    <3>1. l1[t][k] \in Addresses \cup Routings \cup {NoAnswer}
      BY <2>1, <2>2 DEF TypeOK, Answers
    <3>2. l1[t][k] \in Addresses => Permanent(k) /\ map[k].val = l1[t][k]
      BY <1>1, <2>3 DEF CacheInv, CopyInv, CopiesInStep, Holding, Ours
    <3>3. k \notin shadowed /\ Permanent(k) => l1[t][k] \notin Routings
      BY <1>1, <2>3 DEF CacheInv, CopyInv, NoneAstray, Ours
    <3> QED BY <2>4, <3>1, <3>2, <3>3 DEF InStep
  <2> QED BY <2>2, <2>5, <2>6 DEF LocalRecordsHeld
<1> QED BY <1>1, CacheInvariant, PTL

=============================================================================
