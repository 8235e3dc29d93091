-------------------------- MODULE CacheLayerProofs --------------------------
(***************************************************************************)
(* Theorems about the two mechanisms that share the cache's entries.       *)
(*                                                                         *)
(* Inflight, for any set of queries, keys and answers: InflightInv is      *)
(* inductive, it gives the safety properties, and with it every step of    *)
(* Inflight is a step of SingleFlight or a stutter.                        *)
(*                                                                         *)
(* RefreshTimers, for any keys, permits, settings, TTLs and bounds:        *)
(* nothing drops out of the timers, whatever the order in which stores,    *)
(* hits, the worker, renewals and the operator come.                       *)
(***************************************************************************)
EXTENDS Inflight, RefreshTimers, TLAPS

(***************************************************************************)
(* Query coalescing                                                        *)
(***************************************************************************)

\* InflightInv holds before any query arrives.
LEMMA InitInv == InflightInit => InflightInv
BY InflightAssumption DEF InflightInit, InflightInv, InflightTypeOK, OneLeaderPerKey, NoStrandedFollower, SlotsLive,
    FollowersSubscribed, ChannelsFinal, OutcomesWitnessed, NoUnvalidatedHit, Armed, PCs, Sending,
    Replies, Outcomes, Answers, Verdicts, Witnessed, Cacheable

\* No step of a query, its cancellation included, breaks InflightInv.
LEMMA QueryStepKeepsInv ==
    ASSUME InflightInv, NEW q \in Queries, TryCache(q) \/ Step(q) \/ Cancel(q)
    PROVE  InflightInv'
<1> USE InflightAssumption DEF InflightInv, InflightTypeOK, Goto, Return, PCs, Armed, Sending, Replies, Outcomes,
        Verdicts, Answers, Cacheable
<1>hit. cache[key[q]] = "absent" \/ cache[key[q]] \in Replies
  OBVIOUS
<1>1. CASE TryCache(q)
  <2>1. InflightTypeOK'
    BY <1>1, <1>hit, SMTT(30) DEF TryCache
  <2>2. OneLeaderPerKey'
    BY <1>1 DEF OneLeaderPerKey, SlotsLive, TryCache
  <2>3. NoStrandedFollower'
    BY <1>1 DEF NoStrandedFollower, SlotsLive, OneLeaderPerKey, FollowersSubscribed, TryCache
  <2>4. SlotsLive'
    BY <1>1 DEF SlotsLive, OneLeaderPerKey, TryCache
  <2>5. FollowersSubscribed'
    BY <1>1 DEF FollowersSubscribed, ChannelsFinal, SlotsLive, TryCache
  <2>6. ChannelsFinal'
    BY <1>1 DEF ChannelsFinal, SlotsLive, FollowersSubscribed, OutcomesWitnessed, OneLeaderPerKey, TryCache
  <2>7. OutcomesWitnessed'
    BY <1>1 DEF OutcomesWitnessed, Witnessed, ChannelsFinal, SlotsLive, TryCache
  <2>8. NoUnvalidatedHit'
    BY <1>1 DEF NoUnvalidatedHit, OutcomesWitnessed, ChannelsFinal, Witnessed, FollowersSubscribed, TryCache
  <2> QED BY <2>1, <2>2, <2>3, <2>4, <2>5, <2>6, <2>7, <2>8 DEF InflightInv
<1>2. CASE Join(q)
  <2>1. InflightTypeOK'
    BY <1>2 DEF Join
  <2>2. OneLeaderPerKey'
    BY <1>2 DEF OneLeaderPerKey, SlotsLive, Join
  <2>3. NoStrandedFollower'
    BY <1>2 DEF NoStrandedFollower, SlotsLive, OneLeaderPerKey, FollowersSubscribed, Join
  <2>4. SlotsLive'
    BY <1>2 DEF SlotsLive, OneLeaderPerKey, Join
  <2>5. FollowersSubscribed'
    BY <1>2 DEF FollowersSubscribed, ChannelsFinal, SlotsLive, Join
  <2>6. ChannelsFinal'
    BY <1>2 DEF ChannelsFinal, SlotsLive, FollowersSubscribed, OutcomesWitnessed, OneLeaderPerKey, Join
  <2>7. OutcomesWitnessed'
    BY <1>2 DEF OutcomesWitnessed, Witnessed, ChannelsFinal, SlotsLive, Join
  <2>8. NoUnvalidatedHit'
    BY <1>2 DEF NoUnvalidatedHit, OutcomesWitnessed, ChannelsFinal, Witnessed, FollowersSubscribed, Join
  <2> QED BY <2>1, <2>2, <2>3, <2>4, <2>5, <2>6, <2>7, <2>8 DEF InflightInv
<1>3. CASE Lead(q)
  <2>1. InflightTypeOK'
    BY <1>3 DEF Lead
  <2>2. OneLeaderPerKey'
    BY <1>3 DEF OneLeaderPerKey, SlotsLive, Lead
  <2>3. NoStrandedFollower'
    BY <1>3 DEF NoStrandedFollower, SlotsLive, OneLeaderPerKey, FollowersSubscribed, Lead
  <2>4. SlotsLive'
    BY <1>3 DEF SlotsLive, OneLeaderPerKey, Lead
  <2>5. FollowersSubscribed'
    BY <1>3 DEF FollowersSubscribed, ChannelsFinal, SlotsLive, Lead
  <2>6. ChannelsFinal'
    BY <1>3 DEF ChannelsFinal, SlotsLive, FollowersSubscribed, OutcomesWitnessed, OneLeaderPerKey, Lead
  <2>7. OutcomesWitnessed'
    BY <1>3 DEF OutcomesWitnessed, Witnessed, ChannelsFinal, SlotsLive, Lead
  <2>8. NoUnvalidatedHit'
    BY <1>3 DEF NoUnvalidatedHit, OutcomesWitnessed, ChannelsFinal, Witnessed, FollowersSubscribed, Lead
  <2> QED BY <2>1, <2>2, <2>3, <2>4, <2>5, <2>6, <2>7, <2>8 DEF InflightInv
<1>4. CASE LeaderCheck(q)
  <2>1. InflightTypeOK'
    BY <1>4, <1>hit DEF LeaderCheck
  <2>2. OneLeaderPerKey'
    BY <1>4 DEF OneLeaderPerKey, SlotsLive, LeaderCheck
  <2>3. NoStrandedFollower'
    BY <1>4 DEF NoStrandedFollower, SlotsLive, OneLeaderPerKey, FollowersSubscribed, LeaderCheck
  <2>4. SlotsLive'
    BY <1>4 DEF SlotsLive, OneLeaderPerKey, LeaderCheck
  <2>5. FollowersSubscribed'
    BY <1>4 DEF FollowersSubscribed, ChannelsFinal, SlotsLive, LeaderCheck
  <2>6. ChannelsFinal'
    BY <1>4 DEF ChannelsFinal, SlotsLive, FollowersSubscribed, OutcomesWitnessed, OneLeaderPerKey, LeaderCheck
  <2>7. OutcomesWitnessed'
    BY <1>4 DEF OutcomesWitnessed, Witnessed, ChannelsFinal, SlotsLive, LeaderCheck
  <2>8. NoUnvalidatedHit'
    BY <1>4 DEF NoUnvalidatedHit, OutcomesWitnessed, ChannelsFinal, Witnessed, FollowersSubscribed, LeaderCheck
  <2> QED BY <2>1, <2>2, <2>3, <2>4, <2>5, <2>6, <2>7, <2>8 DEF InflightInv
<1>5. CASE Publish(q)
  <2>1. InflightTypeOK'
    BY <1>5 DEF Publish, TakeSender
  <2>2. OneLeaderPerKey'
    BY <1>5 DEF OneLeaderPerKey, SlotsLive, Publish, TakeSender
  <2>3. NoStrandedFollower'
    BY <1>5 DEF NoStrandedFollower, SlotsLive, OneLeaderPerKey, FollowersSubscribed, Publish, TakeSender
  <2>4. SlotsLive'
    BY <1>5 DEF SlotsLive, OneLeaderPerKey, Publish, TakeSender
  <2>5. FollowersSubscribed'
    BY <1>5 DEF FollowersSubscribed, ChannelsFinal, SlotsLive, Publish, TakeSender
  <2>6. ChannelsFinal'
    BY <1>5 DEF ChannelsFinal, SlotsLive, FollowersSubscribed, OutcomesWitnessed, OneLeaderPerKey, Publish, TakeSender
  <2>7. OutcomesWitnessed'
    BY <1>5 DEF OutcomesWitnessed, Witnessed, ChannelsFinal, SlotsLive, Publish, TakeSender
  <2>8. NoUnvalidatedHit'
    BY <1>5 DEF NoUnvalidatedHit, OutcomesWitnessed, ChannelsFinal, Witnessed, FollowersSubscribed, Publish, TakeSender
  <2> QED BY <2>1, <2>2, <2>3, <2>4, <2>5, <2>6, <2>7, <2>8 DEF InflightInv
<1>6. CASE DropGuard(q)
  <2>1. InflightTypeOK'
    BY <1>6 DEF DropGuard, TakeSender
  <2>2. OneLeaderPerKey'
    BY <1>6 DEF OneLeaderPerKey, SlotsLive, DropGuard, TakeSender
  <2>3. NoStrandedFollower'
    BY <1>6 DEF NoStrandedFollower, SlotsLive, OneLeaderPerKey, FollowersSubscribed, DropGuard, TakeSender
  <2>4. SlotsLive'
    BY <1>6 DEF SlotsLive, OneLeaderPerKey, DropGuard, TakeSender
  <2>5. FollowersSubscribed'
    BY <1>6 DEF FollowersSubscribed, ChannelsFinal, SlotsLive, DropGuard, TakeSender
  <2>6. ChannelsFinal'
    BY <1>6 DEF ChannelsFinal, SlotsLive, FollowersSubscribed, OutcomesWitnessed, OneLeaderPerKey, DropGuard, TakeSender
  <2>7. OutcomesWitnessed'
    BY <1>6 DEF OutcomesWitnessed, Witnessed, ChannelsFinal, SlotsLive, DropGuard, TakeSender
  <2>8. NoUnvalidatedHit'
    BY <1>6 DEF NoUnvalidatedHit, OutcomesWitnessed, ChannelsFinal, Witnessed, FollowersSubscribed, DropGuard, TakeSender
  <2> QED BY <2>1, <2>2, <2>3, <2>4, <2>5, <2>6, <2>7, <2>8 DEF InflightInv
<1>7. CASE SendNone(q)
  <2>1. InflightTypeOK'
    BY <1>7 DEF SlotsLive, SendNone
  <2>2. OneLeaderPerKey'
    BY <1>7 DEF OneLeaderPerKey, SlotsLive, SendNone
  <2>3. NoStrandedFollower'
    BY <1>7 DEF NoStrandedFollower, SlotsLive, OneLeaderPerKey, FollowersSubscribed, SendNone
  <2>4. SlotsLive'
    BY <1>7 DEF SlotsLive, OneLeaderPerKey, SendNone
  <2>5. FollowersSubscribed'
    BY <1>7 DEF FollowersSubscribed, ChannelsFinal, SlotsLive, SendNone
  <2>6. ChannelsFinal'
    BY <1>7 DEF ChannelsFinal, SlotsLive, FollowersSubscribed, OutcomesWitnessed, OneLeaderPerKey, SendNone
  <2>7. OutcomesWitnessed'
    BY <1>7 DEF OutcomesWitnessed, Witnessed, ChannelsFinal, SlotsLive, SendNone
  <2>8. NoUnvalidatedHit'
    BY <1>7 DEF NoUnvalidatedHit, OutcomesWitnessed, ChannelsFinal, Witnessed, FollowersSubscribed, SendNone
  <2> QED BY <2>1, <2>2, <2>3, <2>4, <2>5, <2>6, <2>7, <2>8 DEF InflightInv
<1>8. CASE SendSome(q)
  <2>1. InflightTypeOK'
    BY <1>8 DEF SlotsLive, SendSome, Receivers
  <2>2. OneLeaderPerKey'
    BY <1>8 DEF OneLeaderPerKey, SlotsLive, SendSome, Receivers
  <2>3. NoStrandedFollower'
    BY <1>8 DEF NoStrandedFollower, SlotsLive, OneLeaderPerKey, FollowersSubscribed, SendSome, Receivers
  <2>4. SlotsLive'
    BY <1>8 DEF SlotsLive, OneLeaderPerKey, SendSome, Receivers
  <2>5. FollowersSubscribed'
    BY <1>8 DEF FollowersSubscribed, ChannelsFinal, SlotsLive, SendSome, Receivers
  <2>6. ChannelsFinal'
    BY <1>8 DEF ChannelsFinal, SlotsLive, FollowersSubscribed, OutcomesWitnessed, OneLeaderPerKey, SendSome, Receivers
  <2>7. OutcomesWitnessed'
    BY <1>8 DEF OutcomesWitnessed, Witnessed, ChannelsFinal, SlotsLive, SendSome, Receivers
  <2>8. NoUnvalidatedHit'
    BY <1>8 DEF NoUnvalidatedHit, OutcomesWitnessed, ChannelsFinal, Witnessed, FollowersSubscribed, SendSome, Receivers
  <2> QED BY <2>1, <2>2, <2>3, <2>4, <2>5, <2>6, <2>7, <2>8 DEF InflightInv
<1>9. CASE CountReceivers(q)
  <2>1. InflightTypeOK'
    BY <1>9 DEF CountReceivers, Receivers
  <2>2. OneLeaderPerKey'
    BY <1>9 DEF OneLeaderPerKey, SlotsLive, CountReceivers, Receivers
  <2>3. NoStrandedFollower'
    BY <1>9 DEF NoStrandedFollower, SlotsLive, OneLeaderPerKey, FollowersSubscribed, CountReceivers, Receivers
  <2>4. SlotsLive'
    BY <1>9 DEF SlotsLive, OneLeaderPerKey, CountReceivers, Receivers
  <2>5. FollowersSubscribed'
    BY <1>9 DEF FollowersSubscribed, ChannelsFinal, SlotsLive, CountReceivers, Receivers
  <2>6. ChannelsFinal'
    BY <1>9 DEF ChannelsFinal, SlotsLive, FollowersSubscribed, OutcomesWitnessed, OneLeaderPerKey, CountReceivers, Receivers
  <2>7. OutcomesWitnessed'
    BY <1>9 DEF OutcomesWitnessed, Witnessed, ChannelsFinal, SlotsLive, CountReceivers, Receivers
  <2>8. NoUnvalidatedHit'
    BY <1>9 DEF NoUnvalidatedHit, OutcomesWitnessed, ChannelsFinal, Witnessed, FollowersSubscribed, CountReceivers, Receivers
  <2> QED BY <2>1, <2>2, <2>3, <2>4, <2>5, <2>6, <2>7, <2>8 DEF InflightInv
<1>10. CASE Receive(q)
  <2>1. InflightTypeOK'
    BY <1>10, SMTT(30) DEF FollowersSubscribed, Receive
  <2>2. OneLeaderPerKey'
    BY <1>10 DEF OneLeaderPerKey, SlotsLive, Receive
  <2>3. NoStrandedFollower'
    BY <1>10 DEF NoStrandedFollower, SlotsLive, OneLeaderPerKey, FollowersSubscribed, Receive
  <2>4. SlotsLive'
    BY <1>10 DEF SlotsLive, OneLeaderPerKey, Receive
  <2>5. FollowersSubscribed'
    BY <1>10 DEF FollowersSubscribed, ChannelsFinal, SlotsLive, Receive
  <2>6. ChannelsFinal'
    BY <1>10, SMTT(30) DEF ChannelsFinal, SlotsLive, FollowersSubscribed, OutcomesWitnessed, OneLeaderPerKey, Receive
  <2>7. OutcomesWitnessed'
    BY <1>10 DEF OutcomesWitnessed, Witnessed, ChannelsFinal, SlotsLive, Receive
  <2>8. NoUnvalidatedHit'
    BY <1>10 DEF NoUnvalidatedHit, OutcomesWitnessed, ChannelsFinal, Witnessed, FollowersSubscribed, Receive
  <2> QED BY <2>1, <2>2, <2>3, <2>4, <2>5, <2>6, <2>7, <2>8 DEF InflightInv
<1>11. CASE RecheckCache(q)
  <2>1. InflightTypeOK'
    BY <1>11, <1>hit DEF RecheckCache
  <2>2. OneLeaderPerKey'
    BY <1>11 DEF OneLeaderPerKey, SlotsLive, RecheckCache
  <2>3. NoStrandedFollower'
    BY <1>11 DEF NoStrandedFollower, SlotsLive, OneLeaderPerKey, FollowersSubscribed, RecheckCache
  <2>4. SlotsLive'
    BY <1>11 DEF SlotsLive, OneLeaderPerKey, RecheckCache
  <2>5. FollowersSubscribed'
    BY <1>11 DEF FollowersSubscribed, ChannelsFinal, SlotsLive, RecheckCache
  <2>6. ChannelsFinal'
    BY <1>11 DEF ChannelsFinal, SlotsLive, FollowersSubscribed, OutcomesWitnessed, OneLeaderPerKey, RecheckCache
  <2>7. OutcomesWitnessed'
    BY <1>11 DEF OutcomesWitnessed, Witnessed, ChannelsFinal, SlotsLive, RecheckCache
  <2>8. NoUnvalidatedHit'
    BY <1>11 DEF NoUnvalidatedHit, OutcomesWitnessed, ChannelsFinal, Witnessed, FollowersSubscribed, RecheckCache
  <2> QED BY <2>1, <2>2, <2>3, <2>4, <2>5, <2>6, <2>7, <2>8 DEF InflightInv
<1>12. CASE Cancel(q)
  <2>1. InflightTypeOK'
    BY <1>12 DEF Cancel
  <2>2. OneLeaderPerKey'
    BY <1>12 DEF OneLeaderPerKey, SlotsLive, Cancel
  <2>3. NoStrandedFollower'
    BY <1>12 DEF NoStrandedFollower, SlotsLive, OneLeaderPerKey, FollowersSubscribed, Cancel
  <2>4. SlotsLive'
    BY <1>12 DEF SlotsLive, OneLeaderPerKey, Cancel
  <2>5. FollowersSubscribed'
    BY <1>12 DEF FollowersSubscribed, ChannelsFinal, SlotsLive, Cancel
  <2>6. ChannelsFinal'
    BY <1>12 DEF ChannelsFinal, SlotsLive, FollowersSubscribed, OutcomesWitnessed, OneLeaderPerKey, Cancel
  <2>7. OutcomesWitnessed'
    BY <1>12 DEF OutcomesWitnessed, Witnessed, ChannelsFinal, SlotsLive, Cancel
  <2>8. NoUnvalidatedHit'
    BY <1>12 DEF NoUnvalidatedHit, OutcomesWitnessed, ChannelsFinal, Witnessed, FollowersSubscribed, Cancel
  <2> QED BY <2>1, <2>2, <2>3, <2>4, <2>5, <2>6, <2>7, <2>8 DEF InflightInv
<1>13. ASSUME NEW o \in Outcomes, UpstreamReply(q, o) PROVE InflightInv'
  <2>1. InflightTypeOK'
    BY <1>13 DEF UpstreamReply, Stored
  <2>2. OneLeaderPerKey'
    BY <1>13 DEF OneLeaderPerKey, SlotsLive, UpstreamReply, Stored
  <2>3. NoStrandedFollower'
    BY <1>13 DEF NoStrandedFollower, SlotsLive, OneLeaderPerKey, FollowersSubscribed, UpstreamReply, Stored
  <2>4. SlotsLive'
    BY <1>13 DEF SlotsLive, OneLeaderPerKey, UpstreamReply, Stored
  <2>5. FollowersSubscribed'
    BY <1>13 DEF FollowersSubscribed, ChannelsFinal, SlotsLive, UpstreamReply, Stored
  <2>6. ChannelsFinal'
    BY <1>13 DEF ChannelsFinal, SlotsLive, FollowersSubscribed, OutcomesWitnessed, OneLeaderPerKey, UpstreamReply, Stored
  <2>7. OutcomesWitnessed'
    BY <1>13 DEF OutcomesWitnessed, Witnessed, ChannelsFinal, SlotsLive, UpstreamReply, Stored
  <2>8. NoUnvalidatedHit'
    BY <1>13 DEF NoUnvalidatedHit, OutcomesWitnessed, ChannelsFinal, Witnessed, FollowersSubscribed, UpstreamReply, Stored
  <2> QED BY <2>1, <2>2, <2>3, <2>4, <2>5, <2>6, <2>7, <2>8 DEF InflightInv
<1> HIDE DEF InflightInv
<1> QED BY <1>1, <1>2, <1>3, <1>4, <1>5, <1>6, <1>7, <1>8, <1>9, <1>10, <1>11, <1>12, <1>13 DEF Step

\* Losing a cache entry does not break InflightInv.
LEMMA ForgetKeepsInv ==
    ASSUME InflightInv, NEW k \in CacheKeys, CacheForget(k)
    PROVE  InflightInv'
BY InflightAssumption DEF CacheForget, InflightInv, InflightTypeOK, OneLeaderPerKey, NoStrandedFollower,
    SlotsLive, FollowersSubscribed, ChannelsFinal, OutcomesWitnessed, NoUnvalidatedHit, Answers,
    Witnessed

LEMMA StutterKeepsInv == InflightInv /\ UNCHANGED inflightVars => InflightInv'
BY DEF inflightVars, InflightInv, InflightTypeOK, OneLeaderPerKey, NoStrandedFollower, SlotsLive,
    FollowersSubscribed, ChannelsFinal, OutcomesWitnessed, NoUnvalidatedHit, Witnessed

\* The inductive invariant holds in every behaviour of the coalescing.
THEOREM Invariance == InflightSpec => []InflightInv
<1>1. InflightInv /\ [InflightNext]_inflightVars => InflightInv'
  BY QueryStepKeepsInv, ForgetKeepsInv, StutterKeepsInv DEF InflightNext
<1> QED BY <1>1, InitInv, PTL DEF InflightSpec

\* Every variable keeps its type: in particular the cache never holds a
\* transient failure, whatever the inner resolver answers.
THEOREM InflightTypeCorrect == InflightSpec => []InflightTypeOK
<1>1. InflightInv => InflightTypeOK BY DEF InflightInv
<1> QED BY <1>1, Invariance, PTL

\* The leader with its guard armed owns the slot of its key: one upstream
\* exchange per key, and no slot of another leader is ever removed.
THEOREM LeaderUnique == InflightSpec => []OneLeaderPerKey
<1>1. InflightInv => OneLeaderPerKey BY DEF InflightInv
<1> QED BY <1>1, Invariance, PTL

\* A waiting follower's leader is still going to send.
THEOREM NobodyStranded == InflightSpec => []NoStrandedFollower
<1>1. InflightInv => NoStrandedFollower BY DEF InflightInv
<1> QED BY <1>1, Invariance, PTL

\* A follower's answer is its leader's.
THEOREM FollowersAgree == InflightSpec => []FollowersAgreeWithLeader
<1>1. InflightInv => FollowersAgreeWithLeader
  BY DEF InflightInv, InflightTypeOK, FollowersAgreeWithLeader, ChannelsFinal, FollowersSubscribed
<1> QED BY <1>1, Invariance, PTL

\* Nothing unvalidated is ever served as a cache hit.
THEOREM HitsValidated == InflightSpec => []NoUnvalidatedHit
<1>1. InflightInv => NoUnvalidatedHit BY DEF InflightInv
<1> QED BY <1>1, Invariance, PTL

\* Initial states of Inflight are initial states of SingleFlight.
LEMMA InitRefines == InflightInit => Abstract!Init
BY DEF InflightInit, Abstract!Init, Asking

\* A step of a query is a step of SingleFlight or a stutter.
LEMMA QueryStepRefines ==
    ASSUME InflightInv, NEW q \in Queries, TryCache(q) \/ Step(q) \/ Cancel(q)
    PROVE  Abstract!Next \/ UNCHANGED Abstract!vars
<1> USE InflightAssumption DEF InflightInv, InflightTypeOK, Goto, Return, PCs, Armed, Sending, Replies, Outcomes,
        Verdicts, Answers, Cacheable, Asking, Abstract!vars
<1>ask. CASE pc[q] = "check" /\ LeaderCheck(q) /\ cache[key[q]] = "absent"
  <2>1. Abstract!Ask(q)
    BY <1>ask DEF LeaderCheck, Abstract!Ask, OneLeaderPerKey, ChannelsFinal, OutcomesWitnessed
  <2> QED BY <2>1 DEF Abstract!Next
<1>learn. ASSUME NEW o \in Outcomes, UpstreamReply(q, o) PROVE Abstract!Next
  <2>1. Abstract!Learn(q, o)
    BY <1>learn DEF UpstreamReply, Abstract!Learn
  <2> QED BY <2>1 DEF Abstract!Next
<1>abandon. CASE pc[q] = "upstream" /\ Cancel(q)
  <2>1. Abstract!Abandon(q)
    BY <1>abandon DEF Cancel, Abstract!Abandon
  <2> QED BY <2>1 DEF Abstract!Next
<1>tell. ASSUME NEW o \in Outcomes \cup {"cancelled"},
                pc[q] \notin {"upstream", "done"}, pc' = [pc EXCEPT ![q] = "done"],
                o = "cancelled" \/ Abstract!MayTell(q, o),
                reply' = [reply EXCEPT ![q] = o], UNCHANGED <<key, learned>>
         PROVE  Abstract!Next
  <2>1. Abstract!Tell(q, o)
    BY <1>tell DEF Abstract!Tell, ChannelsFinal
  <2> QED BY <2>1 DEF Abstract!Next
<1>cached. ASSUME cache[key[q]] # "absent"
           PROVE  cache[key[q]] \in Outcomes /\ Abstract!MayTell(q, cache[key[q]])
  BY <1>cached DEF OutcomesWitnessed, Witnessed, Abstract!MayTell
<1>own. ASSUME pc[q] \in {"publish", "drop", "count"} \cup Sending
        PROVE  /\ out[q] \in Outcomes \cup {"cancelled"}
               /\ out[q] = "cancelled" \/ Abstract!MayTell(q, out[q])
  BY <1>own DEF OutcomesWitnessed, Witnessed, Abstract!MayTell
<1>1. CASE TryCache(q)
  BY <1>1, <1>tell, <1>cached DEF TryCache
<1>2. CASE Join(q) \/ Lead(q)
  BY <1>2 DEF Join, Lead
<1>3. CASE LeaderCheck(q)
  BY <1>3, <1>ask DEF LeaderCheck
<1>4. CASE Publish(q) \/ DropGuard(q)
  BY <1>4, <1>tell, <1>own DEF Publish, DropGuard
<1>5. CASE SendNone(q) \/ SendSome(q) \/ CountReceivers(q)
  BY <1>5, <1>tell, <1>own DEF SendNone, SendSome, CountReceivers
<1>6. CASE Receive(q)
  <2>1. CASE chan[rx[q]] \in Answers
    <3>1. Abstract!MayTell(q, chan[rx[q]])
      BY <1>6, <2>1 DEF Receive, OutcomesWitnessed, Witnessed, FollowersSubscribed, Abstract!MayTell
    <3> QED BY <1>6, <2>1, <3>1, <1>tell DEF Receive
  <2>2. CASE chan[rx[q]] = "none"
    BY <1>6, <2>2 DEF Receive
  <2> QED BY <1>6, <2>1, <2>2 DEF Receive
<1>7. CASE RecheckCache(q)
  BY <1>7, <1>tell, <1>cached DEF RecheckCache
<1>8. CASE Cancel(q)
  BY <1>8, <1>tell, <1>abandon DEF Cancel
<1> QED BY <1>1, <1>2, <1>3, <1>4, <1>5, <1>6, <1>7, <1>8, <1>learn DEF Step

\* The coalescing implements SingleFlight: one exchange per key at a time,
\* replies only of what was learned for the key, transient failures never shared.
THEOREM Refinement == InflightSpec => ImplementsSingleFlight
<1>1. InflightInv /\ [InflightNext]_inflightVars => [Abstract!Next]_(Abstract!vars)
  <2>1. ASSUME UNCHANGED inflightVars PROVE UNCHANGED Abstract!vars
    BY <2>1 DEF inflightVars, Abstract!vars, Asking
  <2>2. ASSUME NEW k \in CacheKeys, CacheForget(k) PROVE UNCHANGED Abstract!vars
    BY <2>2 DEF CacheForget, Abstract!vars, Asking
  <2> QED BY <2>1, <2>2, QueryStepRefines DEF InflightNext
<1> QED BY <1>1, InitRefines, Invariance, PTL DEF ImplementsSingleFlight, InflightSpec, Abstract!Spec

(***************************************************************************)
(* Renewals and their timers                                               *)
(***************************************************************************)

(***************************************************************************)
(* The inductive invariant                                                 *)
(***************************************************************************)

Origins  == {"stale", "due", "retry"}
RenewalOutcomes == {"kept", "servfail", "failed", "removed", "declined"}

Records == [kind : {"absent", "cached", "permanent"}, ins : Nat, ttl : Nat, timer : Int,
            refreshing : {"yes", "no"}, marked : {"yes", "no"}, last : Nat]

PositiveTimers == [key : Keys, at : Nat \ {0}, kind : {"due", "retry"}]
NegativeTimers == [key : NegativeKeys, at : Nat \ {0}, kind : {"negative"}]
SomeTimers     == PositiveTimers \cup NegativeTimers

Claims == [key : Keys, retry : BOOLEAN, deadline : Nat]

\* What a renewal carries from step to step.
Tasks ==
    {NoTask} \cup [phase : {"resolve"}, key : Keys, origin : Origins]
             \cup [phase : {"store"}, key : Keys, origin : Origins, ttl : Nat]
             \cup [phase : {"follow_up"}, key : Keys, origin : Origins, outcome : RenewalOutcomes]
             \cup [phase : {"reset"}, key : Keys]

Typed ==
    /\ settings \in Settings
    /\ now \in Nat /\ now > 0 /\ wnow \in Nat /\ wnow <= now
    /\ rec \in [Keys -> Records]
    /\ neg \in [NegativeKeys -> Nat]
    /\ arming \subseteq SomeTimers /\ inbox \subseteq SomeTimers /\ schedule \subseteq SomeTimers
    /\ worker \in {"idle", "fire", "judge", "park", "recheck", "rearm"}
    /\ due \subseteq Claims
    /\ stale \in Seq(Keys)
    /\ task \in [Permits -> Tasks]
    /\ hitting \subseteq Keys /\ repairing \subseteq Keys

\* While the worker is at an entry, its guard keeps it there, claimed or parked;
\* a hit may have armed a parked one again.  A hit keeps its entry too.
WorkerAt ==
    /\ worker \in {"idle", "fire"} => cur = NoTimer
    /\ worker \notin {"idle", "fire"} => cur \in PositiveTimers
    /\ worker \in {"judge", "park"} => Cached(rec[cur.key]) /\ rec[cur.key].timer = Claimed
    /\ worker = "recheck" =>
           Cached(rec[cur.key]) /\ (rec[cur.key].timer = Parked \/ rec[cur.key].timer > 0)
    /\ \A k \in hitting : Cached(rec[k])

\* An entry was stored in the past, and its pending second is no later than its
\* death.
PendingInTime ==
    \A k \in Keys :
        /\ rec[k].timer >= Claimed
        /\ Cached(rec[k]) => rec[k].ins > 0 /\ rec[k].ins <= now
        /\ Cached(rec[k]) /\ rec[k].timer > 0 => rec[k].timer <= MaxOf(Deadline(rec[k]), now)

\* Without optimistic refresh there are repairs and no claims.
NoneAhead ==
    ~RenewAhead =>
        /\ \A k \in Keys : rec[k].timer = Lapsed
        /\ due = {} /\ worker \in {"idle", "fire"}
        /\ \A p \in Permits : task[p].phase \in {"resolve", "store", "follow_up"} =>
               task[p].origin = "stale"

\* A timer of the entry at second s is under way.
ArmedAt(k, s) == \E t \in AllTimers : Watches(t, k) /\ t.at = s

\* Who watches an entry in each state of its timer.  A parked one and one that is
\* not renewed have the timer of their death, a claimed one a claim with its own
\* deadline, and a lapsed one somebody who arms it again.
StateWatched ==
    \A k \in Keys : Cached(rec[k]) =>
        /\ rec[k].timer > 0 => ArmedAt(k, rec[k].timer)
        /\ rec[k].timer = Parked =>
               ArmedAt(k, Deadline(rec[k])) \/ (worker = "recheck" /\ cur.key = k)
        /\ rec[k].timer = Claimed =>
               \/ \E c \in due : c.key = k /\ c.deadline = Deadline(rec[k])
               \/ worker \in {"judge", "park"} /\ cur.key = k
        /\ rec[k].timer = Lapsed /\ RenewsAhead(rec[k].ttl) =>
               RenewalOwes(k) \/ (worker = "rearm" /\ cur.key = k)
        /\ ~RenewsAhead(rec[k].ttl) => ArmedAt(k, Deadline(rec[k]))

TimersInv ==
    /\ Typed /\ WorkerAt /\ PendingInTime /\ NoneAhead /\ StateWatched
    /\ NegativeWatched /\ RefreshingIsOwned /\ ParkedOnlyIfUnused

(***************************************************************************)
(* Seconds                                                                 *)
(***************************************************************************)

\* The assumptions on the settings a behaviour starts with.
LEMMA SettingsFacts ==
    ASSUME settings \in Settings
    PROVE  /\ TTLs \subseteq Nat /\ RefreshLead \in Nat /\ AccessWindow \in Nat
           /\ settings.permits \subseteq Permits /\ settings.negative \subseteq NegativeKeys
BY TimersAssumption DEF TTLs, RefreshLead, AccessWindow

\* refresh_due_at falls after the second the entry was stored and, for a TTL the
\* cache renews, no later than its expiry.
LEMMA DueAtFacts ==
    ASSUME settings \in Settings, NEW ins \in Nat, NEW ttl \in Nat
    PROVE  /\ RefreshDueAt(ins, ttl) \in Nat
           /\ RefreshDueAt(ins, ttl) >= ins + 1
           /\ ttl > 0 => RefreshDueAt(ins, ttl) <= ins + ttl
<1>1. PICK lead \in Nat : lead = RefreshLead
  BY SettingsFacts
<1> DEFINE part == (ttl * ThresholdPct) \div 100
           late == IF ttl > lead THEN MaxOf(ttl - lead, (ttl + 1) \div 2) ELSE ttl
<1>2. ttl * ThresholdPct \in Nat /\ ttl * ThresholdPct <= ttl * 100
  BY TimersAssumption
<1>3. part \in Nat /\ part <= ttl
  BY <1>2
<1>4. late \in Nat /\ late <= MaxOf(ttl, 1)
  BY DEF MaxOf
<1>5. RefreshDueAt(ins, ttl) = ins + MaxOf(MinOf(part, late), 1)
  BY <1>1 DEF RefreshDueAt
<1> HIDE DEF part, late
<1> QED BY <1>3, <1>4, <1>5 DEF MaxOf, MinOf

\* The first timer of an entry stored or renewed now.
LEMMA FirstTimerFacts ==
    ASSUME settings \in Settings, now \in Nat, now > 0, NEW ttl \in Nat
    PROVE  /\ FirstTimerAt(ttl) \in Nat \ {0} /\ FirstPending(ttl) \in Nat
           /\ RenewsAhead(ttl) => /\ FirstPending(ttl) = FirstTimerAt(ttl)
                                  /\ FirstPending(ttl) <= now + 2 * ttl
           /\ ~RenewsAhead(ttl) => /\ FirstPending(ttl) = Lapsed
                                   /\ FirstTimerAt(ttl) = now + 2 * ttl
<1>1. CASE RenewsAhead(ttl)
  BY <1>1, DueAtFacts DEF FirstPending, FirstTimerAt, RenewsAhead
<1>2. CASE ~RenewsAhead(ttl)
  BY <1>2 DEF FirstPending, FirstTimerAt, Lapsed
<1> QED BY <1>1, <1>2

\* retry_in answers none, or a second of the life that is left; a serve-stale
\* repair is not tried again.
LEMMA RetryInFacts ==
    ASSUME NEW origin \in Origins, NEW outcome \in RenewalOutcomes, NEW remaining \in Nat
    PROVE  /\ RetryIn(origin, outcome, remaining) \in {-1} \cup 0..remaining
           /\ origin = "stale" => RetryIn(origin, outcome, remaining) = -1
BY DEF RetryIn, Origins, RenewalOutcomes

\* What is left of a record's life.
LEMMA RemainingFacts ==
    ASSUME NEW r \in Records, NEW t \in Nat
    PROVE  /\ Remaining(r, t) \in Nat
           /\ Cached(r) => t + Remaining(r, t) <= MaxOf(Deadline(r), t)
BY DEF Records, Remaining, MaxOf, Deadline, Expires, Cached

\* An entry not worth renewing does not become so by waiting.
LEMMA WorthFades ==
    ASSUME settings \in Settings, NEW r \in Records, NEW t \in Nat, NEW u \in Nat, t <= u,
           Worth(r, u)
    PROVE  Worth(r, t)
BY SettingsFacts DEF Worth, Records

\* What a map holds once the timer of an entry is another one, or an entry gone.
LEMMA RecordFacts ==
    ASSUME rec \in [Keys -> Records], NEW k \in Keys
    PROVE  /\ \A at \in Int : [rec EXCEPT ![k].timer = at] \in [Keys -> Records]
           /\ {Lapsed, Parked, Claimed} \subseteq Int
           /\ [rec EXCEPT ![k] = Absent] \in [Keys -> Records]
           /\ Absent \in Records
<1>1. \A at \in Int : [rec[k] EXCEPT !.timer = at] \in Records
  BY DEF Records
<1>2. Absent \in Records
  BY DEF Records, Absent, Lapsed
<1>3. {Lapsed, Parked, Claimed} \subseteq Int
  BY DEF Lapsed, Parked, Claimed
<1> QED BY <1>1, <1>2, <1>3

\* The record of a local name.
LEMMA LocalRecord ==
    ASSUME NEW ttl \in Nat, NEW ins \in Nat
    PROVE  [Absent EXCEPT !.kind = "permanent", !.ins = ins, !.ttl = ttl, !.last = ins] \in Records
<1>1. Absent \in Records
  BY DEF Records, Absent, Lapsed
<1> QED BY <1>1 DEF Records

\* A timer that arm_timer is about to push counts as under way.
LEMMA ArmedNow ==
    ASSUME NEW k, NEW at, NEW kind \in {"due", "retry"}, Timer(k, at, kind) \in arming'
    PROVE  ArmedAt(k, at)'
<1>1. Timer(k, at, kind) \in AllTimers'
  BY DEF AllTimers
<1>2. Watches(Timer(k, at, kind), k) /\ Timer(k, at, kind).at = at
  BY DEF Watches, Timer
<1> QED BY <1>1, <1>2 DEF ArmedAt, Watches

\* What a renewal carries in each phase.
LEMMA TaskFacts ==
    ASSUME NEW x \in Tasks
    PROVE  /\ x.phase = "resolve" => x.key \in Keys /\ x.origin \in Origins
           /\ x.phase = "store" => x.key \in Keys /\ x.origin \in Origins /\ x.ttl \in Nat
           /\ x.phase = "follow_up" =>
                  x.key \in Keys /\ x.origin \in Origins /\ x.outcome \in RenewalOutcomes
           /\ x.phase = "reset" => x.key \in Keys
           /\ x = NoTask \/ x.phase \in Phases
           /\ NoTask.phase = "free" /\ "free" \notin Phases
BY DEF Tasks, NoTask, Phases

\* What the steps of a renewal hand on is such a thing.
LEMMA MakesTasks ==
    ASSUME NEW k \in Keys, NEW o \in Origins
    PROVE  /\ [phase |-> "resolve", key |-> k, origin |-> o] \in Tasks
           /\ \A ttl \in Nat : [phase |-> "store", key |-> k, origin |-> o, ttl |-> ttl] \in Tasks
           /\ \A ending \in RenewalOutcomes :
                  [phase |-> "follow_up", key |-> k, origin |-> o, outcome |-> ending] \in Tasks
           /\ [phase |-> "reset", key |-> k] \in Tasks
           /\ NoTask \in Tasks
BY DEF Tasks

\* rearm_lapsed arms a lapsed entry the cache renews, and leaves any other alone.
LEMMA RearmFacts ==
    ASSUME Typed, PendingInTime, NEW k \in Keys, RearmLapsed(k)
    PROVE  \/ /\ UNCHANGED <<rec, arming>>
              /\ rec[k].kind = "absent" \/ ~RenewsAhead(rec[k].ttl) \/ rec[k].timer # Lapsed
           \/ /\ rec[k].timer = Lapsed /\ RenewsAhead(rec[k].ttl)
              /\ \E at \in Nat \ {0} : /\ rec' = [rec EXCEPT ![k].timer = at]
                                       /\ arming' = arming \cup {Timer(k, at, "due")}
                                       /\ Cached(rec[k]) => at <= Deadline(rec[k])
<1> DEFINE at == IF Cached(rec[k]) THEN MinOf(now + RetryAfter, Deadline(rec[k]))
                                   ELSE now + RetryAfter
<1>1. rec[k].ins \in Nat /\ rec[k].ttl \in Nat /\ now \in Nat /\ now > 0
  BY DEF Typed, Records
<1>2. at \in Nat \ {0} /\ (Cached(rec[k]) => at <= Deadline(rec[k]))
  BY <1>1, TimersAssumption DEF MinOf, Deadline, PendingInTime
<1>3. CASE rec[k].kind # "absent" /\ RenewsAhead(rec[k].ttl) /\ rec[k].timer = Lapsed
  <2>1. rec' = [rec EXCEPT ![k].timer = at] /\ arming' = arming \cup {Timer(k, at, "due")}
    BY <1>3 DEF RearmLapsed
  <2> HIDE DEF at
  <2> QED BY <1>2, <1>3, <2>1
<1>4. CASE ~(rec[k].kind # "absent" /\ RenewsAhead(rec[k].ttl) /\ rec[k].timer = Lapsed)
  BY <1>4 DEF RearmLapsed
<1> QED BY <1>3, <1>4

(***************************************************************************)
(* TimersInv is inductive                                                  *)
(***************************************************************************)

\* A repair is queued under the guard of the hit on an expired entry, which nothing
\* replaces meanwhile.
StaleHeld == \A k \in Keys : k \in repairing => IsExpired(rec[k], now)

\* The clock, the pushes of armed timers and what queries and the operator do to the
\* cache keep TimersInv.
LEMMA QueriesKeepTimers ==
    ASSUME TimersInv, StaleHeld, UNCHANGED settings,
           \/ ClockTick \/ PushSome
           \/ \E k \in Keys : Traffic(k) \/ HitEnds(k)
           \/ \E k \in settings.negative : NegativeTraffic(k)
           \/ \E k \in LocalKeys : Operator(k)
    PROVE  TimersInv'
<1> USE DEF TimersInv
<1>1. CASE ClockTick
  <2> USE <1>1
  <2>a. AllTimers \subseteq AllTimers'
    BY DEF ClockTick, AllTimers, workerVars
  <2>b. \A j, s : ArmedAt(j, s) => ArmedAt(j, s)'
    BY <2>a DEF ArmedAt, Watches
  <2>1. Typed'
    BY DEF Typed, ClockTick, workerVars
  <2>2. WorkerAt'
    BY DEF WorkerAt, Typed, ClockTick, workerVars
  <2>3. PendingInTime'
    BY DEF PendingInTime, Typed, ClockTick, Records, Deadline, MaxOf, Cached
  <2>4. NoneAhead'
    BY DEF NoneAhead, Typed, ClockTick, workerVars
  <2>5. StateWatched'
    BY <2>b DEF StateWatched, RenewalOwes, Typed, ClockTick, workerVars
  <2>6. NegativeWatched'
    BY <2>a DEF NegativeWatched, Typed, ClockTick, workerVars
  <2>7. RefreshingIsOwned'
    BY DEF RefreshingIsOwned, Phases, Typed, ClockTick, workerVars
  <2>8. ParkedOnlyIfUnused'
    <3> SUFFICES ASSUME NEW k \in Keys, Cached(rec[k]), rec[k].timer = Parked, ~Guarded(k),
                        ~IsExpired(rec[k], now + 1), Worth(rec[k], now + 1)
                 PROVE  FALSE
      BY DEF ParkedOnlyIfUnused, ClockTick, Guarded, Worth, AccessWindow, RefreshLead
    <3>1. ~IsExpired(rec[k], now)
      BY DEF IsExpired, Expires, Typed, Records
    <3>2. Worth(rec[k], now)
      BY WorthFades DEF Typed
    <3> QED BY <3>1, <3>2 DEF ParkedOnlyIfUnused
  <2> QED BY <2>1, <2>2, <2>3, <2>4, <2>5, <2>6, <2>7, <2>8
<1>2. ASSUME NEW t \in arming, Push(t)
      PROVE  TimersInv'
  <2> USE <1>2
  <2>a. AllTimers \subseteq AllTimers'
    BY DEF Push, AllTimers, workerVars
  <2>b. \A j, s : ArmedAt(j, s) => ArmedAt(j, s)'
    BY <2>a DEF ArmedAt, Watches
  <2>1. Typed'
    BY DEF Typed, Push, workerVars
  <2>2. WorkerAt'
    BY DEF WorkerAt, Typed, Push, workerVars
  <2>3. PendingInTime'
    BY DEF PendingInTime, Typed, Push, workerVars
  <2>4. NoneAhead'
    BY DEF NoneAhead, Typed, Push, workerVars
  <2>5. StateWatched'
    BY <2>b DEF StateWatched, RenewalOwes, Typed, Push, workerVars
  <2>6. NegativeWatched'
    BY <2>a DEF NegativeWatched, Typed, Push, workerVars
  <2>7. RefreshingIsOwned'
    BY DEF RefreshingIsOwned, Phases, Typed, Push, workerVars
  <2>8. ParkedOnlyIfUnused'
    BY DEF ParkedOnlyIfUnused, Guarded, Worth, AccessWindow, RefreshLead, IsExpired, Typed,
        Push, workerVars
  <2> QED BY <2>1, <2>2, <2>3, <2>4, <2>5, <2>6, <2>7, <2>8
<1>3. ASSUME NEW k \in Keys, NEW ttl \in TTLs, Store(k, ttl)
      PROVE  TimersInv'
  <2> USE <1>3
  <2>a. AllTimers \subseteq AllTimers'
    BY DEF Store, Timer, AllTimers, workerVars
  <2>b. \A j, s : ArmedAt(j, s) => ArmedAt(j, s)'
    BY <2>a DEF ArmedAt, Watches
  <2>c. ttl \in Nat
    BY SettingsFacts DEF Typed
  <2>d. PICK at \in Nat \ {0}, pending \in Nat :
            /\ at = FirstTimerAt(ttl) /\ pending = FirstPending(ttl)
            /\ RenewsAhead(ttl) => pending = at /\ pending <= now + 2 * ttl
            /\ ~RenewsAhead(ttl) => pending = Lapsed /\ at = now + 2 * ttl
    BY <2>c, FirstTimerFacts DEF Typed
  <2>e. ArmedAt(k, at)'
    BY <2>d, ArmedNow DEF Store
  <2>f. Timer(k, at, "due") \in PositiveTimers
    BY <2>d DEF PositiveTimers, Timer
  <2>1. Typed'
    BY <2>c, <2>d, <2>f, SMTT(30) DEF Typed, Records, SomeTimers, Store, Timer, workerVars
  <2>2. WorkerAt'
    BY DEF WorkerAt, Cached, Claimed, Parked, Guarded, Typed, Store, Timer, workerVars
  <2>3. PendingInTime'
    BY <2>c, <2>d, SMTT(30) DEF PendingInTime, Cached, Deadline, MaxOf, Claimed, Records, Lapsed,
        Typed, Store, Timer, workerVars
  <2>4. NoneAhead'
    BY <2>c, <2>d DEF NoneAhead, Lapsed, RenewsAhead, Typed, Store, Timer, workerVars
  <2>5. StateWatched'
    BY <2>c, <2>d, <2>e, <2>b DEF StateWatched, Cached, Deadline, RenewalOwes, Lapsed,
        Claimed, Parked, Typed, Store, Timer, workerVars
  <2>6. NegativeWatched'
    BY <2>a DEF NegativeWatched, NoExpiry, Typed, Store, Timer, workerVars
  <2>7. RefreshingIsOwned'
    BY DEF RefreshingIsOwned, Phases, Typed, Store, Timer, workerVars
  <2>8. ParkedOnlyIfUnused'
    <3>1. rec'[k].timer # Parked
      BY <2>c, <2>d DEF Store, Typed, Parked
    <3>2. \A j \in Keys \ {k} : rec'[j] = rec[j]
      BY DEF Store, Typed
    <3>3. UNCHANGED <<now, hitting, repairing, worker, cur>>
      BY DEF Store, workerVars
    <3> QED BY <3>1, <3>2, <3>3 DEF ParkedOnlyIfUnused, Guarded, Worth, AccessWindow,
         RefreshLead, IsExpired
  <2> QED BY <2>1, <2>2, <2>3, <2>4, <2>5, <2>6, <2>7, <2>8
<1>4. ASSUME NEW k \in Keys, Forget(k)
      PROVE  TimersInv'
  <2> USE <1>4
  <2>a. AllTimers \subseteq AllTimers'
    BY DEF Forget, Absent, AllTimers, workerVars
  <2>b. \A j, s : ArmedAt(j, s) => ArmedAt(j, s)'
    BY <2>a DEF ArmedAt, Watches
  <2>1. Typed'
    BY SMTT(30) DEF Typed, Records, Lapsed, Forget, Absent, workerVars
  <2>2. WorkerAt'
    BY DEF WorkerAt, Cached, Claimed, Parked, Guarded, Typed, Forget, Absent, workerVars
  <2>3. PendingInTime'
    BY DEF PendingInTime, Cached, Deadline, MaxOf, Claimed, Lapsed, Typed, Forget, Absent,
        workerVars
  <2>4. NoneAhead'
    BY DEF NoneAhead, Lapsed, Typed, Forget, Absent, workerVars
  <2>5. StateWatched'
    BY <2>b DEF StateWatched, Cached, Deadline, RenewsAhead, RenewalOwes, Lapsed, Claimed,
        Parked, Typed, Forget, Absent, workerVars
  <2>6. NegativeWatched'
    BY <2>a DEF NegativeWatched, NoExpiry, Typed, Forget, Absent, workerVars
  <2>7. RefreshingIsOwned'
    BY DEF RefreshingIsOwned, Phases, Typed, Forget, Absent, workerVars
  <2>8. ParkedOnlyIfUnused'
    BY DEF ParkedOnlyIfUnused, Guarded, Cached, Parked, IsExpired, Expires, Worth,
        AccessWindow, RefreshLead, Typed, Forget, Absent, workerVars
  <2> QED BY <2>1, <2>2, <2>3, <2>4, <2>5, <2>6, <2>7, <2>8
<1>5. ASSUME NEW k \in Keys, EvictMark(k)
      PROVE  TimersInv'
  <2> USE <1>5
  <2>a. AllTimers \subseteq AllTimers'
    BY DEF EvictMark, AllTimers, workerVars
  <2>b. \A j, s : ArmedAt(j, s) => ArmedAt(j, s)'
    BY <2>a DEF ArmedAt, Watches
  <2>1. Typed'
    BY ZenonT(60) DEF Typed, Records, EvictMark, workerVars
  <2>2. WorkerAt'
    BY DEF WorkerAt, Cached, Claimed, Parked, Typed, EvictMark, workerVars
  <2>3. PendingInTime'
    BY DEF PendingInTime, Cached, Deadline, MaxOf, Claimed, Typed, EvictMark, workerVars
  <2>4. NoneAhead'
    BY DEF NoneAhead, Lapsed, Typed, EvictMark, workerVars
  <2>5. StateWatched'
    BY <2>b, SMTT(30) DEF StateWatched, Cached, Deadline, RenewsAhead, RenewalOwes, Lapsed, Claimed,
        Parked, Typed, EvictMark, workerVars
  <2>6. NegativeWatched'
    BY <2>a DEF NegativeWatched, NoExpiry, Typed, EvictMark, workerVars
  <2>7. RefreshingIsOwned'
    BY DEF RefreshingIsOwned, Phases, Typed, EvictMark, workerVars
  <2>8. ParkedOnlyIfUnused'
    BY DEF ParkedOnlyIfUnused, Guarded, Cached, Parked, IsExpired, Expires, Worth,
        AccessWindow, RefreshLead, Typed, EvictMark, workerVars
  <2> QED BY <2>1, <2>2, <2>3, <2>4, <2>5, <2>6, <2>7, <2>8
<1>6. ASSUME NEW k \in Keys, HitRecord(k)
      PROVE  TimersInv'
  <2> USE <1>6
  <2>a. AllTimers \subseteq AllTimers'
    BY DEF HitRecord, AllTimers, workerVars
  <2>b. \A j, s : ArmedAt(j, s) => ArmedAt(j, s)'
    BY <2>a DEF ArmedAt, Watches
  <2>1. Typed'
    BY ZenonT(60) DEF Typed, Records, HitRecord, workerVars
  <2>2. WorkerAt'
    BY DEF WorkerAt, Cached, Claimed, Parked, Typed, HitRecord, workerVars
  <2>3. PendingInTime'
    BY DEF PendingInTime, Cached, Deadline, MaxOf, Claimed, Typed, HitRecord, workerVars
  <2>4. NoneAhead'
    BY DEF NoneAhead, Lapsed, Typed, HitRecord, workerVars
  <2>5. StateWatched'
    BY <2>b DEF StateWatched, Cached, Deadline, RenewsAhead, RenewalOwes, Lapsed, Claimed,
        Parked, Typed, HitRecord, workerVars
  <2>6. NegativeWatched'
    BY <2>a DEF NegativeWatched, NoExpiry, Typed, HitRecord, workerVars
  <2>7. RefreshingIsOwned'
    BY DEF RefreshingIsOwned, Phases, Typed, HitRecord, workerVars
  <2>8. ParkedOnlyIfUnused'
    BY DEF ParkedOnlyIfUnused, Guarded, Cached, Parked, IsExpired, Expires, Worth,
        AccessWindow, RefreshLead, Typed, HitRecord, workerVars
  <2> QED BY <2>1, <2>2, <2>3, <2>4, <2>5, <2>6, <2>7, <2>8
<1>7. ASSUME NEW k \in Keys, DeadHit(k)
      PROVE  TimersInv'
  <2> USE <1>7
  <2>a. AllTimers \subseteq AllTimers'
    BY DEF DeadHit, AllTimers, workerVars
  <2>b. \A j, s : ArmedAt(j, s) => ArmedAt(j, s)'
    BY <2>a DEF ArmedAt, Watches
  <2>1. Typed'
    BY ZenonT(60) DEF Typed, Records, DeadHit, workerVars
  <2>2. WorkerAt'
    BY DEF WorkerAt, Cached, Claimed, Parked, Typed, DeadHit, workerVars
  <2>3. PendingInTime'
    BY DEF PendingInTime, Cached, Deadline, MaxOf, Claimed, Typed, DeadHit, workerVars
  <2>4. NoneAhead'
    BY DEF NoneAhead, Lapsed, Typed, DeadHit, workerVars
  <2>5. StateWatched'
    BY <2>b DEF StateWatched, Cached, Deadline, RenewsAhead, RenewalOwes, Lapsed, Claimed,
        Parked, Typed, DeadHit, workerVars
  <2>6. NegativeWatched'
    BY <2>a DEF NegativeWatched, NoExpiry, Typed, DeadHit, workerVars
  <2>7. RefreshingIsOwned'
    BY DEF RefreshingIsOwned, Phases, Typed, DeadHit, workerVars
  <2>8. ParkedOnlyIfUnused'
    BY DEF ParkedOnlyIfUnused, Guarded, Cached, Parked, IsExpired, Expires, Worth,
        AccessWindow, RefreshLead, Typed, DeadHit, workerVars
  <2> QED BY <2>1, <2>2, <2>3, <2>4, <2>5, <2>6, <2>7, <2>8
<1>8. ASSUME NEW k \in Keys, StaleHit(k)
      PROVE  TimersInv'
  <2> USE <1>8
  <2>a. AllTimers \subseteq AllTimers'
    BY DEF StaleHit, AllTimers, workerVars
  <2>b. \A j, s : ArmedAt(j, s) => ArmedAt(j, s)'
    BY <2>a DEF ArmedAt, Watches
  <2>c. PICK r \in Records :
            /\ rec' = [rec EXCEPT ![k] = r]
            /\ r.kind = rec[k].kind /\ r.ins = rec[k].ins /\ r.ttl = rec[k].ttl
            /\ r.timer = rec[k].timer
            /\ \/ repairing' = repairing \cup {k}
               \/ r.refreshing = rec[k].refreshing /\ UNCHANGED repairing
    <3>1. CASE rec[k].refreshing = "no"
      <4> DEFINE r == [rec[k] EXCEPT !.last = now, !.refreshing = "yes"]
      <4>1. rec' = [rec EXCEPT ![k] = r] /\ repairing' = repairing \cup {k}
        BY <3>1 DEF StaleHit
      <4>2. r \in Records /\ r.kind = rec[k].kind /\ r.ins = rec[k].ins /\ r.ttl = rec[k].ttl
            /\ r.timer = rec[k].timer
        BY DEF Typed, Records
      <4> HIDE DEF r
      <4> QED BY <4>1, <4>2
    <3>2. CASE rec[k].refreshing # "no"
      <4> DEFINE r == [rec[k] EXCEPT !.last = now]
      <4>1. rec' = [rec EXCEPT ![k] = r] /\ UNCHANGED repairing
        BY <3>2 DEF StaleHit
      <4>2. r \in Records /\ r.kind = rec[k].kind /\ r.ins = rec[k].ins /\ r.ttl = rec[k].ttl
            /\ r.timer = rec[k].timer /\ r.refreshing = rec[k].refreshing
        BY DEF Typed, Records
      <4> HIDE DEF r
      <4> QED BY <4>1, <4>2
    <3> QED BY <3>1, <3>2
  <2>d. UNCHANGED <<now, neg, arming, inbox, schedule, worker, wnow, cur, due, task, stale, hitting>>
    BY DEF StaleHit, workerVars
  <2>e. IsExpired(rec[k], now)
    BY DEF StaleHit, IsStale
  <2>1. Typed'
    BY <2>c, <2>d DEF Typed
  <2>2. WorkerAt'
    BY <2>c, <2>d DEF WorkerAt, Cached, Claimed, Parked, Typed
  <2>3. PendingInTime'
    BY <2>c, <2>d DEF PendingInTime, Cached, Deadline, MaxOf, Claimed, Typed
  <2>4. NoneAhead'
    BY <2>c, <2>d DEF NoneAhead, Lapsed, Typed
  <2>5. StateWatched'
    BY <2>c, <2>d, <2>b DEF StateWatched, Cached, Deadline, RenewsAhead, RenewalOwes,
        Lapsed, Claimed, Parked, Typed
  <2>6. NegativeWatched'
    BY <2>c, <2>d, <2>a DEF NegativeWatched, NoExpiry, Typed
  <2>7. RefreshingIsOwned'
    BY <2>c, <2>d DEF RefreshingIsOwned, Phases, Typed
  <2>8. ParkedOnlyIfUnused'
    BY <2>c, <2>d, <2>e DEF ParkedOnlyIfUnused, Guarded, Cached, Parked, IsExpired, Expires,
        Worth, AccessWindow, RefreshLead, Typed
  <2> QED BY <2>1, <2>2, <2>3, <2>4, <2>5, <2>6, <2>7, <2>8
<1>15. ASSUME NEW k \in Keys, NEW room \in BOOLEAN, StaleSend(k, room)
      PROVE  TimersInv'
  <2> USE <1>15
  <2>a. AllTimers \subseteq AllTimers'
    BY DEF StaleSend, AllTimers, workerVars
  <2>b. \A j, s : ArmedAt(j, s) => ArmedAt(j, s)'
    BY <2>a DEF ArmedAt, Watches
  <2>c. PICK r \in Records :
            /\ rec' = [rec EXCEPT ![k] = r]
            /\ r.kind = rec[k].kind /\ r.ins = rec[k].ins /\ r.ttl = rec[k].ttl
            /\ r.timer = rec[k].timer
            /\ \/ stale' = Append(stale, k)
               \/ r.refreshing = "no" /\ UNCHANGED stale
    <3>1. CASE room = TRUE
      <4>1. rec' = [rec EXCEPT ![k] = rec[k]] /\ stale' = Append(stale, k)
        BY <3>1 DEF StaleSend, Typed
      <4>2. rec[k] \in Records
        BY DEF Typed
      <4> QED BY <4>1, <4>2
    <3>2. CASE room = FALSE
      <4> DEFINE r == [rec[k] EXCEPT !.refreshing = "no"]
      <4>1. rec' = [rec EXCEPT ![k] = r] /\ UNCHANGED stale
        BY <3>2 DEF StaleSend
      <4>2. r \in Records /\ r.kind = rec[k].kind /\ r.ins = rec[k].ins /\ r.ttl = rec[k].ttl
            /\ r.timer = rec[k].timer /\ r.refreshing = "no"
        BY DEF Typed, Records
      <4> HIDE DEF r
      <4> QED BY <4>1, <4>2
    <3> QED BY <3>1, <3>2
  <2>d. /\ UNCHANGED <<now, neg, arming, inbox, schedule, worker, wnow, cur, due, task, hitting>>
        /\ repairing' = repairing \ {k}
    BY DEF StaleSend, workerVars
  <2>e. IsExpired(rec[k], now)
    BY DEF StaleSend, StaleHeld
  <2>f. /\ stale' \in Seq(Keys)
        /\ \A i \in DOMAIN stale : i \in DOMAIN stale' /\ stale'[i] = stale[i]
    <3>1. CASE stale' = Append(stale, k)
      <4>1. stale \in Seq(Keys)
        BY DEF Typed
      <4> QED BY <3>1, <4>1
    <3>2. CASE stale' = stale
      BY <3>2 DEF Typed
    <3> QED BY <2>c, <3>1, <3>2
  <2>1. Typed'
    BY <2>c, <2>d, <2>f DEF Typed
  <2>2. WorkerAt'
    BY <2>c, <2>d, <2>f DEF WorkerAt, Cached, Claimed, Parked, Typed
  <2>3. PendingInTime'
    BY <2>c, <2>d, <2>f DEF PendingInTime, Cached, Deadline, MaxOf, Claimed, Typed
  <2>4. NoneAhead'
    BY <2>c, <2>d, <2>f DEF NoneAhead, Lapsed, Typed
  <2>5. StateWatched'
    BY <2>c, <2>d, <2>f, <2>b DEF StateWatched, Cached, Deadline, RenewsAhead, RenewalOwes,
        Lapsed, Claimed, Parked, Typed
  <2>6. NegativeWatched'
    BY <2>c, <2>d, <2>f, <2>a DEF NegativeWatched, NoExpiry, Typed
  <2>7. RefreshingIsOwned'
    <3> SUFFICES ASSUME NEW j \in Keys, rec'[j].refreshing = "yes"
                 PROVE  \/ j \in repairing'
                        \/ \E i \in DOMAIN stale' : stale'[i] = j
                        \/ \E p \in Permits : task[p].phase \in Phases /\ task[p].key = j
      BY <2>d DEF RefreshingIsOwned, Phases
    <3>1. CASE j = k
      <4>1. stale' = Append(stale, k)
        BY <3>1, <2>c DEF Typed
      <4>2. Len(stale) + 1 \in DOMAIN stale' /\ stale'[Len(stale) + 1] = k
        BY <4>1 DEF Typed
      <4> QED BY <4>2, <3>1
    <3>2. CASE j # k
      <4>1. rec[j].refreshing = "yes" /\ (j \in repairing => j \in repairing')
        BY <3>2, <2>c, <2>d DEF Typed
      <4> QED BY <4>1, <2>f DEF RefreshingIsOwned
    <3> QED BY <3>1, <3>2
  <2>8. ParkedOnlyIfUnused'
    BY <2>c, <2>d, <2>e DEF ParkedOnlyIfUnused, Guarded, Cached, Parked, IsExpired, Expires,
        Worth, AccessWindow, RefreshLead, Typed
  <2> QED BY <2>1, <2>2, <2>3, <2>4, <2>5, <2>6, <2>7, <2>8
<1>9. ASSUME NEW k \in Keys, HitRearm(k), rec[k].timer = Parked, RenewsAhead(rec[k].ttl)
      PROVE  TimersInv'
  <2> USE <1>9
  <2>a. AllTimers \subseteq AllTimers'
    BY DEF HitRearm, Timer, AllTimers, workerVars
  <2>b. \A j, s : ArmedAt(j, s) => ArmedAt(j, s)'
    BY <2>a DEF ArmedAt, Watches
  <2>c. rec[k] \in Records /\ rec[k].ttl > 0 /\ rec[k].kind = "cached"
    BY DEF Typed, RenewsAhead, Records, WorkerAt, Cached, HitRearm
  <2>h. rec[k].ins \in Nat /\ rec[k].ttl \in Nat /\ settings \in Settings
    BY <2>c DEF Records, Typed
  <2>i. /\ RefreshDueAt(rec[k].ins, rec[k].ttl) \in Nat
        /\ RefreshDueAt(rec[k].ins, rec[k].ttl) >= rec[k].ins + 1
        /\ RefreshDueAt(rec[k].ins, rec[k].ttl) <= rec[k].ins + rec[k].ttl
    BY <2>c, <2>h, DueAtFacts
  <2>d. PICK at \in Nat \ {0} :
            /\ at = RefreshDueAt(rec[k].ins, rec[k].ttl)
            /\ at <= Deadline(rec[k])
    BY <2>h, <2>i DEF Deadline
  <2>e. ArmedAt(k, at)'
    BY <2>d, ArmedNow DEF HitRearm
  <2>f. Timer(k, at, "due") \in PositiveTimers
    BY <2>d DEF PositiveTimers, Timer
  <2>g. /\ hitting' = hitting \ {k}
        /\ rec' = [rec EXCEPT ![k].timer = at]
        /\ arming' = arming \cup {Timer(k, at, "due")}
        /\ UNCHANGED <<now, neg, inbox, schedule, worker, wnow, cur, due, stale, task, repairing>>
    BY <2>d DEF HitRearm, workerVars
  <2>r. rec' \in [Keys -> Records]
    BY <2>g, <2>d, RecordFacts DEF Typed
  <2>1. Typed'
    BY <2>g, <2>d, <2>f, <2>r DEF Typed, SomeTimers
  <2>2. WorkerAt'
    BY <2>g, <2>d DEF WorkerAt, Cached, Claimed, Parked, Typed
  <2>3. PendingInTime'
    BY <2>g, <2>d, <2>h DEF PendingInTime, Cached, Deadline, MaxOf, Claimed, Typed
  <2>4. NoneAhead'
    BY <2>g, <2>d DEF NoneAhead, Lapsed, RenewsAhead, Typed
  <2>j. /\ rec'[k].timer = at /\ rec'[k].ttl = rec[k].ttl
        /\ \A j \in Keys \ {k} : rec'[j] = rec[j]
    BY <2>g DEF Typed
  <2>5. StateWatched'
    <3> DEFINE Watched(j) ==
            Cached(rec[j]) =>
                /\ rec[j].timer > 0 => ArmedAt(j, rec[j].timer)
                /\ rec[j].timer = Parked =>
                       ArmedAt(j, Deadline(rec[j])) \/ (worker = "recheck" /\ cur.key = j)
                /\ rec[j].timer = Claimed =>
                       \/ \E c \in due : c.key = j /\ c.deadline = Deadline(rec[j])
                       \/ worker \in {"judge", "park"} /\ cur.key = j
                /\ rec[j].timer = Lapsed /\ RenewsAhead(rec[j].ttl) =>
                       RenewalOwes(j) \/ (worker = "rearm" /\ cur.key = j)
                /\ ~RenewsAhead(rec[j].ttl) => ArmedAt(j, Deadline(rec[j]))
    <3> SUFFICES ASSUME NEW j \in Keys PROVE Watched(j)'
      BY DEF StateWatched
    <3>1. CASE j = k
      <4>1. at > 0 /\ at # Parked /\ at # Claimed /\ at # Lapsed
        BY <2>d DEF Parked, Claimed, Lapsed
      <4>2. RenewsAhead(rec[k].ttl)'
        BY <2>j DEF RenewsAhead
      <4>3. ArmedAt(k, rec[k].timer)'
        BY <2>e, <2>j DEF ArmedAt, Watches
      <4> QED
        BY <2>j, <3>1, <4>1, <4>2, <4>3
    <3>2. CASE j # k
      <4>1. rec'[j] = rec[j] /\ Watched(j)
        BY <2>j, <3>2 DEF StateWatched
      <4>2. RenewalOwes(j) => RenewalOwes(j)'
        BY <2>g, <4>1 DEF RenewalOwes
      <4>3. /\ ArmedAt(j, rec[j].timer) => ArmedAt(j, rec[j].timer)'
            /\ ArmedAt(j, Deadline(rec[j])) => ArmedAt(j, Deadline(rec[j]))'
        BY <2>a, <4>1 DEF ArmedAt, Watches, Deadline
      <4>4. RenewsAhead(rec[j].ttl)' <=> RenewsAhead(rec[j].ttl)
        BY <4>1 DEF RenewsAhead
      <4> QED
        BY <2>g, <4>1, <4>2, <4>3, <4>4 DEF Cached, Deadline
    <3> QED
      BY <3>1, <3>2
  <2>6. NegativeWatched'
    BY <2>g, <2>d, <2>a DEF NegativeWatched, NoExpiry, Typed
  <2>7. RefreshingIsOwned'
    BY <2>g, <2>d DEF RefreshingIsOwned, Phases, Typed
  <2>8. ParkedOnlyIfUnused'
    BY <2>g, <2>d, SMTT(30) DEF ParkedOnlyIfUnused, Guarded, Cached, Parked, IsExpired, Expires,
        Worth, AccessWindow, RefreshLead, Typed
  <2> QED BY <2>1, <2>2, <2>3, <2>4, <2>5, <2>6, <2>7, <2>8
<1>10. ASSUME NEW k \in Keys, HitRearm(k), ~(rec[k].timer = Parked /\ RenewsAhead(rec[k].ttl))
      PROVE  TimersInv'
  <2> USE <1>10
  <2>a. AllTimers \subseteq AllTimers'
    BY DEF HitRearm, AllTimers, workerVars
  <2>b. \A j, s : ArmedAt(j, s) => ArmedAt(j, s)'
    BY <2>a DEF ArmedAt, Watches
  <2>1. Typed'
    BY DEF Typed, HitRearm, workerVars
  <2>2. WorkerAt'
    BY DEF WorkerAt, Typed, HitRearm, workerVars
  <2>3. PendingInTime'
    BY DEF PendingInTime, Typed, HitRearm, workerVars
  <2>4. NoneAhead'
    BY DEF NoneAhead, Typed, HitRearm, workerVars
  <2>5. StateWatched'
    BY <2>b DEF StateWatched, RenewalOwes, Typed, HitRearm, workerVars
  <2>6. NegativeWatched'
    BY <2>a DEF NegativeWatched, Typed, HitRearm, workerVars
  <2>7. RefreshingIsOwned'
    BY DEF RefreshingIsOwned, Phases, Typed, HitRearm, workerVars
  <2>8. ParkedOnlyIfUnused'
    <3>1. rec[k].timer = Parked => IsExpired(rec[k], now)
      BY TimersAssumption DEF PendingInTime, NoneAhead, RenewsAhead, IsExpired, Expires,
          Cached,
         Lapsed, Parked, Typed, Records, HitRearm, WorkerAt
    <3>2. UNCHANGED <<rec, now, worker, cur, settings, repairing>> /\ hitting' = hitting \ {k}
      BY DEF HitRearm, workerVars
    <3> QED BY <3>1, <3>2 DEF ParkedOnlyIfUnused, Guarded, Worth, AccessWindow, RefreshLead,
         IsExpired
  <2> QED BY <2>1, <2>2, <2>3, <2>4, <2>5, <2>6, <2>7, <2>8
<1>11. ASSUME NEW k \in NegativeKeys, StoreNegative(k)
      PROVE  TimersInv'
  <2> USE <1>11
  <2>a. AllTimers \subseteq AllTimers'
    BY DEF StoreNegative, AllTimers, workerVars
  <2>b. \A j, s : ArmedAt(j, s) => ArmedAt(j, s)'
    BY <2>a DEF ArmedAt, Watches
  <2>c. PICK at \in Nat \ {0} : at = now + NegativeTTL
    BY TimersAssumption DEF Typed
  <2>d. Timer(k, at, "negative") \in NegativeTimers /\ Timer(k, at, "negative") \in AllTimers'
    BY <2>c DEF NegativeTimers, StoreNegative, AllTimers, Timer
  <2>1. Typed'
    BY <2>c, <2>d DEF Typed, SomeTimers, StoreNegative, workerVars
  <2>2. WorkerAt'
    BY DEF WorkerAt, Typed, StoreNegative, workerVars
  <2>3. PendingInTime'
    BY DEF PendingInTime, Typed, StoreNegative, workerVars
  <2>4. NoneAhead'
    BY DEF NoneAhead, Typed, StoreNegative, workerVars
  <2>5. StateWatched'
    BY <2>b DEF StateWatched, RenewalOwes, Typed, StoreNegative, workerVars
  <2>6. NegativeWatched'
    BY <2>c, <2>d, <2>a DEF NegativeWatched, Timer, Typed, StoreNegative, workerVars
  <2>7. RefreshingIsOwned'
    BY DEF RefreshingIsOwned, Phases, Typed, StoreNegative, workerVars
  <2>8. ParkedOnlyIfUnused'
    BY DEF ParkedOnlyIfUnused, Guarded, Worth, AccessWindow, RefreshLead, IsExpired, Typed,
        StoreNegative, workerVars
  <2> QED BY <2>1, <2>2, <2>3, <2>4, <2>5, <2>6, <2>7, <2>8
<1>12. ASSUME NEW k \in NegativeKeys, ForgetNegative(k)
      PROVE  TimersInv'
  <2> USE <1>12
  <2>a. AllTimers \subseteq AllTimers'
    BY DEF ForgetNegative, NoExpiry, AllTimers, workerVars
  <2>b. \A j, s : ArmedAt(j, s) => ArmedAt(j, s)'
    BY <2>a DEF ArmedAt, Watches
  <2>1. Typed'
    BY DEF Typed, ForgetNegative, NoExpiry, workerVars
  <2>2. WorkerAt'
    BY DEF WorkerAt, Typed, ForgetNegative, NoExpiry, workerVars
  <2>3. PendingInTime'
    BY DEF PendingInTime, Typed, ForgetNegative, NoExpiry, workerVars
  <2>4. NoneAhead'
    BY DEF NoneAhead, Typed, ForgetNegative, NoExpiry, workerVars
  <2>5. StateWatched'
    BY <2>b DEF StateWatched, RenewalOwes, Typed, ForgetNegative, NoExpiry, workerVars
  <2>6. NegativeWatched'
    BY <2>a DEF NegativeWatched, Typed, ForgetNegative, NoExpiry, workerVars
  <2>7. RefreshingIsOwned'
    BY DEF RefreshingIsOwned, Phases, Typed, ForgetNegative, NoExpiry, workerVars
  <2>8. ParkedOnlyIfUnused'
    BY DEF ParkedOnlyIfUnused, Guarded, Worth, AccessWindow, RefreshLead, IsExpired, Typed,
        ForgetNegative, NoExpiry, workerVars
  <2> QED BY <2>1, <2>2, <2>3, <2>4, <2>5, <2>6, <2>7, <2>8
<1>13. ASSUME NEW k \in Keys, NEW ttl \in TTLs, InsertPermanent(k, ttl)
      PROVE  TimersInv'
  <2> USE <1>13
  <2>a. AllTimers \subseteq AllTimers'
    BY DEF InsertPermanent, Absent, AllTimers, workerVars
  <2>b. \A j, s : ArmedAt(j, s) => ArmedAt(j, s)'
    BY <2>a DEF ArmedAt, Watches
  <2>c. ttl \in Nat
    BY SettingsFacts DEF Typed
  <2>r. rec' \in [Keys -> Records]
    BY <2>c, LocalRecord DEF InsertPermanent, Typed
  <2>1. Typed'
    BY <2>r DEF Typed, InsertPermanent, Absent, workerVars
  <2>2. WorkerAt'
    BY DEF WorkerAt, Cached, Claimed, Parked, Guarded, Typed, InsertPermanent, Absent,
        workerVars
  <2>3. PendingInTime'
    BY DEF PendingInTime, Cached, Deadline, MaxOf, Claimed, Lapsed, Typed, InsertPermanent,
        Absent, workerVars
  <2>4. NoneAhead'
    BY DEF NoneAhead, Lapsed, Typed, InsertPermanent, Absent, workerVars
  <2>5. StateWatched'
    BY <2>b DEF StateWatched, Cached, Deadline, RenewsAhead, RenewalOwes, Lapsed, Claimed,
        Parked, Typed, InsertPermanent, Absent, workerVars
  <2>6. NegativeWatched'
    BY <2>a DEF NegativeWatched, NoExpiry, Typed, InsertPermanent, Absent, workerVars
  <2>7. RefreshingIsOwned'
    BY DEF RefreshingIsOwned, Phases, Typed, InsertPermanent, Absent, workerVars
  <2>8. ParkedOnlyIfUnused'
    BY DEF ParkedOnlyIfUnused, Guarded, Cached, Parked, IsExpired, Expires, Worth,
        AccessWindow, RefreshLead, Typed, InsertPermanent, Absent, workerVars
  <2> QED BY <2>1, <2>2, <2>3, <2>4, <2>5, <2>6, <2>7, <2>8
<1>14. ASSUME NEW k \in Keys, RemovePermanent(k)
      PROVE  TimersInv'
  <2> USE <1>14
  <2>a. AllTimers \subseteq AllTimers'
    BY DEF RemovePermanent, Absent, AllTimers, workerVars
  <2>b. \A j, s : ArmedAt(j, s) => ArmedAt(j, s)'
    BY <2>a DEF ArmedAt, Watches
  <2>1. Typed'
    BY SMTT(30) DEF Typed, Records, Lapsed, RemovePermanent, Absent, workerVars
  <2>2. WorkerAt'
    BY DEF WorkerAt, Cached, Claimed, Parked, Guarded, Typed, RemovePermanent, Absent,
        workerVars
  <2>3. PendingInTime'
    BY DEF PendingInTime, Cached, Deadline, MaxOf, Claimed, Lapsed, Typed, RemovePermanent,
        Absent, workerVars
  <2>4. NoneAhead'
    BY DEF NoneAhead, Lapsed, Typed, RemovePermanent, Absent, workerVars
  <2>5. StateWatched'
    BY <2>b DEF StateWatched, Cached, Deadline, RenewsAhead, RenewalOwes, Lapsed, Claimed,
        Parked, Typed, RemovePermanent, Absent, workerVars
  <2>6. NegativeWatched'
    BY <2>a DEF NegativeWatched, NoExpiry, Typed, RemovePermanent, Absent, workerVars
  <2>7. RefreshingIsOwned'
    BY DEF RefreshingIsOwned, Phases, Typed, RemovePermanent, Absent, workerVars
  <2>8. ParkedOnlyIfUnused'
    BY DEF ParkedOnlyIfUnused, Guarded, Cached, Parked, IsExpired, Expires, Worth,
        AccessWindow, RefreshLead, Typed, RemovePermanent, Absent, workerVars
  <2> QED BY <2>1, <2>2, <2>3, <2>4, <2>5, <2>6, <2>7, <2>8
<1>q. settings.negative \subseteq NegativeKeys /\ LocalKeys \subseteq Keys
  BY TimersAssumption, SettingsFacts DEF Typed
<1> HIDE DEF TimersInv
<1> QED BY <1>q, <1>1, <1>2, <1>3, <1>4, <1>5, <1>6, <1>7, <1>8, <1>9, <1>10, <1>11, <1>12,
    <1>13, <1>14, <1>15 DEF PushSome, PushOf, Traffic, HitEnds, NegativeTraffic, Operator

\* The worker's tick keeps TimersInv: a timer is taken off the schedule only when
\* its entry needs it no more.
LEMMA TickKeepsTimers ==
    ASSUME TimersInv, UNCHANGED settings, Tick
    PROVE  TimersInv'
<1> USE DEF TimersInv
<1>1. CASE TickStart
  <2> USE <1>1
  <2>a. AllTimers \subseteq AllTimers'
    BY DEF TickStart, AllTimers, workerVars
  <2>b. \A j, s : ArmedAt(j, s) => ArmedAt(j, s)'
    BY <2>a DEF ArmedAt, Watches
  <2>1. Typed'
    BY DEF Typed, TickStart, workerVars
  <2>2. WorkerAt'
    BY DEF WorkerAt, Typed, TickStart, workerVars
  <2>3. PendingInTime'
    BY DEF PendingInTime, Typed, TickStart, workerVars
  <2>4. NoneAhead'
    BY DEF NoneAhead, Typed, TickStart, workerVars
  <2>5. StateWatched'
    BY <2>b DEF StateWatched, RenewalOwes, Typed, TickStart, workerVars
  <2>6. NegativeWatched'
    BY <2>a DEF NegativeWatched, Typed, TickStart, workerVars
  <2>7. RefreshingIsOwned'
    BY DEF RefreshingIsOwned, Phases, Typed, TickStart, workerVars
  <2>8. ParkedOnlyIfUnused'
    BY DEF ParkedOnlyIfUnused, Guarded, Worth, AccessWindow, RefreshLead, IsExpired, Typed,
        TickStart, workerVars
  <2> QED BY <2>1, <2>2, <2>3, <2>4, <2>5, <2>6, <2>7, <2>8
<1>2. CASE Judge
  <2> USE <1>2
  <2>a. AllTimers \subseteq AllTimers'
    BY DEF Judge, Claim, AllTimers, workerVars
  <2>b. \A j, s : ArmedAt(j, s) => ArmedAt(j, s)'
    BY <2>a DEF ArmedAt, Watches
  <2>c. cur \in PositiveTimers /\ cur.key \in Keys /\ RenewAhead
    BY TimersAssumption DEF Judge, WorkerAt, PositiveTimers, NoneAhead
  <2>d. \/ due' = due \cup {Claim(cur)} /\ worker' = "fire" /\ cur' = NoTimer
        \/ worker' = "park" /\ UNCHANGED <<due, cur>>
    BY DEF Judge
  <2>e. /\ UNCHANGED <<now, rec, neg, arming, inbox, schedule, wnow, stale, task, hitting, repairing>>
        /\ worker = "judge"
    BY DEF Judge
  <2>f. /\ Claim(cur) \in Claims /\ Claim(cur).key = cur.key
        /\ Claim(cur).deadline = Deadline(rec[cur.key])
    BY <2>c DEF Claim, Claims, Deadline, Typed, Records
  <2>1. Typed'
    BY <2>c, <2>d, <2>e, <2>f DEF Typed
  <2>2. WorkerAt'
    BY <2>c, <2>d, <2>e DEF WorkerAt, Typed
  <2>3. PendingInTime'
    BY <2>c, <2>d, <2>e DEF PendingInTime, Typed
  <2>4. NoneAhead'
    BY <2>c, <2>d, <2>e DEF NoneAhead, Typed
  <2>5. StateWatched'
    BY <2>c, <2>d, <2>e, <2>f, <2>b DEF StateWatched, RenewalOwes, Claimed, Typed
  <2>6. NegativeWatched'
    BY <2>c, <2>d, <2>e, <2>a DEF NegativeWatched, Typed
  <2>7. RefreshingIsOwned'
    BY <2>c, <2>d, <2>e DEF RefreshingIsOwned, Phases, Typed
  <2>8. ParkedOnlyIfUnused'
    BY <2>c, <2>d, <2>e, SMTT(30) DEF ParkedOnlyIfUnused, Guarded, Worth, AccessWindow, RefreshLead,
        IsExpired, WorkerAt, Claimed, Parked, Typed
  <2> QED BY <2>1, <2>2, <2>3, <2>4, <2>5, <2>6, <2>7, <2>8
<1>3. CASE Park
  <2> USE <1>3
  <2>a. AllTimers \subseteq AllTimers'
    BY DEF Park, AllTimers, workerVars
  <2>b. \A j, s : ArmedAt(j, s) => ArmedAt(j, s)'
    BY <2>a DEF ArmedAt, Watches
  <2>c. PICK k \in Keys :
            /\ k = cur.key /\ cur \in PositiveTimers /\ RenewAhead = TRUE /\ worker = "park"
            /\ worker' = "recheck" /\ rec' = [rec EXCEPT ![k].timer = Parked]
            /\ UNCHANGED <<now, neg, arming, inbox, schedule, wnow, cur, due, stale, task,
                           hitting, repairing>>
    BY TimersAssumption DEF Park, WorkerAt, PositiveTimers, NoneAhead
  <2>r. rec' \in [Keys -> Records]
    BY <2>c, RecordFacts DEF Typed
  <2>1. Typed'
    BY <2>c, <2>r DEF Typed
  <2>2. WorkerAt'
    BY <2>c DEF WorkerAt, Cached, Claimed, Parked, Typed
  <2>3. PendingInTime'
    BY <2>c DEF PendingInTime, Cached, Deadline, MaxOf, Claimed, Parked, Typed
  <2>4. NoneAhead'
    BY <2>c DEF NoneAhead, Lapsed, Typed
  <2>5. StateWatched'
    BY <2>c, <2>b DEF StateWatched, Cached, Deadline, RenewsAhead, RenewalOwes, Lapsed,
        Claimed, Parked, Typed
  <2>6. NegativeWatched'
    BY <2>c, <2>a DEF NegativeWatched, NoExpiry, Typed
  <2>7. RefreshingIsOwned'
    BY <2>c DEF RefreshingIsOwned, Phases, Typed
  <2>8. ParkedOnlyIfUnused'
    BY <2>c DEF ParkedOnlyIfUnused, Guarded, Cached, Parked, IsExpired, Expires, Worth,
        AccessWindow, RefreshLead, Typed
  <2> QED BY <2>1, <2>2, <2>3, <2>4, <2>5, <2>6, <2>7, <2>8
<1>4. CASE Recheck /\ Worth(rec[cur.key], wnow) /\ rec[cur.key].timer = Parked
  <2> USE <1>4
  <2>a. AllTimers \subseteq AllTimers'
    BY DEF Recheck, Claim, AllTimers, workerVars
  <2>b. \A j, s : ArmedAt(j, s) => ArmedAt(j, s)'
    BY <2>a DEF ArmedAt, Watches
  <2>c. PICK k \in Keys :
            /\ k = cur.key /\ cur \in PositiveTimers /\ RenewAhead = TRUE /\ worker = "recheck"
            /\ worker' = "fire" /\ cur' = NoTimer
            /\ rec' = [rec EXCEPT ![k].timer = Claimed]
            /\ due' = due \cup {Claim(cur)}
            /\ UNCHANGED <<now, neg, arming, inbox, schedule, wnow, stale, task, hitting, repairing>>
    BY TimersAssumption DEF Recheck, WorkerAt, PositiveTimers, NoneAhead
  <2>r. rec' \in [Keys -> Records]
    BY <2>c, RecordFacts DEF Typed
  <2>f. Claim(cur) \in Claims /\ Claim(cur).key = k /\ Claim(cur).deadline = Deadline(rec[k])
    BY <2>c, SMTT(30) DEF Claim, Claims, Deadline, Typed, Records
  <2>1. Typed'
    BY <2>c, <2>r, <2>f DEF Typed
  <2>2. WorkerAt'
    BY <2>c DEF WorkerAt, Cached, Claimed, Parked, Typed
  <2>3. PendingInTime'
    BY <2>c DEF PendingInTime, Cached, Deadline, MaxOf, Claimed, Typed
  <2>4. NoneAhead'
    BY <2>c DEF NoneAhead, Lapsed, Typed
  <2>5. StateWatched'
    BY <2>c, <2>f, <2>b DEF StateWatched, Cached, Deadline, RenewsAhead, RenewalOwes,
        Lapsed, Claimed, Parked, Typed
  <2>6. NegativeWatched'
    BY <2>c, <2>a DEF NegativeWatched, NoExpiry, Typed
  <2>7. RefreshingIsOwned'
    BY <2>c DEF RefreshingIsOwned, Phases, Typed
  <2>8. ParkedOnlyIfUnused'
    BY <2>c DEF ParkedOnlyIfUnused, Guarded, Cached, Parked, IsExpired, Expires, Claimed,
        Worth, AccessWindow, RefreshLead, Typed
  <2> QED BY <2>1, <2>2, <2>3, <2>4, <2>5, <2>6, <2>7, <2>8
<1>5. CASE Recheck /\ ~(Worth(rec[cur.key], wnow) /\ rec[cur.key].timer = Parked)
  <2> USE <1>5
  <2>a. AllTimers \subseteq AllTimers'
    BY DEF Recheck, AllTimers, workerVars
  <2>b. \A j, s : ArmedAt(j, s) => ArmedAt(j, s)'
    BY <2>a DEF ArmedAt, Watches
  <2>d. cur \in PositiveTimers /\ cur.key \in Keys /\ RenewAhead = TRUE
    BY TimersAssumption DEF Recheck, WorkerAt, PositiveTimers, NoneAhead
  <2>e. Deadline(rec[cur.key]) \in Nat \ {0}
    BY <2>d, SMTT(30) DEF Recheck, WorkerAt, PendingInTime, Deadline, Typed, Records
  <2>c. PICK k \in Keys, at \in Nat \ {0} :
            /\ k = cur.key /\ at = Deadline(rec[k]) /\ worker = "recheck"
            /\ worker' = "fire" /\ cur' = NoTimer
            /\ arming' = arming \cup {Timer(k, at, "due")}
            /\ UNCHANGED <<now, rec, due, neg, inbox, schedule, wnow, stale, task, hitting, repairing>>
    BY <2>d, <2>e DEF Recheck
  <2>f. ArmedAt(k, at)'
    BY <2>c, ArmedNow
  <2>g. Timer(k, at, "due") \in PositiveTimers
    BY DEF PositiveTimers, Timer
  <2>1. Typed'
    BY <2>c, <2>d, <2>g DEF Typed, SomeTimers
  <2>2. WorkerAt'
    BY <2>c, <2>d DEF WorkerAt, Typed
  <2>3. PendingInTime'
    BY <2>c, <2>d DEF PendingInTime, Typed
  <2>4. NoneAhead'
    BY <2>c, <2>d DEF NoneAhead, Typed
  <2>5. StateWatched'
    BY <2>c, <2>d, <2>f, <2>b DEF StateWatched, RenewalOwes, Deadline, Typed
  <2>6. NegativeWatched'
    BY <2>c, <2>d, <2>a DEF NegativeWatched, Typed
  <2>7. RefreshingIsOwned'
    BY <2>c, <2>d DEF RefreshingIsOwned, Phases, Typed
  <2>8. ParkedOnlyIfUnused'
    <3>1. rec[k].timer = Parked => ~Worth(rec[k], now)
      BY <2>c, WorthFades DEF Typed
    <3> QED BY <2>c, <3>1 DEF ParkedOnlyIfUnused, Guarded, IsExpired, Worth, AccessWindow,
         RefreshLead
  <2> QED BY <2>1, <2>2, <2>3, <2>4, <2>5, <2>6, <2>7, <2>8
<1>6. CASE Sweep
  <2> USE <1>6
  <2>a. \A t \in AllTimers : t \in AllTimers' \/ ~Held(t)
    BY DEF Sweep, AllTimers
  <2>b. \A k, s : ArmedAt(k, s) /\ rec[k].kind # "absent" => ArmedAt(k, s)'
    BY <2>a DEF ArmedAt, Watches, Held
  <2>1. Typed'
    BY DEF Typed, Sweep, Fired, workerVars
  <2>2. WorkerAt'
    BY DEF WorkerAt, Typed, Sweep, Fired, workerVars
  <2>3. PendingInTime'
    BY DEF PendingInTime, Typed, Sweep, Fired, workerVars
  <2>4. NoneAhead'
    BY DEF NoneAhead, Typed, Sweep, Fired, workerVars
  <2>5. StateWatched'
    BY <2>b DEF StateWatched, RenewalOwes, Cached, Typed, Sweep, Fired, workerVars
  <2>6. NegativeWatched'
    BY <2>a DEF NegativeWatched, Held, AllTimers, Typed, Sweep, Fired, workerVars
  <2>7. RefreshingIsOwned'
    BY DEF RefreshingIsOwned, Phases, Typed, Sweep, Fired, workerVars
  <2>8. ParkedOnlyIfUnused'
    BY DEF ParkedOnlyIfUnused, Guarded, Worth, AccessWindow, RefreshLead, IsExpired, Typed,
        Sweep, Fired, workerVars
  <2> QED BY <2>1, <2>2, <2>3, <2>4, <2>5, <2>6, <2>7, <2>8
<1>7. ASSUME NEW t \in Firing, FireNegative(t)
      PROVE  TimersInv'
  <2> USE <1>7
  <2>a. AllTimers \ {t} \subseteq AllTimers'
    BY DEF FireNegative, AllTimers, workerVars
  <2>b. \A k, s : ArmedAt(k, s) /\ ~(Watches(t, k) /\ t.at = s) => ArmedAt(k, s)'
    BY <2>a DEF ArmedAt, Watches
  <2>1. Typed'
    BY DEF Typed, NextFiring, Firing, SomeTimers, NegativeTimers, PositiveTimers, NoExpiry,
        FireNegative, workerVars
  <2>2. WorkerAt'
    BY DEF WorkerAt, Typed, FireNegative, workerVars
  <2>3. PendingInTime'
    BY DEF PendingInTime, Typed, FireNegative, workerVars
  <2>4. NoneAhead'
    BY DEF NoneAhead, Typed, FireNegative, workerVars
  <2>5. StateWatched'
    BY <2>b DEF StateWatched, RenewalOwes, Watches, Typed, FireNegative, workerVars
  <2>6. NegativeWatched'
    BY <2>a DEF NegativeWatched, NextFiring, Firing, Typed, FireNegative, workerVars
  <2>7. RefreshingIsOwned'
    BY DEF RefreshingIsOwned, Phases, Typed, FireNegative, workerVars
  <2>8. ParkedOnlyIfUnused'
    BY DEF ParkedOnlyIfUnused, Guarded, Worth, AccessWindow, RefreshLead, IsExpired, Typed,
        FireNegative, workerVars
  <2> QED BY <2>1, <2>2, <2>3, <2>4, <2>5, <2>6, <2>7, <2>8
<1>8. ASSUME NEW t \in Firing, FireSpent(t), Removable(rec[t.key], wnow)
      PROVE  TimersInv'
  <2> USE <1>8
  <2>a. AllTimers \ {t} \subseteq AllTimers'
    BY DEF FireSpent, AllTimers, workerVars
  <2>b. \A k, s : ArmedAt(k, s) /\ ~(Watches(t, k) /\ t.at = s) => ArmedAt(k, s)'
    BY <2>a DEF ArmedAt, Watches
  <2>t. t \in PositiveTimers /\ t.key \in Keys /\ t.at \in Nat \ {0}
        /\ t.at <= wnow /\ t.kind # "negative"
    BY DEF FireSpent, Firing, Typed, SomeTimers, PositiveTimers, NegativeTimers
  <2>c. PICK k \in Keys :
            /\ k = t.key /\ worker = "fire" /\ ~Guarded(k)
            /\ rec' = [rec EXCEPT ![k] = Absent] /\ schedule' = schedule \ {t}
            /\ UNCHANGED <<now, neg, arming, inbox, worker, wnow, cur, due, stale, task,
                           hitting, repairing>>
    BY <2>t DEF FireSpent, RemoveDead
  <2>1. Typed'
    BY <2>c, RecordFacts DEF Typed
  <2>2. WorkerAt'
    BY <2>c DEF WorkerAt, Cached, Claimed, Parked, Guarded, Absent, Typed
  <2>3. PendingInTime'
    BY <2>c DEF PendingInTime, Cached, Deadline, MaxOf, Claimed, Absent, Lapsed, Typed
  <2>4. NoneAhead'
    BY <2>c DEF NoneAhead, Lapsed, Absent, Typed
  <2>5. StateWatched'
    BY <2>c, <2>b DEF StateWatched, Cached, Deadline, RenewsAhead, RenewalOwes, Lapsed,
        Claimed, Parked, Absent, Watches, Typed
  <2>6. NegativeWatched'
    BY <2>c, <2>t, <2>a DEF NegativeWatched, NoExpiry, Typed
  <2>7. RefreshingIsOwned'
    BY <2>c DEF RefreshingIsOwned, Phases, Absent, Typed
  <2>8. ParkedOnlyIfUnused'
    BY <2>c DEF ParkedOnlyIfUnused, Guarded, Cached, Parked, IsExpired, Expires, Worth,
        AccessWindow, RefreshLead, Absent, Typed
  <2> QED BY <2>1, <2>2, <2>3, <2>4, <2>5, <2>6, <2>7, <2>8
<1>9. ASSUME NEW t \in Firing, FireSpent(t), ~Removable(rec[t.key], wnow)
      PROVE  TimersInv'
  <2> USE <1>9
  <2>a. AllTimers \ {t} \subseteq AllTimers'
    BY DEF FireSpent, AllTimers, workerVars
  <2>b. \A k, s : ArmedAt(k, s) /\ ~(Watches(t, k) /\ t.at = s) => ArmedAt(k, s)'
    BY <2>a DEF ArmedAt, Watches
  <2>t. t \in PositiveTimers /\ t.key \in Keys /\ t.at \in Nat \ {0}
        /\ t.at <= wnow /\ t.kind # "negative"
    BY DEF FireSpent, Firing, Typed, SomeTimers, PositiveTimers, NegativeTimers
  <2>c. PICK k \in Keys :
            /\ k = t.key /\ worker = "fire" /\ schedule' = schedule \ {t}
            /\ Cached(rec[k]) => ~IsDead(rec[k], wnow) /\ rec[k].timer # t.at
            /\ UNCHANGED <<now, rec, neg, arming, inbox, worker, wnow, cur, due, stale, task,
                           hitting, repairing>>
    BY <2>t DEF FireSpent, RemoveDead, Removable
  <2>1. Typed'
    BY <2>c DEF Typed
  <2>2. WorkerAt'
    BY <2>c DEF WorkerAt, Typed
  <2>3. PendingInTime'
    BY <2>c DEF PendingInTime, Typed
  <2>4. NoneAhead'
    BY <2>c DEF NoneAhead, Typed
  <2>5. StateWatched'
    <3>1. \A j, s : ArmedAt(j, s) /\ (j # k \/ s # t.at) => ArmedAt(j, s)'
      BY <2>b, <2>c DEF Watches
    <3>2. Cached(rec[k]) => Deadline(rec[k]) # t.at /\ rec[k].timer # t.at
      BY <2>c, <2>t DEF IsDead, Deadline, Typed, Records
    <3> QED BY <2>c, <3>1, <3>2 DEF StateWatched, RenewalOwes, Deadline, Cached, RenewsAhead
  <2>6. NegativeWatched'
    BY <2>c, <2>t, <2>a DEF NegativeWatched, Typed
  <2>7. RefreshingIsOwned'
    BY <2>c DEF RefreshingIsOwned, Phases, Typed
  <2>8. ParkedOnlyIfUnused'
    BY <2>c DEF ParkedOnlyIfUnused, Guarded, Worth, AccessWindow, RefreshLead, IsExpired,
        Typed
  <2> QED BY <2>1, <2>2, <2>3, <2>4, <2>5, <2>6, <2>7, <2>8
<1>10. ASSUME NEW t \in Firing, FireClaim(t)
      PROVE  TimersInv'
  <2> USE <1>10
  <2>a. AllTimers \ {t} \subseteq AllTimers'
    BY DEF FireClaim, AllTimers, workerVars
  <2>b. \A k, s : ArmedAt(k, s) /\ ~(Watches(t, k) /\ t.at = s) => ArmedAt(k, s)'
    BY <2>a DEF ArmedAt, Watches
  <2>t. t \in PositiveTimers /\ t.key \in Keys /\ t.at \in Nat \ {0}
        /\ t.at <= wnow /\ t.kind # "negative"
    BY DEF FireClaim, Firing, Typed, SomeTimers, PositiveTimers, NegativeTimers
  <2>c. PICK k \in Keys :
            /\ k = t.key /\ worker = "fire" /\ schedule' = schedule \ {t}
            /\ Cached(rec[k]) /\ ~IsDead(rec[k], wnow) /\ rec[k].timer = t.at
            /\ rec' = [rec EXCEPT ![k].timer = Claimed] /\ worker' = "judge" /\ cur' = t
            /\ UNCHANGED <<now, neg, arming, inbox, wnow, due, stale, task, hitting, repairing>>
    BY <2>t DEF FireClaim, Removable
  <2>d. rec' \in [Keys -> Records]
    BY <2>c, RecordFacts DEF Typed
  <2>1. Typed'
    BY <2>c, <2>t, <2>d DEF Typed
  <2>2. WorkerAt'
    BY <2>c, <2>t DEF WorkerAt, Cached, Claimed, Parked, Typed
  <2>3. PendingInTime'
    BY <2>c, <2>t DEF PendingInTime, Cached, Deadline, MaxOf, Claimed, Typed
  <2>4. NoneAhead'
    BY <2>c, <2>t DEF NoneAhead, Lapsed, Typed
  <2>5. StateWatched'
    <3>1. \A j, s : ArmedAt(j, s) /\ (j # k \/ s # t.at) => ArmedAt(j, s)'
      BY <2>b, <2>c DEF Watches
    <3>2. Deadline(rec[k]) # t.at
      BY <2>c, <2>t DEF IsDead, Deadline, Typed, Records
    <3> QED BY <2>c, <3>1, <3>2 DEF StateWatched, RenewalOwes, Deadline, Cached,
        RenewsAhead,
         Typed, Claimed, Parked, Lapsed
  <2>6. NegativeWatched'
    BY <2>c, <2>t, <2>a DEF NegativeWatched, NoExpiry, Typed
  <2>7. RefreshingIsOwned'
    BY <2>c, <2>t DEF RefreshingIsOwned, Phases, Typed
  <2>8. ParkedOnlyIfUnused'
    BY <2>c, <2>t DEF ParkedOnlyIfUnused, Guarded, Cached, Parked, IsExpired, Expires,
        Worth, AccessWindow, RefreshLead, Typed
  <2> QED BY <2>1, <2>2, <2>3, <2>4, <2>5, <2>6, <2>7, <2>8
<1>11. ASSUME NEW c \in due, GiveUp(c), Removable(rec[c.key], wnow)
      PROVE  TimersInv'
  <2> USE <1>11
  <2>a. AllTimers \subseteq AllTimers'
    BY DEF GiveUp, AllTimers, workerVars
  <2>b. \A j, s : ArmedAt(j, s) => ArmedAt(j, s)'
    BY <2>a DEF ArmedAt, Watches
  <2>c. PICK k \in Keys :
            /\ k = c.key /\ worker = "fire" /\ ~Guarded(k) /\ due' = due \ {c}
            /\ rec' = [rec EXCEPT ![k] = Absent]
            /\ UNCHANGED <<now, neg, arming, inbox, schedule, worker, wnow, cur, stale, task,
                           hitting, repairing>>
    BY DEF GiveUp, RemoveDead, Fired, Typed, Claims
  <2>1. Typed'
    BY <2>c, RecordFacts DEF Typed
  <2>2. WorkerAt'
    BY <2>c DEF WorkerAt, Cached, Claimed, Parked, Guarded, Absent, Typed
  <2>3. PendingInTime'
    BY <2>c DEF PendingInTime, Cached, Deadline, MaxOf, Claimed, Absent, Lapsed, Typed
  <2>4. NoneAhead'
    BY <2>c DEF NoneAhead, Lapsed, Absent, Typed
  <2>5. StateWatched'
    BY <2>c, <2>b DEF StateWatched, Cached, Deadline, RenewsAhead, RenewalOwes, Lapsed,
        Claimed, Parked, Absent, Typed
  <2>6. NegativeWatched'
    BY <2>c, <2>a DEF NegativeWatched, NoExpiry, Typed
  <2>7. RefreshingIsOwned'
    BY <2>c DEF RefreshingIsOwned, Phases, Absent, Typed
  <2>8. ParkedOnlyIfUnused'
    BY <2>c DEF ParkedOnlyIfUnused, Guarded, Cached, Parked, IsExpired, Expires, Worth,
        AccessWindow, RefreshLead, Absent, Typed
  <2> QED BY <2>1, <2>2, <2>3, <2>4, <2>5, <2>6, <2>7, <2>8
<1>12. ASSUME NEW c \in due, GiveUp(c), ~Removable(rec[c.key], wnow)
      PROVE  TimersInv'
  <2> USE <1>12
  <2>a. AllTimers \subseteq AllTimers'
    BY DEF GiveUp, AllTimers, workerVars
  <2>b. \A j, s : ArmedAt(j, s) => ArmedAt(j, s)'
    BY <2>a DEF ArmedAt, Watches
  <2>c. PICK k \in Keys :
            /\ k = c.key /\ worker = "fire" /\ due' = due \ {c} /\ c.deadline <= wnow
            /\ ~(Cached(rec[k]) /\ wnow >= Deadline(rec[k]))
            /\ UNCHANGED <<now, rec, neg, arming, inbox, schedule, worker, wnow, cur, stale,
                           task, hitting, repairing>>
    BY DEF GiveUp, RemoveDead, Removable, IsDead, Fired, Typed, Claims
  <2>1. Typed'
    BY <2>c DEF Typed
  <2>2. WorkerAt'
    BY <2>c DEF WorkerAt, Typed
  <2>3. PendingInTime'
    BY <2>c DEF PendingInTime, Typed
  <2>4. NoneAhead'
    BY <2>c DEF NoneAhead, Typed
  <2>5. StateWatched'
    <3>1. ASSUME NEW d \in due, NEW j \in Keys, Cached(rec[j]), d.key = j, d.deadline = Deadline(rec[j])
          PROVE  d \in due'
      BY <2>c, <3>1 DEF Deadline, Records, Claims, Typed
    <3> QED
      BY <2>c, <2>b, <3>1 DEF StateWatched, RenewalOwes
  <2>6. NegativeWatched'
    BY <2>c, <2>a DEF NegativeWatched, Typed
  <2>7. RefreshingIsOwned'
    BY <2>c DEF RefreshingIsOwned, Phases, Typed
  <2>8. ParkedOnlyIfUnused'
    BY <2>c DEF ParkedOnlyIfUnused, Guarded, Worth, AccessWindow, RefreshLead, IsExpired,
        Typed
  <2> QED BY <2>1, <2>2, <2>3, <2>4, <2>5, <2>6, <2>7, <2>8
<1>13. ASSUME WorkerRearm,
              rec[cur.key].kind # "absent" /\ RenewsAhead(rec[cur.key].ttl) /\ rec[cur.key].timer = Lapsed
      PROVE  TimersInv'
  <2> USE <1>13
  <2>a. AllTimers \subseteq AllTimers'
    BY DEF WorkerRearm, RearmLapsed, AllTimers, workerVars
  <2>b. \A j, s : ArmedAt(j, s) => ArmedAt(j, s)'
    BY <2>a DEF ArmedAt, Watches
  <2>k. PICK k \in Keys : k = cur.key /\ RearmLapsed(k)
    BY DEF WorkerRearm, WorkerAt, PositiveTimers
  <2>d. PICK at \in Nat \ {0} :
            /\ rec' = [rec EXCEPT ![k].timer = at]
            /\ arming' = arming \cup {Timer(k, at, "due")}
            /\ Cached(rec[k]) => at <= Deadline(rec[k])
    BY <2>k, RearmFacts
  <2>c. /\ worker = "rearm" /\ worker' = "idle" /\ cur' = NoTimer
        /\ UNCHANGED <<now, neg, inbox, schedule, wnow, due, stale, task, hitting, repairing>>
    BY DEF WorkerRearm
  <2>e. ArmedAt(k, at)'
    BY <2>d, ArmedNow
  <2>f. Timer(k, at, "due") \in PositiveTimers
    BY DEF PositiveTimers, Timer
  <2>g. rec' \in [Keys -> Records]
    BY <2>d, RecordFacts DEF Typed
  <2>1. Typed'
    BY <2>k, <2>c, <2>d, <2>f, <2>g DEF Typed, SomeTimers
  <2>2. WorkerAt'
    BY <2>k, <2>c, <2>d DEF WorkerAt, Cached, Claimed, Parked, Typed
  <2>3. PendingInTime'
    BY <2>k, <2>c, <2>d, SMTT(30) DEF PendingInTime, Cached, Deadline, MaxOf, Claimed, Records, Typed
  <2>4. NoneAhead'
    BY <2>k, <2>c, <2>d DEF NoneAhead, Lapsed, RenewsAhead, Typed
  <2>5. StateWatched'
    BY <2>k, <2>c, <2>d, <2>e, <2>b DEF StateWatched, Cached, Deadline, RenewsAhead,
        RenewalOwes, Lapsed, Claimed, Parked, Typed
  <2>6. NegativeWatched'
    BY <2>k, <2>c, <2>d, <2>a DEF NegativeWatched, NoExpiry, Typed
  <2>7. RefreshingIsOwned'
    BY <2>k, <2>c, <2>d DEF RefreshingIsOwned, Phases, Typed
  <2>8. ParkedOnlyIfUnused'
    BY <2>k, <2>c, <2>d DEF ParkedOnlyIfUnused, Guarded, Cached, Parked, IsExpired, Expires,
        Worth, AccessWindow, RefreshLead, Typed
  <2> QED BY <2>1, <2>2, <2>3, <2>4, <2>5, <2>6, <2>7, <2>8
<1>14. ASSUME WorkerRearm,
              ~(rec[cur.key].kind # "absent" /\ RenewsAhead(rec[cur.key].ttl) /\ rec[cur.key].timer = Lapsed)
      PROVE  TimersInv'
  <2> USE <1>14
  <2>a. AllTimers \subseteq AllTimers'
    BY DEF WorkerRearm, RearmLapsed, AllTimers, workerVars
  <2>b. \A j, s : ArmedAt(j, s) => ArmedAt(j, s)'
    BY <2>a DEF ArmedAt, Watches
  <2>c. /\ worker = "rearm" /\ worker' = "idle" /\ cur' = NoTimer
        /\ UNCHANGED <<rec, arming, now, neg, inbox, schedule, wnow, due, stale, task, hitting, repairing>>
    BY DEF WorkerRearm, RearmLapsed
  <2>1. Typed'
    BY <2>c DEF Typed
  <2>2. WorkerAt'
    BY <2>c DEF WorkerAt, Typed
  <2>3. PendingInTime'
    BY <2>c DEF PendingInTime, Typed
  <2>4. NoneAhead'
    BY <2>c DEF NoneAhead, Typed
  <2>5. StateWatched'
    BY <2>c, <2>b DEF StateWatched, RenewalOwes, Cached, Typed
  <2>6. NegativeWatched'
    BY <2>c, <2>a DEF NegativeWatched, Typed
  <2>7. RefreshingIsOwned'
    BY <2>c DEF RefreshingIsOwned, Phases, Typed
  <2>8. ParkedOnlyIfUnused'
    BY <2>c DEF ParkedOnlyIfUnused, Guarded, Worth, AccessWindow, RefreshLead, IsExpired,
        Typed
  <2> QED BY <2>1, <2>2, <2>3, <2>4, <2>5, <2>6, <2>7, <2>8
<1> QED BY <1>1, <1>2, <1>3, <1>4, <1>5, <1>6, <1>7, <1>8, <1>9, <1>10, <1>11, <1>12, <1>13,
    <1>14 DEF Tick

\* Handing a repair or a claim to a renewal keeps TimersInv: the claim it takes is
\* spent on a renewal that arms the entry again, or by the worker itself.
LEMMA StartKeepsTimers ==
    ASSUME TimersInv, UNCHANGED settings, NEW p \in Permits, Start(p)
    PROVE  TimersInv'
<1> USE DEF TimersInv
<1>1. CASE StartRepair(p)
  <2> USE <1>1
  <2>a. AllTimers \subseteq AllTimers'
    BY DEF StartRepair, AllTimers, workerVars
  <2>b. \A j, s : ArmedAt(j, s) => ArmedAt(j, s)'
    BY <2>a DEF ArmedAt, Watches
  <2>c. PICK x \in Tasks :
            /\ x = [phase |-> "resolve", key |-> Head(stale), origin |-> "stale"]
            /\ worker = "idle" /\ task[p] = NoTask /\ stale # <<>> /\ stale' = Tail(stale)
            /\ task' = [task EXCEPT ![p] = x]
            /\ UNCHANGED <<now, rec, neg, arming, inbox, schedule, worker, wnow, cur, due,
                           hitting, repairing>>
    <3>1. Head(stale) \in Keys
      BY DEF StartRepair, Typed
    <3>2. "stale" \in Origins
      BY DEF Origins
    <3>3. [phase |-> "resolve", key |-> Head(stale), origin |-> "stale"] \in Tasks
      BY <3>1, <3>2, MakesTasks
    <3> QED BY <3>3 DEF StartRepair, workerVars
  <2>d. NoTask.phase = "free" /\ "free" \notin Phases
    BY DEF NoTask, Phases
  <2>e. \A i \in DOMAIN stale : i = 1 \/ (i - 1 \in DOMAIN stale' /\ stale'[i - 1] = stale[i])
    BY <2>c DEF Typed
  <2>1. Typed'
    BY <2>c DEF Typed
  <2>2. WorkerAt'
    BY <2>c DEF WorkerAt, Typed
  <2>3. PendingInTime'
    BY <2>c DEF PendingInTime, Typed
  <2>4. NoneAhead'
    BY <2>c DEF NoneAhead, Typed
  <2>5. StateWatched'
    BY <2>c, <2>d, <2>b, ZenonT(60) DEF StateWatched, RenewalOwes, Typed
  <2>6. NegativeWatched'
    BY <2>c, <2>a DEF NegativeWatched, Typed
  <2>7. RefreshingIsOwned'
    <3> SUFFICES ASSUME NEW k \in Keys, rec[k].refreshing = "yes"
                 PROVE  \/ k \in repairing
                        \/ \E i \in DOMAIN stale' : stale'[i] = k
                        \/ \E q \in Permits : task'[q].phase \in Phases /\ task'[q].key = k
      BY <2>c DEF RefreshingIsOwned, Phases
    <3>1. CASE \E i \in DOMAIN stale : stale[i] = k
      <4>1. PICK i \in DOMAIN stale : stale[i] = k
        BY <3>1
      <4>2. CASE i = 1
        BY <4>1, <4>2, <2>c DEF Typed, Phases
      <4>3. CASE i # 1
        BY <4>1, <4>3, <2>e
      <4> QED BY <4>2, <4>3
    <3>2. CASE \E q \in Permits : task[q].phase \in Phases /\ task[q].key = k
      BY <3>2, <2>c, <2>d DEF Typed
    <3> QED BY <3>1, <3>2 DEF RefreshingIsOwned
  <2>8. ParkedOnlyIfUnused'
    BY <2>c DEF ParkedOnlyIfUnused, Guarded, Worth, AccessWindow, RefreshLead, IsExpired,
        Typed
  <2> QED BY <2>1, <2>2, <2>3, <2>4, <2>5, <2>6, <2>7, <2>8
<1>2. ASSUME NEW c \in due, StartClaim(p, c), ~Cached(rec[c.key]) \/ rec[c.key].timer # Claimed
      PROVE  TimersInv'
  <2> USE <1>2
  <2>c. PICK k \in Keys :
            /\ k = c.key /\ worker = "idle" /\ task[p] = NoTask /\ stale = <<>> /\ c \in due
            /\ due' = due \ {c}
            /\ UNCHANGED <<rec, task, worker, cur>>
            /\ UNCHANGED <<now, neg, arming, inbox, schedule, wnow, stale, hitting, repairing>>
    BY DEF StartClaim, Typed, Claims
  <2>d. NoTask.phase = "free" /\ "free" \notin Phases
    BY DEF NoTask, Phases
  <2>e. RenewAhead = TRUE
    BY <2>c, TimersAssumption DEF NoneAhead
  <2>a. AllTimers \subseteq AllTimers'
    BY <2>c, <2>e DEF AllTimers
  <2>b. \A j, s : ArmedAt(j, s) => ArmedAt(j, s)'
    BY <2>a DEF ArmedAt, Watches
  <2>1. Typed'
    BY <2>c, <2>e DEF Typed
  <2>2. WorkerAt'
    BY <2>c, <2>e DEF WorkerAt, Typed
  <2>3. PendingInTime'
    BY <2>c, <2>e DEF PendingInTime, Typed
  <2>4. NoneAhead'
    BY <2>c, <2>e DEF NoneAhead, Typed
  <2>5. StateWatched'
    BY <2>c, <2>e, <2>b DEF StateWatched, RenewalOwes, Typed
  <2>6. NegativeWatched'
    BY <2>c, <2>e, <2>a DEF NegativeWatched, Typed
  <2>7. RefreshingIsOwned'
    BY <2>c, <2>e DEF RefreshingIsOwned, Phases, Typed
  <2>8. ParkedOnlyIfUnused'
    BY <2>c, <2>e DEF ParkedOnlyIfUnused, Guarded, Worth, AccessWindow, RefreshLead,
        IsExpired, Typed
  <2> QED BY <2>1, <2>2, <2>3, <2>4, <2>5, <2>6, <2>7, <2>8
<1>3. ASSUME NEW c \in due, StartClaim(p, c), Cached(rec[c.key]), rec[c.key].timer = Claimed,
             Removable(rec[c.key], now)
      PROVE  TimersInv'
  <2> USE <1>3
  <2>c. PICK k \in Keys :
            /\ k = c.key /\ worker = "idle" /\ task[p] = NoTask /\ stale = <<>> /\ c \in due
            /\ due' = due \ {c}
            /\ rec' = [rec EXCEPT ![k] = Absent] /\ ~Guarded(k) /\ UNCHANGED <<task, worker,
                                                                               cur>>
            /\ UNCHANGED <<now, neg, arming, inbox, schedule, wnow, stale, hitting, repairing>>
    BY DEF StartClaim, RemoveDead, Typed, Claims
  <2>d. NoTask.phase = "free" /\ "free" \notin Phases
    BY DEF NoTask, Phases
  <2>e. RenewAhead = TRUE
    BY <2>c, TimersAssumption DEF NoneAhead
  <2>a. AllTimers \subseteq AllTimers'
    BY <2>c, <2>e DEF AllTimers
  <2>b. \A j, s : ArmedAt(j, s) => ArmedAt(j, s)'
    BY <2>a DEF ArmedAt, Watches
  <2>1. Typed'
    BY <2>c, <2>e, RecordFacts DEF Typed
  <2>2. WorkerAt'
    BY <2>c, <2>e DEF WorkerAt, Cached, Claimed, Parked, Guarded, Absent, Typed
  <2>3. PendingInTime'
    BY <2>c, <2>e DEF PendingInTime, Cached, Deadline, MaxOf, Claimed, Absent, Lapsed, Typed
  <2>4. NoneAhead'
    BY <2>c, <2>e DEF NoneAhead, Lapsed, Absent, Typed
  <2>5. StateWatched'
    BY <2>c, <2>e, <2>b DEF StateWatched, Cached, Deadline, RenewsAhead, RenewalOwes,
        Lapsed, Claimed, Parked, Absent, Typed
  <2>6. NegativeWatched'
    BY <2>c, <2>e, <2>a DEF NegativeWatched, NoExpiry, Typed
  <2>7. RefreshingIsOwned'
    BY <2>c, <2>e DEF RefreshingIsOwned, Phases, Absent, Typed
  <2>8. ParkedOnlyIfUnused'
    BY <2>c, <2>e DEF ParkedOnlyIfUnused, Guarded, Cached, Parked, IsExpired, Expires,
        Worth, AccessWindow, RefreshLead, Absent, Typed
  <2> QED BY <2>1, <2>2, <2>3, <2>4, <2>5, <2>6, <2>7, <2>8
<1>4. ASSUME NEW c \in due, StartClaim(p, c), Cached(rec[c.key]), rec[c.key].timer = Claimed,
             ~Removable(rec[c.key], now), rec[c.key].refreshing = "no"
      PROVE  TimersInv'
  <2> USE <1>4
  <2>c. PICK k \in Keys :
            /\ k = c.key /\ worker = "idle" /\ task[p] = NoTask /\ stale = <<>> /\ c \in due
            /\ due' = due \ {c}
            /\ rec' = [rec EXCEPT ![k].timer = Lapsed, ![k].refreshing = "yes"]
            /\ task' = [task EXCEPT ![p] = [phase |-> "resolve", key |-> k,
                                           origin |-> IF c.retry THEN "retry" ELSE "due"]]
            /\ UNCHANGED <<worker, cur>>
            /\ UNCHANGED <<now, neg, arming, inbox, schedule, wnow, stale, hitting, repairing>>
    BY DEF StartClaim, Typed, Claims
  <2>d. NoTask.phase = "free" /\ "free" \notin Phases
    BY DEF NoTask, Phases
  <2>e. RenewAhead = TRUE
    BY <2>c, TimersAssumption DEF NoneAhead
  <2>r. PICK r \in Records :
            /\ rec' = [rec EXCEPT ![k] = r] /\ r.timer = Lapsed
            /\ r.kind = rec[k].kind /\ r.ins = rec[k].ins /\ r.ttl = rec[k].ttl
    <3> DEFINE r == [rec[k] EXCEPT !.timer = Lapsed, !.refreshing = "yes"]
    <3>1. rec' = [rec EXCEPT ![k] = r]
      BY <2>c
    <3>2. r \in Records /\ r.timer = Lapsed /\ r.kind = rec[k].kind /\ r.ins = rec[k].ins
          /\ r.ttl = rec[k].ttl
      <4>1. rec[k] \in Records /\ Lapsed \in Int
        BY <2>c DEF Typed, Lapsed
      <4> QED BY <4>1 DEF Records
    <3> HIDE DEF r
    <3> QED BY <2>c, <3>1, <3>2
  <2>s. PICK x \in Tasks : task' = [task EXCEPT ![p] = x] /\ x.phase = "resolve" /\ x.key = k
    <3> DEFINE o == IF c.retry THEN "retry" ELSE "due"
    <3>1. o \in Origins
      BY DEF Origins
    <3>2. task' = [task EXCEPT ![p] = [phase |-> "resolve", key |-> k, origin |-> o]]
      BY <2>c
    <3> HIDE DEF o
    <3>3. [phase |-> "resolve", key |-> k, origin |-> o] \in Tasks
      BY <2>c, <3>1, MakesTasks
    <3> QED BY <3>2, <3>3
  <2>u. /\ UNCHANGED <<now, neg, arming, inbox, schedule, worker, wnow, cur, stale, hitting, repairing>>
        /\ worker = "idle" /\ task[p] = NoTask /\ due' = due \ {c} /\ k = c.key
        /\ k \in Keys
    BY <2>c
  <2>a. AllTimers \subseteq AllTimers'
    BY <2>r, <2>s, <2>u, <2>e DEF AllTimers
  <2>b. \A j, s : ArmedAt(j, s) => ArmedAt(j, s)'
    BY <2>a DEF ArmedAt, Watches
  <2>1. Typed'
    BY <2>r, <2>s, <2>u, <2>e DEF Typed
  <2>2. WorkerAt'
    BY <2>r, <2>s, <2>u, <2>e DEF WorkerAt, Cached, Claimed, Parked, Typed
  <2>3. PendingInTime'
    BY <2>r, <2>s, <2>u, <2>e DEF PendingInTime, Cached, Deadline, MaxOf, Claimed, Lapsed,
        Typed
  <2>4. NoneAhead'
    BY <2>r, <2>s, <2>u, <2>e DEF NoneAhead, Lapsed, Typed
  <2>5. StateWatched'
    BY <2>r, <2>s, <2>u, <2>e, <2>d, <2>b, SMTT(30) DEF StateWatched, Cached, Deadline, RenewsAhead,
        RenewalOwes, Lapsed, Claimed, Parked, Typed
  <2>6. NegativeWatched'
    BY <2>r, <2>s, <2>u, <2>e, <2>a DEF NegativeWatched, NoExpiry, Typed
  <2>7. RefreshingIsOwned'
    BY <2>r, <2>s, <2>u, <2>e, <2>d, ZenonT(60) DEF RefreshingIsOwned, Phases, Typed
  <2>8. ParkedOnlyIfUnused'
    BY <2>r, <2>s, <2>u, <2>e DEF ParkedOnlyIfUnused, Guarded, Cached, Parked, IsExpired,
        Expires, Worth, AccessWindow, RefreshLead, Lapsed, Typed
  <2> QED BY <2>1, <2>2, <2>3, <2>4, <2>5, <2>6, <2>7, <2>8
<1>5. ASSUME NEW c \in due, StartClaim(p, c), Cached(rec[c.key]), rec[c.key].timer = Claimed,
             ~Removable(rec[c.key], now), rec[c.key].refreshing # "no"
      PROVE  TimersInv'
  <2> USE <1>5
  <2>c. PICK k \in Keys :
            /\ k = c.key /\ worker = "idle" /\ task[p] = NoTask /\ stale = <<>> /\ c \in due
            /\ due' = due \ {c}
            /\ rec' = [rec EXCEPT ![k].timer = Lapsed]
            /\ worker' = "rearm" /\ cur' = Timer(k, now, "due") /\ UNCHANGED task
            /\ UNCHANGED <<now, neg, arming, inbox, schedule, wnow, stale, hitting, repairing>>
    BY DEF StartClaim, Typed, Claims
  <2>d. NoTask.phase = "free" /\ "free" \notin Phases
    BY DEF NoTask, Phases
  <2>e. RenewAhead = TRUE
    BY <2>c, TimersAssumption DEF NoneAhead
  <2>r. rec' \in [Keys -> Records]
    BY <2>c, RecordFacts DEF Typed
  <2>s. cur' \in PositiveTimers /\ cur'.key = k
    BY <2>c DEF Typed, PositiveTimers, Timer
  <2>a. AllTimers \subseteq AllTimers'
    BY <2>c, <2>e DEF AllTimers
  <2>b. \A j, s : ArmedAt(j, s) => ArmedAt(j, s)'
    BY <2>a DEF ArmedAt, Watches
  <2>1. Typed'
    BY <2>c, <2>e, <2>r DEF Typed
  <2>2. WorkerAt'
    BY <2>c, <2>e, <2>s DEF WorkerAt, Cached, Claimed, Parked, Typed
  <2>3. PendingInTime'
    BY <2>c, <2>e DEF PendingInTime, Cached, Deadline, MaxOf, Claimed, Lapsed, Typed
  <2>4. NoneAhead'
    BY <2>c, <2>e DEF NoneAhead, Lapsed, Typed
  <2>5. StateWatched'
    BY <2>c, <2>e, <2>s, <2>b DEF StateWatched, Cached, Deadline, RenewsAhead, RenewalOwes,
        Lapsed, Claimed, Parked, Typed
  <2>6. NegativeWatched'
    BY <2>c, <2>e, <2>a DEF NegativeWatched, NoExpiry, Typed
  <2>7. RefreshingIsOwned'
    BY <2>c, <2>e DEF RefreshingIsOwned, Phases, Typed
  <2>8. ParkedOnlyIfUnused'
    BY <2>c, <2>e DEF ParkedOnlyIfUnused, Guarded, Cached, Parked, IsExpired, Expires,
        Worth, AccessWindow, RefreshLead, Lapsed, Typed
  <2> QED BY <2>1, <2>2, <2>3, <2>4, <2>5, <2>6, <2>7, <2>8
<1> QED BY <1>1, <1>2, <1>3, <1>4, <1>5 DEF Start

\* The steps of a renewal keep TimersInv: it renews the entry, or arms it again
\* before it lets go of it.
LEMMA RefreshKeepsTimers ==
    ASSUME TimersInv, UNCHANGED settings, NEW p \in Permits, Refresh(p)
    PROVE  TimersInv'
<1> USE DEF TimersInv
<1>1. ASSUME NEW outcome \in {"kept", "servfail", "failed"}, ResolveNothing(p, outcome)
      PROVE  TimersInv'
  <2> USE <1>1
  <2>a. AllTimers \subseteq AllTimers'
    BY DEF ResolveNothing, AllTimers, workerVars
  <2>b. \A j, s : ArmedAt(j, s) => ArmedAt(j, s)'
    BY <2>a DEF ArmedAt, Watches
  <2>o. PICK o \in Origins : o = task[p].origin
    BY TaskFacts DEF ResolveNothing, Running, Typed
  <2>c. PICK k \in Keys :
            /\ k = task[p].key /\ task[p].phase = "resolve"
            /\ UNCHANGED <<rec, arming, now, neg, inbox, schedule, worker, wnow, cur, due,
                           stale, hitting, repairing>>
    BY TaskFacts DEF ResolveNothing, Running, Typed, workerVars
  <2>x. PICK x \in Tasks :
            /\ task' = [task EXCEPT ![p] = x] /\ x.phase = "follow_up" /\ x.key = k /\ x.origin = o
    <3>1. [phase |-> "follow_up", key |-> k, origin |-> o, outcome |-> outcome] \in Tasks
      BY <2>c, MakesTasks DEF RenewalOutcomes
    <3>2. task' = [task EXCEPT ![p] = [phase |-> "follow_up", key |-> k, origin |-> o,
                                       outcome |-> outcome]]
      BY <2>o, <2>c DEF ResolveNothing
    <3> QED BY <3>1, <3>2
  <2>1. Typed'
    BY <2>o, <2>c, <2>x DEF Typed
  <2>2. WorkerAt'
    BY <2>o, <2>c, <2>x DEF WorkerAt, Typed
  <2>3. PendingInTime'
    BY <2>o, <2>c, <2>x DEF PendingInTime, Typed
  <2>4. NoneAhead'
    BY <2>o, <2>c, <2>x DEF NoneAhead, Typed
  <2>5. StateWatched'
    BY <2>o, <2>c, <2>x, <2>b DEF StateWatched, RenewalOwes, Typed
  <2>6. NegativeWatched'
    BY <2>o, <2>c, <2>x, <2>a DEF NegativeWatched, Typed
  <2>7. RefreshingIsOwned'
    BY <2>o, <2>c, <2>x DEF RefreshingIsOwned, Phases, Typed
  <2>8. ParkedOnlyIfUnused'
    BY <2>o, <2>c, <2>x DEF ParkedOnlyIfUnused, Guarded, Worth, AccessWindow, RefreshLead,
        IsExpired, Typed
  <2> QED BY <2>1, <2>2, <2>3, <2>4, <2>5, <2>6, <2>7, <2>8
<1>2. CASE ResolveBogus(p)
  <2> USE <1>2
  <2>a. AllTimers \subseteq AllTimers'
    BY DEF ResolveBogus, AllTimers, workerVars
  <2>b. \A j, s : ArmedAt(j, s) => ArmedAt(j, s)'
    BY <2>a DEF ArmedAt, Watches
  <2>o. PICK o \in Origins : o = task[p].origin
    BY TaskFacts DEF ResolveBogus, Running, Typed
  <2>c. PICK k \in Keys :
            /\ k = task[p].key /\ task[p].phase = "resolve"
            /\ UNCHANGED <<arming, now, neg, inbox, schedule, worker, wnow, cur, due, stale,
                           hitting, repairing>>
    BY TaskFacts DEF ResolveBogus, Running, Typed, workerVars
  <2>x. PICK x \in Tasks :
            /\ task' = [task EXCEPT ![p] = x] /\ x.phase = "follow_up" /\ x.key = k /\ x.origin = o
    <3>1. [phase |-> "follow_up", key |-> k, origin |-> o, outcome |-> "removed"] \in Tasks
      BY <2>c, MakesTasks DEF RenewalOutcomes
    <3>2. task' = [task EXCEPT ![p] = [phase |-> "follow_up", key |-> k, origin |-> o,
                                       outcome |-> "removed"]]
      BY <2>o, <2>c DEF ResolveBogus
    <3> QED BY <3>1, <3>2
  <2>d. rec' = [rec EXCEPT ![k] = Absent] /\ ~Guarded(k)
    BY <2>c DEF ResolveBogus
  <2>1. Typed'
    BY <2>o, <2>c, <2>x, <2>d, RecordFacts DEF Typed
  <2>2. WorkerAt'
    BY <2>o, <2>c, <2>x, <2>d DEF WorkerAt, Cached, Claimed, Parked, Guarded, Absent, Typed
  <2>3. PendingInTime'
    BY <2>o, <2>c, <2>x, <2>d DEF PendingInTime, Cached, Deadline, MaxOf, Claimed, Absent,
        Lapsed, Typed
  <2>4. NoneAhead'
    BY <2>o, <2>c, <2>x, <2>d DEF NoneAhead, Lapsed, Absent, Typed
  <2>5. StateWatched'
    BY <2>o, <2>c, <2>x, <2>d, <2>b DEF StateWatched, Cached, Deadline, RenewsAhead,
        RenewalOwes, Lapsed, Claimed, Parked, Absent, Typed
  <2>6. NegativeWatched'
    BY <2>o, <2>c, <2>x, <2>d, <2>a DEF NegativeWatched, NoExpiry, Typed
  <2>7. RefreshingIsOwned'
    BY <2>o, <2>c, <2>x, <2>d DEF RefreshingIsOwned, Phases, Absent, Typed
  <2>8. ParkedOnlyIfUnused'
    BY <2>o, <2>c, <2>x, <2>d DEF ParkedOnlyIfUnused, Guarded, Cached, Parked, IsExpired,
        Expires, Worth, AccessWindow, RefreshLead, Absent, Typed
  <2> QED BY <2>1, <2>2, <2>3, <2>4, <2>5, <2>6, <2>7, <2>8
<1>3. ASSUME NEW ttl \in TTLs, NEW positive \in BOOLEAN, ResolveAnswer(p, ttl, positive)
      PROVE  TimersInv'
  <2> USE <1>3
  <2>a. AllTimers \subseteq AllTimers'
    BY DEF ResolveAnswer, AllTimers, workerVars
  <2>b. \A j, s : ArmedAt(j, s) => ArmedAt(j, s)'
    BY <2>a DEF ArmedAt, Watches
  <2>o. PICK o \in Origins : o = task[p].origin
    BY TaskFacts DEF ResolveAnswer, Running, Typed
  <2>c. PICK k \in Keys :
            /\ k = task[p].key /\ task[p].phase = "resolve"
            /\ UNCHANGED <<rec, arming, now, neg, inbox, schedule, worker, wnow, cur, due,
                           stale, hitting, repairing>>
    BY TaskFacts DEF ResolveAnswer, Running, Typed, workerVars
  <2>t. ttl \in Nat
    BY SettingsFacts DEF Typed
  <2>x. PICK x \in Tasks :
            /\ task' = [task EXCEPT ![p] = x] /\ x.phase \in {"store", "follow_up"}
            /\ x.key = k /\ x.origin = o
    <3>1. /\ [phase |-> "follow_up", key |-> k, origin |-> o, outcome |-> "declined"] \in Tasks
          /\ [phase |-> "store", key |-> k, origin |-> o, ttl |-> ttl] \in Tasks
      BY <2>c, <2>t, MakesTasks DEF RenewalOutcomes
    <3>2. \/ task' = [task EXCEPT ![p] = [phase |-> "follow_up", key |-> k, origin |-> o,
                                          outcome |-> "declined"]]
          \/ task' = [task EXCEPT ![p] = [phase |-> "store", key |-> k, origin |-> o,
                                          ttl |-> ttl]]
      BY <2>o, <2>c DEF ResolveAnswer
    <3> QED BY <3>1, <3>2
  <2>1. Typed'
    BY <2>o, <2>c, <2>x DEF Typed
  <2>2. WorkerAt'
    BY <2>o, <2>c, <2>x DEF WorkerAt, Typed
  <2>3. PendingInTime'
    BY <2>o, <2>c, <2>x DEF PendingInTime, Typed
  <2>4. NoneAhead'
    BY <2>o, <2>c, <2>x DEF NoneAhead, Typed
  <2>5. StateWatched'
    BY <2>o, <2>c, <2>x, <2>b DEF StateWatched, RenewalOwes, Typed
  <2>6. NegativeWatched'
    BY <2>o, <2>c, <2>x, <2>a DEF NegativeWatched, Typed
  <2>7. RefreshingIsOwned'
    BY <2>o, <2>c, <2>x DEF RefreshingIsOwned, Phases, Typed
  <2>8. ParkedOnlyIfUnused'
    BY <2>o, <2>c, <2>x DEF ParkedOnlyIfUnused, Guarded, Worth, AccessWindow, RefreshLead,
        IsExpired, Typed
  <2> QED BY <2>1, <2>2, <2>3, <2>4, <2>5, <2>6, <2>7, <2>8
<1>4. ASSUME Renew(p), Cached(rec[task[p].key]), rec[task[p].key].marked = "no"
      PROVE  TimersInv'
  <2> USE <1>4
  <2>a. AllTimers \subseteq AllTimers'
    BY DEF Renew, AllTimers, workerVars
  <2>b. \A j, s : ArmedAt(j, s) => ArmedAt(j, s)'
    BY <2>a DEF ArmedAt, Watches
  <2>o. PICK o \in Origins : o = task[p].origin
    BY TaskFacts DEF Renew, Running, Typed
  <2>c. PICK k \in Keys :
            /\ k = task[p].key /\ task[p].phase = "store"
            /\ UNCHANGED <<now, neg, inbox, schedule, worker, wnow, cur, due, stale, hitting, repairing>>
    BY TaskFacts DEF Renew, Running, Typed, workerVars
  <2>t. PICK ttl \in Nat : ttl = task[p].ttl
    BY <2>c, TaskFacts DEF Typed
  <2>d. PICK at \in Nat \ {0}, pending \in Nat :
            /\ at = FirstTimerAt(ttl) /\ pending = FirstPending(ttl)
            /\ RenewsAhead(ttl) => pending = at /\ pending <= now + 2 * ttl
            /\ ~RenewsAhead(ttl) => pending = Lapsed /\ at = now + 2 * ttl
    BY FirstTimerFacts DEF Typed
  <2>x. /\ task' = [task EXCEPT ![p] = NoTask] /\ ~Guarded(k)
        /\ arming' = arming \cup {Timer(k, at, "due")}
        /\ NoTask.phase = "free"
    BY <2>c, <2>t, <2>d DEF Renew, NoTask
  <2>r. PICK r \in Records :
            /\ rec' = [rec EXCEPT ![k] = r]
            /\ r.kind = rec[k].kind /\ r.ins = now /\ r.ttl = ttl /\ r.timer = pending
            /\ r.refreshing = "no"
    <3> DEFINE r == [rec[k] EXCEPT !.ins = now, !.ttl = ttl, !.timer = pending, !.refreshing = "no"]
    <3>1. rec' = [rec EXCEPT ![k] = r]
      BY <2>c, <2>t, <2>d DEF Renew
    <3>2. rec[k] \in Records /\ now \in Nat /\ pending \in Int
      BY <2>c DEF Typed
    <3>3. r \in Records /\ r.kind = rec[k].kind /\ r.ins = now /\ r.ttl = ttl /\ r.timer = pending
          /\ r.refreshing = "no"
      BY <3>2 DEF Records
    <3> HIDE DEF r
    <3> QED BY <3>1, <3>3
  <2>y. RenewsAhead(ttl) => pending = at /\ pending <= now + 2 * ttl
    BY <2>d
  <2>e. ArmedAt(k, at)'
    BY <2>x, ArmedNow
  <2>f. Timer(k, at, "due") \in PositiveTimers /\ NoTask \in Tasks
    BY DEF PositiveTimers, Timer, Tasks
  <2>1. Typed'
    BY <2>c, <2>x, <2>r, <2>y, <2>f DEF Typed, SomeTimers
  <2>2. WorkerAt'
    BY <2>c, <2>x, <2>r, <2>y DEF WorkerAt, Cached, Claimed, Parked, Guarded, Typed
  <2>3. PendingInTime'
    BY <2>c, <2>x, <2>r, <2>y, <2>d DEF PendingInTime, Cached, Deadline, MaxOf, Claimed,
        Lapsed, Typed
  <2>4. NoneAhead'
    BY <2>c, <2>x, <2>r, <2>y, <2>d DEF NoneAhead, Lapsed, RenewsAhead, Typed
  <2>5. StateWatched'
    BY <2>c, <2>x, <2>r, <2>y, <2>d, <2>e, <2>b DEF StateWatched, Cached, Deadline,
        RenewalOwes, Lapsed, Claimed, Parked, Typed
  <2>6. NegativeWatched'
    BY <2>c, <2>x, <2>r, <2>y, <2>a DEF NegativeWatched, NoExpiry, Typed
  <2>7. RefreshingIsOwned'
    BY <2>c, <2>x, <2>r, <2>y DEF RefreshingIsOwned, Phases, Typed
  <2>8. ParkedOnlyIfUnused'
    BY <2>c, <2>x, <2>r, <2>y DEF ParkedOnlyIfUnused, Guarded, Cached, Parked, IsExpired,
        Expires, Worth, AccessWindow, RefreshLead, Lapsed, Typed
  <2> QED BY <2>1, <2>2, <2>3, <2>4, <2>5, <2>6, <2>7, <2>8
<1>5. ASSUME Renew(p), ~(Cached(rec[task[p].key]) /\ rec[task[p].key].marked = "no")
      PROVE  TimersInv'
  <2> USE <1>5
  <2>a. AllTimers \subseteq AllTimers'
    BY DEF Renew, AllTimers, workerVars
  <2>b. \A j, s : ArmedAt(j, s) => ArmedAt(j, s)'
    BY <2>a DEF ArmedAt, Watches
  <2>o. PICK o \in Origins : o = task[p].origin
    BY TaskFacts DEF Renew, Running, Typed
  <2>c. PICK k \in Keys :
            /\ k = task[p].key /\ task[p].phase = "store"
            /\ UNCHANGED <<rec, arming, now, neg, inbox, schedule, worker, wnow, cur, due,
                           stale, hitting, repairing>>
    BY TaskFacts DEF Renew, Running, Typed, workerVars
  <2>x. PICK x \in Tasks :
            /\ task' = [task EXCEPT ![p] = x] /\ x.phase = "follow_up" /\ x.key = k /\ x.origin = o
    <3>1. [phase |-> "follow_up", key |-> k, origin |-> o, outcome |-> "kept"] \in Tasks
      BY <2>c, MakesTasks DEF RenewalOutcomes
    <3>2. task' = [task EXCEPT ![p] = [phase |-> "follow_up", key |-> k, origin |-> o,
                                       outcome |-> "kept"]]
      BY <2>o, <2>c DEF Renew
    <3> QED BY <3>1, <3>2
  <2>1. Typed'
    BY <2>o, <2>c, <2>x DEF Typed
  <2>2. WorkerAt'
    BY <2>o, <2>c, <2>x DEF WorkerAt, Typed
  <2>3. PendingInTime'
    BY <2>o, <2>c, <2>x DEF PendingInTime, Typed
  <2>4. NoneAhead'
    BY <2>o, <2>c, <2>x DEF NoneAhead, Typed
  <2>5. StateWatched'
    BY <2>o, <2>c, <2>x, <2>b DEF StateWatched, RenewalOwes, Typed
  <2>6. NegativeWatched'
    BY <2>o, <2>c, <2>x, <2>a DEF NegativeWatched, Typed
  <2>7. RefreshingIsOwned'
    BY <2>o, <2>c, <2>x DEF RefreshingIsOwned, Phases, Typed
  <2>8. ParkedOnlyIfUnused'
    BY <2>o, <2>c, <2>x DEF ParkedOnlyIfUnused, Guarded, Worth, AccessWindow, RefreshLead,
        IsExpired, Typed
  <2> QED BY <2>1, <2>2, <2>3, <2>4, <2>5, <2>6, <2>7, <2>8
<1>6. ASSUME FollowUp(p), rec' # rec
      PROVE  TimersInv'
  <2> USE <1>6
  <2>o. PICK o \in Origins, ending \in RenewalOutcomes : o = task[p].origin /\ ending = task[p].outcome
    BY TaskFacts DEF FollowUp, Running, Typed
  <2>c. PICK k \in Keys :
            /\ k = task[p].key /\ task[p].phase = "follow_up"
            /\ UNCHANGED <<now, neg, inbox, schedule, worker, wnow, cur, due, stale, hitting, repairing>>
    BY TaskFacts DEF FollowUp, Running, Typed, workerVars
  <2>m. PICK left \in Nat : left = Remaining(rec[k], now)
                            /\ (Cached(rec[k]) => now + left <= MaxOf(Deadline(rec[k]), now))
    BY <2>c, RemainingFacts DEF Typed
  <2>i. PICK in \in {-1} \cup 0..left :
            /\ in = RetryIn(o, ending, left)
            /\ o = "stale" => in = -1
    BY RetryInFacts
  <2>x. PICK x \in Tasks : task' = [task EXCEPT ![p] = x] /\ x.phase = "reset" /\ x.key = k
    BY <2>o, <2>c, MakesTasks DEF FollowUp
  <2>j. (in >= 0 => ScheduleRetry(k, in)) /\ (in < 0 => RearmLapsed(k))
    <3>1. in = RetryIn(task[p].origin, task[p].outcome, Remaining(rec[task[p].key], now))
      BY <2>o, <2>c, <2>m, <2>i
    <3>2. IF in >= 0 THEN ScheduleRetry(task[p].key, in) ELSE RearmLapsed(task[p].key)
      BY <3>1, Zenon DEF FollowUp
    <3> QED BY <2>c, <2>i, <3>2
  <2>d. PICK at \in Nat \ {0}, kind \in {"due", "retry"} :
            /\ rec' = [rec EXCEPT ![k].timer = at] /\ rec[k].timer = Lapsed
            /\ arming' = arming \cup {Timer(k, at, kind)}
            /\ Cached(rec[k]) => at <= MaxOf(Deadline(rec[k]), now)
            /\ RenewAhead = TRUE
    <3>1. CASE in >= 0
      <4>1. rec' = [rec EXCEPT ![k].timer = now + in] /\ rec[k].timer = Lapsed
            /\ arming' = arming \cup {Timer(k, now + in, "retry")}
        BY <3>1, <2>j DEF ScheduleRetry
      <4>2. now + in \in Nat \ {0}
        BY <3>1 DEF Typed
      <4>3. Cached(rec[k]) => now + in <= MaxOf(Deadline(rec[k]), now)
        BY <3>1, <2>m, <2>i, SMTT(30) DEF Typed, MaxOf, Deadline, Records
      <4>4. RenewAhead = TRUE
        <5>1. o # "stale"
          BY <3>1, <2>i
        <5>2. ~RenewAhead => task[p].origin = "stale"
          BY <2>c DEF NoneAhead
        <5> QED BY <5>1, <5>2, <2>o, TimersAssumption
      <4> QED BY <4>1, <4>2, <4>3, <4>4
    <3>2. CASE ~(in >= 0)
      <4>1. RearmLapsed(k)
        BY <3>2, <2>i, <2>j
      <4>2. PICK at \in Nat \ {0} :
                /\ rec' = [rec EXCEPT ![k].timer = at]
                /\ arming' = arming \cup {Timer(k, at, "due")}
                /\ Cached(rec[k]) => at <= Deadline(rec[k])
                /\ rec[k].timer = Lapsed /\ RenewsAhead(rec[k].ttl)
        BY <4>1, RearmFacts
      <4>3. Cached(rec[k]) => at <= MaxOf(Deadline(rec[k]), now)
        BY <4>2, <2>c DEF Typed, MaxOf, Deadline, Records
      <4> QED BY <4>2, <4>3, TimersAssumption DEF RenewsAhead
    <3> QED BY <3>1, <3>2
  <2>e. ArmedAt(k, at)'
    BY <2>d, ArmedNow
  <2>f. Timer(k, at, kind) \in PositiveTimers
    BY DEF PositiveTimers, Timer
  <2>g. rec' \in [Keys -> Records]
    BY <2>d, <2>c, RecordFacts DEF Typed
  <2>a. AllTimers \subseteq AllTimers'
    BY <2>c, <2>x, <2>d, <2>e DEF AllTimers
  <2>b. \A j, s : ArmedAt(j, s) => ArmedAt(j, s)'
    BY <2>a DEF ArmedAt, Watches
  <2>1. Typed'
    BY <2>c, <2>x, <2>d, <2>e, <2>f, <2>g DEF Typed, SomeTimers
  <2>2. WorkerAt'
    BY <2>c, <2>x, <2>d, <2>e DEF WorkerAt, Cached, Claimed, Parked, Lapsed, Typed
  <2>3. PendingInTime'
    <3>1. \A j \in Keys \ {k} : rec'[j] = rec[j]
      BY <2>d, <2>c DEF Typed
    <3>2. PICK r \in Records : r = rec[k]
      BY <2>c DEF Typed
    <3>3. rec'[k] = [r EXCEPT !.timer = at]
      BY <2>d, <2>c, <3>2 DEF Typed
    <3>4. /\ rec'[k].timer = at /\ rec'[k].ins = r.ins
          /\ Cached(rec'[k]) <=> Cached(r)
          /\ Deadline(rec'[k]) = Deadline(r)
      BY <3>3 DEF Records, Cached, Deadline
    <3>5. ASSUME NEW j \in Keys
          PROVE  /\ rec'[j].timer >= Claimed
                 /\ Cached(rec'[j]) => rec'[j].ins > 0 /\ rec'[j].ins <= now
                 /\ Cached(rec'[j]) /\ rec'[j].timer > 0 =>
                        rec'[j].timer <= MaxOf(Deadline(rec'[j]), now)
      <4>1. CASE j # k
        BY <4>1, <3>1 DEF PendingInTime
      <4>2. CASE j = k
        BY <4>2, <3>2, <3>4, <2>d DEF PendingInTime, Claimed
      <4> QED BY <4>1, <4>2
    <3> QED BY <3>5, <2>c DEF PendingInTime, Cached, Deadline, MaxOf
  <2>4. NoneAhead'
    BY <2>c, <2>x, <2>d, <2>e DEF NoneAhead, Lapsed, Typed
  <2>5. StateWatched'
    BY <2>c, <2>x, <2>d, <2>e, <2>b DEF StateWatched, Cached, Deadline, RenewsAhead,
        RenewalOwes, Lapsed, Claimed, Parked, Typed
  <2>6. NegativeWatched'
    BY <2>c, <2>x, <2>d, <2>e, <2>a DEF NegativeWatched, NoExpiry, Typed
  <2>7. RefreshingIsOwned'
    BY <2>c, <2>x, <2>d, <2>e DEF RefreshingIsOwned, Phases, Typed
  <2>8. ParkedOnlyIfUnused'
    BY <2>c, <2>x, <2>d, <2>e DEF ParkedOnlyIfUnused, Guarded, Cached, Parked, IsExpired,
        Expires, Worth, AccessWindow, RefreshLead, Typed
  <2> QED BY <2>1, <2>2, <2>3, <2>4, <2>5, <2>6, <2>7, <2>8
<1>7. ASSUME FollowUp(p), rec' = rec
      PROVE  TimersInv'
  <2> USE <1>7
  <2>o. PICK o \in Origins, ending \in RenewalOutcomes : o = task[p].origin /\ ending = task[p].outcome
    BY TaskFacts DEF FollowUp, Running, Typed
  <2>c. PICK k \in Keys :
            /\ k = task[p].key /\ task[p].phase = "follow_up"
            /\ UNCHANGED <<now, neg, inbox, schedule, worker, wnow, cur, due, stale, hitting, repairing>>
    BY TaskFacts DEF FollowUp, Running, Typed, workerVars
  <2>m. PICK left \in Nat : left = Remaining(rec[k], now)
                            /\ (Cached(rec[k]) => now + left <= MaxOf(Deadline(rec[k]), now))
    BY <2>c, RemainingFacts DEF Typed
  <2>i. PICK in \in {-1} \cup 0..left :
            /\ in = RetryIn(o, ending, left)
            /\ o = "stale" => in = -1
    BY RetryInFacts
  <2>x. PICK x \in Tasks : task' = [task EXCEPT ![p] = x] /\ x.phase = "reset" /\ x.key = k
    BY <2>o, <2>c, MakesTasks DEF FollowUp
  <2>j. (in >= 0 => ScheduleRetry(k, in)) /\ (in < 0 => RearmLapsed(k))
    <3>1. in = RetryIn(task[p].origin, task[p].outcome, Remaining(rec[task[p].key], now))
      BY <2>o, <2>c, <2>m, <2>i
    <3>2. IF in >= 0 THEN ScheduleRetry(task[p].key, in) ELSE RearmLapsed(task[p].key)
      BY <3>1, Zenon DEF FollowUp
    <3> QED BY <2>c, <2>i, <3>2
  <2>d. /\ UNCHANGED <<rec, arming>>
        /\ rec[k].timer # Lapsed \/ rec[k].kind = "absent" \/ ~RenewsAhead(rec[k].ttl)
    <3>1. CASE in >= 0
      <4>1. ASSUME rec[k].kind # "absent", rec[k].timer = Lapsed
            PROVE  FALSE
        <5>1. rec' = [rec EXCEPT ![k].timer = now + in]
          BY <3>1, <4>1, <2>j DEF ScheduleRetry
        <5>2. now + in # Lapsed
          BY <3>1 DEF Typed, Lapsed
        <5>3. rec'[k].timer = now + in
          BY <5>1, <2>c DEF Typed, Records
        <5> QED BY <4>1, <5>2, <5>3
      <4> QED BY <3>1, <4>1, <2>j DEF ScheduleRetry
    <3>2. CASE in < 0
      <4>1. ASSUME NEW at \in Nat \ {0}, rec' = [rec EXCEPT ![k].timer = at], rec[k].timer = Lapsed
            PROVE  FALSE
        <5>1. rec'[k].timer = at
          BY <4>1, <2>c DEF Typed, Records
        <5> QED BY <4>1, <5>1 DEF Lapsed
      <4>2. RearmLapsed(k)
        BY <3>2, <2>j
      <4> QED BY <4>1, <4>2, <2>c, RearmFacts
    <3> QED BY <3>1, <3>2, <2>i
  <2>a. AllTimers \subseteq AllTimers'
    BY <2>c, <2>x, <2>d DEF AllTimers
  <2>b. \A j, s : ArmedAt(j, s) => ArmedAt(j, s)'
    BY <2>a DEF ArmedAt, Watches
  <2>1. Typed'
    BY <2>c, <2>x, <2>d DEF Typed
  <2>2. WorkerAt'
    BY <2>c, <2>x, <2>d DEF WorkerAt, Typed
  <2>3. PendingInTime'
    BY <2>c, <2>x, <2>d DEF PendingInTime, Typed
  <2>4. NoneAhead'
    BY <2>c, <2>x, <2>d DEF NoneAhead, Typed
  <2>5. StateWatched'
    BY <2>c, <2>x, <2>d, <2>b DEF StateWatched, RenewalOwes, Cached, Typed
  <2>6. NegativeWatched'
    BY <2>c, <2>x, <2>d, <2>a DEF NegativeWatched, Typed
  <2>7. RefreshingIsOwned'
    BY <2>c, <2>x, <2>d DEF RefreshingIsOwned, Phases, Typed
  <2>8. ParkedOnlyIfUnused'
    BY <2>c, <2>x, <2>d DEF ParkedOnlyIfUnused, Guarded, Worth, AccessWindow, RefreshLead,
        IsExpired, Typed
  <2> QED BY <2>1, <2>2, <2>3, <2>4, <2>5, <2>6, <2>7, <2>8
<1>8. CASE ResetRefreshing(p)
  <2> USE <1>8
  <2>c. PICK k \in Keys :
            /\ k = task[p].key /\ task[p].phase = "reset"
            /\ UNCHANGED <<now, neg, arming, inbox, schedule, worker, wnow, cur, due, stale,
                           hitting, repairing>>
    BY TaskFacts DEF ResetRefreshing, Running, Typed, workerVars
  <2>x. task' = [task EXCEPT ![p] = NoTask] /\ NoTask.phase = "free" /\ NoTask \in Tasks
    BY DEF ResetRefreshing, NoTask, Tasks
  <2>r. rec' = [rec EXCEPT ![k].refreshing = "no"]
    BY <2>c DEF ResetRefreshing
  <2>d. rec' \in [Keys -> Records]
    <3>1. PICK r \in Records : r = rec[k]
      BY <2>c DEF Typed
    <3>2. [r EXCEPT !.refreshing = "no"] \in Records
      BY Zenon DEF Records
    <3> QED BY <2>c, <2>r, <3>1, <3>2 DEF Typed
  <2>a. AllTimers \subseteq AllTimers'
    BY <2>c, <2>x, <2>r DEF AllTimers
  <2>b. \A j, s : ArmedAt(j, s) => ArmedAt(j, s)'
    BY <2>a DEF ArmedAt, Watches
  <2>1. Typed'
    BY <2>c, <2>x, <2>r, <2>d DEF Typed
  <2>2. WorkerAt'
    BY <2>c, <2>x, <2>r DEF WorkerAt, Cached, Claimed, Parked, Typed
  <2>3. PendingInTime'
    BY <2>c, <2>x, <2>r DEF PendingInTime, Cached, Deadline, MaxOf, Claimed, Typed
  <2>4. NoneAhead'
    BY <2>c, <2>x, <2>r DEF NoneAhead, Lapsed, Typed
  <2>5. StateWatched'
    BY <2>c, <2>x, <2>r, <2>b, SMTT(30) DEF StateWatched, Cached, Deadline, RenewsAhead, RenewalOwes,
        Lapsed, Claimed, Parked, Typed
  <2>6. NegativeWatched'
    BY <2>c, <2>x, <2>r, <2>a DEF NegativeWatched, NoExpiry, Typed
  <2>7. RefreshingIsOwned'
    BY <2>c, <2>x, <2>r DEF RefreshingIsOwned, Phases, Typed
  <2>8. ParkedOnlyIfUnused'
    BY <2>c, <2>x, <2>r DEF ParkedOnlyIfUnused, Guarded, Cached, Parked, IsExpired, Expires,
        Worth, AccessWindow, RefreshLead, Typed
  <2> QED BY <2>1, <2>2, <2>3, <2>4, <2>5, <2>6, <2>7, <2>8
<1> QED BY <1>1, <1>2, <1>3, <1>4, <1>5, <1>6, <1>7, <1>8 DEF Refresh

\* TimersInv holds in the empty cache.
LEMMA InitTimers == Init => TimersInv
<1> SUFFICES ASSUME Init
             PROVE  TimersInv
  OBVIOUS
<1>1. Absent \in Records /\ NoTask \in Tasks /\ Absent.timer = Lapsed /\ ~Cached(Absent)
      /\ Absent.refreshing = "no"
  BY DEF Absent, Records, Tasks, Lapsed, Cached
<1>2. Typed
  BY <1>1 DEF Init, Typed, NoExpiry
<1>3. \A k \in Keys : rec[k] = Absent
  BY DEF Init
<1>4. \A p \in Permits : task[p].phase = "free"
  BY DEF Init, NoTask
<1>5. WorkerAt /\ PendingInTime /\ StateWatched
  BY <1>1, <1>3 DEF Init, WorkerAt, PendingInTime, StateWatched, Lapsed, Claimed
<1>6. NoneAhead
  BY <1>1, <1>3, <1>4 DEF Init, NoneAhead
<1>7. NegativeWatched /\ RefreshingIsOwned /\ ParkedOnlyIfUnused
  BY <1>1, <1>3 DEF Init, NegativeWatched, RefreshingIsOwned, ParkedOnlyIfUnused
<1> QED BY <1>2, <1>5, <1>6, <1>7 DEF TimersInv

\* No step replaces, renews or removes an entry a reader holds, nor lets it live again.
LEMMA NextStaleHeld ==
    ASSUME Typed, StaleHeld, Next
    PROVE  StaleHeld'
<1> SUFFICES ASSUME NEW k \in Keys, k \in repairing'
             PROVE  IsExpired(rec[k], now)'
  BY DEF StaleHeld
<1> DEFINE Same == rec'[k].kind = rec[k].kind /\ rec'[k].ins = rec[k].ins /\ rec'[k].ttl = rec[k].ttl
<1>t. rec \in [Keys -> Records] /\ rec[k] \in Records /\ now \in Nat
  BY DEF Typed
<1>o. ASSUME NEW j, NEW v, \/ rec' = [rec EXCEPT ![j].timer = v]
                          \/ rec' = [rec EXCEPT ![j].last = v]
                          \/ rec' = [rec EXCEPT ![j].marked = v]
                          \/ rec' = [rec EXCEPT ![j].refreshing = v]
      PROVE  Same
  <2>1. CASE j = k
    BY <1>o, <1>t, <2>1 DEF Records
  <2>2. CASE j # k
    BY <1>o, <1>t, <2>2
  <2> QED BY <2>1, <2>2
<1>p. ASSUME NEW j, NEW v, NEW w, \/ rec' = [rec EXCEPT ![j].timer = v, ![j].refreshing = w]
                                 \/ rec' = [rec EXCEPT ![j].last = v, ![j].refreshing = w]
      PROVE  Same
  <2>1. CASE j = k
    BY <1>p, <1>t, <2>1 DEF Records
  <2>2. CASE j # k
    BY <1>p, <1>t, <2>2
  <2> QED BY <2>1, <2>2
<1> HIDE DEF Same
<1>u. UNCHANGED rec => Same
  BY DEF Same
<1>s. ASSUME Same, UNCHANGED now \/ now' = now + 1, IsExpired(rec[k], now)
      PROVE  IsExpired(rec[k], now)'
  BY <1>s, <1>t DEF Same, IsExpired, Expires, Cached, Records
<1> USE DEF workerVars
<1>1. CASE ClockTick \/ PushSome
  <2>1. Same /\ (UNCHANGED now \/ now' = now + 1) /\ k \in repairing
    BY <1>1, <1>u DEF ClockTick, PushSome, PushOf, Push
  <2> QED BY <2>1, <1>s DEF StaleHeld
<1>2. CASE Tick
  <2>1. UNCHANGED now /\ UNCHANGED repairing
    BY <1>2 DEF Tick, TickStart, Judge, Park, Recheck, Sweep, WorkerRearm, FireNegative, FireSpent,
        FireClaim, GiveUp
  <2>g. Guarded(k)
    BY <2>1 DEF Guarded
  <2>2. CASE TickStart \/ Judge \/ Sweep \/ \E t \in Firing : FireNegative(t)
    BY <2>2, <2>1, <1>s, <1>u DEF TickStart, Judge, Sweep, FireNegative, StaleHeld
  <2>3. CASE Park \/ Recheck \/ \E t \in Firing : FireClaim(t)
    <3>1. Same
      BY <2>3, <1>o, <1>u DEF Park, Recheck, FireClaim
    <3> QED BY <3>1, <2>1, <1>s DEF StaleHeld
  <2>4. CASE (\E t \in Firing : FireSpent(t)) \/ \E c \in due : GiveUp(c)
    <3>1. Same
      BY <2>4, <2>g, <1>t DEF FireSpent, GiveUp, RemoveDead, Same
    <3> QED BY <3>1, <2>1, <1>s DEF StaleHeld
  <2>5. CASE WorkerRearm
    <3>1. Same
      BY <2>5, <1>o, <1>u DEF WorkerRearm, RearmLapsed
    <3> QED BY <3>1, <2>1, <1>s DEF StaleHeld
  <2> QED BY <1>2, <2>2, <2>3, <2>4, <2>5 DEF Tick
<1>3. ASSUME NEW j \in Keys, Traffic(j) \/ HitEnds(j) \/ Operator(j)
      PROVE  IsExpired(rec[k], now)'
  <2>1. UNCHANGED now
    BY <1>3 DEF Traffic, HitEnds, Operator, Store, Forget, EvictMark, HitRecord, DeadHit, StaleHit,
        HitRearm, StaleSend, InsertPermanent, RemovePermanent
  <2>2. CASE (\E ttl \in TTLs : Store(j, ttl)) \/ Forget(j) \/ Operator(j)
    <3>1. Guarded(k) /\ k \in repairing
      BY <2>2 DEF Store, Forget, Operator, InsertPermanent, RemovePermanent, Guarded
    <3>2. Same
      BY <2>2, <3>1, <1>t DEF Store, Forget, Operator, InsertPermanent, RemovePermanent, Same
    <3> QED BY <3>1, <3>2, <2>1, <1>s DEF StaleHeld
  <2>3. CASE EvictMark(j) \/ DeadHit(j) \/ HitRecord(j) \/ HitRearm(j)
    <3>1. Same
      BY <2>3, <1>o, <1>u DEF EvictMark, DeadHit, HitRecord, HitRearm
    <3>2. k \in repairing
      BY <2>3 DEF EvictMark, DeadHit, HitRecord, HitRearm
    <3> QED BY <3>1, <3>2, <2>1, <1>s DEF StaleHeld
  <2>4. CASE StaleHit(j)
    <3>1. Same
      BY <2>4, <1>o, <1>p DEF StaleHit
    <3>2. k \in repairing \/ j = k
      BY <2>4 DEF StaleHit
    <3>3. IsExpired(rec[j], now)
      BY <2>4 DEF StaleHit, IsStale
    <3> QED BY <3>1, <3>2, <3>3, <2>1, <1>s DEF StaleHeld
  <2>5. ASSUME NEW room \in BOOLEAN, StaleSend(j, room)
        PROVE  IsExpired(rec[k], now)'
    <3>1. Same /\ k \in repairing
      BY <2>5, <1>o, <1>u DEF StaleSend
    <3> QED BY <3>1, <2>1, <1>s DEF StaleHeld
  <2> QED BY <1>3, <2>2, <2>3, <2>4, <2>5 DEF Traffic, HitEnds
<1>4. ASSUME NEW j \in settings.negative, NegativeTraffic(j)
      PROVE  IsExpired(rec[k], now)'
  BY <1>4, <1>s, <1>u DEF NegativeTraffic, StoreNegative, ForgetNegative, StaleHeld
<1>5. ASSUME NEW p \in settings.permits, Start(p)
      PROVE  IsExpired(rec[k], now)'
  <2>1. UNCHANGED now /\ UNCHANGED repairing
    BY <1>5 DEF Start, StartRepair, StartClaim
  <2>g. Guarded(k)
    BY <2>1 DEF Guarded
  <2>2. CASE StartRepair(p)
    BY <2>2, <2>1, <1>s, <1>u DEF StartRepair, StaleHeld
  <2>3. ASSUME NEW c \in due, StartClaim(p, c)
        PROVE  IsExpired(rec[k], now)'
    <3>1. ASSUME RemoveDead(c.key, now) PROVE Same
      BY <3>1, <2>g, <1>t DEF RemoveDead, Same
    <3>2. ASSUME ~RemoveDead(c.key, now) PROVE Same
      <4>1. \/ UNCHANGED rec
            \/ rec' = [rec EXCEPT ![c.key].timer = Lapsed, ![c.key].refreshing = "yes"]
            \/ rec' = [rec EXCEPT ![c.key].timer = Lapsed]
        BY <2>3, <3>2 DEF StartClaim
      <4> QED BY <4>1, <1>o, <1>p, <1>u
    <3>3. Same
      BY <3>1, <3>2
    <3> QED BY <3>3, <2>1, <1>s DEF StaleHeld
  <2> QED BY <1>5, <2>2, <2>3 DEF Start
<1>6. ASSUME NEW p \in settings.permits, Refresh(p)
      PROVE  IsExpired(rec[k], now)'
  <2>1. UNCHANGED now /\ UNCHANGED repairing
    BY <1>6 DEF Refresh, ResolveNothing, ResolveBogus, ResolveAnswer, Renew, FollowUp, ResetRefreshing
  <2>g. Guarded(k)
    BY <2>1 DEF Guarded
  <2>2. Same
    <3>1. CASE ResolveBogus(p)
      BY <3>1, <2>g, <1>t DEF ResolveBogus, Same
    <3>4. CASE Renew(p)
      BY <3>4, <2>g, <1>t, <1>u DEF Renew, Same
    <3>5. CASE ResetRefreshing(p)
      BY <3>5, <1>o DEF ResetRefreshing
    <3>2. CASE FollowUp(p)
      BY <3>2, <1>o, <1>u DEF FollowUp, ScheduleRetry, RearmLapsed
    <3>3. CASE (\E outcome \in {"kept", "servfail", "failed"} : ResolveNothing(p, outcome))
               \/ \E ttl \in TTLs, positive \in BOOLEAN : ResolveAnswer(p, ttl, positive)
      BY <3>3, <1>u DEF ResolveNothing, ResolveAnswer
    <3> QED BY <1>6, <3>1, <3>2, <3>3, <3>4, <3>5 DEF Refresh
  <2> QED BY <2>1, <2>2, <1>s DEF StaleHeld
<1>7. LocalKeys \subseteq Keys
  BY TimersAssumption
<1> QED BY <1>1, <1>2, <1>3, <1>4, <1>5, <1>6, <1>7 DEF Next

\* Every step keeps TimersInv.
LEMMA NextTimers == TimersInv /\ StaleHeld /\ [Next]_<<vars, settings>> => TimersInv' /\ StaleHeld'
<1> SUFFICES ASSUME TimersInv, StaleHeld, [Next]_<<vars, settings>>
             PROVE  TimersInv' /\ StaleHeld'
  OBVIOUS
<1>1. settings.permits \subseteq Permits
  BY SettingsFacts DEF TimersInv, Typed
<1>2. CASE Next
  <2>1. UNCHANGED settings
    BY <1>2 DEF Next
  <2>5. StaleHeld'
    BY <1>2, NextStaleHeld DEF TimersInv
  <2>2. CASE \/ ClockTick \/ PushSome
             \/ \E k \in Keys : Traffic(k) \/ HitEnds(k)
             \/ \E k \in settings.negative : NegativeTraffic(k)
             \/ \E k \in LocalKeys : Operator(k)
    BY <2>1, <2>2, <2>5, QueriesKeepTimers
  <2>3. CASE Tick
    BY <2>1, <2>3, <2>5, TickKeepsTimers
  <2>4. ASSUME NEW p \in settings.permits, Start(p) \/ Refresh(p)
        PROVE  TimersInv'
    BY <1>1, <2>1, <2>4, StartKeepsTimers, RefreshKeepsTimers
  <2> QED BY <1>2, <2>2, <2>3, <2>4, <2>5 DEF Next
<1>3. CASE UNCHANGED <<vars, settings>>
  BY <1>3 DEF vars, TimersInv, Typed, WorkerAt, PendingInTime, NoneAhead, StateWatched,
      ArmedAt,
     AllTimers, RenewalOwes, NegativeWatched, RefreshingIsOwned, ParkedOnlyIfUnused, Guarded, Worth,
     AccessWindow, RefreshLead, StaleHeld, IsExpired
<1> QED BY <1>2, <1>3

\* Whatever the order in which stores, hits, the worker, renewals and the operator
\* come, every entry has who watches it in the state its timer is in.
THEOREM TimersInvariant == Spec => []TimersInv
<1>1. Init => StaleHeld
  BY DEF Init, StaleHeld
<1> QED BY <1>1, InitTimers, NextTimers, PTL DEF Spec

\* What the run checks follows: the state of an entry's timer says who watches it,
\* no later than its death.
LEMMA NothingForgottenFollows == TimersInv => NothingForgotten
<1> SUFFICES ASSUME TimersInv
             PROVE  NothingForgotten
  OBVIOUS
<1> USE DEF TimersInv
<1>1. TypeOK
  <2>1. SomeTimers \subseteq Timers /\ PositiveTimers \subseteq Timers
    BY DEF SomeTimers, PositiveTimers, NegativeTimers, Timers, TimerKeys, TimerKinds
  <2>2. \A p \in Permits : task[p] = NoTask \/ (task[p].phase \in Phases /\ task[p].key \in Keys)
    BY TaskFacts DEF Typed, Phases
  <2>3. cur \in Timers \cup {NoTimer}
    BY <2>1 DEF Typed, WorkerAt
  <2> QED BY <2>1, <2>2, <2>3 DEF TypeOK, Typed, Records, Claims
<1>2. EntryWatched
  <2> SUFFICES ASSUME NEW k \in Keys, Cached(rec[k])
               PROVE  \/ \E t \in AllTimers : Watches(t, k) /\ t.at <= MaxOf(Deadline(rec[k]), now)
                      \/ rec[k].timer = Claimed
                         /\ \E c \in due : c.key = k /\ c.deadline <= Deadline(rec[k])
                      \/ worker \in {"judge", "park", "recheck", "rearm"} /\ cur.key = k
                      \/ rec[k].timer = Lapsed /\ RenewalOwes(k)
    BY DEF EntryWatched
  <2>1. Deadline(rec[k]) \in Nat /\ now \in Nat /\ rec[k].timer \in Int
    BY DEF Typed, Records, Deadline
  <2>2. Deadline(rec[k]) <= MaxOf(Deadline(rec[k]), now)
    BY <2>1 DEF MaxOf
  <2>3. ASSUME NEW s \in Int, ArmedAt(k, s), s <= MaxOf(Deadline(rec[k]), now)
        PROVE  \E t \in AllTimers : Watches(t, k) /\ t.at <= MaxOf(Deadline(rec[k]), now)
    BY <2>3 DEF ArmedAt
  <2>4. CASE rec[k].timer > 0
    BY <2>1, <2>3, <2>4 DEF StateWatched, PendingInTime
  <2>5. CASE rec[k].timer = Parked
    BY <2>1, <2>2, <2>3, <2>5 DEF StateWatched
  <2>6. CASE rec[k].timer = Claimed
    BY <2>1, <2>6 DEF StateWatched
  <2>7. CASE rec[k].timer = Lapsed
    BY <2>1, <2>2, <2>3, <2>7 DEF StateWatched
  <2> QED BY <2>1, <2>4, <2>5, <2>6, <2>7 DEF PendingInTime, Lapsed, Parked, Claimed
<1>3. PendingIsArmed
  BY DEF PendingIsArmed, StateWatched, ArmedAt
<1> QED BY <1>1, <1>2, <1>3 DEF NothingForgotten

\* "Every entry the cache can lose has at least one timer pending at all times"
\* (schedule.rs): no entry is left behind by the timers, nor drops out of renewal.
THEOREM NothingIsForgotten == Spec => []NothingForgotten
BY TimersInvariant, NothingForgottenFollows, PTL

=============================================================================
