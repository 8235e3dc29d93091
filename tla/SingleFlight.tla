---------------------------- MODULE SingleFlight ----------------------------
(***************************************************************************)
(* What query coalescing promises, without its mechanism.  At any time at  *)
(* most one query of a key is with the inner resolver.  A query is given   *)
(* one reply and keeps it: an outcome some query of the same key learned   *)
(* from the inner resolver, or the news that it was cancelled.  A          *)
(* transient failure goes only to the query that met it: it is neither     *)
(* cached nor shared.                                                      *)
(***************************************************************************)
CONSTANTS Queries, Keys, Outcomes

VARIABLES
    key,      \* the key of each query
    asking,   \* the queries that are with the inner resolver
    learned,  \* what the inner resolver answered each query
    reply     \* what each query was told

vars == <<key, asking, learned, reply>>

Init ==
    /\ key \in [Queries -> Keys]
    /\ asking = {}
    /\ learned = [q \in Queries |-> "no_reply"]
    /\ reply = [q \in Queries |-> "no_reply"]

\* No query of the same key is asking, and nobody asks twice.
Ask(q) ==
    /\ reply[q] = "no_reply" /\ learned[q] = "no_reply"
    /\ \A p \in asking : key[p] # key[q]
    /\ asking' = asking \cup {q}
    /\ UNCHANGED <<key, learned, reply>>

Learn(q, o) ==
    /\ q \in asking
    /\ asking' = asking \ {q}
    /\ learned' = [learned EXCEPT ![q] = o]
    /\ UNCHANGED <<key, reply>>

Abandon(q) ==
    /\ q \in asking
    /\ asking' = asking \ {q}
    /\ UNCHANGED <<key, learned, reply>>

\* q may be told o: some query of its key learned it.
MayTell(q, o) ==
    \E p \in Queries :
        /\ key[p] = key[q]
        /\ learned[p] = o
        /\ o = "transient" => p = q

Tell(q, o) ==
    /\ reply[q] = "no_reply" /\ q \notin asking
    /\ o = "cancelled" \/ MayTell(q, o)
    /\ reply' = [reply EXCEPT ![q] = o]
    /\ UNCHANGED <<key, asking, learned>>

Next ==
    \E q \in Queries :
        \/ Ask(q) \/ Abandon(q)
        \/ \E o \in Outcomes : Learn(q, o)
        \/ \E o \in Outcomes \cup {"cancelled"} : Tell(q, o)

Spec == Init /\ [][Next]_vars

=============================================================================
