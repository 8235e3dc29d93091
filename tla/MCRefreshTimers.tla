-------------------------- MODULE MCRefreshTimers --------------------------
(***************************************************************************)
(* RefreshTimers for TLC: two renewals at a time of an entry with a TTL    *)
(* below the lead that is worth renewing only while it is used; one of an  *)
(* entry that dies; and none, of an entry that dies beside a negative one  *)
(* of the same key.                                                        *)
(***************************************************************************)
EXTENDS RefreshTimers, TLC

CONSTANTS k1, p1, p2

Busy  == [ttls |-> {2}, lead |-> 4, window |-> 0, permits |-> {p1, p2}, negative |-> {}]
Dying == [ttls |-> {1}, lead |-> 1, window |-> 1, permits |-> {p1}, negative |-> {}]
Both  == [Dying EXCEPT !.permits = {}, !.negative = {k1}]
MCSettings == {Busy, Dying, Both}

=============================================================================
