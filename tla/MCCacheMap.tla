----------------------------- MODULE MCCacheMap -----------------------------
(***************************************************************************)
(* CacheMap for TLC: everything that may meet on one name, local records   *)
(* edited and renamed beside a cached name, and reloads and rotations      *)
(* under queries.                                                          *)
(***************************************************************************)
EXTENDS CacheMap, TLC

CONSTANTS k1, k2, k3, a1, a2

Meetings ==
    [keys |-> {k1}, local |-> {k1}, upstream |-> {k1}, addresses |-> {a1, a2},
     ops |-> {"get", "store", "local", "clear", "evict"}]
Renames ==
    [keys |-> {k1, k2, k3}, local |-> {k1, k3}, upstream |-> {k2}, addresses |-> {a1, a2},
     ops |-> {"get", "store", "local", "evict"}]
Reloads ==
    [keys |-> {k1, k2}, local |-> {k1}, upstream |-> {k2}, addresses |-> {a1},
     ops |-> {"get", "store", "clear", "rotate"}]
MCTraffics == {Meetings, Renames, Reloads}

\* No property names a thread or a routing.
Symmetry == Permutations(Threads) \cup Permutations(Routings)

=============================================================================
