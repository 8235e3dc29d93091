--------------------------- MODULE MCConfigStore ---------------------------
(***************************************************************************)
(* ConfigStore for TLC.                                                    *)
(***************************************************************************)
EXTENDS ConfigStore, TLC

Symmetry == Permutations(Requests) \cup Permutations(Values)

=============================================================================
