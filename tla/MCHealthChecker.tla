-------------------------- MODULE MCHealthChecker --------------------------
(***************************************************************************)
(* HealthChecker for TLC.                                                  *)
(***************************************************************************)
EXTENDS HealthChecker

CONSTANTS a, b

\* One server, another beside it, and a server that two pools list.
MCListings == {<<a>>, <<b>>, <<a, b, a>>}

=============================================================================
