---------------------------- MODULE MCRoundRobin ----------------------------
(***************************************************************************)
(* RoundRobin for TLC: four concurrent requests over three probes, so the  *)
(* cursor wraps while other requests wait on it.                           *)
(***************************************************************************)
EXTENDS RoundRobin

CONSTANTS r1, r2, r3, r4

MCRequests == {r1, r2, r3, r4}
=============================================================================
