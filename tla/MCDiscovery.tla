---------------------------- MODULE MCDiscovery ----------------------------
(* Discovery for TLC: three active connectors, the third the same as the   *)
(* first.                                                                  *)
EXTENDS Discovery

CONSTANTS c1, c2

ThreeConnectors == <<c1, c2, c1>>
=============================================================================
