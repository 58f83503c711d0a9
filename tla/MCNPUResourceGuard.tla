-------------------------- MODULE MCNPUResourceGuard --------------------------
(* TLC instance of the guard: four requests from four threads. *)
EXTENDS NPUResourceGuard
CONSTANTS r1, r2, r3, r4
MCRequests == {r1, r2, r3, r4}
=============================================================================
