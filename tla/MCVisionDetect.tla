---------------------------- MODULE MCVisionDetect ----------------------------
(* Two requests, for the same model or for two, and every fault. *)
EXTENDS VisionDetect

CONSTANTS r1, r2, small, large

Both == {r1, r2}
Two == {small, large}
AllBackends == {"fake", "worker"} \cup Probes
AllFaults == FaultKinds
=============================================================================
