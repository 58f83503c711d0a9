-------------------------- MODULE VisionRequestQueue --------------------------
(***************************************************************************)
(* The vision queue of server/scheduler/vision_queue.py.                   *)
(*                                                                         *)
(* /v1/vision/detect and the object-detection task of /v1/infer run in     *)
(* threads of the server's pool, and each goes through run_nowait: acquire *)
(* or be rejected, run the backend, record how it ended.  Each of the      *)
(* critical sections under _stats_lock is one action; a timeout is counted *)
(* in a critical section of its own, before the one of _finish_lease, and  *)
(* other threads and /v1/metrics can run between the two.                  *)
(***************************************************************************)
EXTENDS Naturals, FiniteSets

CONSTANTS
  Requests,      \* the vision requests, each of which calls run_nowait once
  NoOne          \* current_model is None; not a request

VARIABLES
  visLocked,     \* _lock.locked()
  visTotal,      \* total_requests
  visAccepted,   \* accepted_requests
  visRejected,   \* rejected_busy
  visCompleted,  \* completed_requests
  visFailed,     \* failed_requests
  visTimeouts,   \* timeout_requests
  visCurrent,    \* current_model, as the request that set it
  visLease       \* where each request is in run_nowait

vars == <<visLocked, visTotal, visAccepted, visRejected, visCompleted,
          visFailed, visTimeouts, visCurrent, visLease>>

counters == <<visTotal, visAccepted, visRejected, visCompleted, visFailed, visTimeouts>>

LeaseStatus ==
  {"none", "refused", "live", "late", "succeeding", "failing", "succeeded", "failed"}

WithLease(statuses) == {r \in Requests : visLease[r] \in statuses}

Holders == WithLease({"live", "late", "succeeding", "failing"})

Init ==
  /\ visLocked = FALSE
  /\ visTotal = 0
  /\ visAccepted = 0
  /\ visRejected = 0
  /\ visCompleted = 0
  /\ visFailed = 0
  /\ visTimeouts = 0
  /\ visCurrent = NoOne
  /\ visLease = [r \in Requests |-> "none"]

RejectBusy(r) ==
  /\ visLease[r] = "none"
  /\ visLocked
  /\ visTotal' = visTotal + 1
  /\ visRejected' = visRejected + 1
  /\ visLease' = [visLease EXCEPT ![r] = "refused"]
  /\ UNCHANGED <<visLocked, visAccepted, visCompleted, visFailed, visTimeouts, visCurrent>>

\* Mutant: the lock is taken without a look at whether it is free.
AcceptUnchecked(r) ==
  /\ visLease[r] = "none"
  /\ visTotal' = visTotal + 1
  /\ visLocked' = TRUE
  /\ visAccepted' = visAccepted + 1
  /\ visCurrent' = r
  /\ visLease' = [visLease EXCEPT ![r] = "live"]
  /\ UNCHANGED <<visRejected, visCompleted, visFailed, visTimeouts>>

Accept(r) ==
  /\ visLease[r] = "none"
  /\ ~visLocked
  /\ visTotal' = visTotal + 1
  /\ visLocked' = TRUE
  /\ visAccepted' = visAccepted + 1
  /\ visCurrent' = r
  /\ visLease' = [visLease EXCEPT ![r] = "live"]
  /\ UNCHANGED <<visRejected, visCompleted, visFailed, visTimeouts>>

\* task_factory() raises TimeoutError: it is counted at once, and the lease
\* is finished afterwards.
CountTimeout(r) ==
  /\ visLease[r] = "live"
  /\ visTimeouts' = visTimeouts + 1
  /\ visLease' = [visLease EXCEPT ![r] = "late"]
  /\ UNCHANGED <<visLocked, visTotal, visAccepted, visRejected, visCompleted,
                 visFailed, visCurrent>>

\* _finish_lease sets the released flag: after a result, after another
\* exception, or after a counted timeout.
EnterFinish(r, how) ==
  /\ visLease[r] = "live" \/ (visLease[r] = "late" /\ how = "failing")
  /\ visLease' = [visLease EXCEPT ![r] = how]
  /\ UNCHANGED <<visLocked, visCurrent, counters>>

\* The critical section of _finish_lease.
CommitFinish(r) ==
  /\ \/ /\ visLease[r] = "succeeding"
        /\ visCompleted' = visCompleted + 1
        /\ visLease' = [visLease EXCEPT ![r] = "succeeded"]
        /\ UNCHANGED visFailed
     \/ /\ visLease[r] = "failing"
        /\ visFailed' = visFailed + 1
        /\ visLease' = [visLease EXCEPT ![r] = "failed"]
        /\ UNCHANGED visCompleted
  /\ visCurrent' = NoOne
  /\ visLocked' = FALSE
  /\ UNCHANGED <<visTotal, visAccepted, visRejected, visTimeouts>>

Next ==
  \E r \in Requests :
    \/ RejectBusy(r)
    \/ Accept(r)
    \/ CountTimeout(r)
    \/ \E how \in {"succeeding", "failing"} : EnterFinish(r, how)
    \/ CommitFinish(r)

Spec == Init /\ [][Next]_vars
-----------------------------------------------------------------------------
(* Type invariant. *)
TypeOK ==
  /\ visLocked \in BOOLEAN
  /\ visTotal \in Nat
  /\ visAccepted \in Nat
  /\ visRejected \in Nat
  /\ visCompleted \in Nat
  /\ visFailed \in Nat
  /\ visTimeouts \in Nat
  /\ visCurrent \in Requests \cup {NoOne}
  /\ visLease \in [Requests -> LeaseStatus]

(***************************************************************************)
(* The lock is taken exactly while one request, and only one, is between   *)
(* acquire_nowait and the end of _finish_lease, and current_model is its   *)
(* model: a request that is slow to record its own end is not overtaken.   *)
(***************************************************************************)
LockMatchesLease ==
  /\ Holders = IF visLocked THEN {visCurrent} ELSE {}
  /\ ~visLocked => visCurrent = NoOne

(***************************************************************************)
(* A snapshot under _stats_lock adds up: total is accepted plus rejected,  *)
(* and accepted is completed plus failed plus the running request.         *)
(***************************************************************************)
SnapshotAddsUp ==
  /\ visTotal = visAccepted + visRejected
  /\ visAccepted = visCompleted + visFailed + (IF visLocked THEN 1 ELSE 0)

(***************************************************************************)
(* A timeout is also a failure: timeout_requests exceeds failed_requests   *)
(* by at most the one request that has counted its timeout and not yet     *)
(* finished its lease.                                                     *)
(***************************************************************************)
TimeoutsAreFailures ==
  visTimeouts <= visFailed + Cardinality(WithLease({"late", "failing"}))

\* The vision queue implements the exclusive slot.
Slot == INSTANCE ExclusiveSlot WITH
  inside <- Holders,
  turnedAway <- WithLease({"refused"}),
  gone <- WithLease({"succeeded", "failed"})

SlotSpec == Slot!Spec
=============================================================================
