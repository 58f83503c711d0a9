--------------------------- MODULE NPUResourceGuard ---------------------------
(***************************************************************************)
(* The process-wide NPU guard of server/scheduler/npu_resource_guard.py.   *)
(*                                                                         *)
(* Callers are the event loop (chat) and worker threads (vision, VLM).     *)
(* acquire_nowait runs wholly under _stats_lock and is one action.         *)
(* _finish_lease tests and sets the lease's released flag before it takes  *)
(* _stats_lock, so it is two actions: EnterFinish, which returns at once   *)
(* for a lease already released, and CommitFinish, the critical section.   *)
(* A caller may finish its lease more than once, as the streaming handler  *)
(* does in its finally clause.                                             *)
(*                                                                         *)
(* Task, model and owner of the running request are one value here: the    *)
(* request itself.  Latencies, times and error texts are left out.         *)
(***************************************************************************)
EXTENDS Naturals, FiniteSets

CONSTANTS
  Requests,      \* the requests, each of which calls acquire_nowait at most once
  NoOne          \* current_task, current_model and current_owner are None

ASSUME NoOneAssumption == NoOne \notin Requests

VARIABLES
  npuLocked,     \* _lock.locked()
  npuTotal,      \* total_acquire
  npuAccepted,   \* accepted_acquire
  npuRejected,   \* rejected_busy
  npuCompleted,  \* completed
  npuFailed,     \* failed
  npuCurrent,    \* current_task, current_model, current_owner
  npuLease       \* the state of each request's lease

vars == <<npuLocked, npuTotal, npuAccepted, npuRejected, npuCompleted,
          npuFailed, npuCurrent, npuLease>>

LeaseStatus ==
  {"none", "refused", "live", "succeeding", "failing", "succeeded", "failed"}

\* The request whose lease has this status, or these.
WithLease(statuses) == {r \in Requests : npuLease[r] \in statuses}

Holders == WithLease({"live", "succeeding", "failing"})

\* Mutant: the released flag is never seen set.
ReleasedNever(r) == FALSE

Released(r) == npuLease[r] \in {"succeeding", "failing", "succeeded", "failed"}

Init ==
  /\ npuLocked = FALSE
  /\ npuTotal = 0
  /\ npuAccepted = 0
  /\ npuRejected = 0
  /\ npuCompleted = 0
  /\ npuFailed = 0
  /\ npuCurrent = NoOne
  /\ npuLease = [r \in Requests |-> "none"]

RejectBusy(r) ==
  /\ npuLease[r] = "none"
  /\ npuLocked
  /\ npuTotal' = npuTotal + 1
  /\ npuRejected' = npuRejected + 1
  /\ npuLease' = [npuLease EXCEPT ![r] = "refused"]
  /\ UNCHANGED <<npuLocked, npuAccepted, npuCompleted, npuFailed, npuCurrent>>

\* Mutant: the lock is taken without a look at whether it is free.
AcceptUnchecked(r) ==
  /\ npuLease[r] = "none"
  /\ npuTotal' = npuTotal + 1
  /\ npuLocked' = TRUE
  /\ npuAccepted' = npuAccepted + 1
  /\ npuCurrent' = r
  /\ npuLease' = [npuLease EXCEPT ![r] = "live"]
  /\ UNCHANGED <<npuRejected, npuCompleted, npuFailed>>

Accept(r) ==
  /\ npuLease[r] = "none"
  /\ ~npuLocked
  /\ npuTotal' = npuTotal + 1
  /\ npuLocked' = TRUE
  /\ npuAccepted' = npuAccepted + 1
  /\ npuCurrent' = r
  /\ npuLease' = [npuLease EXCEPT ![r] = "live"]
  /\ UNCHANGED <<npuRejected, npuCompleted, npuFailed>>

\* _finish_lease up to the critical section; how is "succeeding" for
\* finish_success and "failing" for finish_error.
EnterFinish(r, how) ==
  /\ npuLease[r] \in {"live", "succeeded", "failed"}
  /\ npuLease' = IF Released(r) THEN npuLease ELSE [npuLease EXCEPT ![r] = how]
  /\ UNCHANGED <<npuLocked, npuTotal, npuAccepted, npuRejected, npuCompleted,
                 npuFailed, npuCurrent>>

\* Mutant: a failure is counted as a completion.
CommitFinishMiscounts(r) ==
  /\ npuLease[r] \in {"succeeding", "failing"}
  /\ npuCompleted' = npuCompleted + 1
  /\ npuLease' = [npuLease EXCEPT ![r] =
                    IF npuLease[r] = "succeeding" THEN "succeeded" ELSE "failed"]
  /\ npuCurrent' = NoOne
  /\ npuLocked' = FALSE
  /\ UNCHANGED <<npuTotal, npuAccepted, npuRejected, npuFailed>>

\* The critical section of _finish_lease.
CommitFinish(r) ==
  /\ \/ /\ npuLease[r] = "succeeding"
        /\ npuCompleted' = npuCompleted + 1
        /\ npuLease' = [npuLease EXCEPT ![r] = "succeeded"]
        /\ UNCHANGED npuFailed
     \/ /\ npuLease[r] = "failing"
        /\ npuFailed' = npuFailed + 1
        /\ npuLease' = [npuLease EXCEPT ![r] = "failed"]
        /\ UNCHANGED npuCompleted
  /\ npuCurrent' = NoOne
  /\ npuLocked' = FALSE
  /\ UNCHANGED <<npuTotal, npuAccepted, npuRejected>>

Next ==
  \E r \in Requests :
    \/ RejectBusy(r)
    \/ Accept(r)
    \/ \E how \in {"succeeding", "failing"} : EnterFinish(r, how)
    \/ CommitFinish(r)

Spec == Init /\ [][Next]_vars

-----------------------------------------------------------------------------
(* Type invariant. *)
TypeOK ==
  /\ npuLocked \in BOOLEAN
  /\ npuTotal \in Nat
  /\ npuAccepted \in Nat
  /\ npuRejected \in Nat
  /\ npuCompleted \in Nat
  /\ npuFailed \in Nat
  /\ npuCurrent \in Requests \cup {NoOne}
  /\ npuLease \in [Requests -> LeaseStatus]

(***************************************************************************)
(* The lock and the leases agree: the lock is taken exactly while one      *)
(* request, and only one, has a lease that is not yet given back, and that *)
(* request is the one reported as current.  A second finish of an old      *)
(* lease must not free the lock of a newer one, although _finish_lease     *)
(* releases whatever it finds locked.                                      *)
(***************************************************************************)
LockMatchesLease ==
  /\ Holders = IF npuLocked THEN {npuCurrent} ELSE {}
  /\ ~npuLocked => npuCurrent = NoOne

(***************************************************************************)
(* Every snapshot taken under _stats_lock adds up: an acquire is either    *)
(* accepted or rejected, and an accepted one is completed, failed or the   *)
(* one that is running now.                                                *)
(***************************************************************************)
SnapshotAddsUp ==
  /\ npuTotal = npuAccepted + npuRejected
  /\ npuAccepted = npuCompleted + npuFailed + (IF npuLocked THEN 1 ELSE 0)

(***************************************************************************)
(* Each request is counted once, under what became of it, however often    *)
(* its lease was finished.                                                 *)
(***************************************************************************)
CountedOnce ==
  /\ npuRejected = Cardinality(WithLease({"refused"}))
  /\ npuCompleted = Cardinality(WithLease({"succeeded"}))
  /\ npuFailed = Cardinality(WithLease({"failed"}))

(***************************************************************************)
(* The lock changes hands only through its holder: no step frees it but    *)
(* the holder's own finish, and no step passes it on directly.             *)
(***************************************************************************)
OnlyHolderFrees ==
  [][npuLocked => \/ npuCurrent' = npuCurrent
                  \/ /\ ~npuLocked'
                     /\ npuLease'[npuCurrent] \in {"succeeded", "failed"}]_vars

\* The guard implements the exclusive slot.
Slot == INSTANCE ExclusiveSlot WITH
  inside <- Holders,
  turnedAway <- WithLease({"refused"}),
  gone <- WithLease({"succeeded", "failed"})

SlotSpec == Slot!Spec
=============================================================================
