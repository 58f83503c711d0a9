--------------------------- MODULE LLMRequestQueue ---------------------------
(***************************************************************************)
(* The LLM queue of server/scheduler/request_queue.py as the event loop    *)
(* sees it.                                                                *)
(*                                                                         *)
(* All of its methods run on the event loop.  acquire_nowait awaits the    *)
(* asyncio lock only after finding it free, so it does not suspend, and    *)
(* _finish_lease has no await: each is one action.  A streaming request    *)
(* finishes its lease again in its finally clause.  run_nowait ends in     *)
(* Finish for a result or an exception and in TimeoutFinish when wait_for  *)
(* gives up.  A task that is cancelled from outside leaves run_nowait with *)
(* its lease still live (CancelledError is not an Exception): that is a    *)
(* request that takes no further step here.                                *)
(***************************************************************************)
EXTENDS Naturals, FiniteSets

CONSTANTS
  Requests,      \* the LLM requests, each of which asks for the queue once
  NoOne          \* current_model is None; not a request

VARIABLES
  llmLocked,     \* _lock.locked()
  llmTotal,      \* total_requests
  llmAccepted,   \* accepted_requests
  llmRejected,   \* rejected_busy
  llmCompleted,  \* completed_requests
  llmFailed,     \* failed_requests
  llmTimeouts,   \* timeout_requests
  llmCurrent,    \* current_model, as the request that set it
  llmLease       \* the state of each request's lease

vars == <<llmLocked, llmTotal, llmAccepted, llmRejected, llmCompleted,
          llmFailed, llmTimeouts, llmCurrent, llmLease>>

LeaseStatus == {"none", "refused", "live", "succeeded", "failed"}

WithLease(statuses) == {r \in Requests : llmLease[r] \in statuses}

Holders == WithLease({"live"})

Released(r) == llmLease[r] \in {"succeeded", "failed"}

Init ==
  /\ llmLocked = FALSE
  /\ llmTotal = 0
  /\ llmAccepted = 0
  /\ llmRejected = 0
  /\ llmCompleted = 0
  /\ llmFailed = 0
  /\ llmTimeouts = 0
  /\ llmCurrent = NoOne
  /\ llmLease = [r \in Requests |-> "none"]

RejectBusy(r) ==
  /\ llmLease[r] = "none"
  /\ llmLocked
  /\ llmTotal' = llmTotal + 1
  /\ llmRejected' = llmRejected + 1
  /\ llmLease' = [llmLease EXCEPT ![r] = "refused"]
  /\ UNCHANGED <<llmLocked, llmAccepted, llmCompleted, llmFailed, llmTimeouts, llmCurrent>>

Accept(r) ==
  /\ llmLease[r] = "none"
  /\ ~llmLocked
  /\ llmTotal' = llmTotal + 1
  /\ llmLocked' = TRUE
  /\ llmAccepted' = llmAccepted + 1
  /\ llmCurrent' = r
  /\ llmLease' = [llmLease EXCEPT ![r] = "live"]
  /\ UNCHANGED <<llmRejected, llmCompleted, llmFailed, llmTimeouts>>

\* The body of _finish_lease for a lease that is not released yet.
Record(r, how) ==
  /\ llmCompleted' = llmCompleted + (IF how = "succeeded" THEN 1 ELSE 0)
  /\ llmFailed' = llmFailed + (IF how = "failed" THEN 1 ELSE 0)
  /\ llmCurrent' = NoOne
  /\ llmLocked' = FALSE
  /\ llmLease' = [llmLease EXCEPT ![r] = how]
  /\ UNCHANGED <<llmTotal, llmAccepted, llmRejected>>

Finish(r, how) ==
  /\ llmLease[r] \in {"live", "succeeded", "failed"}
  /\ IF Released(r) THEN UNCHANGED vars
                    ELSE Record(r, how) /\ UNCHANGED llmTimeouts

TimeoutFinish(r) ==
  /\ llmLease[r] = "live"
  /\ llmTimeouts' = llmTimeouts + 1
  /\ Record(r, "failed")

Next ==
  \E r \in Requests :
    \/ RejectBusy(r)
    \/ Accept(r)
    \/ \E how \in {"succeeded", "failed"} : Finish(r, how)
    \/ TimeoutFinish(r)

Spec == Init /\ [][Next]_vars
-----------------------------------------------------------------------------
(* Type invariant. *)
TypeOK ==
  /\ llmLocked \in BOOLEAN
  /\ llmTotal \in Nat
  /\ llmAccepted \in Nat
  /\ llmRejected \in Nat
  /\ llmCompleted \in Nat
  /\ llmFailed \in Nat
  /\ llmTimeouts \in Nat
  /\ llmCurrent \in Requests \cup {NoOne}
  /\ llmLease \in [Requests -> LeaseStatus]

(***************************************************************************)
(* The asyncio lock is taken exactly while one request, and only one, has  *)
(* a live lease; a second finish of an old lease, from the finally clause  *)
(* of a stream, does not free the lock of the request that came after.     *)
(***************************************************************************)
LockMatchesLease ==
  /\ Holders = IF llmLocked THEN {llmCurrent} ELSE {}
  /\ ~llmLocked => llmCurrent = NoOne

(***************************************************************************)
(* Between two callbacks of the event loop the counters add up, and every  *)
(* timeout is counted as a failure too.                                    *)
(***************************************************************************)
CountersAddUp ==
  /\ llmTotal = llmAccepted + llmRejected
  /\ llmAccepted = llmCompleted + llmFailed + (IF llmLocked THEN 1 ELSE 0)
  /\ llmTimeouts <= llmFailed

\* The LLM queue implements the exclusive slot.
Slot == INSTANCE ExclusiveSlot WITH
  inside <- Holders,
  turnedAway <- WithLease({"refused"}),
  gone <- WithLease({"succeeded", "failed"})

SlotSpec == Slot!Spec
=============================================================================
