--------------------------- MODULE LLMQueueMetrics ---------------------------
(***************************************************************************)
(* The LLM queue statement by statement, with the thread of /v1/metrics    *)
(* reading it.                                                             *)
(*                                                                         *)
(* metrics() is a plain def, so FastAPI runs it in a thread of its pool,   *)
(* and LLMRequestQueue.snapshot takes no lock: it reads one field after    *)
(* another while the event loop is anywhere inside acquire_nowait or       *)
(* _finish_lease.  The loop is one thread: it runs one of those methods to *)
(* its end before it begins the next.                                      *)
(***************************************************************************)
EXTENDS Naturals, Sequences, FiniteSets

CONSTANTS
  Requests,      \* the LLM requests
  NoOne          \* current_model is None, and the loop is in no method

ASSUME NoOneAssumption == NoOne \notin Requests

VARIABLES
  locked, total, accepted, rejected, completed, failed, timeouts, current,
                 \* the attributes of llm_queue
  lease,         \* the state of each request's lease
  loop,          \* where the event loop is: [at, req, how]
  seen           \* the values the metrics thread has read, in snapshot's order

queue == <<locked, total, accepted, rejected, completed, failed, timeouts, current, lease>>
vars == <<queue, loop, seen>>

Places == {"idle", "counted", "locked", "late", "recorded"}

Idle == [at |-> "idle", req |-> NoOne, how |-> "none"]

Init ==
  /\ locked = FALSE
  /\ total = 0
  /\ accepted = 0
  /\ rejected = 0
  /\ completed = 0
  /\ failed = 0
  /\ timeouts = 0
  /\ current = NoOne
  /\ lease = [r \in Requests |-> "none"]
  /\ loop = Idle
  /\ seen = <<>>

\* acquire_nowait: total_requests += 1.
CountRequest(r) ==
  /\ loop.at = "idle"
  /\ lease[r] = "none"
  /\ total' = total + 1
  /\ loop' = [at |-> "counted", req |-> r, how |-> "none"]
  /\ UNCHANGED <<locked, accepted, rejected, completed, failed, timeouts, current, lease, seen>>

\* Mutant: a busy return is not counted.
RefuseUncounted ==
  /\ loop.at = "counted"
  /\ locked
  /\ lease' = [lease EXCEPT ![loop.req] = "refused"]
  /\ loop' = Idle
  /\ UNCHANGED <<locked, total, accepted, rejected, completed, failed, timeouts, current, seen>>

\* acquire_nowait finds the lock taken.
Refuse ==
  /\ loop.at = "counted"
  /\ locked
  /\ rejected' = rejected + 1
  /\ lease' = [lease EXCEPT ![loop.req] = "refused"]
  /\ loop' = Idle
  /\ UNCHANGED <<locked, total, accepted, completed, failed, timeouts, current, seen>>

\* Mutant: the lock is taken without a look at whether it is free.
TakeLockUnchecked ==
  /\ loop.at = "counted"
  /\ locked' = TRUE
  /\ loop' = [loop EXCEPT !.at = "locked"]
  /\ UNCHANGED <<total, accepted, rejected, completed, failed, timeouts, current, lease, seen>>

\* acquire_nowait finds it free and takes it.
TakeLock ==
  /\ loop.at = "counted"
  /\ ~locked
  /\ locked' = TRUE
  /\ loop' = [loop EXCEPT !.at = "locked"]
  /\ UNCHANGED <<total, accepted, rejected, completed, failed, timeouts, current, lease, seen>>

\* acquire_nowait: accepted_requests += 1, and the lease is returned.
CountAccepted ==
  /\ loop.at = "locked"
  /\ accepted' = accepted + 1
  /\ current' = loop.req
  /\ lease' = [lease EXCEPT ![loop.req] = "live"]
  /\ loop' = Idle
  /\ UNCHANGED <<locked, total, rejected, completed, failed, timeouts, seen>>

\* run_nowait: timeout_requests += 1 when wait_for gives up.
CountTimeout(r) ==
  /\ loop.at = "idle"
  /\ lease[r] = "live"
  /\ timeouts' = timeouts + 1
  /\ loop' = [at |-> "late", req |-> r, how |-> "late"]
  /\ UNCHANGED <<locked, total, accepted, rejected, completed, failed, current, lease, seen>>

\* _finish_lease: completed_requests or failed_requests += 1; how is "late"
\* for the finish_error that follows a counted timeout.
CountEnd(r, how) ==
  /\ lease[r] = "live"
  /\ IF how = "late" THEN loop.at = "late" /\ loop.req = r ELSE loop.at = "idle"
  /\ completed' = completed + (IF how = "succeeded" THEN 1 ELSE 0)
  /\ failed' = failed + (IF how = "succeeded" THEN 0 ELSE 1)
  /\ loop' = [at |-> "recorded", req |-> r, how |-> how]
  /\ UNCHANGED <<locked, total, accepted, rejected, timeouts, current, lease, seen>>

\* _finish_lease: current_model is reset and the lock released.
FreeLock ==
  /\ loop.at = "recorded"
  /\ current' = NoOne
  /\ locked' = FALSE
  /\ lease' = [lease EXCEPT ![loop.req] =
                 IF loop.how = "late" THEN "failed" ELSE loop.how]
  /\ loop' = Idle
  /\ UNCHANGED <<total, accepted, rejected, completed, failed, timeouts, seen>>

EventLoop ==
  \/ \E r \in Requests :
       \/ CountRequest(r)
       \/ CountTimeout(r)
       \/ \E how \in {"succeeded", "failed", "late"} : CountEnd(r, how)
  \/ Refuse \/ TakeLock \/ CountAccepted \/ FreeLock

\* The attributes in the order snapshot() evaluates them.
Fields == <<locked, total, accepted, rejected, completed, failed, timeouts>>

ReadField ==
  /\ Len(seen) < Len(Fields)
  /\ seen' = Append(seen, Fields[Len(seen) + 1])
  /\ UNCHANGED <<queue, loop>>

NewSnapshot ==
  /\ Len(seen) = Len(Fields)
  /\ seen' = <<>>
  /\ UNCHANGED <<queue, loop>>

Next == EventLoop \/ ReadField \/ NewSnapshot

Spec == Init /\ [][Next]_vars
-----------------------------------------------------------------------------
(* Type invariant. *)
TypeOK ==
  /\ locked \in BOOLEAN
  /\ {total, accepted, rejected, completed, failed, timeouts} \subseteq Nat
  /\ current \in Requests \cup {NoOne}
  /\ lease \in [Requests -> {"none", "refused", "live", "succeeded", "failed"}]
  /\ loop \in [at : Places, req : Requests \cup {NoOne},
               how : {"none", "succeeded", "failed", "late"}]
  /\ Len(seen) <= Len(Fields)

SnapshotDone == Len(seen) = Len(Fields)

(***************************************************************************)
(* How far a snapshot can be off on the side that loses requests: total,   *)
(* read first, is at most one ahead of accepted plus rejected, and         *)
(* accepted at most one ahead of completed plus failed.  A snapshot never  *)
(* hides more than the request in flight.                                  *)
(***************************************************************************)
SnapshotHidesAtMostOne ==
  SnapshotDone =>
    /\ seen[2] <= seen[3] + seen[4] + 1
    /\ seen[3] <= seen[5] + seen[6] + 1

\* Statement by statement, the queue implements the queue whose methods are
\* atomic: a method takes effect when its last statement does.
Pending(places, hows) == IF loop.at \in places /\ loop.how \in hows THEN 1 ELSE 0

Atomic == INSTANCE LLMRequestQueue WITH
  llmLocked <- locked /\ loop.at # "locked",
  llmTotal <- total - Pending({"counted", "locked"}, {"none"}),
  llmAccepted <- accepted,
  llmRejected <- rejected,
  llmCompleted <- completed - Pending({"recorded"}, {"succeeded"}),
  llmFailed <- failed - Pending({"recorded"}, {"failed", "late"}),
  llmTimeouts <- timeouts - Pending({"late", "recorded"}, {"late"}),
  llmCurrent <- current,
  llmLease <- lease

AtomicSpec == Atomic!Spec
=============================================================================
