------------------------------- MODULE Serving -------------------------------
(***************************************************************************)
(* The serving process: request handlers, the two request queues, the NPU  *)
(* guard, the backend threads and the persistent worker processes.         *)
(*                                                                         *)
(*   chat    /v1/chat/completions, stream = false (event loop, llm_queue)  *)
(*   stream  /v1/chat/completions, stream = true  (event loop, llm_queue)  *)
(*   vision  /v1/vision/detect (a pool thread, vision_queue)               *)
(*   vlm     the VLM tasks of /v1/infer (a pool thread, no queue)          *)
(*                                                                         *)
(* Every request takes the lease of its queue, then the NPU lease, runs    *)
(* its backend, and gives the leases back in the opposite order.  The      *)
(* backend part is a thread of its own for chat and stream: the handler    *)
(* may stop waiting while the thread goes on.  A worker process reads      *)
(* prompts from a pipe and computes them one after another.                *)
(***************************************************************************)
EXTENDS Naturals, Sequences, FiniteSets

CONSTANTS
  Requests,      \* the requests the server receives
  Kind,          \* what each request asks for
  Faults,        \* what may go wrong in this instance
  NoOne          \* no request

FaultKinds ==
  {"backend_error",   \* a worker exits, fails to start or returns an error
   "worker_timeout",  \* a worker client gives up waiting for its reply
   "outer_timeout",   \* run_nowait's wait_for gives up on a chat request
   "disconnect"}      \* a streaming client closes its connection

ASSUME NoOneAssumption == NoOne \notin Requests
ASSUME KindAssumption == Kind \in [Requests -> {"chat", "stream", "vision", "vlm"}]
ASSUME FaultsAssumption == Faults \subseteq FaultKinds

VARIABLES
  npuLocked, npuTotal, npuAccepted, npuRejected, npuCompleted, npuFailed,
  npuCurrent, npuLease,                          \* npu_resource_guard
  llmLocked, llmTotal, llmAccepted, llmRejected, llmCompleted, llmFailed,
  llmTimeouts, llmCurrent, llmLease,             \* llm_queue
  visLocked, visTotal, visAccepted, visRejected, visCompleted, visFailed,
  visTimeouts, visCurrent, visLease,             \* vision_queue
  pc,            \* where each request's handler is
  verdict,       \* how the handler will answer its client
  job,           \* where each request's backend call is
  got,           \* the request whose reply the backend call returned
  clientLock,    \* who holds the _lock of each worker client
  stdin,         \* the prompts written to each worker and not yet read by it
  computing,     \* the prompt each worker process is computing on the NPU
  stdout         \* the last reply in each worker's output pipe

Guard == INSTANCE NPUResourceGuard
LLM == INSTANCE LLMRequestQueue
Vis == INSTANCE VisionRequestQueue

guardVars == <<npuLocked, npuTotal, npuAccepted, npuRejected, npuCompleted,
               npuFailed, npuCurrent, npuLease>>
llmVars == <<llmLocked, llmTotal, llmAccepted, llmRejected, llmCompleted,
             llmFailed, llmTimeouts, llmCurrent, llmLease>>
visVars == <<visLocked, visTotal, visAccepted, visRejected, visCompleted,
             visFailed, visTimeouts, visCurrent, visLease>>
handlers == <<pc, verdict>>
workers == <<clientLock, stdin, computing, stdout>>
backend == <<job, got, workers>>
vars == <<guardVars, llmVars, visVars, handlers, backend>>

Engines == {"rkllm", "yolo", "qwenvl"}

Engine(r) == CASE Kind[r] \in {"chat", "stream"} -> "rkllm"
               [] Kind[r] = "vision" -> "yolo"
               [] Kind[r] = "vlm" -> "qwenvl"

UsesLLMQueue(r) == Kind[r] \in {"chat", "stream"}

Places == {"arriving", "queued", "serving", "closing", "leaving", "answered"}
Verdicts == {"none", "ok", "busy", "error", "timeout", "gone"}
JobStates == {"none", "waiting", "reading", "paused", "ok", "error", "late"}

Init ==
  /\ Guard!Init
  /\ LLM!Init
  /\ Vis!Init
  /\ pc = [r \in Requests |-> "arriving"]
  /\ verdict = [r \in Requests |-> "none"]
  /\ job = [r \in Requests |-> "none"]
  /\ got = [r \in Requests |-> NoOne]
  /\ clientLock = [e \in Engines |-> NoOne]
  /\ stdin = [e \in Engines |-> <<>>]
  /\ computing = [e \in Engines |-> NoOne]
  /\ stdout = [e \in Engines |-> NoOne]

Goto(r, place) == pc' = [pc EXCEPT ![r] = place]
Answer(r, v) == verdict' = [verdict EXCEPT ![r] = v]
SetJob(r, state) == job' = [job EXCEPT ![r] = state]
-----------------------------------------------------------------------------
(* Request handlers. *)

\* The queue in front of the backend: llm_queue, vision_queue, or none.
Arrive(r) ==
  /\ pc[r] = "arriving"
  /\ \/ /\ \/ UsesLLMQueue(r) /\ LLM!Accept(r) /\ UNCHANGED visVars
           \/ Kind[r] = "vision" /\ Vis!Accept(r) /\ UNCHANGED llmVars
           \/ Kind[r] = "vlm" /\ UNCHANGED <<llmVars, visVars>>
        /\ Goto(r, "queued")
        /\ UNCHANGED verdict
     \/ /\ \/ UsesLLMQueue(r) /\ LLM!RejectBusy(r) /\ UNCHANGED visVars
           \/ Kind[r] = "vision" /\ Vis!RejectBusy(r) /\ UNCHANGED llmVars
        /\ Goto(r, "answered")
        /\ Answer(r, "busy")
  /\ UNCHANGED <<guardVars, backend>>

\* npu_resource_guard.acquire_nowait, and the start of the backend call.  A
\* streaming handler sends its first event before it asks for a delta.
EnterGuard(r) ==
  /\ pc[r] = "queued"
  /\ \/ /\ Guard!Accept(r)
        /\ Goto(r, "serving")
        /\ SetJob(r, IF Kind[r] = "stream" THEN "none" ELSE "waiting")
        /\ UNCHANGED verdict
     \/ /\ Guard!RejectBusy(r)
        /\ Goto(r, "leaving")
        /\ Answer(r, "busy")
        /\ UNCHANGED job
  /\ UNCHANGED <<llmVars, visVars, got, workers>>

\* A streaming handler asks its generator for the next delta, in a thread.
Pull(r) ==
  /\ Kind[r] = "stream"
  /\ pc[r] = "serving"
  /\ \/ job[r] = "none" /\ SetJob(r, "waiting")
     \/ job[r] = "paused" /\ SetJob(r, "reading")
  /\ UNCHANGED <<guardVars, llmVars, visVars, handlers, got, workers>>

\* Mutant: an error of the backend leaves the NPU lease as it is.
BackendReturnedKeepsLease(r) ==
  /\ pc[r] = "serving"
  /\ \/ job[r] = "ok" /\ Guard!EnterFinish(r, "succeeding") /\ Answer(r, "ok") /\ Goto(r, "closing")
     \/ job[r] = "error" /\ UNCHANGED guardVars /\ Answer(r, "error") /\ Goto(r, "leaving")
  /\ UNCHANGED <<llmVars, visVars, backend>>

\* The backend call has ended and the handler begins to give its NPU lease
\* back.
BackendReturned(r) ==
  /\ pc[r] = "serving"
  /\ \/ job[r] = "ok" /\ Guard!EnterFinish(r, "succeeding") /\ Answer(r, "ok")
     \/ job[r] = "error" /\ Guard!EnterFinish(r, "failing") /\ Answer(r, "error")
     \/ job[r] = "late" /\ Guard!EnterFinish(r, "failing") /\ Answer(r, "timeout")
  /\ Goto(r, "closing")
  /\ UNCHANGED <<llmVars, visVars, backend>>

\* Mutant: a cancelled stream leaves its NPU lease as it is.
DisconnectKeepsLease(r) ==
  /\ "disconnect" \in Faults
  /\ Kind[r] = "stream"
  /\ pc[r] = "serving"
  /\ Answer(r, "gone")
  /\ Goto(r, "leaving")
  /\ UNCHANGED <<guardVars, llmVars, visVars, backend>>

\* The client of a stream is gone: _stream_chat_events is cancelled at an
\* await or closed at a yield, and gives its leases back as failed.  The
\* thread that is producing the next delta is not stopped.
Disconnect(r) ==
  /\ "disconnect" \in Faults
  /\ Kind[r] = "stream"
  /\ pc[r] = "serving"
  /\ job[r] \in {"none", "waiting", "reading", "paused", "ok"}
  /\ Guard!EnterFinish(r, "failing")
  /\ Answer(r, "gone")
  /\ Goto(r, "closing")
  /\ UNCHANGED <<llmVars, visVars, backend>>

CommitGuard(r) ==
  /\ pc[r] = "closing"
  /\ Guard!CommitFinish(r)
  /\ Goto(r, "leaving")
  /\ UNCHANGED <<llmVars, visVars, verdict, backend>>

\* run_nowait's wait_for expires while the backend call of a chat request is
\* running: it cancels _generate_with_npu_guard, whose except clause does not
\* catch CancelledError, and records the timeout.
OuterTimeout(r) ==
  /\ "outer_timeout" \in Faults
  /\ Kind[r] = "chat"
  /\ pc[r] = "serving"
  /\ job[r] \in {"waiting", "reading"}
  /\ LLM!TimeoutFinish(r)
  /\ Answer(r, "timeout")
  /\ Goto(r, "answered")
  /\ UNCHANGED <<guardVars, visVars, backend>>

\* Mutant: whatever happened, the queue records a completion.
LeaveLLMQueueSucceeds(r) ==
  /\ LLM!Finish(r, "succeeded")
  /\ Goto(r, "answered")
  /\ UNCHANGED visVars

\* The handler finishes its llm_queue lease.  The builtin TimeoutError of the
\* worker is asyncio.TimeoutError from Python 3.11 on, and then counted as a
\* timeout.
LeaveLLMQueue(r) ==
  /\ \/ verdict[r] = "ok" /\ LLM!Finish(r, "succeeded")
     \/ verdict[r] # "ok" /\ LLM!Finish(r, "failed")
     \/ verdict[r] = "timeout" /\ Kind[r] = "chat" /\ LLM!TimeoutFinish(r)
  /\ Goto(r, "answered")
  /\ UNCHANGED visVars

\* The handler finishes its vision_queue lease, in two or three steps.
LeaveVisionQueue(r) ==
  /\ \/ /\ \/ verdict[r] = "ok" /\ Vis!EnterFinish(r, "succeeding")
           \/ /\ verdict[r] # "ok"
              /\ verdict[r] = "timeout" => visLease[r] = "late"
              /\ Vis!EnterFinish(r, "failing")
           \/ verdict[r] = "timeout" /\ Vis!CountTimeout(r)
        /\ UNCHANGED pc
     \/ Vis!CommitFinish(r) /\ Goto(r, "answered")
  /\ UNCHANGED llmVars

Leave(r) ==
  /\ pc[r] = "leaving"
  /\ \/ UsesLLMQueue(r) /\ LeaveLLMQueue(r)
     \/ Kind[r] = "vision" /\ LeaveVisionQueue(r)
     \/ Kind[r] = "vlm" /\ Goto(r, "answered") /\ UNCHANGED <<llmVars, visVars>>
  /\ UNCHANGED <<guardVars, verdict, backend>>

Handler(r) ==
  \/ Arrive(r) \/ EnterGuard(r) \/ Pull(r) \/ BackendReturned(r)
  \/ CommitGuard(r) \/ Leave(r) \/ OuterTimeout(r) \/ Disconnect(r)
-----------------------------------------------------------------------------
(* Backend calls and worker processes. *)

\* Mutant: the process is forgotten and not terminated.
StopWorkerForgets(e) == UNCHANGED <<stdin, computing, stdout>>

\* The worker's process is terminated: what was in its pipes is lost.
StopWorker(e) ==
  /\ stdin' = [stdin EXCEPT ![e] = <<>>]
  /\ computing' = [computing EXCEPT ![e] = NoOne]
  /\ stdout' = [stdout EXCEPT ![e] = NoOne]

Unlock(e) == clientLock' = [clientLock EXCEPT ![e] = NoOne]

untouched == <<guardVars, llmVars, visVars, handlers>>

\* Mutant: the client's lock is not waited for.
BeginCallUnlocked(r) ==
  LET e == Engine(r) IN
  /\ job[r] = "waiting"
  /\ clientLock' = [clientLock EXCEPT ![e] = r]
  /\ stdin' = [stdin EXCEPT ![e] = Append(@, r)]
  /\ stdout' = IF e = "rkllm" THEN [stdout EXCEPT ![e] = NoOne] ELSE stdout
  /\ SetJob(r, "reading")
  /\ UNCHANGED <<untouched, computing, got>>

\* The call gets the client's lock, starts the worker if it is not running
\* and writes its prompt.  Only the RKLLM client drains the pipe first.
BeginCall(r) ==
  LET e == Engine(r) IN
  /\ job[r] = "waiting"
  /\ clientLock[e] = NoOne
  /\ clientLock' = [clientLock EXCEPT ![e] = r]
  /\ stdin' = [stdin EXCEPT ![e] = Append(@, r)]
  /\ stdout' = IF e = "rkllm" THEN [stdout EXCEPT ![e] = NoOne] ELSE stdout
  /\ SetJob(r, "reading")
  /\ UNCHANGED <<untouched, computing, got>>

\* What the client takes for the reply: the RKLLM and Qwen3-VL clients the
\* next complete one, the YOLO client only the one with its request's id.
Accepts(r, reply) == reply # NoOne /\ (Engine(r) = "yolo" => reply = r)

EndCall(r, state) ==
  LET e == Engine(r) IN
  /\ Accepts(r, stdout[e])
  /\ got' = [got EXCEPT ![r] = stdout[e]]
  /\ stdout' = [stdout EXCEPT ![e] = NoOne]
  /\ Unlock(e)
  /\ SetJob(r, state)
  /\ UNCHANGED <<untouched, stdin, computing>>

Reply(r) == job[r] = "reading" /\ EndCall(r, "ok")

\* The reply is an error or an empty text.  A stream has no such reply.
BadReply(r) ==
  /\ "backend_error" \in Faults
  /\ job[r] = "reading"
  /\ Kind[r] # "stream"
  /\ EndCall(r, "error")

\* The worker cannot be started, or exits while the call is reading.
WorkerExits(r) ==
  /\ "backend_error" \in Faults
  /\ \/ job[r] = "waiting" /\ clientLock[Engine(r)] = NoOne /\ UNCHANGED clientLock
     \/ job[r] = "reading" /\ Unlock(Engine(r))
  /\ StopWorker(Engine(r))
  /\ SetJob(r, "error")
  /\ UNCHANGED <<untouched, got>>

\* The client's own deadline passes.  The streaming and the Qwen3-VL clients
\* terminate the worker; the other two leave it computing.
WorkerTimeout(r) ==
  /\ "worker_timeout" \in Faults
  /\ job[r] = "reading"
  /\ IF Kind[r] \in {"stream", "vlm"}
     THEN StopWorker(Engine(r))
     ELSE UNCHANGED <<stdin, computing, stdout>>
  /\ Unlock(Engine(r))
  /\ SetJob(r, "late")
  /\ UNCHANGED <<untouched, got>>

\* The generator of a stream yields a delta, the client's lock still held.
YieldDelta(r) ==
  /\ Kind[r] = "stream"
  /\ job[r] = "reading"
  /\ computing[Engine(r)] # NoOne
  /\ SetJob(r, "paused")
  /\ UNCHANGED <<untouched, got, workers>>

\* Mutant: the generator is closed and the client's lock stays taken.
CloseAbandonedKeepsLock(r) ==
  /\ verdict[r] = "gone"
  /\ job[r] = "paused"
  /\ StopWorker(Engine(r))
  /\ SetJob(r, "error")
  /\ UNCHANGED <<untouched, got, clientLock>>

\* The generator of a stream that nobody reads any more is closed at its
\* next yield: its finally clause stops the worker.
CloseAbandoned(r) ==
  /\ verdict[r] = "gone"
  /\ job[r] = "paused"
  /\ StopWorker(Engine(r))
  /\ Unlock(Engine(r))
  /\ SetJob(r, "error")
  /\ UNCHANGED <<untouched, got>>

TakePrompt(e) ==
  /\ computing[e] = NoOne
  /\ stdin[e] # <<>>
  /\ computing' = [computing EXCEPT ![e] = Head(stdin[e])]
  /\ stdin' = [stdin EXCEPT ![e] = Tail(@)]
  /\ UNCHANGED <<untouched, job, got, clientLock, stdout>>

WriteReply(e) ==
  /\ computing[e] # NoOne
  /\ stdout' = [stdout EXCEPT ![e] = computing[e]]
  /\ computing' = [computing EXCEPT ![e] = NoOne]
  /\ UNCHANGED <<untouched, job, got, clientLock, stdin>>

CallEnds(r) == Reply(r) \/ BadReply(r) \/ WorkerExits(r) \/ WorkerTimeout(r)

Call(r) == BeginCall(r) \/ CallEnds(r) \/ YieldDelta(r) \/ CloseAbandoned(r)

Worker(e) == TakePrompt(e) \/ WriteReply(e)

Next ==
  \/ \E r \in Requests : Handler(r) \/ Call(r)
  \/ \E e \in Engines : Worker(e)

Spec == Init /\ [][Next]_vars

(***************************************************************************)
(* Fairness.  A handler and a backend thread that can run are scheduled    *)
(* (the event loop and the thread pool); the client of a stream keeps      *)
(* reading or goes away.  Requests need not arrive, faults need not happen *)
(* and the workers need not compute.                                       *)
(***************************************************************************)
HandlerFairness ==
  \A r \in Requests :
    /\ WF_vars(EnterGuard(r))
    /\ WF_vars(Pull(r))
    /\ WF_vars(BackendReturned(r))
    /\ WF_vars(CommitGuard(r))
    /\ WF_vars(Leave(r))
    /\ WF_vars(BeginCall(r))
    /\ WF_vars(CloseAbandoned(r))

\* The workers may hang for ever, but every call has an absolute deadline,
\* which a stream of deltas does not postpone.
DeadlineSpec ==
  /\ Spec
  /\ HandlerFairness
  /\ \A r \in Requests : SF_vars(CallEnds(r))
-----------------------------------------------------------------------------
(* Type invariant. *)
TypeOK ==
  /\ Guard!TypeOK
  /\ LLM!TypeOK
  /\ Vis!TypeOK
  /\ pc \in [Requests -> Places]
  /\ verdict \in [Requests -> Verdicts]
  /\ job \in [Requests -> JobStates]
  /\ got \in [Requests -> Requests \cup {NoOne}]
  /\ clientLock \in [Engines -> Requests \cup {NoOne}]
  /\ stdin \in [Engines -> Seq(Requests)]
  /\ computing \in [Engines -> Requests \cup {NoOne}]
  /\ stdout \in [Engines -> Requests \cup {NoOne}]

Leases(r) == {npuLease[r], llmLease[r], visLease[r]}

(***************************************************************************)
(* A worker computes a prompt only while the request it came from holds    *)
(* the NPU lease: the lease is not given back before the computing ends.   *)
(***************************************************************************)
ComputesUnderLease ==
  \A e \in Engines : computing[e] # NoOne => computing[e] \in Guard!Holders

(***************************************************************************)
(* A request that has been answered holds no lease: neither the guard nor  *)
(* a queue stays busy for a client that is gone.                           *)
(***************************************************************************)
NothingHeldAfterAnswer ==
  \A r \in Requests :
    pc[r] = "answered" =>
      Leases(r) \subseteq {"none", "refused", "succeeded", "failed"}

(***************************************************************************)
(* The leases are nested: who holds the NPU lease also holds the lease of  *)
(* its queue, so a request that a queue admits is refused by the guard     *)
(* only because of a request of another task.                              *)
(***************************************************************************)
QueueLeaseOutlivesNPULease ==
  \A r \in Guard!Holders :
    /\ UsesLLMQueue(r) => r \in LLM!Holders
    /\ Kind[r] = "vision" => r \in Vis!Holders

(***************************************************************************)
(* The client, the guard and the queue tell the same story: a request is   *)
(* answered with a result exactly if every lease it took is recorded as    *)
(* completed, and a request told to retry never reached a backend.         *)
(***************************************************************************)
LedgersTellTheAnswer ==
  \A r \in Requests :
    pc[r] = "answered" =>
      /\ (verdict[r] = "ok") <=> ("succeeded" \in Leases(r))
      /\ verdict[r] = "ok" => ~\E l \in Leases(r) : l \in {"failed", "refused"}
      /\ verdict[r] = "busy" => job[r] = "none" /\ "refused" \in Leases(r)

GotForeignReply(r) == got[r] \notin {r, NoOne}

(***************************************************************************)
(* A backend call that returns the reply to another request's prompt is an *)
(* RKLLM call, and the other request was a chat whose call timed out, or   *)
(* one that had itself been given the reply of a request before it: every  *)
(* wrong answer goes back to a worker that a timed-out chat left           *)
(* computing.  A stream, a detection or a VLM request never leaves a reply *)
(* that another request could get.                                         *)
(***************************************************************************)
ForeignReplyIsOfALateChat ==
  \A r \in Requests :
    GotForeignReply(r) =>
      /\ UsesLLMQueue(r) /\ UsesLLMQueue(got[r])
      /\ \/ Kind[got[r]] = "chat" /\ job[got[r]] = "late"
         \/ GotForeignReply(got[r])

(***************************************************************************)
(* npu_resource_busy is said only on account of a request that is still    *)
(* being handled.                                                          *)
(***************************************************************************)
RefusedForSomeoneServed ==
  [][\A r \in Requests :
       npuLease[r] = "none" /\ npuLease'[r] = "refused" =>
         \E q \in Guard!Holders : pc[q] # "answered"]_vars

(***************************************************************************)
(* What is left behind after an answer is at most the NPU lease of a chat  *)
(* request cut off by run_nowait's timeout; no other fault, and no other   *)
(* kind of request, leaks a lease.                                         *)
(***************************************************************************)
OnlyTimedOutChatLeaks ==
  \A r \in Requests :
    pc[r] = "answered" /\ ~(Leases(r) \subseteq {"none", "refused", "succeeded", "failed"}) =>
      /\ Kind[r] = "chat"
      /\ verdict[r] = "timeout"
      /\ npuLease[r] = "live" /\ llmLease[r] = "failed"

(***************************************************************************)
(* At most one backend call is talking to a worker process: only the       *)
(* holder of the client's lock reads its pipe, even when the handlers that *)
(* started older calls have given up on them.                              *)
(***************************************************************************)
OneReaderPerWorker ==
  \A r \in Requests :
    job[r] \in {"reading", "paused"} <=> clientLock[Engine(r)] = r

(***************************************************************************)
(* Every request that gets past its queue is answered.                     *)
(***************************************************************************)
AdmittedIsAnswered ==
  \A r \in Requests : pc[r] = "queued" ~> pc[r] = "answered"

(***************************************************************************)
(* A worker that computes for nobody who holds the NPU lease was left so   *)
(* by a call of its own engine that timed out or whose client went away:   *)
(* neither a reply nor a failure lets the guard admit a second user of the *)
(* NPU.                                                                    *)
(***************************************************************************)
StrayWorkIsAbandoned ==
  \A e \in Engines :
    computing[e] \notin Guard!Holders \cup {NoOne} =>
      \E r \in Requests : Engine(r) = e /\ verdict[r] \in {"timeout", "gone"}

(***************************************************************************)
(* Each lock of the scheduler is an exclusive slot under the handlers that *)
(* use it: entered only when empty, refused only when full, and left once  *)
(* by each request that entered, whatever became of that request.          *)
(***************************************************************************)
LocksAreSlots == Guard!SlotSpec /\ LLM!SlotSpec /\ Vis!SlotSpec

(***************************************************************************)
(* The two queues keep their books under every fault: the lock is taken    *)
(* exactly while one request is in the queue, that request is the current  *)
(* one, the counters add up, and each timeout is a failure as well.        *)
(***************************************************************************)
QueueBooksBalance ==
  /\ LLM!LockMatchesLease /\ LLM!CountersAddUp
  /\ Vis!LockMatchesLease /\ Vis!SnapshotAddsUp /\ Vis!TimeoutsAreFailures

=============================================================================
