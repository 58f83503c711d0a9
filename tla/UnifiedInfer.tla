----------------------------- MODULE UnifiedInfer -----------------------------
(***************************************************************************)
(* /v1/infer (server/api/infer_api.py) with the Qwen3-VL backend           *)
(* (server/runtime/qwen3_vl_backend.py): each request is dispatched by its *)
(* task and input, and a VLM request takes the NPU, runs in the persistent *)
(* worker or in a one-shot process, and gives the NPU back.                *)
(*                                                                         *)
(* The object-detection task goes through vision_detect, which VisionDetect*)
(* models; here it is one of the tasks that may have the NPU.              *)
(***************************************************************************)
EXTENDS Qwen3VLWorker

CONSTANTS
  Asks,          \* the requests that may be made, of InferData
  Backends       \* how the environment may run Qwen3-VL

Data == INSTANCE InferData

ASSUME AsksAssumption == Asks \subseteq Data!UnifiedInferRequest
ASSUME BackendsAssumption == Backends \subseteq {"worker", "oneshot"}

VARIABLES
  ask,           \* what each request asks for
  backend,       \* use_worker
  npu,           \* the request that has the lease of the NPU
  oneshot,       \* the request whose one-shot process runs
  pc,            \* where each request is
  exc,           \* how its backend ended
  answer         \* its answer

given == <<ask, backend>>
vars == <<qwenVars, given, npu, oneshot, pc, exc, answer>>

Places == {"arriving", "guarded", "inferring", "running", "returned", "leaving", "answered"}

Init ==
  /\ QwenInit
  /\ ask \in [Requests -> Asks] /\ backend \in Backends
  /\ npu = NoOne /\ oneshot = NoOne
  /\ pc = [r \in Requests |-> "arriving"]
  /\ exc = [r \in Requests |-> "none"]
  /\ answer = [r \in Requests |-> <<0, "none">>]

At(r, place) == pc[r] = place
To(r, place) == pc' = [pc EXCEPT ![r] = place]
Answers(r, reply) == To(r, "answered") /\ answer' = [answer EXCEPT ![r] = reply]

\* The bare 500 of an exception that no handler maps to an error code.
Unmapped == <<500, "none">>

\* Qwen3VLBackendError of the worker and of the one-shot mode.
AnswerTo(how) ==
  CASE how = "ok"            -> <<200, "none">>
    [] how = "asset missing" -> <<500, "qwen3_vl_worker_asset_missing">>
    [] how = "start failed"  -> <<500, "qwen3_vl_worker_start_failed">>
    [] how = "start timeout" -> <<504, "qwen3_vl_worker_start_timeout">>
    [] how = "not running"   -> <<500, "qwen3_vl_worker_not_running">>
    [] how = "write failed"  -> <<500, "qwen3_vl_worker_write_failed">>
    [] how = "empty answer"  -> <<500, "qwen3_vl_worker_empty_answer">>
    [] how = "runtime error" -> <<500, "qwen3_vl_worker_runtime_error">>
    [] how = "timeout"       -> <<504, "qwen3_vl_worker_timeout">>
    [] how = "demo missing"  -> <<500, "qwen3_vl_asset_missing">>
    [] how = "demo timeout"  -> <<504, "qwen3_vl_timeout">>
    [] how = "demo failed"   -> <<500, "qwen3_vl_runtime_error">>
    [] how = "no answer"     -> <<500, "qwen3_vl_answer_parse_failed">>
    [] how = "demo empty"    -> <<500, "qwen3_vl_empty_answer">>
-----------------------------------------------------------------------------
\* The request is refused for its task or its input.
RefuseInput(r) ==
  LET d == Data!Dispatch(ask[r])
  IN  /\ At(r, "arriving") /\ d.to = "refused"
      /\ Answers(r, <<d.status, d.code>>)
      /\ UNCHANGED <<qwenVars, given, npu, oneshot, exc>>

\* The text-generation task calls the coroutine function chat_completions
\* without awaiting it: no chat is run, and the coroutine, which cannot be
\* put into a response, is taken for its result.
AnswerText(r) ==
  /\ At(r, "arriving") /\ Data!Dispatch(ask[r]).to = "text"
  /\ Answers(r, Unmapped)
  /\ UNCHANGED <<qwenVars, given, npu, oneshot, exc>>

\* vision_detect answers in its own ways.
AnswerVision(r) ==
  /\ At(r, "arriving") /\ Data!Dispatch(ask[r]).to = "vision"
  /\ Answers(r, <<0, "vision">>)
  /\ UNCHANGED <<qwenVars, given, npu, oneshot, exc>>

\* Qwen3VLBackend.generate takes the NPU, or finds it taken, by a VLM request
\* or another task.
AcquireNPU(r) ==
  /\ At(r, "arriving") /\ Data!Dispatch(ask[r]).to = "vlm"
  /\ \/ npu = NoOne /\ npu' = r /\ To(r, "guarded") /\ UNCHANGED answer
     \/ Answers(r, <<429, "npu_resource_busy">>) /\ UNCHANGED npu
  /\ UNCHANGED <<qwenVars, given, oneshot, exc>>

CallBackend(r) ==
  /\ At(r, "guarded")
  /\ \/ backend = "worker" /\ To(r, "inferring") /\ UNCHANGED <<oneshot, exc>>
     \/ /\ backend = "oneshot"
        /\ \/ oneshot' = r /\ To(r, "running") /\ UNCHANGED exc
           \/ /\ "missing_asset" \in Faults
              /\ exc' = [exc EXCEPT ![r] = "demo missing"] /\ To(r, "returned")
              /\ UNCHANGED oneshot
  /\ UNCHANGED <<qwenVars, given, npu, answer>>

InWorker(r) ==
  /\ At(r, "inferring")
  /\ Infer(r)
  /\ UNCHANGED <<given, npu, oneshot, pc, exc, answer>>

WorkerProcess == Process /\ UNCHANGED <<given, npu, oneshot, pc, exc, answer>>

WorkerReturns(r) ==
  /\ At(r, "inferring") /\ step[r] \in Ended
  /\ exc' = [exc EXCEPT ![r] = step[r]]
  /\ To(r, "returned")
  /\ UNCHANGED <<qwenVars, given, npu, oneshot, answer>>

\* Mutant: the process of a request that timed out is left running.
RunOneshotOn(r) ==
  /\ At(r, "running")
  /\ \E how \in {"ok"} \cup (IF "request_timeout" \in Faults THEN {"demo timeout"} ELSE {}) :
       /\ exc' = [exc EXCEPT ![r] = how]
       /\ oneshot' = IF how = "ok" THEN NoOne ELSE r
       /\ got' = IF how = "ok" THEN [got EXCEPT ![r] = r] ELSE got
  /\ To(r, "returned")
  /\ UNCHANGED <<lock, process, counters, step, heard, given, npu, answer>>

\* _generate_oneshot: subprocess.run waits for the process or kills it.
RunOneshot(r) ==
  /\ At(r, "running")
  /\ oneshot' = NoOne
  /\ \E how \in {"ok"} \cup (IF "request_timeout" \in Faults THEN {"demo timeout"} ELSE {})
                       \cup (IF "exit" \in Faults THEN {"demo failed"} ELSE {})
                       \cup (IF "empty" \in Faults THEN {"no answer", "demo empty"} ELSE {}) :
       /\ exc' = [exc EXCEPT ![r] = how]
       /\ got' = IF how = "ok" THEN [got EXCEPT ![r] = r] ELSE got
  /\ To(r, "returned")
  /\ UNCHANGED <<lock, process, counters, step, heard, given, npu, answer>>

\* finish_success, or finish_error of an except clause.
ReleaseNPU(r) ==
  /\ At(r, "returned")
  /\ npu' = NoOne
  /\ To(r, "leaving")
  /\ UNCHANGED <<qwenVars, given, oneshot, exc, answer>>

Answer(r) ==
  /\ At(r, "leaving")
  /\ Answers(r, AnswerTo(exc[r]))
  /\ UNCHANGED <<qwenVars, given, npu, oneshot, exc>>

\* The steps of the thread that has request r.
Thread(r) ==
  \/ RefuseInput(r) \/ AnswerText(r) \/ AnswerVision(r) \/ AcquireNPU(r)
  \/ CallBackend(r) \/ InWorker(r) \/ WorkerReturns(r) \/ RunOneshot(r)
  \/ ReleaseNPU(r) \/ Answer(r)

Next == (\E r \in Requests : Thread(r)) \/ WorkerProcess

Spec == Init /\ [][Next]_vars

\* The operating system runs every thread of the pool; nothing is assumed of
\* the worker process.
FairSpec == Spec /\ \A r \in Requests : WF_vars(Thread(r))
-----------------------------------------------------------------------------
(* Type invariant. *)
TypeOK ==
  /\ QwenTypeOK
  /\ ask \in [Requests -> Asks] /\ backend \in Backends
  /\ npu \in Requests \cup {NoOne} /\ oneshot \in Requests \cup {NoOne}
  /\ pc \in [Requests -> Places]
  /\ DOMAIN exc = Requests /\ DOMAIN answer = Requests

(***************************************************************************)
(* An answer is that of its own request, although the protocol has no      *)
(* identifiers: a call that ends without its block leaves no process       *)
(* behind, and one that ends with it leaves no line behind.                *)
(***************************************************************************)
AnswerIsOwn ==
  \A r \in Requests :
    /\ got[r] \in {r, NoOne}
    /\ exc[r] = "ok" => got[r] = r

(***************************************************************************)
(* Qwen3-VL loads and computes only under the lease of the request that    *)
(* asked for it, timeouts and failures included: unlike the other two      *)
(* workers, this one does not outlive a call that gave it up.              *)
(***************************************************************************)
ComputesUnderLease ==
  /\ mode = "loading" => npu \in Calls({"starting"})
  /\ mode = "computing" => npu = asked
  /\ oneshot \in {npu, NoOne}

(***************************************************************************)
(* As long as the process lives and does not stop within a line, a call    *)
(* that waits for its block has the end of it before it: among the lines   *)
(* in Python's buffer, in the pipe or still to be written, unless the      *)
(* process has not come to it yet.  So a call that times out though its    *)
(* block is written and the pipe is empty has the rest of it in the        *)
(* buffer, where select does not look.                                     *)
(***************************************************************************)
BlockIsComing ==
  \A r \in Calls({"reading"}) :
    proc = "alive" /\ mode # "stalled" =>
      \/ stdin = <<r>> /\ asked = NoOne
      \/ stdin = <<>> /\ asked = r
      \/ /\ stdin = <<>> /\ asked = NoOne
         /\ \E i \in DOMAIN Owed : /\ Owed[i].kind \in {"END", "ERROR_END"}
                                   /\ i = Len(Owed)

(***************************************************************************)
(* A VLM request that has the NPU is answered and gives it back, although  *)
(* the worker may hang, die or talk without end: the deadlines of starting *)
(* and of reading are absolute.  There is one exception: a worker that     *)
(* stops in the middle of a line holds the call in readline.               *)
(***************************************************************************)
LeaseIsGivenBack ==
  \A r \in Requests :
    npu = r ~> \/ npu # r /\ pc[r] = "answered"
               \/ mode = "stalled" /\ step[r] \in {Blocked[p] : p \in DOMAIN Blocked}
=============================================================================
