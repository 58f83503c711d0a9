----------------------------- MODULE VisionDetect -----------------------------
(***************************************************************************)
(* /v1/vision/detect from the request to its answer: the handler of        *)
(* server/api/vision_api.py, the vision queue it goes through, its lease   *)
(* of the NPU, the backend that the environment selects (fake, the three   *)
(* probe backends, or the persistent worker) and the backend's counters.   *)
(*                                                                         *)
(* The requests are those whose model was resolved (ModelRegistry) and     *)
(* that name an image.  Of the NPU guard this module sees who of them has  *)
(* the lease, and that other tasks may have it (NPUResourceGuard).         *)
(***************************************************************************)
EXTENDS YoloWorker

CONSTANTS
  Backends       \* the backends that the environment may select

Probes == {"dryrun", "inference", "detect"}

ASSUME BackendsAssumption == Backends \subseteq {"fake", "worker"} \cup Probes

VARIABLES
  visLocked, visTotal, visAccepted, visRejected, visCompleted, visFailed,
  visTimeouts, visCurrent, visLease,  \* the vision queue
  npu,           \* the request that has the lease of the NPU
  backend,       \* _vision_backend_name()
  wanted,        \* the model that each request is resolved to
  total,         \* the backend class's _total_requests
  completed,     \* _completed_requests
  failed,        \* _failed_requests
  pc,            \* where each request is
  exc,           \* the exception that passes through it
  answer         \* its answer

Vis == INSTANCE VisionRequestQueue

visVars == <<visLocked, visTotal, visAccepted, visRejected, visCompleted,
             visFailed, visTimeouts, visCurrent, visLease>>
given == <<backend, wanted>>
tally == <<total, completed, failed>>
vars == <<yoloVars, visVars, npu, given, tally, pc, exc, answer>>

Places == {"arriving", "admitted", "guarded", "checking", "running", "calling",
           "completing", "raising", "releasing", "leaving", "answered"}
Exceptions == {"none", "npu busy", "model missing", "file missing", "bad image",
               "probe error", "timeout", "other"}

NoAnswer == <<0, "none">>

Init ==
  /\ YoloInit /\ Vis!Init
  /\ npu = NoOne
  /\ backend \in Backends /\ wanted \in [Requests -> Models]
  /\ total = 0 /\ completed = 0 /\ failed = 0
  /\ pc = [r \in Requests |-> "arriving"]
  /\ exc = [r \in Requests |-> "none"]
  /\ answer = [r \in Requests |-> NoAnswer]

At(r, place) == pc[r] = place
To(r, place) == pc' = [pc EXCEPT ![r] = place]
Raise(r, what, place) == exc' = [exc EXCEPT ![r] = what] /\ To(r, place)

\* The answer to a request whose backend raised nothing, or this.  A missing
\* worker script or interpreter is FileNotFoundError too.
AnswerTo(what) ==
  CASE what = "none"          -> <<200, "none">>
    [] what = "npu busy"      -> <<429, "npu_resource_busy">>
    [] what = "model missing" -> <<404, "vision_model_file_not_found">>
    [] what = "file missing"  -> <<404, "image_not_found">>
    [] what = "bad image"     -> <<400, "invalid_image_file">>
    [] what = "probe error"   -> <<500, "rknn_yolo_runtime_error">>
    [] what = "timeout"       -> <<504, "vision_backend_timeout">>
    [] what = "other"         -> <<500, "none">>
-----------------------------------------------------------------------------
\* run_nowait refuses the request or takes it in.
EnterQueue(r) ==
  /\ At(r, "arriving")
  /\ \/ /\ Vis!RejectBusy(r)
        /\ To(r, "answered")
        /\ answer' = [answer EXCEPT ![r] = <<429, "vision_backend_busy">>]
     \/ Vis!Accept(r) /\ To(r, "admitted") /\ UNCHANGED answer
  /\ UNCHANGED <<yoloVars, npu, given, tally, exc>>

\* The NPU is taken, or another task, or a request, has it.
AcquireNPU(r) ==
  /\ At(r, "admitted")
  /\ \/ npu = NoOne /\ npu' = r /\ To(r, "guarded") /\ UNCHANGED exc
     \/ Raise(r, "npu busy", "leaving") /\ UNCHANGED npu
  /\ UNCHANGED <<yoloVars, visVars, given, tally, answer>>

StartRequest(r) ==
  /\ At(r, "guarded")
  /\ total' = total + 1
  /\ To(r, "checking")
  /\ UNCHANGED <<yoloVars, visVars, npu, given, completed, failed, exc, answer>>

\* The image is probed.
ProbeImage(r, next) ==
  \/ "missing_file" \in Faults /\ Raise(r, "file missing", "raising")
  \/ "bad_image" \in Faults /\ Raise(r, "bad image", "raising")
  \/ To(r, next) /\ UNCHANGED exc

\* The fake backend looks for no model and finds nothing in the image.
FakeDetect(r) ==
  /\ At(r, "checking") /\ backend = "fake"
  /\ ProbeImage(r, "completing")
  /\ UNCHANGED <<yoloVars, visVars, npu, given, tally, answer>>

\* The others look for the model's file first, unless the model names none.
CheckFiles(r) ==
  /\ At(r, "checking") /\ backend # "fake"
  /\ \/ /\ "missing_file" \in Faults
        /\ \E what \in {"model missing", "probe error"} : Raise(r, what, "raising")
     \/ ProbeImage(r, "running")
  /\ UNCHANGED <<yoloVars, visVars, npu, given, tally, answer>>

\* The probe of the detect backend returns what it found; what the other two
\* report is not about objects.
ProbeFinds(r) ==
  /\ To(r, "completing")
  /\ got' = IF backend = "detect" THEN [got EXCEPT ![r] = <<r, wanted[r]>>] ELSE got
  /\ UNCHANGED exc

\* The probe is not there, or its interpreter; it reports an error, or nothing
\* that can be read; or it is killed at its timeout.
ProbeFails(r) ==
  /\ \/ Faults \cap {"missing_file", "load_fails", "detect_fails", "noise", "exit"} # {}
        /\ Raise(r, "probe error", "raising")
     \/ "missing_file" \in Faults /\ Raise(r, "file missing", "raising")
     \/ "request_timeout" \in Faults /\ Raise(r, "other", "raising")
  /\ UNCHANGED got

\* _run_probe: one subprocess per request, which is waited for.
RunProbe(r) ==
  /\ At(r, "running") /\ backend \in Probes
  /\ ProbeFinds(r) \/ ProbeFails(r)
  /\ UNCHANGED <<key, users, lock, process, counters, step, visVars, npu, given, tally, answer>>

CallWorker(r) ==
  /\ At(r, "running") /\ backend = "worker"
  /\ GetWorker(r, wanted[r])
  /\ To(r, "calling")
  /\ UNCHANGED <<visVars, npu, given, tally, exc, answer>>

InWorker(r) ==
  /\ At(r, "calling")
  /\ Detect(r)
  /\ UNCHANGED <<visVars, npu, given, tally, pc, exc, answer>>

WorkerProcess == Process /\ UNCHANGED <<visVars, npu, given, tally, pc, exc, answer>>

\* detect() of the client returns or raises.
WorkerReturns(r) ==
  /\ At(r, "calling")
  /\ \/ step[r] = "ok" /\ To(r, "completing") /\ UNCHANGED exc
     \/ step[r] \in {"refused", "lost", "died"} /\ Raise(r, "other", "raising")
     \/ step[r] \in {"late", "notReady"} /\ Raise(r, "timeout", "raising")
     \/ step[r] = "notStarted" /\ Raise(r, "file missing", "raising")
  /\ UNCHANGED <<yoloVars, visVars, npu, given, tally, answer>>

\* Mutant: a timeout is left to the queue to count.
CountEndOnce(r) ==
  /\ \/ At(r, "completing") /\ completed' = completed + 1 /\ UNCHANGED failed
     \/ /\ At(r, "raising") /\ UNCHANGED completed
        /\ failed' = IF exc[r] = "timeout" THEN failed ELSE failed + 1
  /\ To(r, "releasing")
  /\ UNCHANGED <<yoloVars, visVars, npu, given, total, exc, answer>>

\* _complete_request, or _fail_request of the except clause.
CountEnd(r) ==
  /\ \/ At(r, "completing") /\ completed' = completed + 1 /\ UNCHANGED failed
     \/ At(r, "raising") /\ failed' = failed + 1 /\ UNCHANGED completed
  /\ To(r, "releasing")
  /\ UNCHANGED <<yoloVars, visVars, npu, given, total, exc, answer>>

\* Mutant: the lease is given back as soon as the worker has been called.
ReleaseNPUEarly(r) ==
  /\ At(r, "releasing") \/ At(r, "calling")
  /\ npu' = NoOne
  /\ IF At(r, "releasing") THEN To(r, "leaving") ELSE UNCHANGED pc
  /\ UNCHANGED <<yoloVars, visVars, given, tally, exc, answer>>

ReleaseNPU(r) ==
  /\ At(r, "releasing")
  /\ npu' = NoOne
  /\ To(r, "leaving")
  /\ UNCHANGED <<yoloVars, visVars, given, tally, exc, answer>>

\* The rest of run_nowait.
LeaveQueue(r) ==
  /\ At(r, "leaving")
  /\ \/ exc[r] = "none" /\ Vis!EnterFinish(r, "succeeding")
     \/ exc[r] = "timeout" /\ Vis!CountTimeout(r)
     \/ /\ exc[r] # "none"
        /\ exc[r] = "timeout" => visLease[r] = "late"
        /\ Vis!EnterFinish(r, "failing")
     \/ Vis!CommitFinish(r)
  /\ UNCHANGED <<yoloVars, npu, given, tally, pc, exc, answer>>

Answer(r) ==
  /\ At(r, "leaving") /\ visLease[r] \in {"succeeded", "failed"}
  /\ To(r, "answered")
  /\ answer' = [answer EXCEPT ![r] = AnswerTo(exc[r])]
  /\ UNCHANGED <<yoloVars, visVars, npu, given, tally, exc>>

\* The steps of the thread that has request r.
Thread(r) ==
  \/ EnterQueue(r) \/ AcquireNPU(r) \/ StartRequest(r) \/ FakeDetect(r) \/ CheckFiles(r)
  \/ RunProbe(r) \/ CallWorker(r) \/ InWorker(r) \/ WorkerReturns(r)
  \/ CountEnd(r) \/ ReleaseNPU(r) \/ LeaveQueue(r) \/ Answer(r)

Next ==
  \/ \E r \in Requests : Thread(r)
  \/ WorkerProcess

Spec == Init /\ [][Next]_vars

\* The operating system runs every thread of the pool; nothing is assumed of
\* the worker process, which may hang.
FairSpec == Spec /\ \A r \in Requests : WF_vars(Thread(r))
-----------------------------------------------------------------------------
(* Type invariant. *)
TypeOK ==
  /\ YoloTypeOK
  /\ Vis!TypeOK
  /\ npu \in Requests \cup {NoOne}
  /\ backend \in Backends /\ wanted \in [Requests -> Models]
  /\ total \in Nat /\ completed \in Nat /\ failed \in Nat
  /\ pc \in [Requests -> Places]
  /\ exc \in [Requests -> Exceptions]
  /\ DOMAIN answer = Requests

Within(places) == {r \in Requests : pc[r] \in places}
Raised(what) == {r \in Requests : exc[r] = what}

(***************************************************************************)
(* An answer with detections has those of this request's image, found by   *)
(* the model the request names, however many calls before it timed out and *)
(* left their answers in the worker's pipe, and whichever model the worker *)
(* was started for.                                                        *)
(***************************************************************************)
DetectionsAreOwn ==
  \A r \in Requests :
    /\ got[r] \in {<<NoOne, NoOne>>, <<r, wanted[r]>>}
    /\ answer[r][1] = 200 /\ backend \in {"detect", "worker"} => got[r] = <<r, wanted[r]>>

(***************************************************************************)
(* /v1/metrics shows two ledgers of the same requests, kept without a      *)
(* common lock.  Whenever no request is in the queue they agree: what the  *)
(* queue completed the backend completed, what failed in the queue failed  *)
(* in the backend or was refused the NPU, and timeouts are the answers     *)
(* 504.  At any time the backend's total is what ended plus what runs.     *)
(***************************************************************************)
LedgersAgree ==
  /\ total = completed + failed
               + Cardinality(Within({"checking", "running", "calling", "completing", "raising"}))
  /\ ~visLocked =>
       /\ visCompleted = completed
       /\ visFailed = failed + Cardinality(Raised("npu busy"))
       /\ visTimeouts = Cardinality(Raised("timeout"))

(***************************************************************************)
(* The persistent worker loads or computes while no detection has the NPU  *)
(* only after some call gave up waiting for it: a client that times out    *)
(* leaves the process running and the handler gives the NPU back.          *)
(***************************************************************************)
StrayWorkIsLate ==
  proc = "alive" /\ mode \in {"loading", "computing"} /\ npu \notin Requests =>
    \E r \in Requests : step[r] \in {"late", "notReady"}

(***************************************************************************)
(* A request that the queue admitted is answered, and so gives the NPU     *)
(* back, whatever the worker does: it may hang, die or answer in vain.     *)
(***************************************************************************)
AdmittedIsAnswered ==
  \A r \in Requests : pc[r] = "admitted" ~> pc[r] = "answered"
=============================================================================
