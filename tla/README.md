# A verification project for EdgeInfer on RK3588

EdgeInfer (`src/server/`) is a FastAPI process that serves one NPU.  It offers an
OpenAI-style chat API (RKLLM), a vision API (YOLO on RKNN) and a unified API that
also reaches a vision-language model (Qwen3-VL).  Models run in *worker processes*
that the server keeps alive and talks to through pipes.  Nothing is persisted and
nothing waits in line: a request that finds its resource taken is told to retry.

This directory holds TLA+ modules that model that process, TLC configurations that
check them on small instances, and theorems that TLAPS proves for every instance.

## 1. The system

| part | state it keeps | operations | who calls it |
|---|---|---|---|
| NPU guard, `scheduler/npu_resource_guard.py` | a `threading.Lock`, counters, the current owner, a `released` flag per lease | `acquire_nowait`, `_finish_lease`, `snapshot` | every handler, from the event loop and from pool threads |
| LLM queue, `scheduler/request_queue.py` | an `asyncio.Lock`, counters, the current model, a flag per lease | `acquire_nowait`, `_finish_lease`, `run_nowait`, `snapshot` | the chat handlers on the event loop; `snapshot` from the metrics thread |
| vision queue, `scheduler/vision_queue.py` | the same under two `threading.Lock`s | `run_nowait` | `/v1/vision/detect` and the detection task of `/v1/infer`, in pool threads |
| chat API, `api/chat_api.py` | the locals of a request: leases, `pending_stop`, what was sent | `chat_completions`, `_stream_chat_events`, `render_prompt` | the client |
| vision API, `api/vision_api.py` | locals of a request | `vision_detect`, `_resolve_vision_model` | the client, `/v1/infer` |
| unified API, `api/infer_api.py`, `runtime/unified_adapters.py` | locals of a request | dispatch by task, adapters of the handlers' answers | the client |
| RKLLM backend, `runtime/rkllm_backend.py` | the cached worker object and its key | `generate`, `generate_stream`, `_get_worker`, `stop_worker_runtime` | chat, shutdown |
| RKLLM worker client, `runtime/rkllm_worker_backend.py` | `_lock`, `proc`, counters, the bytes in the pipe | `start`, `generate`, `generate_stream`, `stop` | the RKLLM backend, in threads |
| YOLO backends, `runtime/rknn_yolo_backend.py` | class counters of each backend, the client for one model | `detect` of five backends, `_get_worker`, the model path, the preprocess plan | the vision API |
| YOLO worker client and process, `runtime/rknn_yolo_worker_backend.py`, `scripts/board/rknn_yolo_worker.py` | `_lock`, `proc`, a read buffer, ids, counters | `start`, `detect`, `stop`; load, answer, exit | the YOLO backend |
| Qwen3-VL backend, `runtime/qwen3_vl_backend.py` | `_lock`, `process`, Python's line buffer, counters | `infer`, the one-shot demo, `generate` with the NPU lease | `/v1/infer` |
| registry, `model_manager/registry.py` | none; a YAML file read for every request | `list_models`, `get_model`, `get_default_model` | the APIs and the YOLO backend |
| image probe, postprocessing, `vision/` | none | `probe_image`, `postprocess_yolo`, the plans | the YOLO backends and their worker |
| prompt policy, `runtime/prompt_policy.py` | none | `build_serving_prompt` | chat |
| metrics, health, main | none | reports and wiring | the client |

A request passes through the same stages whatever its kind:

    queue lease  ->  NPU lease  ->  worker client's _lock  ->  prompt into the pipe
                                                           <-  reply out of the pipe
    queue lease  <-  NPU lease  <-  _lock

(A VLM request has no queue.)  The locks belong to different owners and are given
back on many paths: a result, an exception of the backend, a timeout of the worker
client, a timeout of `run_nowait`, a client that disconnects, a generator that is
closed.  The hard behaviour is there:

* **three kinds of concurrency**: callbacks of one event loop, pool threads, and
  worker processes.  A handler that stops waiting for its thread does not stop the
  thread, and a thread that stops waiting for its worker does not stop the worker;
* **a lease finished twice** (in the body of a stream and in its `finally`), with a
  flag that is tested outside the lock;
* **three worker protocols**: the RKLLM client reads characters without message
  boundaries and tells one answer from the next only by order; the YOLO client reads
  JSON lines with ids, among log lines; the Qwen3-VL client reads lines without ids,
  through a buffer that `select` does not see;
* **readers without a lock**: `/v1/metrics` reads the LLM queue from another thread;
* **two lookups of one thing**: a model is resolved through the registry and then
  searched for in the YAML again, by other rules.

What makes each part correct:

* guard and queues: mutual exclusion, refusal only when somebody is in, every
  lease ends once, counters that add up;
* the handlers: the NPU is used only under its lease, nothing is held after the
  answer, the answer and the counters agree, an admitted request is answered;
* the worker clients: an answer belongs to its prompt, a call ends, a call that gives
  up leaves nothing behind that could hurt the next;
* the stream: the client receives the text of the answer and no stop sequence;
* the functions without state: a lookup leads to the model that was asked for, a
  header to the image's size, a tensor to the best boxes, a request to a handler that
  has what it needs, and a prompt to one line.

`PROJECT.json` lists the hazards one by one, each at its line.

## 2. The modules

| module | models | detail |
|---|---|---|
| `ExclusiveSlot` | what the guard and both queues promise | abstract: enter an empty slot, be turned away from a full one, leave once |
| `NPUResourceGuard` | the NPU guard | `_finish_lease` in two steps, because `released` is set outside `_stats_lock` |
| `LLMRequestQueue` | the LLM queue between two callbacks of the loop | a method is one step: `acquire_nowait` never suspends, the lock it awaits being free |
| `LLMQueueMetrics` | the same queue statement by statement, and the metrics thread reading it field by field | implements `LLMRequestQueue` |
| `VisionRequestQueue` | the vision queue | the timeout is counted in a critical section of its own |
| `Serving` | handlers, guard, queues, backend threads, worker processes | composes the guard and the queues with INSTANCE: an action of a handler *is* an action of theirs |
| `RKLLMWorker` | one RKLLM worker client and its process | a pipe of tokens: loading log, prompt, text, end marker |
| `StreamText` | the read loop of `generate_stream` and the stop-sequence filter | a pipe of characters |
| `YoloWorker` | the YOLO worker client, its cache and its process | a pipe of lines with ids |
| `VisionDetect` | `/v1/vision/detect`: queue, guard, all five backends, their counters | extends `YoloWorker`, instantiates `VisionRequestQueue` |
| `Qwen3VLWorker` | the Qwen3-VL worker client and its process | a pipe of lines without ids, and Python's buffer behind it |
| `UnifiedInfer` | `/v1/infer`: every task up to its handler, the VLM task to its answer | extends `Qwen3VLWorker`, instantiates `InferData` |
| `InferData` | dispatch, the summary of detections, the answer of the demo | operators |
| `ModelRegistry` | parsing, lookups, `_resolve_vision_model`, the model path | operators |
| `ImageProbe` | PNG, BMP and JPEG headers | operators over sequences of bytes |
| `YoloPostprocess` | layout, boxes, suppression, the preprocess plans, the way back | operators over integers |
| `PromptText` | the prompt of a chat, the request line of Qwen3-VL | operators over sequences of tokens |
| `NPUResourceGuardProofs`, `LLMQueueMetricsProofs`, `RKLLMWorkerProofs`, `StreamTextProofs`, `VisionDetectProofs`, `UnifiedInferProofs` | theorems about the module each is named after | |
| `ServingProofs` | theorems about `Serving` and about the two queues inside it | |
| `AlgorithmProofs` | theorems about the operator modules | |
| `MC*` | the instances for TLC; `MCAlgorithms` walks through the inputs of the operator modules | |

### How state and actions correspond to the code

`PROJECT.json` "map" gives the lines of every definition.  In outline:

* **Guard** (`NPUResourceGuard`).  `npuLease[r]` is the lease object of request `r`:
  "live" until `released` is set, "succeeding"/"failing" between the flag and the
  critical section, then "succeeded"/"failed".  `EnterFinish` on a lease that is
  already released is the early return.  Task, model and owner of the running
  request are one value, the request.
* **Serving**.  `pc` is where a handler is ("closing" is inside the guard's
  `_finish_lease`), `verdict` what it will answer, `job` where its backend call is,
  `clientLock` the worker client's `_lock`, `stdin`, `computing` and `stdout` a
  worker and its pipe.  `EnterGuard` is `acquire_nowait` and the start of the
  backend call; `BackendReturned`, `CommitGuard` and `Leave` give the leases back;
  `Disconnect` is cancellation or closing of `_stream_chat_events`; `OuterTimeout`
  is the expiry of `wait_for` in `run_nowait`, which ends
  `_generate_with_npu_guard` with a `CancelledError` that its `except Exception`
  does not catch.  `BeginCall`, `Reply`, `BadReply`, `WorkerExits`,
  `WorkerTimeout`, `YieldDelta` and `CloseAbandoned` are the thread in the worker
  client.  A YOLO reply carries its request's id and is skipped when the id is not
  the caller's; RKLLM replies carry none.
* **RKLLMWorker**.  `GetWorker` is `_get_worker` handing the object out, `Retire`
  the same or the shutdown hook forgetting it (`retired`) and stopping its process.
  `pc[c]` walks through `start()` ("starting"), the drain, the write, the read loop,
  and for a stream the yields.  What a call read so far is `raw`; `reply` is what it
  was given.  `Fail` is the `except` clause together with the `finally` clause of a
  stream, which stops a running process; `generate` does not stop it.  The process is
  external: its loop of prompt, text, end marker and prompt is taken from how the
  client waits for it.
* **StreamText**.  `pending` and `heldStop` are the two hold-backs, `sent` the
  concatenation of what the client received.  `ReadAnswer` cuts at the first end
  marker or holds back one character less than the longest; `FilterStreamDelta` does
  the same with the stop sequences.  `WithoutGreeting` strips white space before and
  behind the greeting.  `WholeReply` is the other path of the same answer:
  `_clean_response` joins its words with single blanks (`Squeezed`) before the stop
  sequences are looked for.
* **YoloWorker, VisionDetect**.  `key` and `GetWorker` are the backend's client for one
  model at a time, replaced and stopped for another (`Stop`).  `step[r]` is where a
  call of `detect` is and how it ended: "lost" (the process ended), "late" (no answer
  in time), "notReady" (not loaded in time), "refused" (an answer with `ok` false).
  `mode`, `asked`, `serves` are the process; `stdout` its lines, with the client's
  read buffer; `Consume` skips lines of other types and other ids.  `pc[r]` is the
  handler, `exc[r]` the exception on its way through backend, guard and queue to
  `Answer`, and `total`, `completed`, `failed` the counters of the backend class.
  `Fails` has the number of times that a failure is counted: a refusal is counted
  where it is read and again by the `except` clause it raises into.
* **Qwen3VLWorker, UnifiedInfer**.  A process writes its lines one by one
  (`unwritten`, `pipe`); `ReadLine` is `select` on the pipe followed by `readline`,
  which moves all that is in the pipe into `buffer` and returns the first line.  A
  half line in the pipe passes `select` and holds the call in `readline`
  ("reading blocked") until the process ends.  `heard` is what the reading call has
  seen of its block.  Every failure terminates the process (`Terminate`).
  `RunOneshot` is the other mode, `ask` and `backend` what was asked for and how the
  environment runs Qwen3-VL.
* **MCAlgorithms**.  A behaviour picks one input and stops: the invariants are then
  what each function owes its callers, over all inputs of the bound.

Two choices make the models allow more than the code does, never less.  In
`Serving` a handler on the event loop may be interrupted between giving back its
NPU lease and its queue lease, where the code of a stream does both without
suspending; and a worker may compute, or not, at any speed.

`Serving` composes all kinds of request with the guard, and therefore has one simple
worker for all of them; `RKLLMWorker`, `VisionDetect` and `UnifiedInfer` each have one
worker in full, and of the guard only who of their requests has the NPU, and that
another task may have it.

## 3. What is checked

Twelve runs, all in `PROJECT.json` with their properties.  Nine must pass:

* **guard** - four requests, each of which may finish its lease any number of
  times.  The lock is taken exactly while one lease is out and the owner reported
  is its holder (`LockMatchesLease`); each lease is counted once (`CountedOnce`);
  the guard implements `ExclusiveSlot` (`SlotSpec`).
* **llm_metrics** - the LLM queue at the grain of statements implements the atomic
  queue (`AtomicSpec`, a refinement mapping in which a method takes effect with its
  last statement), and a snapshot taken without a lock hides at most the request
  in flight (`SnapshotHidesAtMostOne`).
* **serving_errors** - five requests of all four kinds, backends that fail at any
  point.  No worker computes without its request's NPU lease
  (`ComputesUnderLease`), no lease survives the answer (`NothingHeldAfterAnswer`),
  the answer and the two ledgers agree (`LedgersTellTheAnswer`), "busy" is only said
  on account of someone still served (`RefusedForSomeoneServed`), and the three locks
  still are exclusive slots when driven by the handlers (`LocksAreSlots`).
* **serving_faults** - a chat, a stream and a detection, all faults at once, workers
  that hang for ever among them.  The properties above do not survive every fault;
  these do: the one lease ever left behind is the NPU lease of a chat request cut off
  by `run_nowait` (`OnlyTimedOutChatLeaks`), one call at most reads a worker's pipe
  (`OneReaderPerWorker`), a worker computes without the lease only for a client that
  is gone (`StrayWorkIsAbandoned`), a call is given the reply to another one's prompt
  only on the RKLLM worker, whose replies carry no identifier, and only as the late one
  of a chat that timed out in its client (`ForeignReplyIsOfALateChat`, which has a
  second case, of a reply that is handed on by a request which was itself given a
  foreign one; it takes three requests to that worker, which here has two, and is
  covered by the theorem of section 5), and the absolute deadlines of the clients are
  enough for every admitted request to be answered (`AdmittedIsAnswered`; with the
  first of these, for the NPU lock to be freed).
* **rkllm_worker** - two generates and a stream on one worker; startup and answer
  timeouts, missing files and starts without the loading log, exits, abandoned
  streams, and `RKLLMBackend` retiring the worker (it forgets the object and calls
  `stop()` from another thread, without the lock) at any step.
  Every call that got the worker ends (`EveryCallEnds`) and is counted once
  (`CountedOnce`, which counts starts too); a failed or
  abandoned stream leaves no process at work on its prompt
  (`FailedStreamStopsWorker`); only a late output - of a generate that timed out, or
  of a model still loading - can answer a call with foreign text
  (`OnlyLateOutputMixesUp`); and without one the process works for the lock's
  holder alone (`WorksForTheHolder`).
* **stream_text** - all answers of up to four characters over an alphabet that also
  begins an end marker, and all with blanks and line ends; three end markers of which
  one ends another, seven lists of stop sequences, and every way to cut the pipe's text
  into reads.  What is sent is the answer from its beginning on, but for white space it
  begins with (`SentIsOfTheAnswer`), never a stop sequence (`NoStopTextSent`), and in
  the end all of it up to its first stop sequence (`StreamEndsAtStop`; if one stop
  sequence lies inside another, a stream may send more).  In its words that is what the
  same request gets without streaming, if no stop sequence holds white space
  (`StreamAgreesWithWhole`); the white space between them may differ, as the whole
  answer has single blanks for it.
* **vision_detect** - two detections for one model or two, on each of the five
  backends, with every fault of files, images, loading, detecting, logging, exits and
  both timeouts.  Detections returned are those of the request's image, found by the
  model it names, although calls before it left late answers in the pipe
  (`DetectionsAreOwn`); the ledger of the queue and that of the backend agree whenever
  the queue is empty (`LedgersAgree`); the client's counters tell how its calls ended,
  with refusals in them twice (`CallsAreCounted`); the worker loads or computes
  outside a lease only after a call gave it up (`StrayWorkIsLate`); every admitted
  request is answered (`AdmittedIsAnswered`).
* **unified_infer** - two requests to `/v1/infer` of every kind of task, the
  persistent worker or the one-shot demo, and every fault.  An answer is its own
  request's, without identifiers (`AnswerIsOwn`); the VLM loads and computes under
  the lease only, timeouts included (`ComputesUnderLease`); a call that waits for its
  block has the end of it in the buffer, in the pipe or still to be written
  (`BlockIsComing`, which shows that a call that times out with an empty pipe
  has its answer in the buffer); the lease comes back, unless the process stops
  within a line (`LeaseIsGivenBack`).
* **algorithms** - every small input of the operator modules, about a hundred
  thousand.  Registries with duplicate and missing ids, from lists, mappings and the
  old status block (`LookupsLeadToModels`); JPEG files of up to three segments, with
  thumbnails, fill bytes and cut anywhere, against a decoder that stops at the end of
  the image, for files with no frame header behind it (`ProbesTellTheSize`); three predictions in
  every order of equal scores, against the definition of greedy suppression
  (`DetectionsAreTheBest`); plans, layouts and the way back (`GeometryIsTrue`); all
  combinations of the fields and numbers of a request: one with nothing wrong reaches
  its handler, and any other is refused with 400 for something that is wrong with it,
  unless the one thing wrong is a number the code lets through
  (`RequestsAreComplete`); outputs of the demo
  and lists of objects (`AnswersTell`); messages with any white space
  (`LinesAreRequests`).

Three show that the code does not do what a comment, a document or a test says
(section 4).

### Bounds

The guard and the queues treat requests alike, so three or four show a holder, a
refused request, one that comes after, and an old lease finished again meanwhile.
`serving_errors` uses two chat requests (one streams), two vision requests and one
VLM request, the smallest set with a contender inside each queue and between all
tasks; with all four faults one request of each kind that has a queue of its own.
Every request arrives once, so all counters and pipes are bounded without a
constraint.  In `RKLLMWorker` each call starts at most one process; a third call is
needed for one that is hurt by the second's inheritance from the first.  A detection
is hurt by its predecessor alone, whose answer may still come and whose client may
still be cached, so `VisionDetect` and `UnifiedInfer` have two requests; of tasks
`UnifiedInfer` has one that is refused, one that fails in its handler, one of another
handler and the VLM, while all requests are in `algorithms`.  In `StreamText` the
longest end marker and the longest stop sequence have three characters: two held
back, enough to cut either at every place, and the answers are longer than both.  In
`algorithms` two entries of a registry are enough for a duplicate, three
boxes for a chain in which one suppresses the next, and sizes go over both sides of
every rounding.  CHECK_DEADLOCK is off where all requests have been answered, a text
has been sent or an input looked at: the system then stops.

### Fairness

`DeadlineSpec` assumes that the event loop and the thread pool run what can run
(weak fairness of the handler's and the thread's steps) and that a call whose
deadline has passed notices it: the read loops check the time on every turn, so
`CallEnds` is enabled again and again and must be taken (strong fairness, because
each delta of a stream interrupts it).  Workers get no fairness: they may hang.
Clients need not come, and faults need not happen.  `RKLLMWorker`'s `FairSpec`
assumes that each thread takes its steps, the timeouts being among them, and that
an idle prompt follows its answer within the 0.3 s of the drain; the process may
hang anywhere else.  `VisionDetect` and `UnifiedInfer` assume only that each pool
thread takes its steps, the client's deadlines among them; nothing is assumed of
their processes.

## 4. Where the code and its documents disagree

Three runs show a disagreement with a line that `PROJECT.json` quotes:

* **serving_timeout_leak**: `wait_for` in `run_nowait` cancels
  `_generate_with_npu_guard`, which catches `Exception` only: the NPU lease is never
  given back, and the guard stays busy until the server restarts.
* **rkllm_late_answer**: the drain before a prompt removes only what has arrived;
  the answer to a generate that timed out arrives later and answers the next call.
* **stream_split_greeting**: of a greeting that arrives in two reads the first part
  is thrown away and the second is sent as text.

Behaviour of the code that the models contain, or that was met while they were
written, and that a reader of the code may not expect:

* A cancelled stream gives back both leases while the thread and the worker compute
  on, and another task is let onto the NPU; `StrayWorkIsAbandoned` bounds this.  A
  YOLO call that times out does the same (`StrayWorkIsLate`).  Qwen3-VL does
  not: every failure kills its process.
* `_get_worker` forgets an RKLLM worker and stops it without its lock; a call that
  already has the object starts its process again, and nothing stops that one, not
  even the shutdown (docs/phase9_serving_operations.md:220 says that it leaves none).
* The two leases of a stream are taken before its generator is started, and only
  the generator gives them back.
* A refusal by the YOLO worker is counted as two failures.  Failures to start a worker
  are counted by no client.  A call that finds a process still loading after a startup
  timeout takes it for a started one.
* `select` before `readline`: a whole answer may sit in Python's buffer while the
  Qwen3-VL call waits for the pipe and times out; and half a line holds the call, and
  the NPU lease, in `readline` past every deadline.
* A missing worker script or interpreter of a YOLO probe is reported as
  `image_not_found`; an expired probe and a `RuntimeError` of the YOLO client pass
  every `except` clause and become a bare 500.
* A stop sequence that holds a line end, as the one at docs/phase9_openai_compat.md:247
  does, cuts a streamed answer; without streaming the worker's client has joined all
  white space into blanks before the stop sequences are looked for (`Squeezed`), and
  the answer is returned whole, although docs/phase10_streaming_sse.md:237 says that
  they cut the complete text.  (The one-shot mode keeps its line ends.)
  `StreamAgreesWithWhole` is therefore about stop sequences without white space;
  without that condition TLC finds the stop sequence "\na" and the answer "a\na".
* The text tasks of `/v1/infer` call a coroutine function without awaiting it: every
  well-formed request ends in a bare 500, before any lease, where the test at
  scripts/host/test_unified_infer_client.py:179 expects 200.
* `_probe_jpeg` means to stop at the end of the image (its comment at
  vision/image_probe.py:96), but skips that marker a few lines earlier like one without
  length, and takes a frame header behind the image for the image's.
  `ProbesTellTheSize` leaves such files out; without that condition TLC finds one.
* Two numbers pass the checks of `/v1/infer`: a threshold out of its range, which the
  detection's request object rejects with an error nobody maps, and an infinite one,
  of which `int` cannot make a number.  Both end in a bare 500.
* A stream strips white space behind the greeting with the read that brings the end of
  the greeting, so white space an answer begins with is sent or not as the pipe is
  cut.  If that read brings a blank answer and its end marker at once, `lstrip` takes
  the marker's line end too, and the stream waits for its deadline.
* `_clean_response` keeps what follows the last "LLM:" of an answer and precedes the
  first "You:", wherever in a line they stand; a stream cuts at line ends only.
* With duplicate ids `get_model` takes the last entry and `_raw_model_config` the
  first: the answer may name one model and another file is loaded.
  `LookupsLeadToModels` therefore asks for the right file only where no two entries
  share a name.
* An empty turn in the demo's output makes `_extract_answer` take the next turn for
  the answer.  Suppression does not look at classes.

## 5. What is proved

TLAPS proves the theorems listed in `PROJECT.json` for every set of requests, finite
or not, every assignment of kinds to them and, where nothing else is said, every
set of faults, from the named assumptions of the modules (`NoOne` is not a request;
every request has a kind; faults, backends and tasks are among those the module
knows).  Theorems that restrict the faults say so in their statement.  For each
module with a state there is a theorem of type correctness, or the types are a part
of its invariant (`StreamText`); the runs leave type invariants out and look for what
the types do not say.  Every invariant and action property of a passing run but
`StreamAgreesWithWhole` is the statement of a theorem, under a restriction of the faults
or of the reads where the run has one too, and so are the refinements that the runs
check.

**The guard.**  The danger in the code is that `_finish_lease` frees whatever is
locked, whoever holds it.  `LockMatchesLease` is not about a lease's past, so it is
inductive only together with the types (`IInv == TypeOK /\ LockMatchesLease`): a
lease between its flag and its critical section is still the holder's, because no
other request can have been accepted while the lock is taken; so the lock that is
freed is its own (`GuardOnlyHolderFrees`).  Each counter is the cardinality of the set
of leases that ended so (`GuardCountedOnce`).  A step changes such a set by one
element at most, and cardinalities are numbers only for finite sets: the requests may
be infinitely many, but those that have ended are finitely many in every state, an
invariant of its own (`CountsFinite`).  `GuardSnapshotAddsUp` is inductive relative to
`IInv`, which tells whether a request is in.  `GuardImplementsSlot` has one step per
action.

**The queues.**  The first part of `ServingProofs` proves the same of the two queues,
as instances inside the process: the lock is the holder's, the counters add up, both
implement `ExclusiveSlot`.  In the vision queue a timeout is counted in one critical section
and recorded as a failure in the next; `VisionQueueTimeoutsAreFailures` needs to know
that at most one request is between the two, which again is `LockMatchesLease`.

**The statements of the LLM queue.**  `StatementsImplementMethods` proves the
refinement that run *llm_metrics* checks.  Its invariant (`LoopInv`) says that the
loop is in one method at a time and which lease that method found; a method under way
shows the state it found, and its last statement is the atomic step.
`MetricsHideAtMostOne` is about the metrics thread.  What it has read is compared
with what the queue counts *now*: the counters only grow, are counted in the order in
which they are read, and each is ahead of the next by the request in flight alone
(`Books`), so a later field is never read smaller than an earlier one allows.

**The serving process.**  `ServingDrivesLocks` shows that a step of a handler is a
step of the guard, of the LLM queue and of the vision queue, or leaves them alone.
The theorems about the three then hold inside the process, by instances of their
modules: `ServingLocksAreSlots` and `ServingQueueBooksBalance`, for any fault.

The rest of `ServingProofs` follows the leases of a request.  The properties
look at requests that have been answered; inductive is only what holds on the way
there, so the invariant has one disjunct per place of a handler and says which leases
the request has at it (`Stage`), the place of a request cut off by `run_nowait`
included (`CutOff`).  From it follow `ServingOnlyTimedOutChatLeaks` and
`ServingLedgersTellTheAnswer` under every fault, and when `run_nowait` cuts nobody
off also `ServingNothingHeldAfterAnswer`, `ServingQueueLeaseOutlivesNPULease` and,
with the guard's own invariant, `ServingRefusedForSomeoneServed`.
`ServingOneReaderPerWorker` is part of the invariant.

The workers need a second invariant, stated for each engine apart (`WInv`): until one
of its calls has timed out or lost its client (`Abandoned`), a thread does not outlive
its handler's wait (`Waited`), and the one prompt or reply of the worker is that of the
call holding the client's lock, or of a call that has given up and whose handler is
about to hear of it (`Work`).  The second case is possible for one request only, because
the guard lets one handler in (`OneServed`, from the guard's own invariant).  Whoever
computes in such an engine still has the NPU lease: `ServingStrayWorkIsAbandoned`, under
every fault.  When nothing but backends fails no engine is ever abandoned (`Patient`),
hence `ServingComputesUnderLease`.  Run *serving_timeout_leak* shows what becomes of the
leases without the restriction.

Whose reply a call is given is a matter of what earlier calls left in the pipe, under
every fault.  The third invariant (`PipesInv`) follows each prompt: it is in one place
at a time, to be read, computed or replied to (`InOnePlace`); and it belongs to the call
that waits for it, or to one that left it behind (`Owned`), which only a chat or a
detection that timed out does, or a call that was given a foreign reply in place of its
own.  Every other end of a call stops its worker, and a detection's late reply is
skipped for its id.  A call so ended keeps its end (`LeftBehindStays`), hence `ServingForeignReplyIsOfALateChat`, without a hypothesis on
the faults.

**The RKLLM worker.**  The invariant has to say what client and process owe each
other at every place of a call: nothing under way and nothing in the pipe when a
prompt is written (`AtRest`, up to the prompt an answered call still has coming, which
the drain removes), and between the prompt and the end of the answer exactly what the
process has written since (`AtWork`).  All of it holds only while no output came late
(`SInv`), and `LateOutput` never becomes false again: hence
`WorkerOnlyLateOutputMixesUp` and `WorkerWorksForTheHolder`.  They assume that the
prompt follows an answer within the drain (no "slow_prompt"); without that the drain
removes nothing and the statement is false.  `WorkerCountedOnce` and
`WorkerFailedStreamStops` need no assumption.

**Detection.**  `DetectionsAreOwn` rests on an invariant about what is *not* in the
pipe: as long as a call has not written its request, no line carries its id
(`Unwritten`); the process answers for the model it serves, which is the client's key
(`OneModel`).  `VisionDetectStrayWorkIsLate` is by `InStep`: as long as no call gave
up, the process loads for the call that starts it and computes for the one that
reads.  `OneWorks` carries the mutual exclusion of the vision queue over to the rest
of the handler.

The counters are cardinalities.  `VisionDetectCallsAreCounted` needs that only
finitely many calls were given this client object, and that whoever is in `detect`
is one of them (`UsersCall`).  `VisionDetectLedgersAgree` looks at the books while the
queue is empty; inductive is what holds while it is not (`Books`): each counter of the
backend runs ahead of the queue's by the requests the backend is done with and the
queue is not (`InHand`), and refusals of the NPU are in the queue's alone.  As the
queue lets one request in, each of these sets is empty or has one element
(`BooksWith`, `BooksWithout`), and a step is a statement about numbers.

**The VLM.**  `UnifiedAnswerIsOwn` has no identifiers to rest on.  Its invariant
(`WorkerInStep`) says that outside a call the process is idle with nothing written,
buffered or owed, and inside one everything it owes is one of the few blocks it may
write for that request, with any prefix of it already read.  Every failure
terminates the process and empties the pipe, which is why no late output has to be
excepted here.  `UnifiedComputesUnderLease` and `UnifiedBlockIsComing` are read off the
same invariant; `NPUIsHeld` ties the lease to the place of the handler.

**Streaming text.**  All that the reader and the filter keep are slices of two texts:
of the answer, and of what the worker writes after its greeting.  The invariant of
`StreamTextProofs` therefore speaks of positions: before the greeting is read nothing
is (`Untouched`); then the filter was given the first n characters of the answer, has
sent those up to k and holds the others back, and no stop sequence lies in the n
(`ClientHas`), while the reader holds back what follows the n-th character of what the
worker writes (`PipeHas`); or the filter has found a stop sequence, and no earlier
(`ClientStopped`).  That a needle is found whole, wherever the pipe was cut, is an
argument about the least place at which one lies: it cannot begin in what was sent,
because the filter holds back all but one character of the longest.  What
the answer is to the client is settled by the read that ends the greeting, which may
take white space with it: from then on the invariant speaks of the positions in one
such suffix of the answer (`told` in `Greeted`), in place of the answer.  From the invariant follow
`StreamSentIsOfTheAnswer`, `StreamNoStopTextSent` and `StreamEndsAtFirstStop`, for all
answers, end markers and stop sequences of any length.  The assumptions on the
constants: texts are sequences, the greeting does not begin with white space, and the
markers and each list of stop sequences are finite, without empty texts, which
`_normalize_stop_sequences` refuses (`TextsAssumption`); an answer is not all white
space, and no end marker begins in it, even with the marker's beginning behind it
(`AnswersAssumption`); none lies in another but at its end (`MarkersAssumption`, which
the code's three markers satisfy).  All three theorems have the hypothesis that the
greeting arrives in one read (`WholeGreeting`); without it run *stream_split_greeting*
refutes the first of them.

**Functions without state.**  `AlgorithmProofs` states what run *algorithms* checks on
small inputs for inputs of any size.  Each theorem about one of its properties has as
its hypothesis the type of the property's inputs and nothing else (numbers of the
size of an image are positive, a ranking is one of the falling orders of the scores).
Induction is over sets (`CountUp`, `CountDown`, `GrowUp`): the numbers, or the texts, of
which something holds are everything.  It serves two purposes: to show that a recursive
function of the model exists, as its loop goes on towards an end (`LoopEnds`,
`WalkEnds`, `FlattenExists`), and what it returns.

* *Geometry.*  `GeometryIsAlwaysTrue`: rounding is off by half at most, so a letterbox
  keeps the proportions up to a pixel; scaling the axes apart multiplies all three areas
  of an overlap alike, so what suppression told apart stays apart in the image.
* *Suppression.*  `DetectionsAreAlwaysTheBest`: the loop keeps the first of what is left
  and drops what that overlaps, hence exactly the boxes that no better kept one
  overlaps; any order of equal scores is a case of it.
* *One line.*  `LinesAreAlwaysRequests`: normalisation and stripping, character by
  character, leave the words and their distances, and no line end and no tab.
* *Images.*  `ProbesAlwaysTellTheSize`: every turn of the scan goes on, so it ends; at
  the beginning of a segment it goes to the next one or to the frame.  A file that is cut
  off is scanned like the whole one up to the first place at which a byte is missing,
  and that is an error, so it never tells another size.  The hypothesis that no frame
  header follows the end of the image is needed (section 4).
* *Answers and requests.*  `AnswersAlwaysTell`: the first prompt behind the answer that
  begins a line is the same place for the code's scan and for the definition, and
  stripping forgets the blanks before it.  `RequestsAreAlwaysComplete` is by cases of the
  task.
* *Lookups.*  `LookupsAlwaysLeadToModels`: the list of models has every id once, each
  model made from one entry, so a lookup that finds an entry's id finds its model or an
  earlier one of that name; and where no two entries share a name, the second search
  of the YAML finds the entry the model was made from.

**Only model-checked** are the liveness properties (`AdmittedIsAnswered` of two modules,
`EveryCallEnds`, `LeaseIsGivenBack`), since reasoning about fairness is out of the
prover's reach; `StreamAgreesWithWhole`, since joining the words of a text is a
recursion over it; and the three disagreements that runs show, which are counterexamples.

## 6. What is not modelled

* Response formats, latencies, texts of errors, token estimates, the checks of a chat
  request before its first lease, the placeholder backend of `/v1/infer` (no
  configuration leads to it).
* Python before 3.11, where the worker's `TimeoutError` is not
  `asyncio.TimeoutError`: `LeaveLLMQueue` allows both ways to count it.
* `_clean_stream_delta`: the removal of special tokens piece by piece; `StreamText`
  takes answers without them, and without "LLM:" and "You:" (section 4).  White space
  is blanks and line ends; that `lstrip("\r\n ")` before the greeting leaves a tab,
  and `lstrip()` behind it does not, is left out.
* An exception while the YOLO backends normalise the detections they were given, after
  they counted the request as completed (`rknn_yolo_backend.py:735-736`, likewise at
  :581): it would be counted as failed too.  `VisionDetect` takes what a probe or a
  worker reports as well formed.
* The key of the cache in `RKLLMBackend._get_worker` and several worker objects at
  once: `RKLLMWorker` has the life of one.
* The one-shot mode of RKLLM with `rkllm_runner.py`: a command around the vendor's
  program whose output is cleaned by lists of phrases, with an orphan at its timeout
  whose fate is the operating system's.
* The fields of a model that are only reported (`validate_model_entry`), the
  adapter of chat answers (no answer reaches it, section 4), numpy's rounding, the
  pixels: boxes and scores are whole numbers.
* Whether the server library may drop a generator that was never started.
* Board and host scripts other than the YOLO worker, benchmarks, model conversion,
  examples: clients and tools around the server, which keep no state of it.

## 7. What could come next

1. Several `RKLLMWorker` objects behind `_get_worker`, with the key that decides which
   call retires which, and the process that survives the shutdown.
2. `RKLLMWorker`, `YoloWorker` and `Qwen3VLWorker` shown to implement one abstract
   request-reply worker, the first when no output comes late, and that one put in
   place of the worker of `Serving`.
3. Proofs: that an RKLLM worker, while no output comes late, and the Qwen3-VL worker
   implement that abstract worker; that a stream's reader finds the greeting when it
   comes in two reads, once the code keeps it.
