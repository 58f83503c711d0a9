------------------------------ MODULE YoloWorker ------------------------------
(***************************************************************************)
(* The persistent YOLO worker: RKNNYoloWorkerClient (server/runtime/       *)
(* rknn_yolo_worker_backend.py), the client object that                    *)
(* RKNNYoloWorkerBackend keeps for one model at a time, and the process    *)
(* scripts/board/rknn_yolo_worker.py that it starts.                       *)
(*                                                                         *)
(* The process loads its model, says so, and then answers one JSON line    *)
(* per request, which carries the request's id.  Lines without the         *)
(* protocol's prefix, of another type or with another id are logged and    *)
(* skipped, so they stand here for one another.  The client's read buffer  *)
(* is part of the pipe: it is emptied only together with it.               *)
(***************************************************************************)
EXTENDS Naturals, Sequences, FiniteSets

CONSTANTS
  Requests,      \* the detect requests, each in a thread of its own
  Models,        \* the models that may be asked for
  NoOne,         \* no request, no model
  Faults         \* what may go wrong, a subset of FaultKinds

FaultKinds ==
  {"missing_file",     \* a script, the model file or the image is not there
   "bad_image",        \* the image cannot be probed
   "load_fails",       \* the process reports that it cannot load, and exits
   "detect_fails",     \* the process answers a request with ok = false
   "noise",            \* a log fragment without newline hides an answer
   "exit",             \* the process exits
   "startup_timeout",  \* no ready message within startup_timeout
   "request_timeout"}  \* no answer within request_timeout

ASSUME NoOneAssumption == NoOne \notin Requests \cup Models
ASSUME FaultsAssumption == Faults \subseteq FaultKinds

VARIABLES
  key,           \* the model of RKNNYoloWorkerBackend._worker
  users,         \* the calls that were given this client object
  lock,          \* who holds the client's _lock
  proc,          \* the client's proc: "none", "alive" or "dead"
  serves,        \* the model the process was started for
  mode,          \* what the process is at
  asked,         \* the request it is computing
  stdin,         \* the requests written and not yet taken
  stdout,        \* the lines written and not yet read
  requests,      \* request_count
  failures,      \* failed_request_count
  restarts,      \* restart_count
  step,          \* where each call of detect is, and how it ended
  got            \* what the call returned: whose detections, by which model

process == <<proc, serves, mode, asked, stdin, stdout>>
counters == <<requests, failures, restarts>>
yoloVars == <<key, users, lock, process, counters, step, got>>

Inside == {"waiting", "starting", "loading", "writing", "reading"}
Ended == {"ok", "refused", "lost", "late", "notStarted", "died", "notReady"}

Ready == [type |-> "ready"]
Noise == [type |-> "log"]
Response(r, ok) == [type |-> "response", id |-> r, by |-> serves, ok |-> ok]

YoloInit ==
  /\ key = NoOne /\ users = {}
  /\ lock = NoOne
  /\ proc = "none" /\ serves = NoOne /\ mode = "idle" /\ asked = NoOne
  /\ stdin = <<>> /\ stdout = <<>>
  /\ requests = 0 /\ failures = 0 /\ restarts = 0
  /\ step = [r \in Requests |-> "outside"]
  /\ got = [r \in Requests |-> <<NoOne, NoOne>>]

Goto(r, place) == step' = [step EXCEPT ![r] = place]
-----------------------------------------------------------------------------
(* The process. *)

untouched == <<key, users, lock, counters, step, got>>

\* The model is loaded, or cannot be and the process is about to exit.
Load ==
  /\ proc = "alive" /\ mode = "loading"
  /\ mode' \in {"idle"} \cup (IF "load_fails" \in Faults THEN {"exiting"} ELSE {})
  /\ stdout' = Append(stdout, Ready)
  /\ UNCHANGED <<untouched, proc, serves, asked, stdin>>

TakeRequest ==
  /\ proc = "alive" /\ mode = "idle" /\ stdin # <<>>
  /\ mode' = "computing"
  /\ asked' = Head(stdin)
  /\ stdin' = Tail(stdin)
  /\ UNCHANGED <<untouched, proc, serves, stdout>>

WriteResponse ==
  /\ proc = "alive" /\ mode = "computing"
  /\ \/ stdout' = Append(stdout, Response(asked, TRUE))
     \/ "detect_fails" \in Faults /\ stdout' = Append(stdout, Response(asked, FALSE))
     \/ "noise" \in Faults /\ stdout' = Append(stdout, Noise)
  /\ mode' = "idle" /\ asked' = NoOne
  /\ UNCHANGED <<untouched, proc, serves, stdin>>

Exit ==
  /\ proc = "alive"
  /\ mode = "exiting" \/ "exit" \in Faults
  /\ proc' = "dead"
  /\ mode' = "idle" /\ asked' = NoOne
  /\ UNCHANGED <<untouched, serves, stdin, stdout>>

Process == Load \/ TakeRequest \/ WriteResponse \/ Exit
-----------------------------------------------------------------------------
(* The client. *)

\* stop(): the process is told to stop, or killed after three seconds.
Stop ==
  /\ proc' = "none" /\ mode' = "idle" /\ asked' = NoOne
  /\ stdin' = <<>> /\ stdout' = <<>>
  /\ UNCHANGED serves

\* _get_worker: the client of this model, or a new one in its place.
GetWorker(r, m) ==
  /\ step[r] = "outside"
  /\ Goto(r, "waiting")
  /\ key' = m
  /\ \/ /\ key = m
        /\ users' = users \cup {r}
        /\ UNCHANGED <<lock, process, counters>>
     \/ /\ key # m
        /\ users' = {r}
        /\ IF key = NoOne THEN UNCHANGED process ELSE Stop
        /\ lock' = NoOne
        /\ requests' = 0 /\ failures' = 0 /\ restarts' = 0
  /\ UNCHANGED got

\* detect() enters its lock.
Enter(r) ==
  /\ step[r] = "waiting" /\ lock = NoOne
  /\ lock' = r
  /\ Goto(r, "starting")
  /\ UNCHANGED <<key, users, process, counters, got>>

\* start(): nothing to do, or a new process with an empty buffer.
Start(r) ==
  /\ step[r] = "starting"
  /\ \/ /\ proc = "alive"
        /\ Goto(r, "writing")
        /\ UNCHANGED process
     \/ /\ proc # "alive"
        /\ Goto(r, "loading")
        /\ proc' = "alive" /\ serves' = key /\ mode' = "loading" /\ asked' = NoOne
        /\ stdin' = <<>> /\ stdout' = <<>>
  /\ UNCHANGED <<key, users, lock, counters, got>>

\* A call ends with an exception and leaves the lock.
Fails(r, how, counted) ==
  /\ Goto(r, how)
  /\ lock' = NoOne
  /\ failures' = failures + counted
  /\ UNCHANGED <<key, users, process, requests, restarts, got>>

\* start() raises FileNotFoundError.
NotStarted(r) ==
  /\ "missing_file" \in Faults
  /\ step[r] = "starting" /\ proc # "alive"
  /\ Fails(r, "notStarted", 0)

\* The lines of stdout before the first one in the set, and that one, are
\* consumed.
Consume(lines, i) ==
  /\ i \in lines /\ \A j \in lines : i <= j
  /\ stdout' = SubSeq(stdout, i + 1, Len(stdout))

\* The ready message ends start(); whether it says ok is not looked at.
ReadReady(r) ==
  /\ step[r] = "loading" /\ proc = "alive"
  /\ \E i \in DOMAIN stdout : Consume({j \in DOMAIN stdout : stdout[j].type = "ready"}, i)
  /\ restarts' = restarts + 1
  /\ Goto(r, "writing")
  /\ UNCHANGED <<key, users, lock, proc, serves, mode, asked, stdin, requests, failures, got>>

\* start() finds the process dead, or gives up on it and leaves it running.
StartEnds(r) ==
  /\ step[r] = "loading"
  /\ \/ proc = "dead" /\ Fails(r, "died", 0)
     \/ "startup_timeout" \in Faults /\ Fails(r, "notReady", 0)

\* Mutant: what is left of earlier calls in the pipe is taken for the answer.
MineAny(r, line) == line.type = "response"

\* The lines that _read_json_message takes for the answer.
Mine(r, line) == line.type = "response" /\ line.id = r

WriteRequest(r) ==
  /\ step[r] = "writing"
  /\ Goto(r, "reading")
  /\ stdin' = IF proc = "alive" THEN Append(stdin, r) ELSE stdin
  /\ UNCHANGED <<key, users, lock, proc, serves, mode, asked, stdout, counters, got>>

\* Mutant: the failure is counted where it is read and not by the except
\* clause.
ReadResponseOnce(r) ==
  /\ step[r] = "reading" /\ proc = "alive"
  /\ \E i \in DOMAIN stdout :
       /\ Consume({j \in DOMAIN stdout : Mine(r, stdout[j])}, i)
       /\ \/ /\ stdout[i].ok
             /\ Goto(r, "ok")
             /\ requests' = requests + 1
             /\ got' = [got EXCEPT ![r] = <<stdout[i].id, stdout[i].by>>]
             /\ UNCHANGED failures
          \/ /\ ~stdout[i].ok
             /\ Goto(r, "refused")
             /\ failures' = failures + 1
             /\ UNCHANGED <<requests, got>>
  /\ lock' = NoOne
  /\ UNCHANGED <<key, users, proc, serves, mode, asked, stdin, restarts>>

\* The answer is there.  One with ok = false is counted as a failure, and
\* again by the except clause that the RuntimeError passes.
ReadResponse(r) ==
  /\ step[r] = "reading" /\ proc = "alive"
  /\ \E i \in DOMAIN stdout :
       /\ Consume({j \in DOMAIN stdout : Mine(r, stdout[j])}, i)
       /\ \/ /\ stdout[i].ok
             /\ Goto(r, "ok")
             /\ requests' = requests + 1
             /\ got' = [got EXCEPT ![r] = <<stdout[i].id, stdout[i].by>>]
             /\ UNCHANGED failures
          \/ /\ ~stdout[i].ok
             /\ Goto(r, "refused")
             /\ failures' = failures + 2
             /\ UNCHANGED <<requests, got>>
  /\ lock' = NoOne
  /\ UNCHANGED <<key, users, proc, serves, mode, asked, stdin, restarts>>

\* Mutant: only a dead process ends the wait for an answer.
ReadEndsDead(r) == step[r] = "reading" /\ proc = "dead" /\ Fails(r, "lost", 1)

\* The process is found dead, or the deadline passes and it is left running.
ReadEnds(r) ==
  /\ step[r] = "reading"
  /\ \/ proc = "dead" /\ Fails(r, "lost", 1)
     \/ "request_timeout" \in Faults /\ Fails(r, "late", 1)

\* The steps of detect after _get_worker.
Detect(r) ==
  \/ Enter(r) \/ Start(r) \/ NotStarted(r) \/ ReadReady(r) \/ StartEnds(r)
  \/ WriteRequest(r) \/ ReadResponse(r) \/ ReadEnds(r)
-----------------------------------------------------------------------------
YoloTypeOK ==
  /\ key \in Models \cup {NoOne} /\ serves \in Models \cup {NoOne}
  /\ users \subseteq Requests
  /\ lock \in Requests \cup {NoOne} /\ asked \in Requests \cup {NoOne}
  /\ proc \in {"none", "alive", "dead"}
  /\ mode \in {"loading", "idle", "computing", "exiting"}
  /\ proc # "alive" => mode = "idle"
  /\ mode = "computing" <=> asked # NoOne
  /\ stdin \in Seq(Requests)
  /\ \A i \in DOMAIN stdout :
       stdout[i] \in {Ready, Noise}
                       \cup [type : {"response"}, id : Requests, by : Models, ok : BOOLEAN]
  /\ requests \in Nat /\ failures \in Nat /\ restarts \in Nat
  /\ step \in [Requests -> Inside \cup Ended \cup {"outside"}]
  /\ got \in [Requests -> (Requests \cup {NoOne}) \X (Models \cup {NoOne})]

Calls(places) == {r \in users : step[r] \in places}

\* Each call shows in the counters of its client object: a result once, a
\* failure after the request was written once, a refusal by the worker twice,
\* and a failure to start not at all.
CallsAreCounted ==
  /\ requests = Cardinality(Calls({"ok"}))
  /\ failures = Cardinality(Calls({"lost", "late"})) + 2 * Cardinality(Calls({"refused"}))
=============================================================================
