---------------------------- MODULE Qwen3VLWorker ----------------------------
(***************************************************************************)
(* The persistent Qwen3-VL worker: Qwen3VLPersistentWorker                 *)
(* (server/runtime/qwen3_vl_backend.py) and the process it talks to.       *)
(*                                                                         *)
(* The protocol is lines without identifiers: READY after loading, and for *)
(* every request a block BEGIN .. answer: .. END or ERROR_BEGIN ..         *)
(* ERROR_END.  A line is written to the pipe; readline takes all that is   *)
(* in the pipe into a buffer of Python's and returns its first line, but   *)
(* select, which decides whether readline is called, sees only the pipe.   *)
(***************************************************************************)
EXTENDS Naturals, Sequences, FiniteSets

CONSTANTS
  Requests,      \* the requests, each in a thread of its own
  NoOne,         \* no request
  Faults         \* what may go wrong, a subset of FaultKinds

FaultKinds ==
  {"missing_asset",    \* an asset or the image is not there
   "error",            \* the process answers with an error
   "empty",            \* the process answers with an empty answer
   "exit",             \* the process exits
   "stall",            \* the process stops for ever in the middle of a line
   "startup_timeout",  \* no READY within startup_timeout_seconds
   "request_timeout"}  \* no complete answer within timeout_seconds

ASSUME NoOneAssumption == NoOne \notin Requests
ASSUME FaultsAssumption == Faults \subseteq FaultKinds

VARIABLES
  lock,          \* who holds the worker's lock
  proc,          \* self.process: "none", "alive" or "dead"
  mode,          \* what the process is at, while it lives
  asked,         \* the request it computes
  stdin,         \* the requests written and not yet taken
  unwritten,     \* the lines it is about to write
  pipe,          \* the lines written and not yet read
  buffer,        \* the lines that Python has read and not yet returned
  requests,      \* request_count
  failures,      \* failed_request_count
  step,          \* where each call of infer is, and how it ended
  heard,         \* what the reading call has seen of its block
  got            \* the answer that each call returned: whose it is

process == <<proc, mode, asked, stdin, unwritten, pipe, buffer>>
call == <<lock, step, heard, got>>
counters == <<requests, failures>>
qwenVars == <<lock, process, counters, step, heard, got>>

Blocked == [starting |-> "starting blocked", reading |-> "reading blocked"]
Inside == {"checking", "starting", "writing", "reading"} \cup {Blocked[p] : p \in DOMAIN Blocked}
Ended == {"ok", "asset missing", "start failed", "start timeout", "not running",
          "write failed", "empty answer", "runtime error", "timeout"}

Line(kind, r) == [kind |-> kind, of |-> r]
Protocol(kind) == Line(kind, NoOne)
\* What the process writes; a line is also a run of lines that are skipped or
\* kept together: the log of loading, the fields of a block, a text.
Loaded == <<Protocol("log"), Protocol("READY")>>
Good(r) == <<Protocol("BEGIN"), Protocol("answer:"), Line("text", r), Protocol("END")>>
Empty == <<Protocol("BEGIN"), Protocol("answer:"), Protocol("END")>>
Bad == <<Protocol("ERROR_BEGIN"), Protocol("ERROR_END")>>
Half == Protocol("half")   \* the beginning of a line

Deaf == [begun |-> FALSE, answering |-> FALSE, erring |-> FALSE, text |-> NoOne]

QwenInit ==
  /\ lock = NoOne
  /\ proc = "none" /\ mode = "idle" /\ asked = NoOne
  /\ stdin = <<>> /\ unwritten = <<>> /\ pipe = <<>> /\ buffer = <<>>
  /\ requests = 0 /\ failures = 0
  /\ step = [r \in Requests |-> "outside"]
  /\ heard = Deaf
  /\ got = [r \in Requests |-> NoOne]
-----------------------------------------------------------------------------
(* The process. *)

Load ==
  /\ proc = "alive" /\ mode = "loading" /\ unwritten = <<>>
  /\ mode' = "idle"
  /\ unwritten' = Loaded
  /\ UNCHANGED <<call, counters, proc, asked, stdin, pipe, buffer>>

TakeRequest ==
  /\ proc = "alive" /\ mode = "idle" /\ unwritten = <<>> /\ stdin # <<>>
  /\ mode' = "computing" /\ asked' = Head(stdin)
  /\ stdin' = Tail(stdin)
  /\ UNCHANGED <<call, counters, proc, unwritten, pipe, buffer>>

FinishRequest ==
  /\ proc = "alive" /\ mode = "computing"
  /\ mode' = "idle" /\ asked' = NoOne
  /\ unwritten' \in {Good(asked)} \cup (IF "empty" \in Faults THEN {Empty} ELSE {})
                                  \cup (IF "error" \in Faults THEN {Bad} ELSE {})
  /\ UNCHANGED <<call, counters, proc, stdin, pipe, buffer>>

WriteLine ==
  /\ proc = "alive" /\ mode # "stalled" /\ unwritten # <<>>
  /\ pipe' = Append(pipe, Head(unwritten))
  /\ unwritten' = Tail(unwritten)
  /\ UNCHANGED <<call, counters, proc, mode, asked, stdin, buffer>>

Stall ==
  /\ "stall" \in Faults
  /\ proc = "alive" /\ mode # "stalled" /\ unwritten # <<>>
  /\ mode' = "stalled"
  /\ pipe' = Append(pipe, Half)
  /\ UNCHANGED <<call, counters, proc, asked, stdin, unwritten, buffer>>

Exit ==
  /\ "exit" \in Faults
  /\ proc = "alive"
  /\ proc' = "dead" /\ mode' = "idle" /\ asked' = NoOne /\ unwritten' = <<>>
  /\ UNCHANGED <<call, counters, stdin, pipe, buffer>>

Process == Load \/ TakeRequest \/ FinishRequest \/ WriteLine \/ Stall \/ Exit
-----------------------------------------------------------------------------
(* infer. *)

Goto(r, place) == step' = [step EXCEPT ![r] = place]

Cleared ==
  mode' = "idle" /\ asked' = NoOne /\ stdin' = <<>> /\ unwritten' = <<>>
    /\ pipe' = <<>> /\ buffer' = <<>>

\* Mutant: the handle of the process is kept.
TerminateNot == UNCHANGED process

\* _terminate_locked: told to exit, or killed after five seconds.
Terminate == proc' = "none" /\ Cleared

\* The call ends and leaves the lock.
Leave(r, how, counted) ==
  /\ Goto(r, how)
  /\ lock' = NoOne
  /\ failures' = failures + counted

Enter(r) ==
  /\ step[r] = "outside" /\ lock = NoOne
  /\ lock' = r
  /\ Goto(r, "checking")
  /\ UNCHANGED <<process, counters, heard, got>>

AssetMissing(r) ==
  /\ "missing_asset" \in Faults
  /\ step[r] = "checking"
  /\ Leave(r, "asset missing", 0)
  /\ UNCHANGED <<process, requests, heard, got>>

\* _start_locked: nothing to do, or a new process in place of the old one.
Start(r) ==
  /\ step[r] = "checking"
  /\ \/ proc = "alive" /\ Goto(r, "writing") /\ UNCHANGED process
     \/ /\ proc # "alive"
        /\ Goto(r, "starting")
        /\ proc' = "alive" /\ mode' = "loading" /\ asked' = NoOne
        /\ stdin' = <<>> /\ unwritten' = <<>> /\ pipe' = <<>> /\ buffer' = <<>>
  /\ UNCHANGED <<lock, counters, heard, got>>

\* select finds something in the pipe, and readline returns this line.
ReadLine(line) ==
  /\ proc = "alive" /\ pipe # <<>> /\ line # Half
  /\ \/ /\ buffer # <<>>
        /\ line = Head(buffer) /\ buffer' = Tail(buffer)
        /\ UNCHANGED pipe
     \/ /\ buffer = <<>>
        /\ line = Head(pipe) /\ buffer' = Tail(pipe)
        /\ pipe' = <<>>
  /\ UNCHANGED <<proc, mode, asked, stdin, unwritten>>

AnyLine == {Head(buffer \o pipe)}

\* select finds the half of a line, and readline waits for the rest of it:
\* no deadline is looked at until the process ends.
ReadHalf(r) ==
  /\ proc = "alive" /\ buffer = <<>> /\ pipe = <<Half>>
  /\ \E place \in DOMAIN Blocked : step[r] = place /\ Goto(r, Blocked[place])
  /\ UNCHANGED <<process, lock, counters, heard, got>>

EndOfFile(r) ==
  /\ proc = "dead"
  /\ \E place \in DOMAIN Blocked : step[r] = Blocked[place] /\ Goto(r, place)
  /\ UNCHANGED <<process, lock, counters, heard, got>>

ReadStartup(r) ==
  /\ step[r] = "starting" /\ pipe # <<>>
  /\ \E line \in AnyLine :
       /\ ReadLine(line)
       /\ Goto(r, IF line.kind = "READY" THEN "writing" ELSE "starting")
  /\ UNCHANGED <<lock, counters, heard, got>>

\* The process dies while it starts, and its handle is kept; or it is given
\* up.  Neither is counted.
StartEnds(r) ==
  /\ step[r] = "starting"
  /\ \/ proc = "dead" /\ Leave(r, "start failed", 0) /\ UNCHANGED process
     \/ "startup_timeout" \in Faults /\ Leave(r, "start timeout", 0) /\ Terminate
  /\ UNCHANGED <<requests, heard, got>>

WriteRequest(r) ==
  /\ step[r] = "writing"
  /\ heard' = Deaf
  /\ \/ /\ proc = "alive"
        /\ stdin' = Append(stdin, r)
        /\ Goto(r, "reading")
        /\ UNCHANGED <<lock, proc, mode, asked, unwritten, pipe, buffer, failures>>
     \/ proc = "dead" /\ Leave(r, "not running", 0) /\ UNCHANGED process
     \/ proc = "dead" /\ Leave(r, "write failed", 1) /\ Terminate
  /\ UNCHANGED <<requests, got>>

\* A line that does not end the block.
Notes(line) ==
  CASE line.kind = "BEGIN" -> [heard EXCEPT !.begun = TRUE, !.answering = FALSE]
    [] line.kind = "ERROR_BEGIN" -> [heard EXCEPT !.erring = TRUE]
    [] line.kind = "answer:" /\ heard.begun /\ ~heard.erring -> [heard EXCEPT !.answering = TRUE]
    [] line.kind = "text" /\ heard.begun /\ heard.answering /\ ~heard.erring ->
         [heard EXCEPT !.text = line.of]
    [] OTHER -> heard

\* END: the request is counted, and an empty answer as a failure as well.
EndBlock(r) ==
  /\ requests' = requests + 1
  /\ \/ /\ heard.text # NoOne
        /\ Leave(r, "ok", 0)
        /\ got' = [got EXCEPT ![r] = heard.text]
     \/ heard.text = NoOne /\ Leave(r, "empty answer", 1) /\ UNCHANGED got

ReadAnswer(r) ==
  /\ step[r] = "reading" /\ pipe # <<>>
  /\ \E line \in AnyLine :
       /\ ReadLine(line)
       /\ \/ line.kind = "END" /\ EndBlock(r) /\ UNCHANGED heard
          \/ /\ line.kind = "ERROR_END"
             /\ Leave(r, "runtime error", 1)
             /\ UNCHANGED <<requests, heard, got>>
          \/ /\ line.kind \notin {"END", "ERROR_END"}
             /\ heard' = Notes(line)
             /\ UNCHANGED <<lock, counters, step, got>>

\* Mutant: only the death of the process ends the wait.
ReadEndsDead(r) ==
  /\ step[r] = "reading" /\ proc = "dead"
  /\ Leave(r, "timeout", 1) /\ Terminate
  /\ UNCHANGED <<requests, heard, got>>

\* The process is dead or the deadline has passed; it is terminated.
ReadEnds(r) ==
  /\ step[r] = "reading"
  /\ proc = "dead" \/ "request_timeout" \in Faults
  /\ Leave(r, "timeout", 1) /\ Terminate
  /\ UNCHANGED <<requests, heard, got>>

Infer(r) ==
  \/ Enter(r) \/ AssetMissing(r) \/ Start(r) \/ ReadStartup(r) \/ StartEnds(r)
  \/ WriteRequest(r) \/ ReadAnswer(r) \/ ReadEnds(r) \/ ReadHalf(r) \/ EndOfFile(r)
-----------------------------------------------------------------------------
Lines == Seq([kind : {"log", "half", "READY", "BEGIN", "answer:", "text", "END", "ERROR_BEGIN", "ERROR_END"},
              of : Requests \cup {NoOne}])

QwenTypeOK ==
  /\ lock \in Requests \cup {NoOne} /\ asked \in Requests \cup {NoOne}
  /\ proc \in {"none", "alive", "dead"}
  /\ mode \in {"loading", "idle", "computing", "stalled"}
  /\ mode = "computing" <=> asked # NoOne
  /\ proc # "alive" => mode = "idle" /\ unwritten = <<>>
  /\ stdin \in Seq(Requests)
  /\ unwritten \in Lines /\ pipe \in Lines /\ buffer \in Lines
  /\ requests \in Nat /\ failures \in Nat
  /\ step \in [Requests -> Inside \cup Ended \cup {"outside"}]
  /\ heard \in [begun : BOOLEAN, answering : BOOLEAN, erring : BOOLEAN,
                text : Requests \cup {NoOne}]
  /\ got \in [Requests -> Requests \cup {NoOne}]

Calls(places) == {r \in Requests : step[r] \in places}

\* What a living process still owes a reading call, wherever it is.
Owed == buffer \o pipe \o unwritten
=============================================================================
