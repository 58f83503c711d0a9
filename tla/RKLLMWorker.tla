----------------------------- MODULE RKLLMWorker -----------------------------
(***************************************************************************)
(* One RKLLMPersistentWorker (server/runtime/rkllm_worker_backend.py) with *)
(* the process it keeps: the interactive RKLLM binary, which loads its     *)
(* model, prompts "You:", reads a line, writes "LLM:" and the answer and   *)
(* an end marker, and prompts again.  The client tells answers apart by    *)
(* nothing but their order in the pipe.                                    *)
(*                                                                         *)
(* Every call of generate or generate_stream runs in a thread of its own   *)
(* and holds _lock from start() to its end, a stream also while its        *)
(* consumer has the last delta.  RKLLMBackend hands the object out until   *)
(* the worker's settings change or the server shuts down: then it forgets  *)
(* the object and calls stop(), which takes no lock, from another thread.  *)
(* stop() is one step; that the old process takes a while to die is left   *)
(* out.  The pipe carries tokens: the loading log, the prompt, the text of *)
(* an answer and its end marker.  StreamText has the characters.           *)
(***************************************************************************)
EXTENDS Naturals, Sequences, FiniteSets, SequencesExt

CONSTANTS
  Calls,         \* the calls, one thread each
  Kind,          \* [Calls -> {"generate", "stream"}]
  NoOne,         \* _lock is free; text that answers no prompt
  Faults         \* what may go wrong, a subset of FaultKinds

FaultKinds ==
  {"startup_timeout", \* the model loads for longer than startup_timeout
   "answer_timeout",  \* no end marker comes within the request's timeout
   "exit",            \* the process exits
   "abandon",         \* the consumer of a stream closes it
   "retire",          \* RKLLMBackend forgets the worker and stops it
   "bad_start",       \* a file is missing, or the loading log looks wrong
   "slow_prompt"}     \* the prompt follows an answer by more than the drain waits

ASSUME NoOneAssumption == NoOne \notin Calls
ASSUME KindAssumption == Kind \in [Calls -> {"generate", "stream"}]
ASSUME FaultsAssumption == Faults \subseteq FaultKinds

VARIABLES
  lock,          \* the call that holds _lock
  retired,       \* RKLLMBackend._worker is not this object any more
  proc,          \* self.proc: "none", "alive" or "dead"
  mode,          \* what the process is at
  asked,         \* the call whose prompt the process took last
  stdin,         \* the prompts written and not yet taken
  stdout,        \* the tokens written and not yet read
  pc,            \* where each call is, and how it ended
  raw,           \* the tokens the lock's holder has read
  reply,         \* the texts each call was given
  requests,      \* request_count
  failures,      \* failed_request_count
  starts         \* _start_count

counters == <<requests, failures, starts>>
process == <<proc, mode, asked, stdin, stdout>>
vars == <<retired, lock, process, pc, raw, reply, counters>>

Log == [is |-> "log", of |-> NoOne]
You == [is |-> "you", of |-> NoOne]
Text(c) == [is |-> "text", of |-> c]
End(c) == [is |-> "end", of |-> c]

Marker(token) == token.is \in {"end", "you"}

Ended == {"ok", "failed", "timedout", "refused", "startTimedOut"}

Init ==
  /\ lock = NoOne
  /\ retired = FALSE
  /\ proc = "none"
  /\ mode = "loading"
  /\ asked = NoOne
  /\ stdin = <<>>
  /\ stdout = <<>>
  /\ pc = [c \in Calls |-> "outside"]
  /\ raw = <<>>
  /\ reply = [c \in Calls |-> <<>>]
  /\ requests = 0
  /\ failures = 0
  /\ starts = 0

-----------------------------------------------------------------------------
(* The process.                                                             *)

Write(token) == stdout' = Append(stdout, token)

Load ==
  /\ proc = "alive" /\ mode = "loading"
  /\ mode' = "idle"
  /\ \/ stdout' = stdout \o <<Log, You>>
     \/ "bad_start" \in Faults /\ Write(You)
  /\ UNCHANGED <<lock, retired, proc, asked, stdin, pc, raw, reply, counters>>

TakePrompt ==
  /\ proc = "alive" /\ mode = "idle" /\ stdin # <<>>
  /\ mode' = "computing"
  /\ asked' = Head(stdin)
  /\ stdin' = Tail(stdin)
  /\ UNCHANGED <<lock, retired, proc, stdout, pc, raw, reply, counters>>

WriteText ==
  /\ proc = "alive" /\ mode = "computing"
  /\ mode' = "ending"
  /\ Write(Text(asked))
  /\ UNCHANGED <<lock, retired, proc, asked, stdin, pc, raw, reply, counters>>

WriteEnd ==
  /\ proc = "alive" /\ mode = "ending"
  /\ mode' = "prompting"
  /\ Write(End(asked))
  /\ UNCHANGED <<lock, retired, proc, asked, stdin, pc, raw, reply, counters>>

WritePrompt ==
  /\ proc = "alive" /\ mode = "prompting"
  /\ mode' = "idle"
  /\ asked' = NoOne
  /\ Write(You)
  /\ UNCHANGED <<lock, retired, proc, stdin, pc, raw, reply, counters>>

Exit ==
  /\ "exit" \in Faults
  /\ proc = "alive"
  /\ proc' = "dead"
  /\ UNCHANGED <<lock, retired, mode, asked, stdin, stdout, pc, raw, reply, counters>>

\* A new process with new pipes.
Fresh(state) ==
  /\ proc' = state
  /\ mode' = "loading"
  /\ asked' = NoOne
  /\ stdin' = <<>>
  /\ stdout' = <<>>

-----------------------------------------------------------------------------
(* How a call ends.                                                         *)

\* Mutant: the worker is not stopped, whatever became of the stream.
StopNot == UNCHANGED process

\* stop: the process is terminated and forgotten, if there is one.
Stop == Fresh("none")

\* Leaving the with block frees the lock; what was read goes with it.
Leave(c, how) ==
  /\ pc' = [pc EXCEPT ![c] = how]
  /\ lock' = NoOne
  /\ raw' = <<>>
  /\ UNCHANGED retired

\* An error before the prompt is sent is counted nowhere.
Refuse(c, how) == Leave(c, how) /\ UNCHANGED <<process, reply, counters>>

Succeed(c) ==
  /\ Leave(c, "ok")
  /\ requests' = requests + 1
  /\ UNCHANGED <<process, failures, starts>>

\* Mutant: a failed call is not counted as a request.
FailUncounted(c, how) ==
  /\ Leave(c, how)
  /\ failures' = failures + 1
  /\ IF Kind[c] = "stream" /\ proc = "alive" THEN Stop ELSE UNCHANGED process
  /\ UNCHANGED <<reply, requests, starts>>

\* The except clause counts the failure; a stream's finally clause stops a
\* process that runs, a generate leaves it as it is.
Fail(c, how) ==
  /\ Leave(c, how)
  /\ requests' = requests + 1
  /\ failures' = failures + 1
  /\ IF Kind[c] = "stream" /\ proc = "alive" THEN Stop ELSE UNCHANGED process
  /\ UNCHANGED <<reply, starts>>

-----------------------------------------------------------------------------
(* The steps of a call.                                                     *)

\* _get_worker hands the worker out.
GetWorker(c) ==
  /\ pc[c] = "outside" /\ ~retired
  /\ pc' = [pc EXCEPT ![c] = "waiting"]
  /\ UNCHANGED <<lock, retired, process, raw, reply, counters>>

\* The call gets the lock; start() spawns a process unless one runs.
Start(c) ==
  /\ pc[c] = "waiting" /\ lock = NoOne
  /\ lock' = c
  /\ \/ /\ proc = "alive"
        /\ pc' = [pc EXCEPT ![c] = "draining"]
        /\ UNCHANGED process
     \/ /\ proc # "alive"
        /\ pc' = [pc EXCEPT ![c] = "starting"]
        /\ Fresh("alive")
  /\ UNCHANGED <<retired, raw, reply, counters>>

\* The binary or the model file is missing: start() raises before it spawns.
CannotStart(c) ==
  /\ "bad_start" \in Faults
  /\ pc[c] = "waiting" /\ lock = NoOne /\ proc # "alive"
  /\ Refuse(c, "refused")

\* start() has read up to the first prompt, and counts a start.  Without the
\* loading log it raises, and the process runs on.
Started(c) ==
  /\ pc[c] = "starting" /\ proc = "alive"
  /\ You \in ToSet(stdout)
  /\ stdout' = <<>>
  /\ starts' = starts + 1
  /\ \/ /\ Log \in ToSet(stdout)
        /\ pc' = [pc EXCEPT ![c] = "draining"]
        /\ UNCHANGED <<lock, retired, raw>>
     \/ /\ Log \notin ToSet(stdout)
        /\ Leave(c, "refused")
  /\ UNCHANGED <<proc, mode, asked, stdin, reply, requests, failures>>

\* While it starts the process exits, or stop() takes it away.
StartFails(c) ==
  /\ pc[c] = "starting" /\ proc # "alive"
  /\ Refuse(c, "refused")

\* Mutant: starting has no deadline.
StartsForEver(c) == FALSE

\* startup_timeout passes; the process loads on.
StartTimesOut(c) ==
  /\ "startup_timeout" \in Faults
  /\ pc[c] = "starting"
  /\ Refuse(c, "startTimedOut")

\* Mutant: the pipe is not drained.
DrainNothing(c) ==
  /\ pc[c] = "draining"
  /\ pc' = [pc EXCEPT ![c] = "writing"]
  /\ UNCHANGED <<lock, retired, process, raw, reply, counters>>

\* _drain_stdout: what is in the pipe is thrown away.  It waits long enough
\* for the prompt that follows an answer, unless that one is slow.  Without a
\* process (stop() came after the check of self.proc) there is nothing to drain.
Drain(c) ==
  /\ pc[c] = "draining"
  /\ proc = "alive" /\ mode = "prompting" => "slow_prompt" \in Faults
  /\ stdout' = <<>>
  /\ pc' = [pc EXCEPT ![c] = "writing"]
  /\ UNCHANGED <<lock, retired, proc, mode, asked, stdin, raw, reply, counters>>

\* stop() came between start() and the check of self.proc.
NotStarted(c) ==
  /\ pc[c] = "draining" /\ proc = "none"
  /\ Refuse(c, "refused")

WritePromptLine(c) ==
  /\ pc[c] = "writing" /\ proc = "alive"
  /\ stdin' = Append(stdin, c)
  /\ pc' = [pc EXCEPT ![c] = "reading"]
  /\ UNCHANGED <<lock, retired, proc, mode, asked, stdout, raw, reply, counters>>

\* The pipe is broken, or self.proc is None.
WorkerGone(c) ==
  /\ pc[c] \in {"writing", "reading"} /\ proc # "alive"
  /\ Fail(c, "failed")

\* The text among the tokens, the loading log included: whose it is, in order.
Texts(tokens) ==
  LET said == {i \in 1..Len(tokens) : tokens[i].is \in {"text", "log"}}
      nth(k) == CHOOSE i \in said : Cardinality({j \in said : j < i}) = k - 1
  IN  [k \in 1..Cardinality(said) |-> tokens[nth(k)].of]

\* _clean_response: what follows the last "LLM:".
Clean(tokens) ==
  LET texts == Texts(tokens)
  IN  IF texts = <<>> THEN <<>> ELSE <<Last(texts)>>

ReadResponse(c) ==
  LET tokens == raw \o stdout
  IN  /\ pc[c] = "reading" /\ proc = "alive" /\ Kind[c] = "generate"
      /\ stdout # <<>>
      /\ \/ /\ \A i \in 1..Len(tokens) : ~Marker(tokens[i])
            /\ raw' = tokens
            /\ stdout' = <<>>
            /\ UNCHANGED <<lock, retired, proc, mode, asked, stdin, pc, reply, counters>>
         \/ /\ \E i \in 1..Len(tokens) : Marker(tokens[i])
            /\ Leave(c, "ok")
            /\ reply' = [reply EXCEPT ![c] = Clean(tokens)]
            /\ requests' = requests + 1
            /\ stdout' = <<>>
            /\ UNCHANGED <<proc, mode, asked, stdin, failures, starts>>

\* A prompt at the very beginning loses its line break to
\* _strip_initial_stream_prefix and is no end marker; it is cleaned away.
Body(tokens) ==
  IF tokens # <<>> /\ Head(tokens) = You THEN Tail(tokens) ELSE tokens

StreamEnded(tokens) == SelectInSeq(Body(tokens), Marker) # 0

\* The texts before the first end marker.
Streamed(tokens) ==
  LET body == Body(tokens)
      end == SelectInSeq(body, Marker)
  IN  Texts(IF end = 0 THEN body ELSE SubSeq(body, 1, end - 1))

\* One turn of the read loop: new text is yielded, also when the end marker
\* came with it; without any the stream ends or reads on.
ReadDelta(c) ==
  LET tokens == raw \o stdout
  IN  /\ pc[c] = "reading" /\ proc = "alive" /\ Kind[c] = "stream"
      /\ stdout # <<>>
      /\ stdout' = <<>>
      /\ \/ /\ Streamed(tokens) # reply[c]
            /\ reply' = [reply EXCEPT ![c] = Streamed(tokens)]
            /\ raw' = tokens
            /\ pc' = [pc EXCEPT ![c] = "yielding"]
            /\ UNCHANGED <<lock, retired, counters>>
         \/ /\ Streamed(tokens) = reply[c] /\ ~StreamEnded(tokens)
            /\ raw' = tokens
            /\ UNCHANGED <<lock, retired, pc, reply, counters>>
         \/ /\ Streamed(tokens) = reply[c] /\ StreamEnded(tokens)
            /\ Leave(c, "ok")
            /\ requests' = requests + 1
            /\ UNCHANGED <<reply, failures, starts>>
      /\ UNCHANGED <<proc, mode, asked, stdin>>

\* The consumer asks for the next delta.
Resume(c) ==
  /\ pc[c] = "yielding"
  /\ \/ /\ StreamEnded(raw)
        /\ Succeed(c)
     \/ /\ ~StreamEnded(raw)
        /\ pc' = [pc EXCEPT ![c] = "reading"]
        /\ UNCHANGED <<lock, retired, process, raw, counters>>
  /\ UNCHANGED reply

\* The consumer closes the stream at a yield, the last one included.
Abandon(c) ==
  /\ "abandon" \in Faults
  /\ pc[c] = "yielding"
  /\ Fail(c, "failed")

TimesOut(c) ==
  /\ "answer_timeout" \in Faults
  /\ pc[c] = "reading"
  /\ Fail(c, "timedout")

Retire ==
  /\ "retire" \in Faults
  /\ ~retired
  /\ retired' = TRUE
  /\ Stop
  /\ UNCHANGED <<lock, pc, raw, reply, counters>>

-----------------------------------------------------------------------------

Process == Load \/ TakePrompt \/ WriteText \/ WriteEnd \/ WritePrompt

Call(c) ==
  \/ Start(c) \/ CannotStart(c) \/ Started(c) \/ StartFails(c) \/ StartTimesOut(c)
  \/ Drain(c) \/ NotStarted(c) \/ WritePromptLine(c) \/ WorkerGone(c)
  \/ ReadResponse(c) \/ ReadDelta(c) \/ Resume(c) \/ TimesOut(c)

Next ==
  \/ Process \/ Exit \/ Retire
  \/ \E c \in Calls : GetWorker(c) \/ Call(c) \/ Abandon(c)

Spec == Init /\ [][Next]_vars

\* Threads run on, and a prompt that is not slow comes.  The process may hang
\* anywhere else; both of the client's deadlines are among Call's steps.
FairSpec ==
  /\ Spec
  /\ WF_vars(WritePrompt)
  /\ \A c \in Calls : WF_vars(Call(c))

-----------------------------------------------------------------------------

WithEnd(ends) == {c \in Calls : pc[c] \in ends}

\* Shapes, and the lock: exactly the call between its first step and its end
\* has it, and what has been read belongs to that call alone.
TypeOK ==
  /\ retired \in BOOLEAN
  /\ proc \in {"none", "alive", "dead"}
  /\ mode \in {"loading", "idle", "computing", "ending", "prompting"}
  /\ {lock, asked} \subseteq Calls \cup {NoOne}
  /\ stdin \in Seq(Calls)
  /\ \A i \in 1..Len(stdout) : stdout[i] \in {Log, You} \cup {Text(c) : c \in Calls}
                                          \cup {End(c) : c \in Calls}
  /\ WithEnd({"starting", "draining", "writing", "reading", "yielding"}) =
       {lock} \ {NoOne}
  /\ lock = NoOne => raw = <<>>

\* request_count is the number of calls whose prompt was to be sent and that
\* ended, failed_request_count those of them that failed, each once, whichever
\* of the except and finally clauses it went through; and no prompt is sent to
\* a process whose start was not counted, unless a startup timed out.
CountedOnce ==
  /\ requests = Cardinality(WithEnd({"ok", "failed", "timedout"}))
  /\ failures = Cardinality(WithEnd({"failed", "timedout"}))
  /\ requests > 0 /\ WithEnd({"startTimedOut"}) = {} => starts > 0

\* Something went wrong that leaves a running process with unread output: a
\* generate ran into its timeout, or the model was still loading.
LateOutput ==
  \/ WithEnd({"startTimedOut"}) # {}
  \/ \E c \in WithEnd({"timedout"}) : Kind[c] = "generate"

\* A call is answered with the whole text of its own prompt and nothing else,
\* through restarts, streams that fail or are abandoned half-way, and stops.
AnswersAreOwn ==
  \A c \in Calls :
    /\ pc[c] = "ok" => reply[c] = <<c>>
    /\ reply[c] \in {<<>>, <<c>>}

\* Only a late output can mix up answers.
OnlyLateOutputMixesUp == AnswersAreOwn \/ LateOutput

\* A stream that did not end well leaves no process at work on its prompt
\* ("generate_stream ... finally: self.stop()").
FailedStreamStopsWorker ==
  \A c \in WithEnd({"failed", "timedout"}) :
    Kind[c] = "stream" /\ proc = "alive" => asked # c /\ c \notin ToSet(stdin)

\* Unless an output came late, a running process is at work only for the call
\* that holds the lock; it may still owe the prompt after an answered one.
WorksForTheHolder ==
  proc = "alive" /\ ~LateOutput =>
    \A c \in {asked} \cup ToSet(stdin) :
      c \in {lock, NoOne} \/ (pc[c] = "ok" /\ mode = "prompting")

\* Whatever the process does, every call that got the worker comes to an end:
\* none waits for the lock for ever, because each holder's waits have a deadline.
EveryCallEnds == \A c \in Calls : pc[c] = "waiting" ~> pc[c] \in Ended

=============================================================================
