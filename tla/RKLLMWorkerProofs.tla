--------------------------- MODULE RKLLMWorkerProofs ---------------------------
(***************************************************************************)
(* Theorems about the client of the RKLLM worker, for every set of calls.  *)
(*                                                                         *)
(* The lock makes the pipe the business of one call at a time.  What must  *)
(* be known of the process when the next call gets the lock is that it is  *)
(* at rest (AtRest); while a call has it, that the process is at the       *)
(* call's own prompt and that the tokens the call has read, and those it   *)
(* will read next, are the ones the process has written since (AtWork).    *)
(* Both hold until an output comes late, and no longer.                    *)
(***************************************************************************)
EXTENDS RKLLMWorker, FiniteSetTheorems, TLAPS

Inside == {"starting", "draining", "writing", "reading", "yielding"}
Places == {"outside", "waiting"} \cup Inside \cup Ended
Tokens == {Log, You} \cup {Text(c) : c \in Calls} \cup {End(c) : c \in Calls}

Types ==
  /\ retired \in BOOLEAN
  /\ proc \in {"none", "alive", "dead"}
  /\ mode \in {"loading", "idle", "computing", "ending", "prompting"}
  /\ lock \in Calls \cup {NoOne}
  /\ asked \in Calls \cup {NoOne}
  /\ mode \in {"computing", "ending", "prompting"} => asked \in Calls
  /\ stdin \in Seq(Calls)
  /\ stdout \in Seq(Tokens)
  /\ raw \in Seq(Tokens)
  /\ pc \in [Calls -> Places]
  /\ DOMAIN reply = Calls

\* The call between its first step and its end is the one that has the lock,
\* and nothing has been read before a prompt was written.
LockIsInside ==
  /\ \A c \in Calls : pc[c] \in Inside <=> lock = c
  /\ lock = NoOne \/ pc[lock] \in {"starting", "draining", "writing"} => raw = <<>>
  /\ \A c \in Calls : pc[c] = "yielding" => Kind[c] = "stream"

IInv == Types /\ LockIsInside

\* No prompt is under way, none waits, but an answered call's end may be due.
AtRest ==
  /\ stdin = <<>>
  /\ \/ mode = "idle" /\ asked = NoOne
     \/ mode = "prompting" /\ asked \in Calls /\ pc[asked] = "ok"

Seen == raw \o stdout

\* What the process has written since c's prompt.
AtWork(c) ==
  \/ mode = "idle" /\ asked = NoOne /\ stdin = <<c>> /\ Seen = <<>>
  \/ mode = "computing" /\ asked = c /\ stdin = <<>> /\ Seen = <<>>
  \/ mode = "ending" /\ asked = c /\ stdin = <<>> /\ Seen = <<Text(c)>>
  \/ mode = "prompting" /\ asked = c /\ stdin = <<>> /\ Seen = <<Text(c), End(c)>>
  \/ mode = "idle" /\ asked = NoOne /\ stdin = <<>> /\ Seen = <<Text(c), End(c), You>>

\* The process is at what a call needs of it where the call is.
InStepWith(c) ==
  /\ pc[c] = "starting" =>
       /\ stdin = <<>> /\ asked = NoOne
       /\ mode = "idle" \/ (mode = "loading" /\ stdout = <<>>)
  /\ pc[c] = "draining" => AtRest
  /\ pc[c] = "writing" =>
       stdin = <<>> /\ asked = NoOne /\ mode = "idle" /\ stdout = <<>>
  /\ pc[c] \in {"reading", "yielding"} => AtWork(c)

\* The process and the holder of the lock are in step.
InStep == (lock = NoOne => AtRest) /\ \A c \in Calls : InStepWith(c)

\* What a call has been given, whatever has become of the process since.
GivenTo(c) ==
  /\ reply[c] \in {<<>>, <<c>>}
  /\ pc[c] \in {"yielding", "ok"} => reply[c] = <<c>>
  /\ pc[c] \in {"reading", "yielding"} /\ reply[c] = <<c>> =>
       raw # <<>> /\ Kind[c] = "stream"

Given == \A c \in Calls : GivenTo(c)

\* Before its prompt is written a call has been given nothing.
NothingYet ==
  \A c \in Calls :
    pc[c] \in {"outside", "waiting", "starting", "draining", "writing"} => reply[c] = <<>>

SInv == NothingYet /\ (~LateOutput => Given /\ (proc = "alive" => InStep))

\* Who has started the process.
StartsCounted ==
  WithEnd({"startTimedOut"}) = {} =>
    /\ requests > 0 => starts > 0
    /\ proc = "alive" => starts > 0 \/ \E c \in Calls : pc[c] = "starting"
    /\ \A c \in Calls : pc[c] \in Inside \ {"starting"} => starts > 0
-----------------------------------------------------------------------------
(* Types, and the lock.                                                     *)

USE NoOneAssumption, KindAssumption DEF NoOneAssumption, KindAssumption

LEMMA InitIInv == Init => IInv
<1> SUFFICES ASSUME Init PROVE IInv
  OBVIOUS
<1>1. Types
  <2>1. <<>> \in Seq(Calls) /\ <<>> \in Seq(Tokens)
    OBVIOUS
  <2>2. pc \in [Calls -> Places] /\ DOMAIN reply = Calls
    BY DEF Init, Places
  <2> QED
    BY <2>1, <2>2 DEF Init, Types
<1>2. LockIsInside
  BY DEF Init, LockIsInside, Inside
<1> QED
  BY <1>1, <1>2 DEF IInv

\* What the process, Exit and Retire do leaves the calls where they are.
LEMMA ProcessIInv ==
  ASSUME IInv, Process \/ Exit \/ Retire
  PROVE  IInv'
<1> USE DEF IInv, Types
<1>1. UNCHANGED <<lock, pc, raw, reply>>
  BY DEF Process, Load, TakePrompt, WriteText, WriteEnd, WritePrompt, Exit, Retire
<1>2. LockIsInside'
  BY <1>1 DEF LockIsInside
<1>3. CASE Load
  <2>1. <<Log, You>> \in Seq(Tokens) /\ You \in Tokens
    BY DEF Tokens
  <2>2. stdout \o <<Log, You>> \in Seq(Tokens) /\ Append(stdout, You) \in Seq(Tokens)
    BY <2>1
  <2>3. stdout' \in Seq(Tokens)
    BY <1>3, <2>2 DEF Load, Write
  <2> QED
    BY <1>1, <1>2, <1>3, <2>3 DEF Load
<1>4. CASE TakePrompt
  <2>1. Head(stdin) \in Calls /\ Tail(stdin) \in Seq(Calls)
    BY <1>4 DEF TakePrompt
  <2> QED
    BY <1>1, <1>2, <1>4, <2>1 DEF TakePrompt
<1>5. CASE WriteText \/ WriteEnd \/ WritePrompt
  <2>1. \A c \in Calls : Text(c) \in Tokens /\ End(c) \in Tokens
    BY DEF Tokens
  <2>2. You \in Tokens
    BY DEF Tokens
  <2>3. \E token \in Tokens : stdout' = Append(stdout, token)
    BY <1>5, <2>1, <2>2 DEF WriteText, WriteEnd, WritePrompt, Write
  <2>4. stdout' \in Seq(Tokens)
    BY <2>3
  <2> QED
    BY <1>1, <1>2, <1>5, <2>4 DEF WriteText, WriteEnd, WritePrompt
<1>6. CASE Exit
  BY <1>1, <1>2, <1>6 DEF Exit
<1>7. CASE Retire
  BY <1>1, <1>2, <1>7 DEF Retire, Stop, Fresh
<1> QED
  BY <1>3, <1>4, <1>5, <1>6, <1>7 DEF Process

\* The holder of the lock leaves, or a call that finds it free is turned away.
LEMMA LeaveIInv ==
  ASSUME IInv, NEW c \in Calls, NEW how \in Ended, Leave(c, how),
         lock = c \/ (lock = NoOne /\ pc[c] \notin Inside)
  PROVE  /\ LockIsInside'
         /\ lock' = NoOne /\ raw' = <<>> /\ retired' = retired
         /\ pc' \in [Calls -> Places] /\ pc' = [pc EXCEPT ![c] = how]
<1>1. lock' = NoOne /\ raw' = <<>> /\ pc' = [pc EXCEPT ![c] = how] /\ retired' = retired
  BY DEF Leave
<1>2. how \notin Inside /\ how \in Places
  BY DEF Ended, Inside, Places
<1>3. pc' \in [Calls -> Places]
  BY <1>1, <1>2 DEF IInv, Types
<1>4. \A d \in Calls : pc'[d] \notin Inside
  BY <1>1, <1>2 DEF IInv, Types, LockIsInside
<1>5. LockIsInside'
  BY <1>1, <1>3, <1>4 DEF LockIsInside, Inside
<1> QED
  BY <1>1, <1>3, <1>5

\* The holder goes on to another place inside.
LEMMA GoIInv ==
  ASSUME IInv, NEW c \in Calls, NEW place \in Inside, lock = c,
         place = "yielding" => Kind[c] = "stream",
         place \in {"starting", "draining", "writing"} => raw' = <<>>,
         pc' = [pc EXCEPT ![c] = place], lock' = lock
  PROVE  LockIsInside' /\ pc' \in [Calls -> Places]
<1>1. pc' \in [Calls -> Places]
  BY DEF IInv, Types, Places
<1>2. \A d \in Calls : pc'[d] \in Inside <=> lock' = d
  BY DEF IInv, Types, LockIsInside
<1> QED
  BY <1>1, <1>2 DEF IInv, Types, LockIsInside

LEMMA StartIInv ==
  ASSUME IInv, NEW c \in Calls, GetWorker(c) \/ Start(c)
  PROVE  IInv'
<1>1. CASE GetWorker(c)
  <2>1. /\ pc' = [pc EXCEPT ![c] = "waiting"] /\ pc[c] = "outside"
        /\ lock' = lock /\ raw' = raw /\ UNCHANGED <<retired, process, reply>>
    BY <1>1 DEF GetWorker
  <2>2. LockIsInside'
    BY <2>1 DEF IInv, Types, LockIsInside, Inside
  <2> QED
    BY <2>1, <2>2 DEF IInv, Types, Places, process
<1>2. CASE Start(c)
  <2>1. PICK place \in {"starting", "draining"} :
          /\ pc' = [pc EXCEPT ![c] = place]
          /\ UNCHANGED process \/ Fresh("alive")
    BY <1>2 DEF Start
  <2>2. lock' = c /\ lock = NoOne /\ raw' = raw /\ UNCHANGED <<retired, reply>>
    BY <1>2 DEF Start
  <2>3. raw' = <<>>
    BY <2>2 DEF IInv, LockIsInside
  <2>4. pc' \in [Calls -> Places]
    BY <2>1 DEF IInv, Types, Places, Inside
  <2>5. LockIsInside'
    BY <2>1, <2>2, <2>3, <2>4 DEF IInv, Types, LockIsInside, Inside
  <2>6. CASE UNCHANGED process
    BY <2>2, <2>3, <2>4, <2>5, <2>6 DEF IInv, Types, process
  <2>7. CASE Fresh("alive")
    BY <2>2, <2>3, <2>4, <2>5, <2>7 DEF IInv, Types, Fresh
  <2> QED
    BY <2>1, <2>6, <2>7
<1> QED
  BY <1>1, <1>2

\* Whether it ends well or badly, a call leaves a process that is the old
\* one, one whose output has been read, or none.
LEMMA EndIInv ==
  ASSUME IInv, NEW c \in Calls, NEW how \in Ended, Leave(c, how),
         lock = c \/ (lock = NoOne /\ pc[c] \notin Inside),
         DOMAIN reply' = Calls,
         \/ UNCHANGED process
         \/ stdout' = <<>> /\ UNCHANGED <<proc, mode, asked, stdin>>
         \/ Stop
  PROVE  IInv'
<1>1. /\ LockIsInside' /\ pc' \in [Calls -> Places]
      /\ lock' = NoOne /\ raw' = <<>> /\ retired' = retired
  BY LeaveIInv
<1>2. CASE UNCHANGED process
  BY <1>1, <1>2 DEF IInv, Types, process
<1>3. CASE stdout' = <<>> /\ UNCHANGED <<proc, mode, asked, stdin>>
  BY <1>1, <1>3 DEF IInv, Types
<1>4. CASE Stop
  BY <1>1, <1>4 DEF IInv, Types, Stop, Fresh
<1> QED
  BY <1>2, <1>3, <1>4

\* A call that fails, is turned away or succeeds ends so.
LEMMA RefuseIInv ==
  ASSUME IInv, NEW c \in Calls, NEW how \in Ended, Refuse(c, how),
         lock = c \/ (lock = NoOne /\ pc[c] \notin Inside)
  PROVE  IInv'
BY EndIInv DEF Refuse, IInv, Types

LEMMA FailIInv ==
  ASSUME IInv, NEW c \in Calls, NEW how \in Ended, Fail(c, how), lock = c
  PROVE  IInv'
BY EndIInv DEF Fail, IInv, Types

LEMMA CallIInv ==
  ASSUME IInv, NEW c \in Calls, Call(c) \/ Abandon(c)
  PROVE  IInv'
<1>1. pc[c] \in Inside => lock = c
  BY DEF IInv, LockIsInside
<1>2. CASE Start(c)
  BY <1>2, StartIInv
<1>3. CASE CannotStart(c)
  BY <1>3, RefuseIInv DEF CannotStart, Ended, Inside
<1>4. CASE Started(c)
  <2>1. lock = c /\ stdout' = <<>> /\ UNCHANGED <<proc, mode, asked, stdin, reply>>
    BY <1>1, <1>4 DEF Started, Inside
  <2>2. CASE Leave(c, "refused")
    BY <2>1, <2>2, EndIInv DEF Ended, IInv, Types
  <2>3. CASE pc' = [pc EXCEPT ![c] = "draining"] /\ UNCHANGED <<lock, retired, raw>>
    <3>1. raw' = <<>>
      BY <1>4, <2>1, <2>3 DEF Started, IInv, LockIsInside
    <3>2. LockIsInside' /\ pc' \in [Calls -> Places]
      BY <2>1, <2>3, <3>1, GoIInv DEF Inside
    <3> QED
      BY <2>1, <2>3, <3>1, <3>2 DEF IInv, Types
  <2> QED
    BY <1>4, <2>2, <2>3 DEF Started
<1>5. CASE StartFails(c) \/ StartTimesOut(c) \/ NotStarted(c)
  BY <1>1, <1>5, RefuseIInv DEF StartFails, StartTimesOut, NotStarted, Ended, Inside
<1>6. CASE Drain(c)
  <2>1. /\ lock = c /\ stdout' = <<>> /\ raw' = raw /\ pc[c] = "draining"
        /\ UNCHANGED <<lock, retired, proc, mode, asked, stdin, reply>>
        /\ pc' = [pc EXCEPT ![c] = "writing"]
    BY <1>1, <1>6 DEF Drain, Inside
  <2>2. raw' = <<>>
    BY <2>1 DEF IInv, LockIsInside
  <2>3. LockIsInside' /\ pc' \in [Calls -> Places]
    BY <2>1, <2>2, GoIInv DEF Inside
  <2> QED
    BY <2>1, <2>2, <2>3 DEF IInv, Types
<1>7. CASE WritePromptLine(c)
  <2>1. /\ lock = c /\ stdin' = Append(stdin, c) /\ pc' = [pc EXCEPT ![c] = "reading"]
        /\ UNCHANGED <<lock, retired, proc, mode, asked, stdout, raw, reply>>
    BY <1>1, <1>7 DEF WritePromptLine, Inside
  <2>2. LockIsInside' /\ pc' \in [Calls -> Places]
    BY <2>1, GoIInv DEF Inside
  <2> QED
    BY <2>1, <2>2 DEF IInv, Types
<1>8. CASE WorkerGone(c) \/ TimesOut(c) \/ Abandon(c)
  BY <1>1, <1>8, FailIInv DEF WorkerGone, TimesOut, Abandon, Ended, Inside
<1>9. ASSUME raw' = raw \o stdout, stdout' = <<>>, UNCHANGED <<proc, mode, asked, stdin>>,
             UNCHANGED <<lock, retired>>, DOMAIN reply' = Calls, lock = c,
             NEW place \in {"reading", "yielding"},
             place = "yielding" => Kind[c] = "stream", pc' = [pc EXCEPT ![c] = place]
      PROVE  IInv'
  <2>1. LockIsInside' /\ pc' \in [Calls -> Places]
    BY <1>9, GoIInv DEF Inside
  <2>2. raw' \in Seq(Tokens)
    BY <1>9 DEF IInv, Types
  <2> QED
    BY <1>9, <2>1, <2>2 DEF IInv, Types
<1>10. pc = [pc EXCEPT ![c] = pc[c]]
  BY DEF IInv, Types
<1>11. CASE ReadResponse(c)
  <2>1. lock = c /\ pc[c] = "reading" /\ stdout' = <<>>
        /\ UNCHANGED <<proc, mode, asked, stdin>> /\ DOMAIN reply' = Calls
    BY <1>1, <1>11 DEF ReadResponse, Inside, IInv, Types
  <2>2. CASE Leave(c, "ok")
    BY <2>1, <2>2, EndIInv DEF Ended
  <2>3. CASE raw' = raw \o stdout /\ UNCHANGED <<lock, retired, pc>>
    BY <1>9, <1>10, <2>1, <2>3
  <2> QED
    BY <1>11, <2>2, <2>3 DEF ReadResponse
<1>12. CASE ReadDelta(c)
  <2>1. lock = c /\ pc[c] = "reading" /\ stdout' = <<>> /\ Kind[c] = "stream"
        /\ UNCHANGED <<proc, mode, asked, stdin>> /\ DOMAIN reply' = Calls
    BY <1>1, <1>12 DEF ReadDelta, Inside, IInv, Types
  <2>2. CASE Leave(c, "ok")
    BY <2>1, <2>2, EndIInv DEF Ended
  <2>3. CASE raw' = raw \o stdout /\ UNCHANGED <<lock, retired, pc>>
    BY <1>9, <1>10, <2>1, <2>3
  <2>4. CASE /\ raw' = raw \o stdout /\ UNCHANGED <<lock, retired>>
             /\ pc' = [pc EXCEPT ![c] = "yielding"]
    BY <1>9, <2>1, <2>4
  <2> QED
    BY <1>12, <2>2, <2>3, <2>4 DEF ReadDelta
<1>13. CASE Resume(c)
  <2>1. lock = c /\ UNCHANGED process /\ reply' = reply
    BY <1>1, <1>13 DEF Resume, Succeed, Inside
  <2>2. CASE Leave(c, "ok")
    BY <2>1, <2>2, EndIInv DEF Ended, IInv, Types
  <2>3. CASE pc' = [pc EXCEPT ![c] = "reading"] /\ UNCHANGED <<lock, retired, raw>>
    <3>1. LockIsInside' /\ pc' \in [Calls -> Places]
      BY <2>1, <2>3, GoIInv DEF Inside
    <3> QED
      BY <2>1, <2>3, <3>1 DEF IInv, Types, process
  <2> QED
    BY <1>13, <2>2, <2>3 DEF Resume, Succeed
<1> QED
  BY <1>2, <1>3, <1>4, <1>5, <1>6, <1>7, <1>8, <1>11, <1>12, <1>13 DEF Call

LEMMA NextIInv == IInv /\ [Next]_vars => IInv'
<1> SUFFICES ASSUME IInv, [Next]_vars PROVE IInv'
  OBVIOUS
<1>1. CASE UNCHANGED vars
  BY <1>1 DEF vars, process, IInv, Types, LockIsInside
<1> QED
  BY <1>1, ProcessIInv, StartIInv, CallIInv DEF Next

LEMMA WorkerInvariant == Spec => []IInv
BY InitIInv, NextIInv, PTL DEF Spec

(***************************************************************************)
(* Every reachable state is well typed, and the client's lock is held by   *)
(* the one call between its first step and its end, by none when there is  *)
(* no such call: every way out of generate and generate_stream, start()'s  *)
(* errors and timeouts included, gives it back.                            *)
(***************************************************************************)
THEOREM WorkerTypeOK == Spec => []TypeOK
<1>1. IInv => TypeOK
  <2> SUFFICES ASSUME IInv PROVE TypeOK
    OBVIOUS
  <2>1. \A i \in 1..Len(stdout) : stdout[i] \in Tokens
    BY DEF IInv, Types
  <2>2. WithEnd(Inside) = {lock} \ {NoOne}
    BY DEF IInv, Types, LockIsInside, WithEnd
  <2>3. lock = NoOne => raw = <<>>
    BY DEF IInv, LockIsInside
  <2> QED
    BY <2>1, <2>2, <2>3 DEF IInv, Types, TypeOK, Tokens, Inside
<1> QED
  BY <1>1, WorkerInvariant, PTL
-----------------------------------------------------------------------------
(* How calls move: one at a time, and never once they have ended.           *)

LEMMA CallMoves ==
  ASSUME IInv, NEW c \in Calls, GetWorker(c) \/ Call(c) \/ Abandon(c)
  PROVE  /\ pc[c] \notin Ended
         /\ \E place \in Places : pc' = [pc EXCEPT ![c] = place]
<1>1. pc = [pc EXCEPT ![c] = pc[c]] /\ pc[c] \in Places
  BY DEF IInv, Types
<1>2. ASSUME NEW how \in Ended, Leave(c, how)
      PROVE  \E place \in Places : pc' = [pc EXCEPT ![c] = place]
  BY <1>2 DEF Leave, Places
<1>3. CASE GetWorker(c) \/ Start(c) \/ Drain(c) \/ WritePromptLine(c)
  BY <1>3 DEF GetWorker, Start, Drain, WritePromptLine, Ended, Places, Inside
<1>4. CASE CannotStart(c) \/ StartFails(c) \/ StartTimesOut(c) \/ NotStarted(c)
  <2>1. pc[c] \in {"waiting", "starting", "draining"}
    BY <1>4 DEF CannotStart, StartFails, StartTimesOut, NotStarted
  <2>2. Leave(c, "refused") \/ Leave(c, "startTimedOut")
    BY <1>4 DEF CannotStart, StartFails, StartTimesOut, NotStarted, Refuse
  <2> QED
    BY <1>2, <2>1, <2>2 DEF Ended
<1>5. CASE Started(c)
  <2>1. pc[c] = "starting"
    BY <1>5 DEF Started
  <2>2. Leave(c, "refused") \/ pc' = [pc EXCEPT ![c] = "draining"]
    BY <1>5 DEF Started
  <2> QED
    BY <1>2, <2>1, <2>2 DEF Ended, Places, Inside
<1>6. CASE WorkerGone(c) \/ TimesOut(c) \/ Abandon(c)
  <2>1. pc[c] \in {"writing", "reading", "yielding"}
    BY <1>6 DEF WorkerGone, TimesOut, Abandon
  <2>2. Leave(c, "failed") \/ Leave(c, "timedout")
    BY <1>6 DEF WorkerGone, TimesOut, Abandon, Fail
  <2> QED
    BY <1>2, <2>1, <2>2 DEF Ended
<1>7. CASE ReadResponse(c) \/ ReadDelta(c) \/ Resume(c)
  <2>1. pc[c] \in {"reading", "yielding"}
    BY <1>7 DEF ReadResponse, ReadDelta, Resume
  <2>2. \/ Leave(c, "ok") \/ pc' = pc
        \/ \E place \in Inside : pc' = [pc EXCEPT ![c] = place]
    BY <1>7 DEF ReadResponse, ReadDelta, Resume, Succeed, Inside
  <2> QED
    BY <1>1, <1>2, <2>1, <2>2 DEF Ended, Places
<1> QED
  BY <1>3, <1>4, <1>5, <1>6, <1>7 DEF Call

LEMMA EndedStays ==
  ASSUME IInv, [Next]_vars, NEW c \in Calls, pc[c] \in Ended
  PROVE  pc'[c] = pc[c]
<1>1. CASE UNCHANGED vars \/ Process \/ Exit \/ Retire
  BY <1>1 DEF vars, Process, Load, TakePrompt, WriteText, WriteEnd, WritePrompt, Exit, Retire
<1>2. ASSUME NEW d \in Calls, GetWorker(d) \/ Call(d) \/ Abandon(d)
      PROVE  pc'[c] = pc[c]
  BY <1>2, CallMoves DEF IInv, Types
<1> QED
  BY <1>1, <1>2 DEF Next
-----------------------------------------------------------------------------
(* What the process is at when a stream has ended badly.                    *)

\* The prompts the process has, taken or not.
Prompts == {asked} \cup ToSet(stdin)

\* A step starts a process with none, or adds at most the prompt of a call that
\* is writing it.
LEMMA PromptsMove ==
  ASSUME IInv, [Next]_vars
  PROVE  \/ Prompts' = {NoOne}
         \/ /\ proc' = "alive" => proc = "alive"
            /\ \A c \in Calls : c \in Prompts' => c \in Prompts \/ pc[c] = "writing"
<1> DEFINE Keeps == /\ proc' = "alive" => proc = "alive"
                    /\ \A c \in Calls : c \in Prompts' => c \in Prompts \/ pc[c] = "writing"
<1> USE DEF ToSet
<1>1. CASE UNCHANGED process \/ UNCHANGED <<proc, asked, stdin>>
  BY <1>1 DEF Prompts, process
<1>2. ASSUME NEW state, Fresh(state) PROVE Prompts' = {NoOne}
  BY <1>2 DEF Fresh, Prompts
<1>3. CASE TakePrompt
  <2>1. /\ stdin \in Seq(Calls) /\ stdin # <<>> /\ proc' = proc
        /\ asked' = Head(stdin) /\ stdin' = Tail(stdin)
    BY <1>3 DEF TakePrompt, IInv, Types
  <2>2. Head(stdin) \in ToSet(stdin)
    BY <2>1
  <2>3. ToSet(Tail(stdin)) \subseteq ToSet(stdin)
    BY <2>1
  <2> QED
    BY <2>1, <2>2, <2>3 DEF Prompts
<1>4. CASE WritePrompt \/ Exit
  BY <1>4 DEF WritePrompt, Exit, Prompts
<1>5. ASSUME NEW c \in Calls, WritePromptLine(c) PROVE Keeps
  <2>1. /\ stdin \in Seq(Calls) /\ stdin' = Append(stdin, c) /\ pc[c] = "writing"
        /\ UNCHANGED <<proc, asked>>
    BY <1>5 DEF WritePromptLine, IInv, Types
  <2>2. ToSet(Append(stdin, c)) = ToSet(stdin) \cup {c}
    BY <2>1
  <2> QED
    BY <2>1, <2>2 DEF Prompts
<1>6. ASSUME NEW c \in Calls,
             GetWorker(c) \/ CannotStart(c) \/ Started(c) \/ StartFails(c)
               \/ StartTimesOut(c) \/ Drain(c) \/ NotStarted(c) \/ ReadResponse(c)
               \/ ReadDelta(c) \/ Resume(c)
      PROVE  UNCHANGED <<proc, asked, stdin>>
  BY <1>6 DEF GetWorker, CannotStart, Started, StartFails, StartTimesOut, Drain, NotStarted,
              ReadResponse, ReadDelta, Resume, Refuse, Succeed, process
<1>7. ASSUME NEW c \in Calls, Start(c) \/ WorkerGone(c) \/ TimesOut(c) \/ Abandon(c)
      PROVE  UNCHANGED process \/ \E state \in {"alive", "none"} : Fresh(state)
  BY <1>7 DEF Start, WorkerGone, TimesOut, Abandon, Fail, Stop
<1>8. CASE UNCHANGED vars \/ Load \/ WriteText \/ WriteEnd
  BY <1>1, <1>8 DEF vars, process, Load, WriteText, WriteEnd
<1>9. CASE Retire
  BY <1>2, <1>9 DEF Retire, Stop
<1> QED
  BY <1>1, <1>2, <1>3, <1>4, <1>5, <1>6, <1>7, <1>8, <1>9 DEF Next, Process, Call

\* A stream that ends badly takes a running process with it.
LEMMA FailStops ==
  ASSUME IInv, [Next]_vars, NEW c \in Calls, Kind[c] = "stream",
         pc[c] \notin {"failed", "timedout"}, pc'[c] \in {"failed", "timedout"}
  PROVE  proc' # "alive"
<1>1. ASSUME NEW d \in Calls, GetWorker(d) \/ Call(d) \/ Abandon(d)
      PROVE  proc' # "alive"
  <2>1. d = c
    BY <1>1, CallMoves DEF IInv, Types
  <2>2. ASSUME NEW how \in {"ok", "refused", "startTimedOut"}, Leave(c, how)
        PROVE  FALSE
    BY <2>2 DEF Leave, IInv, Types
  <2>3. ASSUME NEW place \in {"waiting"} \cup Inside, pc' = [pc EXCEPT ![c] = place]
        PROVE  FALSE
    BY <2>3 DEF Inside, IInv, Types
  <2>4. pc' # pc
    OBVIOUS
  <2>5. ASSUME NEW how, Fail(c, how) PROVE proc' # "alive"
    BY <2>5 DEF Fail, Stop, Fresh, process
  <2>6. CASE GetWorker(c) \/ Start(c) \/ Drain(c) \/ WritePromptLine(c)
    BY <2>3, <2>6 DEF GetWorker, Start, Drain, WritePromptLine, Inside
  <2>7. CASE CannotStart(c) \/ StartFails(c) \/ StartTimesOut(c) \/ NotStarted(c)
    BY <2>2, <2>7 DEF CannotStart, StartFails, StartTimesOut, NotStarted, Refuse
  <2>8. CASE Started(c)
    BY <2>2, <2>3, <2>8 DEF Started, Inside
  <2>9. CASE ReadResponse(c) \/ ReadDelta(c) \/ Resume(c)
    BY <2>2, <2>3, <2>4, <2>9 DEF ReadResponse, ReadDelta, Resume, Succeed, Inside
  <2>10. CASE WorkerGone(c) \/ TimesOut(c) \/ Abandon(c)
    BY <2>5, <2>10 DEF WorkerGone, TimesOut, Abandon
  <2> QED
    BY <1>1, <2>1, <2>6, <2>7, <2>8, <2>9, <2>10 DEF Call
<1>2. CASE UNCHANGED vars \/ Process \/ Exit \/ Retire
  BY <1>2 DEF vars, Process, Load, TakePrompt, WriteText, WriteEnd, WritePrompt, Exit, Retire
<1> QED
  BY <1>1, <1>2 DEF Next

(***************************************************************************)
(* A stream that fails, runs into its timeout or is abandoned leaves no    *)
(* running process that has its prompt, whatever calls, exits and restarts *)
(* follow: the finally clause of generate_stream stops it, and no prompt   *)
(* is written by a call that has ended.                                    *)
(***************************************************************************)
THEOREM WorkerFailedStreamStops == Spec => []FailedStreamStopsWorker
<1> DEFINE Stopped == \A c \in WithEnd({"failed", "timedout"}) :
                        Kind[c] = "stream" /\ proc = "alive" => c \notin Prompts
<1>1. Init => Stopped
  BY DEF Init, WithEnd
<1>2. IInv /\ Stopped /\ [Next]_vars => Stopped'
  <2> SUFFICES ASSUME IInv, Stopped, [Next]_vars,
                      NEW c \in Calls, pc'[c] \in {"failed", "timedout"},
                      Kind[c] = "stream", proc' = "alive"
               PROVE  c \notin Prompts'
    BY DEF WithEnd
  <2>1. pc[c] \in {"failed", "timedout"}
    BY FailStops
  <2>2. Prompts' = {NoOne} => c \notin Prompts'
    OBVIOUS
  <2>3. CASE proc = "alive" /\ (c \in Prompts' => c \in Prompts \/ pc[c] = "writing")
    BY <2>1, <2>3 DEF WithEnd
  <2> QED
    BY <2>2, <2>3, PromptsMove
<1>3. Stopped <=> FailedStreamStopsWorker
  BY DEF FailedStreamStopsWorker, Prompts
<1> QED
  BY <1>1, <1>2, <1>3, WorkerInvariant, PTL DEF Spec
-----------------------------------------------------------------------------
(* The counters.                                                            *)

Done == WithEnd({"ok", "failed", "timedout"})
Bad == WithEnd({"failed", "timedout"})

CountInv ==
  /\ IsFiniteSet(Done) /\ requests = Cardinality(Done)
  /\ IsFiniteSet(Bad) /\ failures = Cardinality(Bad)

\* What a step does to the sets and the counters: nothing, or one call ends.
CountsNothing ==
  /\ UNCHANGED <<requests, failures>>
  /\ \/ pc' = pc
     \/ \E c \in Calls, place \in Places \ {"ok", "failed", "timedout"} :
          pc[c] \notin Ended /\ pc' = [pc EXCEPT ![c] = place]

CountsAnEnd(c, how) ==
  /\ pc[c] \notin Ended
  /\ pc' = [pc EXCEPT ![c] = how]
  /\ requests' = requests + 1
  /\ \/ how = "ok" /\ failures' = failures
     \/ how \in {"failed", "timedout"} /\ failures' = failures + 1

LEMMA StepCounts ==
  ASSUME IInv, [Next]_vars
  PROVE  CountsNothing \/ \E c \in Calls, how \in Ended : CountsAnEnd(c, how)
<1>1. ASSUME NEW c \in Calls, NEW how \in Ended, Fail(c, how), pc[c] \notin Ended,
             how \in {"failed", "timedout"}
      PROVE  CountsAnEnd(c, how)
  BY <1>1 DEF Fail, Leave, CountsAnEnd
<1>2. ASSUME NEW c \in Calls, NEW how \in {"refused", "startTimedOut"}, Refuse(c, how),
             pc[c] \notin Ended
      PROVE  CountsNothing
  BY <1>2 DEF Refuse, Leave, counters, CountsNothing, Places, Ended
<1>3. CASE UNCHANGED vars \/ Process \/ Exit \/ Retire
  BY <1>3 DEF vars, counters, Process, Load, TakePrompt, WriteText, WriteEnd, WritePrompt,
              Exit, Retire, CountsNothing
<1>4. ASSUME NEW c \in Calls, GetWorker(c) \/ Call(c) \/ Abandon(c)
      PROVE  CountsNothing \/ \E how \in Ended : CountsAnEnd(c, how)
  <2>1. pc[c] \notin Ended
    BY <1>4, CallMoves
  <2>2. ASSUME NEW place \in {"waiting"} \cup Inside, pc' = [pc EXCEPT ![c] = place],
               UNCHANGED <<requests, failures>>
        PROVE  CountsNothing
    BY <2>1, <2>2 DEF CountsNothing, Places, Inside
  <2>3. CASE GetWorker(c) \/ Start(c) \/ Drain(c) \/ WritePromptLine(c)
    BY <2>2, <2>3 DEF GetWorker, Start, Drain, WritePromptLine, Inside, counters
  <2>4. CASE CannotStart(c) \/ StartFails(c) \/ StartTimesOut(c) \/ NotStarted(c)
    BY <1>2, <2>1, <2>4 DEF CannotStart, StartFails, StartTimesOut, NotStarted
  <2>5. CASE Started(c)
    <3>1. UNCHANGED <<requests, failures>>
      BY <2>5 DEF Started
    <3>2. CASE Leave(c, "refused")
      BY <2>1, <3>1, <3>2 DEF Leave, CountsNothing, Places, Ended
    <3>3. CASE pc' = [pc EXCEPT ![c] = "draining"]
      BY <2>2, <3>1, <3>3 DEF Inside
    <3> QED
      BY <2>5, <3>2, <3>3 DEF Started
  <2>6. CASE WorkerGone(c) \/ TimesOut(c) \/ Abandon(c)
    BY <1>1, <2>1, <2>6 DEF WorkerGone, TimesOut, Abandon, Ended
  <2>7. CASE ReadResponse(c) \/ ReadDelta(c) \/ Resume(c)
    <3>1. CASE Leave(c, "ok") /\ requests' = requests + 1 /\ failures' = failures
      <4>1. CountsAnEnd(c, "ok")
        BY <2>1, <3>1 DEF Leave, CountsAnEnd
      <4> QED
        BY <4>1 DEF Ended
    <3>2. CASE pc' = pc /\ UNCHANGED <<requests, failures>>
      BY <3>2 DEF CountsNothing
    <3>3. CASE /\ UNCHANGED <<requests, failures>>
               /\ \E place \in Inside : pc' = [pc EXCEPT ![c] = place]
      BY <2>2, <3>3
    <3> QED
      BY <2>7, <3>1, <3>2, <3>3 DEF ReadResponse, ReadDelta, Resume, Succeed, Inside, counters
  <2> QED
    BY <1>4, <2>3, <2>4, <2>5, <2>6, <2>7 DEF Call
<1> QED
  BY <1>3, <1>4 DEF Next

LEMMA NextCount == IInv /\ CountInv /\ [Next]_vars => CountInv'
<1> SUFFICES ASSUME IInv, CountInv, [Next]_vars PROVE CountInv'
  OBVIOUS
<1>1. CASE CountsNothing
  <2>1. Done' = Done /\ Bad' = Bad
    BY <1>1 DEF CountsNothing, Done, Bad, WithEnd, IInv, Types, Ended
  <2> QED
    BY <1>1, <2>1 DEF CountsNothing, CountInv
<1>2. ASSUME NEW c \in Calls, NEW how \in Ended, CountsAnEnd(c, how) PROVE CountInv'
  <2>1. c \notin Done /\ c \notin Bad /\ how \in {"ok", "failed", "timedout"}
    BY <1>2 DEF CountsAnEnd, Done, Bad, WithEnd, Ended
  <2>2. Done' = Done \cup {c}
    BY <1>2, <2>1 DEF CountsAnEnd, Done, WithEnd, IInv, Types
  <2>3. Bad' = IF how = "ok" THEN Bad ELSE Bad \cup {c}
    BY <1>2, <2>1 DEF CountsAnEnd, Bad, WithEnd, IInv, Types
  <2>4. /\ IsFiniteSet(Done \cup {c}) /\ Cardinality(Done \cup {c}) = Cardinality(Done) + 1
        /\ IsFiniteSet(Bad \cup {c}) /\ Cardinality(Bad \cup {c}) = Cardinality(Bad) + 1
    BY <2>1, FS_AddElement DEF CountInv
  <2>5. CASE how = "ok"
    BY <1>2, <2>2, <2>3, <2>4, <2>5 DEF CountsAnEnd, CountInv
  <2>6. CASE how # "ok"
    BY <1>2, <2>2, <2>3, <2>4, <2>6 DEF CountsAnEnd, CountInv
  <2> QED
    BY <2>5, <2>6
<1> QED
  BY <1>1, <1>2, StepCounts

Working == Inside \ {"starting"}

StartsInv == starts \in Nat /\ requests \in Nat /\ StartsCounted

\* A step that is not one of start()'s.
OtherStep ==
  /\ starts' = starts
  /\ proc' = "alive" => proc = "alive"
  /\ \A c \in Calls : /\ pc[c] = "starting" => pc'[c] = "starting"
                      /\ pc'[c] \in Working => pc[c] \in Working
  /\ \/ requests' = requests
     \/ requests' = requests + 1 /\ \E c \in Calls : pc[c] \in Working

LEMMA OtherSteps ==
  ASSUME IInv, [Next]_vars
  PROVE  \/ OtherStep
         \/ \E c \in Calls : Start(c) \/ Started(c) \/ StartFails(c) \/ StartTimesOut(c)
<1> USE DEF OtherStep
<1>1. CASE UNCHANGED vars \/ Process \/ Exit \/ Retire
  BY <1>1 DEF vars, counters, process, Process, Load, TakePrompt, WriteText, WriteEnd,
              WritePrompt, Exit, Retire, Stop, Fresh
<1>2. ASSUME NEW c \in Calls, GetWorker(c) \/ CannotStart(c)
      PROVE  OtherStep
  <2>1. /\ pc[c] \in {"outside", "waiting"} /\ UNCHANGED <<process, counters>>
        /\ \E place \in {"waiting", "refused"} : pc' = [pc EXCEPT ![c] = place]
    BY <1>2 DEF GetWorker, CannotStart, Refuse, Leave
  <2> QED
    BY <2>1 DEF IInv, Types, Working, Inside, process, counters
<1>3. ASSUME NEW c \in Calls,
             Drain(c) \/ NotStarted(c) \/ WritePromptLine(c) \/ WorkerGone(c)
               \/ ReadResponse(c) \/ ReadDelta(c) \/ Resume(c) \/ TimesOut(c) \/ Abandon(c)
      PROVE  OtherStep
  <2>1. pc[c] \in Working
    BY <1>3 DEF Drain, NotStarted, WritePromptLine, WorkerGone, ReadResponse, ReadDelta,
                Resume, TimesOut, Abandon, Working, Inside
  <2>2. starts' = starts
    BY <1>3 DEF Drain, NotStarted, WritePromptLine, WorkerGone, ReadResponse, ReadDelta,
                Resume, Succeed, TimesOut, Abandon, Refuse, Fail, counters
  <2>3. proc' = "alive" => proc = "alive"
    BY <1>3 DEF Drain, NotStarted, WritePromptLine, WorkerGone, ReadResponse, ReadDelta,
                Resume, Succeed, TimesOut, Abandon, Refuse, Fail, Stop, Fresh, process
  <2>4. requests' \in {requests, requests + 1}
    BY <1>3 DEF Drain, NotStarted, WritePromptLine, WorkerGone, ReadResponse, ReadDelta,
                Resume, Succeed, TimesOut, Abandon, Refuse, Fail, counters
  <2>5. \E place : pc' = [pc EXCEPT ![c] = place]
    BY <1>3, CallMoves DEF Call
  <2>6. c \in Calls /\ pc[c] # "starting"
    BY <2>1 DEF Working
  <2> QED
    BY <2>1, <2>2, <2>3, <2>4, <2>5, <2>6 DEF IInv, Types
<1> QED
  BY <1>1, <1>2, <1>3 DEF Next, Call

LEMMA NextStarts == IInv /\ StartsInv /\ [Next]_vars => StartsInv'
<1> SUFFICES ASSUME IInv, StartsInv, [Next]_vars PROVE StartsInv'
  OBVIOUS
<1>1. WithEnd({"startTimedOut"})' = {} => WithEnd({"startTimedOut"}) = {}
  BY EndedStays DEF WithEnd, Ended
<1>2. CASE OtherStep
  <2>1. starts' \in Nat /\ requests' \in Nat
    BY <1>2 DEF OtherStep, StartsInv
  <2>2. ASSUME WithEnd({"startTimedOut"})' = {}
        PROVE  /\ requests' > 0 => starts' > 0
               /\ proc' = "alive" => starts' > 0 \/ \E c \in Calls : pc'[c] = "starting"
               /\ \A c \in Calls : pc'[c] \in Working => starts' > 0
    <3>1. WithEnd({"startTimedOut"}) = {}
      BY <1>1, <2>2
    <3>2. \A c \in Calls : pc[c] \in Working => starts > 0
      BY <3>1 DEF StartsInv, StartsCounted, Working
    <3> QED
      BY <1>2, <3>1, <3>2 DEF OtherStep, StartsInv, StartsCounted
  <2> QED
    BY <2>1, <2>2 DEF StartsInv, StartsCounted, Working
<1>3. ASSUME NEW c \in Calls, Start(c) PROVE StartsInv'
  <2>1. /\ lock = NoOne /\ UNCHANGED counters
        /\ \/ proc = "alive" /\ pc' = [pc EXCEPT ![c] = "draining"]
           \/ pc' = [pc EXCEPT ![c] = "starting"]
    BY <1>3 DEF Start
  <2>2. \A d \in Calls : pc[d] \notin Inside
    BY <2>1 DEF IInv, LockIsInside
  <2>3. WithEnd({"startTimedOut"}) = {} /\ proc = "alive" => starts > 0
    BY <2>2 DEF StartsInv, StartsCounted, Inside
  <2>4. CASE proc = "alive" /\ pc' = [pc EXCEPT ![c] = "draining"]
    BY <1>1, <2>1, <2>2, <2>3, <2>4
       DEF StartsInv, StartsCounted, counters, IInv, Types, Inside
  <2>5. CASE pc' = [pc EXCEPT ![c] = "starting"]
    <3>1. pc'[c] = "starting" /\ \A d \in Calls : pc'[d] \notin Inside \ {"starting"}
      BY <2>2, <2>5 DEF IInv, Types
    <3> QED
      BY <1>1, <2>1, <3>1 DEF StartsInv, StartsCounted, counters
  <2> QED
    BY <2>1, <2>4, <2>5
<1>4. ASSUME NEW c \in Calls, Started(c) PROVE StartsInv'
  <2>1. starts' > 0 /\ starts' \in Nat /\ requests' = requests
    BY <1>4 DEF Started, StartsInv
  <2> QED
    BY <2>1 DEF StartsInv, StartsCounted
<1>5. ASSUME NEW c \in Calls, StartFails(c) \/ StartTimesOut(c) PROVE StartsInv'
  <2>1. /\ pc[c] = "starting" /\ UNCHANGED counters /\ proc' = proc
        /\ \/ proc # "alive" /\ pc' = [pc EXCEPT ![c] = "refused"]
           \/ pc' = [pc EXCEPT ![c] = "startTimedOut"]
    BY <1>5 DEF StartFails, StartTimesOut, Refuse, Leave, process
  <2>2. lock = c /\ \A d \in Calls \ {c} : pc[d] \notin Inside
    BY <2>1 DEF IInv, LockIsInside, Inside
  <2>3. \A d \in Calls : pc'[d] \notin Inside
    BY <2>1, <2>2 DEF IInv, Types, Inside
  <2>4. CASE proc # "alive" /\ pc' = [pc EXCEPT ![c] = "refused"]
    BY <1>1, <2>1, <2>3, <2>4 DEF StartsInv, StartsCounted, counters
  <2>5. CASE pc' = [pc EXCEPT ![c] = "startTimedOut"]
    <3>1. c \in WithEnd({"startTimedOut"})'
      BY <2>5 DEF WithEnd, IInv, Types
    <3> QED
      BY <2>1, <3>1 DEF StartsInv, StartsCounted, counters
  <2> QED
    BY <2>1, <2>4, <2>5
<1> QED
  BY <1>2, <1>3, <1>4, <1>5, OtherSteps

(***************************************************************************)
(* request_count is the number of calls whose prompt was to be sent and    *)
(* that have ended, failed_request_count that of the failed ones, for any  *)
(* set of calls; and without a start that timed out no prompt goes to a    *)
(* process whose start was not counted.                                    *)
(***************************************************************************)
THEOREM WorkerCountedOnce == Spec => []CountedOnce
<1>1. Init => CountInv /\ StartsInv
  <2> SUFFICES ASSUME Init PROVE CountInv /\ StartsInv
    OBVIOUS
  <2>1. Done = {} /\ Bad = {}
    BY DEF Init, Done, Bad, WithEnd
  <2>2. CountInv
    BY <2>1, FS_EmptySet DEF Init, CountInv
  <2>3. StartsInv
    BY DEF Init, StartsInv, StartsCounted, Inside
  <2> QED
    BY <2>2, <2>3
<1>2. CountInv /\ StartsInv => CountedOnce
  BY DEF CountInv, StartsInv, StartsCounted, CountedOnce, Done, Bad
<1> QED
  BY <1>1, <1>2, NextCount, NextStarts, WorkerInvariant, PTL DEF Spec
-----------------------------------------------------------------------------
(* What the client makes of the tokens of one answer.                       *)

LEMMA TokenFacts ==
  ASSUME NEW c
  PROVE  /\ Text(c).is = "text" /\ Text(c).of = c /\ End(c).is = "end" /\ You.is = "you"
         /\ ~Marker(Text(c)) /\ Marker(End(c)) /\ Marker(You)
         /\ Text(c) # You
<1>1. Text(c).is = "text" /\ Text(c).of = c /\ End(c).is = "end" /\ You.is = "you"
  BY DEF Text, End, You
<1> QED
  BY <1>1 DEF Marker

LEMMA NoText == Texts(<<>>) = <<>>
<1> DEFINE said == {i \in 1..Len(<<>>) : <<>>[i].is \in {"text", "log"}}
           nth(k) == CHOOSE i \in said : Cardinality({j \in said : j < i}) = k - 1
<1>1. said = {}
  OBVIOUS
<1>2. Cardinality(said) = 0
  BY <1>1, FS_EmptySet
<1>3. Texts(<<>>) = [k \in 1..Cardinality(said) |-> <<>>[nth(k)].of]
  BY DEF Texts
<1> HIDE DEF said, nth
<1>4. Texts(<<>>) = [k \in 1..0 |-> <<>>[nth(k)].of]
  BY <1>2, <1>3
<1> QED
  BY <1>4

\* One text, and it comes first.
LEMMA OneText ==
  ASSUME NEW s, s \in Seq(Tokens), s # <<>>, s[1].is = "text",
         \A i \in 2..Len(s) : s[i].is \notin {"text", "log"}
  PROVE  Texts(s) = <<s[1].of>>
<1> DEFINE said == {i \in 1..Len(s) : s[i].is \in {"text", "log"}}
           nth(k) == CHOOSE i \in said : Cardinality({j \in said : j < i}) = k - 1
<1>1. said = {1}
  OBVIOUS
<1>2. Cardinality(said) = 1
  BY <1>1, FS_Singleton
<1>3. nth(1) = 1
  <2>1. nth(1) = CHOOSE i \in {1} : Cardinality({j \in {1} : j < i}) = 1 - 1
    BY <1>1
  <2>2. {j \in {1} : j < 1} = {}
    OBVIOUS
  <2>3. Cardinality({}) = 0
    BY FS_EmptySet
  <2>4. Cardinality({j \in {1} : j < 1}) = 0
    BY <2>2, <2>3, Zenon
  <2>5. 1 - 1 = 0
    OBVIOUS
  <2>6. Cardinality({j \in {1} : j < 1}) = 1 - 1
    BY <2>4, <2>5, Zenon
  <2> QED
    BY <2>1, <2>6
<1>4. Texts(s) = [k \in 1..Cardinality(said) |-> s[nth(k)].of]
  BY DEF Texts
<1> HIDE DEF said, nth
<1>5. Texts(s) = [k \in 1..1 |-> s[nth(k)].of]
  BY <1>2, <1>4
<1> QED
  BY <1>3, <1>5

\* The three answers, whole or not yet whole.
LEMMA AnswerTexts ==
  ASSUME NEW c \in Calls
  PROVE  /\ Texts(<<Text(c)>>) = <<c>>
         /\ Texts(<<Text(c), End(c)>>) = <<c>>
         /\ Texts(<<Text(c), End(c), You>>) = <<c>>
<1>1. /\ Text(c) \in Tokens /\ End(c) \in Tokens /\ You \in Tokens
      /\ Text(c).is = "text" /\ Text(c).of = c
      /\ End(c).is \notin {"text", "log"} /\ You.is \notin {"text", "log"}
  BY TokenFacts DEF Tokens
<1>2. Texts(<<Text(c)>>) = <<c>>
  <2> DEFINE s == <<Text(c)>>
  <2>1. s \in Seq(Tokens) /\ s # <<>> /\ s[1] = Text(c) /\ Len(s) = 1
    BY <1>1
  <2> HIDE DEF s
  <2>2. \A i \in 2..Len(s) : s[i].is \notin {"text", "log"}
    BY <2>1
  <2>3. Texts(s) = <<s[1].of>>
    BY <1>1, <2>1, <2>2, OneText
  <2> QED
    BY <1>1, <2>1, <2>3 DEF s
<1>3. Texts(<<Text(c), End(c)>>) = <<c>>
  <2> DEFINE s == <<Text(c), End(c)>>
  <2>1. s \in Seq(Tokens) /\ s # <<>> /\ s[1] = Text(c) /\ Len(s) = 2 /\ s[2] = End(c)
    BY <1>1
  <2> HIDE DEF s
  <2>2. \A i \in 2..Len(s) : s[i].is \notin {"text", "log"}
    BY <1>1, <2>1
  <2>3. Texts(s) = <<s[1].of>>
    BY <1>1, <2>1, <2>2, OneText
  <2> QED
    BY <1>1, <2>1, <2>3 DEF s
<1>4. Texts(<<Text(c), End(c), You>>) = <<c>>
  <2> DEFINE s == <<Text(c), End(c), You>>
  <2>1. /\ s \in Seq(Tokens) /\ s # <<>> /\ s[1] = Text(c) /\ Len(s) = 3
        /\ s[2] = End(c) /\ s[3] = You
    BY <1>1
  <2> HIDE DEF s
  <2>2. \A i \in 2..Len(s) : s[i].is \notin {"text", "log"}
    BY <1>1, <2>1
  <2>3. Texts(s) = <<s[1].of>>
    BY <1>1, <2>1, <2>2, OneText
  <2> QED
    BY <1>1, <2>1, <2>3 DEF s
<1> QED
  BY <1>2, <1>3, <1>4

LEMMA AnswerClean ==
  ASSUME NEW c \in Calls
  PROVE  /\ Clean(<<Text(c), End(c)>>) = <<c>>
         /\ Clean(<<Text(c), End(c), You>>) = <<c>>
<1>1. <<c>> # <<>> /\ <<c>>[Len(<<c>>)] = c
  OBVIOUS
<1> QED
  BY <1>1, AnswerTexts DEF Clean, Last

\* Where the first end marker is.
LEMMA AnswerEnds ==
  ASSUME NEW c \in Calls
  PROVE  /\ SelectInSeq(<<>>, Marker) = 0
         /\ SelectInSeq(<<Text(c)>>, Marker) = 0
         /\ SelectInSeq(<<Text(c), End(c)>>, Marker) = 2
         /\ SelectInSeq(<<Text(c), End(c), You>>, Marker) = 2
<1>1. SelectInSeq(<<>>, Marker) = 0
  BY DEF SelectInSeq
<1>2. SelectInSeq(<<Text(c)>>, Marker) = 0
  BY TokenFacts DEF SelectInSeq
<1>3. ASSUME NEW S, 2 \in S, \A i \in S : i \in {2, 3} PROVE Min(S) = 2
  BY <1>3 DEF Min
<1>4. SelectInSeq(<<Text(c), End(c)>>, Marker) = 2
  <2> DEFINE s == <<Text(c), End(c)>>
             I == {i \in 1..Len(s) : Marker(s[i])}
  <2>1. Len(s) = 2 /\ s[1] = Text(c) /\ s[2] = End(c)
    OBVIOUS
  <2>2. SelectInSeq(s, Marker) = IF I # {} THEN Min(I) ELSE 0
    BY DEF SelectInSeq
  <2> HIDE DEF s
  <2>3. 2 \in I /\ \A i \in I : i \in {2, 3}
    BY <2>1, TokenFacts
  <2> HIDE DEF I
  <2> QED
    BY <1>3, <2>2, <2>3 DEF s
<1>5. SelectInSeq(<<Text(c), End(c), You>>, Marker) = 2
  <2> DEFINE s == <<Text(c), End(c), You>>
             I == {i \in 1..Len(s) : Marker(s[i])}
  <2>1. Len(s) = 3 /\ s[1] = Text(c) /\ s[2] = End(c) /\ s[3] = You
    OBVIOUS
  <2>2. SelectInSeq(s, Marker) = IF I # {} THEN Min(I) ELSE 0
    BY DEF SelectInSeq
  <2> HIDE DEF s
  <2>3. 2 \in I /\ \A i \in I : i \in {2, 3}
    BY <2>1, TokenFacts
  <2> HIDE DEF I
  <2> QED
    BY <1>3, <2>2, <2>3 DEF s
<1> QED
  BY <1>1, <1>2, <1>4, <1>5

LEMMA FirstOnly ==
  ASSUME NEW s \in Seq(Tokens), s # <<>>
  PROVE  SubSeq(s, 1, 2 - 1) = <<s[1]>>
<1> DEFINE first == SubSeq(s, 1, 1)
<1>1. 2 - 1 = 1
  OBVIOUS
<1>2. first \in Seq(Tokens) /\ Len(first) = 1 /\ first[1] = s[1]
  OBVIOUS
<1> HIDE DEF first
<1>3. first = <<s[1]>>
  BY <1>2
<1> QED
  BY <1>1, <1>3 DEF first

LEMMA AnswerStreamed ==
  ASSUME NEW c \in Calls
  PROVE  /\ Streamed(<<>>) = <<>> /\ ~StreamEnded(<<>>)
         /\ Streamed(<<Text(c)>>) = <<c>> /\ ~StreamEnded(<<Text(c)>>)
         /\ Streamed(<<Text(c), End(c)>>) = <<c>>
         /\ Streamed(<<Text(c), End(c), You>>) = <<c>>
<1>1. Body(<<>>) = <<>>
  BY DEF Body
<1>2. Text(c) # You
  BY TokenFacts
<1>3. Body(<<Text(c)>>) = <<Text(c)>>
  BY <1>2 DEF Body
<1>4. Body(<<Text(c), End(c)>>) = <<Text(c), End(c)>>
  BY <1>2 DEF Body
<1>5. Body(<<Text(c), End(c), You>>) = <<Text(c), End(c), You>>
  BY <1>2 DEF Body
<1>6. /\ SubSeq(<<Text(c), End(c)>>, 1, 2 - 1) = <<Text(c)>>
      /\ SubSeq(<<Text(c), End(c), You>>, 1, 2 - 1) = <<Text(c)>>
  <2>1. Text(c) \in Tokens /\ End(c) \in Tokens /\ You \in Tokens
    BY DEF Tokens
  <2>2. <<Text(c), End(c)>> \in Seq(Tokens) /\ <<Text(c), End(c), You>> \in Seq(Tokens)
    BY <2>1
  <2> QED
    BY <2>2, FirstOnly
<1>7. Streamed(<<>>) = <<>> /\ ~StreamEnded(<<>>)
  BY <1>1, AnswerEnds, NoText DEF Streamed, StreamEnded
<1>8. Streamed(<<Text(c)>>) = <<c>> /\ ~StreamEnded(<<Text(c)>>)
  BY <1>3, AnswerEnds, AnswerTexts DEF Streamed, StreamEnded
<1>9. Streamed(<<Text(c), End(c)>>) = <<c>>
  BY <1>4, <1>6, AnswerEnds, AnswerTexts DEF Streamed
<1>10. Streamed(<<Text(c), End(c), You>>) = <<c>>
  BY <1>5, <1>6, AnswerEnds, AnswerTexts DEF Streamed
<1> QED
  BY <1>7, <1>8, <1>9, <1>10
-----------------------------------------------------------------------------
(* The process and the calls in step.                                       *)

LEMMA LateStays == IInv /\ [Next]_vars /\ LateOutput => LateOutput'
BY EndedStays DEF LateOutput, WithEnd, Ended

\* Only a call that reads is given anything.
LEMMA NextNothing == IInv /\ NothingYet /\ [Next]_vars => NothingYet'
<1> DEFINE Early == {"outside", "waiting", "starting", "draining", "writing"}
<1> SUFFICES ASSUME IInv, NothingYet, [Next]_vars PROVE NothingYet'
  OBVIOUS
<1>1. CASE UNCHANGED vars \/ Process \/ Exit \/ Retire
  BY <1>1 DEF vars, Process, Load, TakePrompt, WriteText, WriteEnd, WritePrompt, Exit, Retire,
              NothingYet
<1>2. ASSUME NEW c \in Calls, pc[c] \in Early, reply' = reply,
             NEW place, pc' = [pc EXCEPT ![c] = place]
      PROVE  NothingYet'
  <2>1. \A d \in Calls : pc'[d] \in Early => pc[d] \in Early
    BY <1>2 DEF IInv, Types
  <2> QED
    BY <1>2, <2>1 DEF NothingYet
<1>3. ASSUME NEW c \in Calls,
             GetWorker(c) \/ Start(c) \/ CannotStart(c) \/ Started(c) \/ StartFails(c)
               \/ StartTimesOut(c) \/ Drain(c) \/ NotStarted(c) \/ WritePromptLine(c)
      PROVE  NothingYet'
  <2>1. pc[c] \in Early
    BY <1>3 DEF GetWorker, Start, CannotStart, Started, StartFails, StartTimesOut, Drain,
                NotStarted, WritePromptLine
  <2>2. reply' = reply
    BY <1>3 DEF GetWorker, Start, CannotStart, Started, StartFails, StartTimesOut, Drain,
                NotStarted, WritePromptLine, Refuse
  <2>3. \E place : pc' = [pc EXCEPT ![c] = place]
    BY <1>3, CallMoves DEF Call
  <2> QED
    BY <1>2, <2>1, <2>2, <2>3
<1>4. ASSUME NEW c \in Calls,
             WorkerGone(c) \/ TimesOut(c) \/ Abandon(c) \/ ReadResponse(c) \/ ReadDelta(c)
               \/ Resume(c)
      PROVE  NothingYet'
  <2>1. pc'[c] \notin Early
    BY <1>4 DEF WorkerGone, TimesOut, Abandon, ReadResponse, ReadDelta, Resume, Succeed,
                Fail, Leave, IInv, Types
  <2>2. \A d \in Calls \ {c} : pc'[d] = pc[d] /\ reply'[d] = reply[d]
    <3>1. \A d \in Calls \ {c} : reply'[d] = reply[d]
      BY <1>4 DEF WorkerGone, TimesOut, Abandon, ReadResponse, ReadDelta, Resume, Succeed,
                  Fail, IInv, Types
    <3>2. \E place : pc' = [pc EXCEPT ![c] = place]
      BY <1>4, CallMoves DEF Call
    <3> QED
      BY <3>1, <3>2 DEF IInv, Types
  <2> QED
    BY <2>1, <2>2 DEF NothingYet
<1> QED
  BY <1>1, <1>3, <1>4 DEF Next, Call

\* What a step has to show when it moves one call and the others are outside.
LEMMA GivenMoves ==
  ASSUME IInv, Given, NEW c \in Calls, NEW place, pc' = [pc EXCEPT ![c] = place],
         \A d \in Calls \ {c} : pc[d] \notin Inside /\ reply'[d] = reply[d],
         GivenTo(c)'
  PROVE  Given'
<1>1. ASSUME NEW d \in Calls \ {c} PROVE GivenTo(d)'
  <2>1. pc'[d] = pc[d] /\ reply'[d] = reply[d] /\ pc[d] \notin {"reading", "yielding"}
    BY DEF IInv, Types, Inside
  <2> QED
    BY <2>1 DEF Given, GivenTo
<1> QED
  BY <1>1 DEF Given

LEMMA InStepMoves ==
  ASSUME IInv, NEW c \in Calls, NEW place, pc' = [pc EXCEPT ![c] = place],
         \A d \in Calls \ {c} : pc[d] \notin Inside,
         lock' = NoOne => AtRest', InStepWith(c)'
  PROVE  InStep'
<1>1. ASSUME NEW d \in Calls \ {c} PROVE InStepWith(d)'
  <2>1. pc'[d] \notin Inside
    BY DEF IInv, Types
  <2> QED
    BY <2>1 DEF InStepWith, Inside
<1> QED
  BY <1>1 DEF InStep

LEMMA Others ==
  ASSUME IInv, NEW c \in Calls, lock \in {c, NoOne}
  PROVE  \A d \in Calls \ {c} : pc[d] \notin Inside
BY DEF IInv, LockIsInside

\* What the process writes is seen after what it has written before.
LEMMA SeenGrows ==
  ASSUME IInv, NEW token \in Tokens, stdout' = Append(stdout, token), raw' = raw
  PROVE  Seen' = Append(Seen, token)
BY DEF Seen, IInv, Types

\* What is read has been seen already.
LEMMA SeenStays ==
  ASSUME IInv, raw' = raw \o stdout, stdout' = <<>>
  PROVE  Seen' = Seen
BY DEF Seen, IInv, Types

LEMMA ProcessInStep ==
  ASSUME IInv, InStep, Process
  PROVE  InStep'
<1>1. UNCHANGED <<lock, pc, raw>>
  BY DEF Process, Load, TakePrompt, WriteText, WriteEnd, WritePrompt
<1>2. CASE Load
  <2>1. mode = "loading" /\ mode' = "idle" /\ UNCHANGED <<asked, stdin>>
    BY <1>2 DEF Load
  <2>2. lock # NoOne /\ \A c \in Calls : pc[c] \notin Inside \ {"starting"}
    BY <2>1 DEF InStep, InStepWith, AtRest, AtWork, Inside
  <2> QED
    BY <1>1, <2>1, <2>2 DEF InStep, InStepWith, Inside
<1>3. CASE TakePrompt
  <2>1. /\ mode = "idle" /\ mode' = "computing" /\ stdin # <<>> /\ stdout' = stdout
        /\ asked' = Head(stdin) /\ stdin' = Tail(stdin)
    BY <1>3 DEF TakePrompt
  <2>2. lock # NoOne /\ \A c \in Calls : pc[c] \notin {"starting", "draining", "writing"}
    BY <2>1 DEF InStep, InStepWith, AtRest
  <2>3. ASSUME NEW c \in Calls, pc[c] \in {"reading", "yielding"} PROVE AtWork(c)'
    <3>1. asked = NoOne /\ stdin = <<c>> /\ Seen = <<>>
      BY <2>1, <2>3 DEF InStep, InStepWith, AtWork
    <3>2. Head(<<c>>) = c /\ Tail(<<c>>) = <<>>
      OBVIOUS
    <3>3. Seen' = Seen
      BY <1>1, <2>1 DEF Seen
    <3> QED
      BY <2>1, <3>1, <3>2, <3>3 DEF AtWork
  <2> QED
    BY <1>1, <2>2, <2>3 DEF InStep, InStepWith
<1>4. CASE WriteText
  <2>1. /\ mode = "computing" /\ mode' = "ending" /\ UNCHANGED <<asked, stdin>>
        /\ stdout' = Append(stdout, Text(asked))
    BY <1>4 DEF WriteText, Write
  <2>2. lock # NoOne /\ \A c \in Calls : pc[c] \notin {"starting", "draining", "writing"}
    BY <2>1 DEF InStep, InStepWith, AtRest
  <2>3. ASSUME NEW c \in Calls, pc[c] \in {"reading", "yielding"} PROVE AtWork(c)'
    <3>1. asked = c /\ stdin = <<>> /\ Seen = <<>>
      BY <2>1, <2>3 DEF InStep, InStepWith, AtWork
    <3>2. Text(c) \in Tokens
      BY DEF Tokens
    <3>3. Seen' = <<Text(c)>>
      BY <1>1, <2>1, <3>1, <3>2, SeenGrows
    <3> QED
      BY <2>1, <3>1, <3>3 DEF AtWork
  <2> QED
    BY <1>1, <2>2, <2>3 DEF InStep, InStepWith
<1>5. CASE WriteEnd
  <2>1. /\ mode = "ending" /\ mode' = "prompting" /\ UNCHANGED <<asked, stdin>>
        /\ stdout' = Append(stdout, End(asked))
    BY <1>5 DEF WriteEnd, Write
  <2>2. lock # NoOne /\ \A c \in Calls : pc[c] \notin {"starting", "draining", "writing"}
    BY <2>1 DEF InStep, InStepWith, AtRest
  <2>3. ASSUME NEW c \in Calls, pc[c] \in {"reading", "yielding"} PROVE AtWork(c)'
    <3>1. asked = c /\ stdin = <<>> /\ Seen = <<Text(c)>>
      BY <2>1, <2>3 DEF InStep, InStepWith, AtWork
    <3>2. Text(c) \in Tokens /\ End(c) \in Tokens
      BY DEF Tokens
    <3>3. Seen' = <<Text(c), End(c)>>
      BY <1>1, <2>1, <3>1, <3>2, SeenGrows
    <3> QED
      BY <2>1, <3>1, <3>3 DEF AtWork
  <2> QED
    BY <1>1, <2>2, <2>3 DEF InStep, InStepWith
<1>6. CASE WritePrompt
  <2>1. /\ mode = "prompting" /\ mode' = "idle" /\ asked' = NoOne /\ stdin' = stdin
        /\ stdout' = Append(stdout, You)
    BY <1>6 DEF WritePrompt, Write
  <2>2. \A c \in Calls : pc[c] \notin {"starting", "writing"}
    BY <2>1 DEF InStep, InStepWith
  <2>3. AtRest => AtRest'
    BY <2>1 DEF AtRest
  <2>4. ASSUME NEW c \in Calls, pc[c] \in {"reading", "yielding"} PROVE AtWork(c)'
    <3>1. asked = c /\ stdin = <<>> /\ Seen = <<Text(c), End(c)>>
      BY <2>1, <2>4 DEF InStep, InStepWith, AtWork
    <3>2. Text(c) \in Tokens /\ End(c) \in Tokens /\ You \in Tokens
      BY DEF Tokens
    <3>3. Seen' = <<Text(c), End(c), You>>
      BY <1>1, <2>1, <3>1, <3>2, SeenGrows
    <3> QED
      BY <2>1, <3>1, <3>3 DEF AtWork
  <2> QED
    BY <1>1, <2>2, <2>3, <2>4 DEF InStep, InStepWith
<1> QED
  BY <1>2, <1>3, <1>4, <1>5, <1>6 DEF Process

\* All of c's answer has been seen.
WholeAnswer(c) == Seen \in {<<Text(c), End(c)>>, <<Text(c), End(c), You>>}

\* An answer with its end in it leaves the process at rest.
LEMMA AnsweredIsAtRest ==
  ASSUME IInv, NEW c \in Calls, AtWork(c), WholeAnswer(c), Leave(c, "ok"),
         UNCHANGED <<mode, asked, stdin>>
  PROVE  AtRest'
<1>1. Seen # <<>> /\ Seen # <<Text(c)>>
  BY DEF WholeAnswer
<1>2. stdin = <<>> /\ ((mode = "prompting" /\ asked = c) \/ (mode = "idle" /\ asked = NoOne))
  BY <1>1 DEF AtWork
<1>3. pc'[c] = "ok"
  BY DEF Leave, IInv, Types
<1> QED
  BY <1>2, <1>3 DEF AtRest

\* The steps on the way to the prompt: nothing is given yet.
LEMMA EarlySteps ==
  ASSUME IInv, Given, NothingYet, NEW c \in Calls, NEW place,
         pc' = [pc EXCEPT ![c] = place], place \notin {"yielding", "ok"},
         pc[c] \in {"outside", "waiting", "starting", "draining", "writing"}, reply' = reply,
         lock \in {c, NoOne}
  PROVE  Given'
<1>1. reply'[c] = <<>> /\ <<>> # <<c>>
  BY DEF NothingYet
<1>2. GivenTo(c)'
  BY <1>1 DEF GivenTo, IInv, Types
<1>3. \A d \in Calls \ {c} : pc[d] \notin Inside
  BY Others
<1> QED
  BY <1>2, <1>3, GivenMoves

\* The steps after the prompt that give nothing and read nothing.
LEMMA EndsGiven ==
  ASSUME IInv, Given, NEW c \in Calls, NEW how \in {"failed", "timedout"},
         pc' = [pc EXCEPT ![c] = how], reply' = reply, lock = c
  PROVE  Given'
<1>1. GivenTo(c)'
  BY DEF Given, GivenTo, IInv, Types
<1>2. \A d \in Calls \ {c} : pc[d] \notin Inside
  BY Others
<1> QED
  BY <1>1, <1>2, GivenMoves

LEMMA StartInStep ==
  ASSUME IInv, Given, NothingYet, proc = "alive" => InStep, NEW c \in Calls,
         GetWorker(c) \/ Start(c) \/ CannotStart(c) \/ Started(c) \/ StartFails(c)
  PROVE  Given' /\ (proc' = "alive" => InStep')
<1>1. CASE GetWorker(c)
  <2>1. /\ pc[c] = "outside" /\ pc' = [pc EXCEPT ![c] = "waiting"]
        /\ UNCHANGED <<lock, process, raw, reply>>
    BY <1>1 DEF GetWorker
  <2>2. \A d \in Calls : d # c => pc'[d] = pc[d]
    BY <2>1 DEF IInv, Types
  <2>3. pc'[c] = "waiting"
    BY <2>1 DEF IInv, Types
  <2>4. Given'
    BY <2>1, <2>2, <2>3 DEF Given, GivenTo
  <2>5. AtRest => AtRest'
    BY <2>1, <2>2 DEF AtRest, process
  <2>6. \A d \in Calls : AtWork(d) => AtWork(d)'
    BY <2>1 DEF AtWork, Seen, process
  <2>7. \A d \in Calls : InStepWith(d) => InStepWith(d)'
    BY <2>1, <2>2, <2>3, <2>5, <2>6 DEF InStepWith, process
  <2>8. proc' = "alive" => InStep'
    BY <2>1, <2>5, <2>7 DEF InStep, process
  <2> QED
    BY <2>4, <2>8
<1>2. CASE Start(c)
  <2>1. lock = NoOne /\ lock' = c /\ pc[c] = "waiting" /\ reply' = reply
    BY <1>2 DEF Start
  <2>2. \A d \in Calls \ {c} : pc[d] \notin Inside
    BY <2>1, Others
  <2>3. CASE /\ proc = "alive" /\ pc' = [pc EXCEPT ![c] = "draining"] /\ UNCHANGED process
    <3>1. AtRest
      BY <2>1, <2>3 DEF InStep
    <3>2. pc'[c] = "draining" /\ \A d \in Calls : d # c => pc'[d] = pc[d]
      BY <2>3 DEF IInv, Types
    <3>3. AtRest'
      BY <2>1, <2>3, <3>1, <3>2 DEF AtRest, process
    <3>4. InStepWith(c)'
      BY <3>2, <3>3 DEF InStepWith
    <3>5. InStep'
      BY <2>2, <2>3, <3>3, <3>4, InStepMoves
    <3>6. Given'
      BY <2>1, <2>3, EarlySteps
    <3> QED
      BY <3>5, <3>6
  <2>4. CASE pc' = [pc EXCEPT ![c] = "starting"] /\ Fresh("alive")
    <3>1. pc'[c] = "starting"
      BY <2>4 DEF IInv, Types
    <3>2. InStepWith(c)'
      BY <2>4, <3>1 DEF InStepWith, Fresh
    <3>3. InStep'
      BY <2>1, <2>2, <2>4, <3>2, InStepMoves
    <3>4. Given'
      BY <2>1, <2>4, EarlySteps
    <3> QED
      BY <3>3, <3>4
  <2> QED
    BY <1>2, <2>3, <2>4 DEF Start
<1>3. CASE CannotStart(c) \/ StartFails(c)
  <2>1. /\ proc # "alive" /\ proc' = proc /\ pc' = [pc EXCEPT ![c] = "refused"]
        /\ reply' = reply /\ pc[c] \in {"waiting", "starting"}
        /\ (lock = NoOne \/ pc[c] = "starting")
    <3>1. CASE CannotStart(c)
      BY <3>1 DEF CannotStart, Refuse, Leave, process
    <3>2. CASE StartFails(c)
      BY <3>2 DEF StartFails, Refuse, Leave, process
    <3> QED
      BY <1>3, <3>1, <3>2
  <2>2. lock \in {c, NoOne}
    BY <2>1 DEF IInv, LockIsInside, Inside
  <2> QED
    <3>1. Given'
      BY <2>1, <2>2, EarlySteps
    <3>2. proc' # "alive"
      BY <2>1
    <3> QED
      BY <3>1, <3>2
<1>4. CASE Started(c)
  <2>1. /\ pc[c] = "starting" /\ proc = "alive" /\ You \in ToSet(stdout) /\ stdout' = <<>>
        /\ UNCHANGED <<mode, asked, stdin, reply>>
    BY <1>4 DEF Started
  <2>2. stdout # <<>>
    BY <2>1 DEF ToSet
  <2>3. stdin = <<>> /\ asked = NoOne /\ mode = "idle"
    BY <2>1, <2>2 DEF InStep, InStepWith
  <2>4. AtRest'
    BY <2>1, <2>3 DEF AtRest
  <2>5. lock = c
    BY <2>1 DEF IInv, LockIsInside, Inside
  <2>6. PICK place \in {"draining", "refused"} : pc' = [pc EXCEPT ![c] = place]
    BY <1>4 DEF Started, Leave
  <2>7. pc'[c] = place
    BY <2>6 DEF IInv, Types
  <2>8. InStepWith(c)'
    BY <2>4, <2>7 DEF InStepWith
  <2>9. \A d \in Calls \ {c} : pc[d] \notin Inside
    BY <2>5, Others
  <2>10. InStep'
    BY <2>4, <2>6, <2>8, <2>9, InStepMoves
  <2>11. Given'
    BY <2>1, <2>5, <2>6, EarlySteps
  <2> QED
    BY <2>10, <2>11
<1> QED
  BY <1>1, <1>2, <1>3, <1>4

\* The way to the prompt, from the drain on.  A drain that waits for the
\* prompt after an answer leaves an idle process and an empty pipe.
LEMMA PromptInStep ==
  ASSUME "slow_prompt" \notin Faults,
         IInv, Given, NothingYet, proc = "alive" => InStep, NEW c \in Calls,
         Drain(c) \/ NotStarted(c) \/ WritePromptLine(c)
  PROVE  Given' /\ (proc' = "alive" => InStep')
<1>1. pc[c] \in {"draining", "writing"}
  BY DEF Drain, NotStarted, WritePromptLine
<1>2. lock = c
  BY <1>1 DEF IInv, LockIsInside, Inside
<1>3. \A d \in Calls \ {c} : pc[d] \notin Inside
  BY <1>2, Others
<1>0. ASSUME NEW place \in {"writing", "reading", "refused"},
             pc' = [pc EXCEPT ![c] = place], reply' = reply
      PROVE  Given'
  <2>1. pc[c] \in {"outside", "waiting", "starting", "draining", "writing"}
    BY <1>1
  <2>2. lock \in {c, NoOne} /\ place \notin {"yielding", "ok"}
    BY <1>2
  <2> QED
    BY <1>0, <2>1, <2>2, EarlySteps
<1>4. CASE Drain(c)
  <2>1. /\ pc[c] = "draining" /\ pc' = [pc EXCEPT ![c] = "writing"] /\ stdout' = <<>>
        /\ UNCHANGED <<lock, proc, mode, asked, stdin, reply>>
        /\ (proc = "alive" => mode # "prompting")
    BY <1>4 DEF Drain
  <2>2. Given'
    BY <1>0, <2>1
  <2>3. pc'[c] = "writing"
    BY <2>1 DEF IInv, Types
  <2>4. ASSUME proc' = "alive" PROVE InStep'
    <3>1. AtRest
      BY <2>1, <2>4 DEF InStep, InStepWith
    <3>2. stdin = <<>> /\ mode = "idle" /\ asked = NoOne
      BY <2>1, <2>4, <3>1 DEF AtRest
    <3>3. InStepWith(c)'
      BY <2>1, <2>3, <3>2 DEF InStepWith
    <3>4. lock' # NoOne
      BY <1>2, <2>1
    <3> QED
      BY <1>3, <2>1, <3>3, <3>4, InStepMoves
  <2> QED
    BY <2>2, <2>4
<1>5. CASE NotStarted(c)
  <2>1. /\ proc' # "alive" /\ pc' = [pc EXCEPT ![c] = "refused"] /\ reply' = reply
    BY <1>5 DEF NotStarted, Refuse, Leave, process
  <2>2. Given'
    BY <1>0, <2>1
  <2> QED
    BY <2>1, <2>2
<1>6. CASE WritePromptLine(c)
  <2>1. /\ pc[c] = "writing" /\ proc = "alive" /\ stdin' = Append(stdin, c)
        /\ pc' = [pc EXCEPT ![c] = "reading"]
        /\ UNCHANGED <<lock, mode, asked, stdout, raw, reply>>
    BY <1>6 DEF WritePromptLine
  <2>2. Given'
    BY <1>0, <2>1
  <2>3. stdin = <<>> /\ asked = NoOne /\ mode = "idle" /\ stdout = <<>>
    BY <2>1 DEF InStep, InStepWith
  <2>4. raw = <<>>
    BY <1>2, <2>1 DEF IInv, LockIsInside
  <2>5. stdin' = <<c>> /\ Seen' = <<>>
    BY <2>1, <2>3, <2>4 DEF Seen
  <2>6. AtWork(c)'
    BY <2>1, <2>3, <2>5 DEF AtWork
  <2>7. pc'[c] = "reading"
    BY <2>1 DEF IInv, Types
  <2>8. InStepWith(c)'
    BY <2>6, <2>7 DEF InStepWith
  <2>9. lock' # NoOne
    BY <1>2, <2>1
  <2>10. InStep'
    BY <1>3, <2>1, <2>8, <2>9, InStepMoves
  <2> QED
    BY <2>2, <2>10
<1> QED
  BY <1>4, <1>5, <1>6

\* A call that fails: its process is gone, or its output comes late.
LEMMA FailInStep ==
  ASSUME IInv, Given, NEW c \in Calls, WorkerGone(c) \/ TimesOut(c) \/ Abandon(c)
  PROVE  LateOutput' \/ (Given' /\ proc' # "alive")
<1>1. pc[c] \in {"writing", "reading", "yielding"}
  BY DEF WorkerGone, TimesOut, Abandon
<1>2. lock = c
  BY <1>1 DEF IInv, LockIsInside, Inside
<1>3. PICK how \in {"failed", "timedout"} : Fail(c, how) /\ (how = "timedout" <=> TimesOut(c))
  BY DEF WorkerGone, TimesOut, Abandon, Fail, Leave, IInv, Types
<1>4. pc' = [pc EXCEPT ![c] = how] /\ reply' = reply
  BY <1>3 DEF Fail, Leave
<1>5. Given'
  BY <1>2, <1>4, EndsGiven
<1>6. pc'[c] = how
  BY <1>4 DEF IInv, Types
<1>7. CASE Kind[c] = "stream"
  <2>1. proc' # "alive"
    BY <1>3, <1>7 DEF Fail, Stop, Fresh, process
  <2> QED
    BY <1>5, <2>1
<1>8. CASE Kind[c] # "stream"
  <2>1. Kind[c] = "generate"
    BY <1>8
  <2>2. CASE how = "timedout"
    BY <1>6, <2>1, <2>2 DEF LateOutput, WithEnd
  <2>3. CASE how = "failed"
    <3>1. WorkerGone(c)
      BY <1>3, <1>8, <2>3 DEF Abandon, IInv, LockIsInside
    <3>2. proc' # "alive"
      BY <1>3, <1>8, <3>1 DEF WorkerGone, Fail, process
    <3> QED
      BY <1>5, <3>2
  <2> QED
    BY <2>2, <2>3
<1> QED
  BY <1>7, <1>8

\* A generate takes no text before the end marker, and then all of it.
LEMMA ResponseInStep ==
  ASSUME IInv, Given, InStep, NEW c \in Calls, ReadResponse(c)
  PROVE  Given' /\ InStep'
<1>1. /\ pc[c] = "reading" /\ Kind[c] = "generate" /\ stdout' = <<>>
      /\ UNCHANGED <<mode, asked, stdin>>
  BY DEF ReadResponse
<1>2. lock = c /\ (\A d \in Calls \ {c} : pc[d] \notin Inside) /\ AtWork(c)
  BY <1>1, Others DEF IInv, LockIsInside, Inside, InStep, InStepWith
<1>3. CASE raw' = raw \o stdout /\ UNCHANGED <<lock, pc, reply>>
  <2>1. Seen' = Seen
    BY <1>1, <1>3, SeenStays
  <2>2. AtWork(c)'
    BY <1>1, <1>2, <2>1 DEF AtWork
  <2>3. InStepWith(c)'
    BY <1>1, <1>3, <2>2 DEF InStepWith
  <2>4. pc' = [pc EXCEPT ![c] = "reading"] /\ lock' # NoOne
    BY <1>1, <1>2, <1>3 DEF IInv, Types
  <2>5. InStep'
    BY <1>2, <2>3, <2>4, InStepMoves
  <2>6. GivenTo(c)'
    BY <1>1, <1>3 DEF Given, GivenTo
  <2>7. Given'
    BY <1>2, <1>3, <2>4, <2>6, GivenMoves
  <2> QED
    BY <2>5, <2>7
<1>4. CASE /\ \E i \in 1..Len(raw \o stdout) : Marker((raw \o stdout)[i])
           /\ Leave(c, "ok") /\ reply' = [reply EXCEPT ![c] = Clean(raw \o stdout)]
  <2>1. Seen # <<>> /\ Seen # <<Text(c)>>
    <3>1. PICK i \in 1..Len(Seen) : Marker(Seen[i])
      BY <1>4 DEF Seen
    <3>2. CASE Seen = <<>>
      BY <3>1, <3>2
    <3>3. CASE Seen = <<Text(c)>>
      <4>1. i = 1 /\ Seen[1] = Text(c)
        BY <3>1, <3>3
      <4> QED
        BY <3>1, <4>1, TokenFacts
    <3> QED
      BY <3>2, <3>3
  <2>2. WholeAnswer(c)
    BY <1>2, <2>1 DEF AtWork, WholeAnswer
  <2>3. AtRest'
    BY <1>1, <1>2, <1>4, <2>2, AnsweredIsAtRest
  <2>4. Clean(Seen) = <<c>>
    BY <2>2, AnswerClean DEF WholeAnswer
  <2>5. pc' = [pc EXCEPT ![c] = "ok"] /\ pc'[c] = "ok" /\ reply'[c] = <<c>>
    BY <1>4, <2>4 DEF Leave, Seen, IInv, Types
  <2>6. InStepWith(c)' /\ GivenTo(c)'
    BY <2>5 DEF InStepWith, GivenTo
  <2>7. \A d \in Calls \ {c} : reply'[d] = reply[d]
    BY <1>4 DEF IInv, Types
  <2>8. InStep'
    BY <1>2, <2>3, <2>5, <2>6, InStepMoves
  <2>9. Given'
    BY <1>2, <2>5, <2>6, <2>7, GivenMoves
  <2> QED
    BY <2>8, <2>9
<1> QED
  BY <1>3, <1>4 DEF ReadResponse

\* What a stream has seen of its answer is what it hands on.
LEMMA StreamedIsOwn ==
  ASSUME NEW c \in Calls, AtWork(c)
  PROVE  /\ Streamed(Seen) = IF Seen = <<>> THEN <<>> ELSE <<c>>
         /\ StreamEnded(Seen) => WholeAnswer(c)
<1>1. CASE Seen = <<>>
  BY <1>1, AnswerStreamed
<1>2. CASE Seen = <<Text(c)>>
  BY <1>2, AnswerStreamed
<1>3. CASE Seen = <<Text(c), End(c)>> \/ Seen = <<Text(c), End(c), You>>
  <2>1. Seen # <<>> /\ WholeAnswer(c)
    BY <1>3 DEF WholeAnswer
  <2> QED
    BY <1>3, <2>1, AnswerStreamed
<1> QED
  BY <1>1, <1>2, <1>3 DEF AtWork

LEMMA DeltaInStep ==
  ASSUME IInv, Given, InStep, NEW c \in Calls, ReadDelta(c)
  PROVE  Given' /\ InStep'
<1>1. /\ pc[c] = "reading" /\ Kind[c] = "stream" /\ stdout' = <<>>
      /\ UNCHANGED <<mode, asked, stdin>>
  BY DEF ReadDelta
<1>2. lock = c /\ (\A d \in Calls \ {c} : pc[d] \notin Inside) /\ AtWork(c)
  BY <1>1, Others DEF IInv, LockIsInside, Inside, InStep, InStepWith
<1>3. raw # <<>> => Seen # <<>>
  BY DEF Seen, IInv, Types
<1>4. \/ reply[c] = <<>>
      \/ reply[c] = <<c>> /\ Streamed(Seen) = <<c>> /\ Seen # <<>>
  BY <1>1, <1>2, <1>3, StreamedIsOwn DEF Given, GivenTo
<1>5. ASSUME NEW place \in {"reading", "yielding"}, pc' = [pc EXCEPT ![c] = place],
             raw' = raw \o stdout, lock' = lock
      PROVE  InStep' /\ pc'[c] = place
  <2>1. Seen' = Seen
    BY <1>1, <1>5, SeenStays
  <2>2. AtWork(c)'
    BY <1>1, <1>2, <2>1 DEF AtWork
  <2>3. pc'[c] = place
    BY <1>5 DEF IInv, Types
  <2>4. InStepWith(c)'
    BY <2>2, <2>3 DEF InStepWith
  <2>5. lock' # NoOne
    BY <1>2, <1>5
  <2> QED
    BY <1>2, <1>5, <2>3, <2>4, <2>5, InStepMoves
<1>6. CASE /\ Streamed(Seen) # reply[c] /\ reply' = [reply EXCEPT ![c] = Streamed(Seen)]
           /\ raw' = Seen /\ pc' = [pc EXCEPT ![c] = "yielding"] /\ lock' = lock
  <2>1. Streamed(Seen) = <<c>> /\ Seen # <<>>
    BY <1>2, <1>4, <1>6, StreamedIsOwn
  <2>2. InStep' /\ pc'[c] = "yielding"
    BY <1>5, <1>6 DEF Seen
  <2>3. reply'[c] = <<c>> /\ \A d \in Calls \ {c} : reply'[d] = reply[d]
    BY <1>6, <2>1 DEF IInv, Types
  <2>4. GivenTo(c)'
    BY <1>1, <1>6, <2>1, <2>2, <2>3 DEF GivenTo
  <2>5. Given'
    BY <1>2, <1>6, <2>3, <2>4, GivenMoves
  <2> QED
    BY <2>2, <2>5
<1>7. CASE raw' = Seen /\ UNCHANGED <<lock, pc, reply>>
  <2>1. pc' = [pc EXCEPT ![c] = "reading"]
    BY <1>1, <1>7 DEF IInv, Types
  <2>2. InStep' /\ pc'[c] = "reading"
    BY <1>5, <1>7, <2>1 DEF Seen
  <2>3. GivenTo(c)'
    BY <1>1, <1>4, <1>7, <2>2 DEF Given, GivenTo
  <2>4. Given'
    BY <1>2, <1>7, <2>1, <2>3, GivenMoves
  <2> QED
    BY <2>2, <2>4
<1>8. CASE /\ Streamed(Seen) = reply[c] /\ StreamEnded(Seen) /\ Leave(c, "ok")
           /\ reply' = reply
  <2>1. WholeAnswer(c)
    BY <1>2, <1>8, StreamedIsOwn
  <2>2. AtRest'
    BY <1>1, <1>2, <1>8, <2>1, AnsweredIsAtRest
  <2>3. Seen # <<>>
    BY <2>1 DEF WholeAnswer
  <2>4. pc' = [pc EXCEPT ![c] = "ok"] /\ pc'[c] = "ok" /\ reply'[c] = <<c>>
    BY <1>2, <1>8, <2>3, StreamedIsOwn DEF Leave, IInv, Types
  <2>5. InStepWith(c)' /\ GivenTo(c)'
    BY <2>4 DEF InStepWith, GivenTo
  <2>6. InStep'
    BY <1>2, <2>2, <2>4, <2>5, InStepMoves
  <2>7. Given'
    BY <1>2, <1>8, <2>4, <2>5, GivenMoves
  <2> QED
    BY <2>6, <2>7
<1> QED
  BY <1>6, <1>7, <1>8 DEF ReadDelta, Seen

\* What has been read is the beginning of what has been seen.
LEMMA ReadIsSeen ==
  ASSUME IInv, NEW c \in Calls, AtWork(c), StreamEnded(raw)
  PROVE  WholeAnswer(c)
<1>1. raw # <<>> /\ raw # <<Text(c)>>
  BY AnswerStreamed
<1>2. raw \in Seq(Tokens) /\ stdout \in Seq(Tokens)
  BY DEF IInv, Types
<1>3. Seen = <<>> => raw = <<>>
  BY <1>2 DEF Seen
<1>4. Seen = <<Text(c)>> => raw = <<>> \/ raw = <<Text(c)>>
  <2> SUFFICES ASSUME Seen = <<Text(c)>>, raw # <<>> PROVE raw = <<Text(c)>>
    OBVIOUS
  <2>1. Len(raw) + Len(stdout) = 1 /\ raw[1] = Text(c)
    <3>1. Len(raw \o stdout) = Len(raw) + Len(stdout) /\ (raw \o stdout)[1] = raw[1]
      BY <1>2
    <3>2. Len(<<Text(c)>>) = 1 /\ <<Text(c)>>[1] = Text(c)
      OBVIOUS
    <3>3. raw \o stdout = <<Text(c)>>
      BY DEF Seen
    <3> QED
      BY <3>1, <3>2, <3>3
  <2>2. Len(raw) = 1
    BY <1>2, <2>1
  <2> QED
    BY <1>2, <2>1, <2>2
<1> QED
  BY <1>1, <1>3, <1>4 DEF AtWork, WholeAnswer

LEMMA ResumeInStep ==
  ASSUME IInv, Given, proc = "alive" => InStep, NEW c \in Calls, Resume(c)
  PROVE  Given' /\ (proc' = "alive" => InStep')
<1>1. pc[c] = "yielding" /\ UNCHANGED <<process, reply>>
  BY DEF Resume, Succeed
<1>2. lock = c /\ (\A d \in Calls \ {c} : pc[d] \notin Inside) /\ reply[c] = <<c>>
  BY <1>1, Others DEF IInv, LockIsInside, Inside, Given, GivenTo
<1>3. proc = "alive" => AtWork(c)
  BY <1>1 DEF InStep, InStepWith
<1>4. CASE StreamEnded(raw) /\ Leave(c, "ok")
  <2>1. pc' = [pc EXCEPT ![c] = "ok"] /\ pc'[c] = "ok" /\ reply'[c] = <<c>>
    BY <1>1, <1>2, <1>4 DEF Leave, IInv, Types
  <2>2. InStepWith(c)' /\ GivenTo(c)'
    BY <2>1 DEF InStepWith, GivenTo
  <2>3. Given'
    BY <1>1, <1>2, <2>1, <2>2, GivenMoves
  <2>4. ASSUME proc' = "alive" PROVE InStep'
    <3>1. proc = "alive" /\ UNCHANGED <<mode, asked, stdin>>
      BY <1>1, <2>4 DEF process
    <3>2. AtRest'
      BY <1>3, <1>4, <3>1, ReadIsSeen, AnsweredIsAtRest
    <3> QED
      BY <1>2, <2>1, <2>2, <3>2, InStepMoves
  <2> QED
    BY <2>3, <2>4
<1>5. CASE /\ pc' = [pc EXCEPT ![c] = "reading"] /\ UNCHANGED <<lock, raw>>
  <2>1. pc'[c] = "reading"
    BY <1>5 DEF IInv, Types
  <2>2. GivenTo(c)'
    BY <1>1, <1>5, <2>1 DEF Given, GivenTo
  <2>3. Given'
    BY <1>1, <1>2, <1>5, <2>2, GivenMoves
  <2>4. ASSUME proc' = "alive" PROVE InStep'
    <3>1. AtWork(c)'
      BY <1>1, <1>3, <1>5, <2>4 DEF AtWork, Seen, process
    <3>2. InStepWith(c)' /\ lock' # NoOne
      BY <1>2, <1>5, <2>1, <3>1 DEF InStepWith
    <3> QED
      BY <1>2, <1>5, <3>2, InStepMoves
  <2> QED
    BY <2>3, <2>4
<1> QED
  BY <1>4, <1>5 DEF Resume, Succeed

LEMMA NextSInv ==
  ASSUME "slow_prompt" \notin Faults
  PROVE  IInv /\ SInv /\ [Next]_vars => SInv'
<1> SUFFICES ASSUME IInv, SInv, [Next]_vars PROVE SInv'
  OBVIOUS
<1>1. NothingYet'
  BY NextNothing DEF SInv
<1>2. SUFFICES ASSUME ~LateOutput' PROVE Given' /\ (proc' = "alive" => InStep')
  BY <1>1 DEF SInv
<1>3. NothingYet /\ Given /\ (proc = "alive" => InStep)
  BY <1>2, LateStays DEF SInv
<1>4. CASE UNCHANGED vars
  BY <1>3, <1>4 DEF vars, process, Given, GivenTo, InStep, InStepWith, AtRest, AtWork, Seen
<1>5. CASE Process
  <2>1. UNCHANGED <<pc, raw, reply>> /\ proc = "alive"
    BY <1>5 DEF Process, Load, TakePrompt, WriteText, WriteEnd, WritePrompt
  <2>2. Given'
    BY <1>3, <2>1 DEF Given, GivenTo
  <2> QED
    BY <1>3, <1>5, <2>1, <2>2, ProcessInStep
<1>6. CASE Exit \/ Retire
  <2>1. UNCHANGED <<pc, raw, reply>> /\ proc' # "alive"
    BY <1>6 DEF Exit, Retire, Stop, Fresh
  <2>2. Given'
    BY <1>3, <2>1 DEF Given, GivenTo
  <2> QED
    BY <2>1, <2>2
<1>7. ASSUME NEW c \in Calls, StartTimesOut(c) PROVE FALSE
  <2>1. pc' = [pc EXCEPT ![c] = "startTimedOut"]
    BY <1>7 DEF StartTimesOut, Refuse, Leave
  <2>2. c \in WithEnd({"startTimedOut"})'
    BY <2>1 DEF WithEnd, IInv, Types
  <2> QED
    BY <1>2, <2>2 DEF LateOutput
<1>8. ASSUME NEW c \in Calls, GetWorker(c) \/ Call(c) \/ Abandon(c)
      PROVE  Given' /\ (proc' = "alive" => InStep')
  <2>1. CASE GetWorker(c) \/ Start(c) \/ CannotStart(c) \/ Started(c) \/ StartFails(c)
    BY <1>3, <2>1, StartInStep
  <2>2. CASE Drain(c) \/ NotStarted(c) \/ WritePromptLine(c)
    BY <1>3, <2>2, PromptInStep
  <2>3. CASE WorkerGone(c) \/ TimesOut(c) \/ Abandon(c)
    BY <1>2, <1>3, <2>3, FailInStep
  <2>4. CASE ReadResponse(c)
    <3>1. proc = "alive"
      BY <2>4 DEF ReadResponse
    <3> QED
      BY <1>3, <2>4, <3>1, ResponseInStep
  <2>5. CASE ReadDelta(c)
    <3>1. proc = "alive"
      BY <2>5 DEF ReadDelta
    <3> QED
      BY <1>3, <2>5, <3>1, DeltaInStep
  <2>6. CASE Resume(c)
    BY <1>3, <2>6, ResumeInStep
  <2> QED
    BY <1>7, <1>8, <2>1, <2>2, <2>3, <2>4, <2>5, <2>6 DEF Call
<1> QED
  BY <1>4, <1>5, <1>6, <1>8 DEF Next

LEMMA InitSInv == Init => SInv
<1> SUFFICES ASSUME Init PROVE SInv
  OBVIOUS
<1>1. NothingYet
  BY DEF Init, NothingYet
<1>2. Given
  BY DEF Init, Given, GivenTo
<1>3. proc # "alive"
  BY DEF Init
<1> QED
  BY <1>1, <1>2, <1>3 DEF SInv

LEMMA InStepInvariant == ASSUME "slow_prompt" \notin Faults PROVE Spec => []SInv
<1>1. IInv /\ SInv /\ [Next]_vars => SInv'
  BY NextSInv
<1> QED
  BY <1>1, InitSInv, WorkerInvariant, PTL DEF Spec

(***************************************************************************)
(* Each call is answered with the whole text of its own prompt and nothing *)
(* else, though the pipe carries no ids, for any number of calls, exits,   *)
(* retirements, failed and abandoned streams: unless a generate or a start *)
(* ran into its timeout, or a prompt came later than the drain waits.      *)
(***************************************************************************)
THEOREM WorkerOnlyLateOutputMixesUp ==
  ASSUME "slow_prompt" \notin Faults
  PROVE  Spec => []OnlyLateOutputMixesUp
<1>1. SInv => OnlyLateOutputMixesUp
  <2> SUFFICES ASSUME SInv, ~LateOutput PROVE AnswersAreOwn
    BY DEF OnlyLateOutputMixesUp
  <2> QED
    BY DEF SInv, Given, GivenTo, AnswersAreOwn
<1> QED
  BY <1>1, InStepInvariant, PTL

(***************************************************************************)
(* Under the same conditions a running process is at work for the holder   *)
(* of the lock only; at most it still owes the prompt after the answer to  *)
(* an earlier call.                                                        *)
(***************************************************************************)
THEOREM WorkerWorksForTheHolder ==
  ASSUME "slow_prompt" \notin Faults
  PROVE  Spec => []WorksForTheHolder
<1>1. IInv /\ SInv => WorksForTheHolder
  <2> SUFFICES ASSUME IInv, InStep, NEW c \in Prompts
               PROVE  c \in {lock, NoOne} \/ (pc[c] = "ok" /\ mode = "prompting")
    BY DEF SInv, WorksForTheHolder, Prompts
  <2>1. stdin = <<>> => c = asked
    BY DEF Prompts, ToSet
  <2>2. CASE lock = NoOne
    BY <2>1, <2>2 DEF InStep, AtRest
  <2>3. CASE lock \in Calls
    <3>1. pc[lock] \in Inside /\ InStepWith(lock)
      BY <2>3 DEF IInv, LockIsInside, InStep
    <3>2. CASE pc[lock] \in {"starting", "writing"}
      BY <2>1, <3>1, <3>2 DEF InStepWith
    <3>3. CASE pc[lock] = "draining"
      BY <2>1, <3>1, <3>3 DEF InStepWith, AtRest
    <3>4. CASE pc[lock] \in {"reading", "yielding"}
      <4>1. AtWork(lock)
        BY <3>1, <3>4 DEF InStepWith
      <4>2. stdin = <<lock>> => c \in {asked, lock}
        BY DEF Prompts, ToSet
      <4> QED
        BY <2>1, <4>1, <4>2 DEF AtWork
    <3> QED
      BY <3>1, <3>2, <3>3, <3>4 DEF Inside
  <2> QED
    BY <2>2, <2>3 DEF IInv, Types
<1> QED
  BY <1>1, WorkerInvariant, InStepInvariant, PTL
=============================================================================
