-------------------------- MODULE UnifiedInferProofs --------------------------
(***************************************************************************)
(* Theorems about /v1/infer and the Qwen3-VL worker behind it, for every   *)
(* set of requests, every mixture of tasks and every choice of faults.     *)
(*                                                                         *)
(* The protocol has no identifiers, so that an answer has the right owner  *)
(* only if no line of one call is left when the next one begins.  The      *)
(* invariant says what the process and the three places where a line may   *)
(* be hold at each place of the call that has the lock: nothing before the *)
(* request is written, and afterwards lines of which the last, and only    *)
(* the last, ends the call.                                                *)
(***************************************************************************)
EXTENDS UnifiedInfer, SequenceTheorems, TLAPS

USE NoOneAssumption DEF NoOneAssumption

(* Lines. *)

Ends == {"END", "ERROR_END"}
Finals == {"READY"} \cup Ends

HasFinal(s) == \E i \in DOMAIN s : s[i].kind \in Finals
LastOnly(s) == \A i \in DOMAIN s : s[i].kind \in Finals => i = Len(s)
NoHalf(s) == \A i \in DOMAIN s : s[i].kind # "half"
TextsOf(s, r) == \A i \in DOMAIN s : s[i].kind = "text" => s[i].of = r
EndsBlock(s) == s # <<>> /\ s[Len(s)].kind \in Ends

Silent == buffer = <<>> /\ pipe = <<>> /\ unwritten = <<>>

\* Only the last of the lines ends the call, and a process that has stopped
\* has not come to it.
Closed ==
  /\ LastOnly(buffer) /\ LastOnly(pipe) /\ LastOnly(unwritten)
  /\ HasFinal(buffer) => pipe = <<>>
  /\ HasFinal(buffer) \/ HasFinal(pipe) => unwritten = <<>>
  /\ mode = "stalled" => unwritten # <<>>
  /\ mode # "stalled" => NoHalf(pipe)
  /\ NoHalf(unwritten)

BlockAhead ==
  \/ EndsBlock(unwritten)
  \/ unwritten = <<>> /\ EndsBlock(pipe)
  \/ unwritten = <<>> /\ pipe = <<>> /\ EndsBlock(buffer)

(* What a living process is at, by the place of the call with the lock. *)

Quiet == mode = "idle" /\ asked = NoOne /\ stdin = <<>> /\ Silent

Starting ==
  /\ asked = NoOne /\ stdin = <<>> /\ mode \in {"loading", "idle", "stalled"}
  /\ mode = "loading" => Silent
  /\ Closed

Reading(r) ==
  \/ stdin = <<r>> /\ asked = NoOne /\ mode = "idle" /\ Silent
  \/ stdin = <<>> /\ asked = r /\ mode = "computing" /\ Silent
  \/ /\ stdin = <<>> /\ asked = NoOne /\ mode \in {"idle", "stalled"}
     /\ Closed /\ BlockAhead
     /\ TextsOf(buffer, r) /\ TextsOf(pipe, r) /\ TextsOf(unwritten, r)

WorkerInStep ==
  proc = "alive" =>
    /\ lock = NoOne => Quiet
    /\ \A r \in Requests :
         /\ step[r] \in {"checking", "writing"} => Quiet
         /\ step[r] \in {"starting", "starting blocked"} => Starting
         /\ step[r] \in {"reading", "reading blocked"} => Reading(r)

LockIsInside == \A r \in Requests : lock = r <=> step[r] \in Inside

BlockedIsStalled ==
  \A r \in Requests :
    step[r] \in {"starting blocked", "reading blocked"} => proc = "dead" \/ mode = "stalled"

HearsOwn ==
  \A r \in Requests : step[r] \in {"reading", "reading blocked"} => heard.text \in {NoOne, r}

GotOwn ==
  \A r \in Requests : got[r] \in {NoOne, r} /\ (step[r] = "ok" => got[r] = r)

WInv ==
  /\ QwenTypeOK
  /\ LockIsInside
  /\ WorkerInStep
  /\ BlockedIsStalled
  /\ HearsOwn
  /\ GotOwn
-----------------------------------------------------------------------------
LEMMA Insides ==
  /\ DOMAIN Blocked = {"starting", "reading"}
  /\ Blocked["starting"] = "starting blocked" /\ Blocked["reading"] = "reading blocked"
  /\ Inside = {"checking", "starting", "writing", "reading", "starting blocked", "reading blocked"}
<1>1. DOMAIN Blocked = {"starting", "reading"}
  BY DEF Blocked
<1>2. Blocked["starting"] = "starting blocked" /\ Blocked["reading"] = "reading blocked"
  BY DEF Blocked
<1>3. {Blocked[p] : p \in DOMAIN Blocked} = {"starting blocked", "reading blocked"}
  BY <1>1, <1>2
<1> QED
  BY <1>1, <1>2, <1>3 DEF Inside

LEMMA SilentIsClosed ==
  ASSUME Silent, mode # "stalled"
  PROVE  Closed
BY DEF Silent, Closed, LastOnly, HasFinal, NoHalf

\* What the process writes is well formed.
LEMMA Written ==
  /\ Loaded \in Lines /\ LastOnly(Loaded) /\ NoHalf(Loaded) /\ Loaded # <<>>
  /\ \A r \in Requests : \A s \in {Good(r), Empty, Bad} :
       s \in Lines /\ LastOnly(s) /\ NoHalf(s) /\ TextsOf(s, r) /\ EndsBlock(s)
<1> DEFINE L(k, o) == [kind |-> k, of |-> o]
<1>1. Loaded \in Lines /\ LastOnly(Loaded) /\ NoHalf(Loaded) /\ Loaded # <<>>
  BY DEF Loaded, Protocol, Line, Lines, LastOnly, NoHalf, Finals, Ends
<1>2. ASSUME NEW r \in Requests PROVE
        Good(r) \in Lines /\ LastOnly(Good(r)) /\ NoHalf(Good(r)) /\ TextsOf(Good(r), r) /\ EndsBlock(Good(r))
  BY DEF Good, Protocol, Line, Lines, LastOnly, NoHalf, TextsOf, EndsBlock, Finals, Ends
<1>3. ASSUME NEW r \in Requests PROVE
        Empty \in Lines /\ LastOnly(Empty) /\ NoHalf(Empty) /\ TextsOf(Empty, r) /\ EndsBlock(Empty)
  BY DEF Empty, Protocol, Line, Lines, LastOnly, NoHalf, TextsOf, EndsBlock, Finals, Ends
<1>4. ASSUME NEW r \in Requests PROVE
        Bad \in Lines /\ LastOnly(Bad) /\ NoHalf(Bad) /\ TextsOf(Bad, r) /\ EndsBlock(Bad)
  BY DEF Bad, Protocol, Line, Lines, LastOnly, NoHalf, TextsOf, EndsBlock, Finals, Ends
<1> QED
  BY <1>1, <1>2, <1>3, <1>4
-----------------------------------------------------------------------------
(* Lines on their way. *)

LinesOf(r) == TextsOf(buffer, r) /\ TextsOf(pipe, r) /\ TextsOf(unwritten, r)

LEMMA NoLines ==
  /\ <<>> \in Lines /\ LastOnly(<<>>) /\ ~HasFinal(<<>>) /\ NoHalf(<<>>) /\ ~EndsBlock(<<>>)
  /\ \A r \in Requests : TextsOf(<<>>, r)
BY DEF Lines, LastOnly, HasFinal, NoHalf, EndsBlock, TextsOf

LEMMA Appending ==
  ASSUME NEW s \in Lines, NEW line, <<line>> \in Lines
  PROVE  /\ Append(s, line) \in Lines
         /\ ~HasFinal(s) => /\ LastOnly(Append(s, line))
                            /\ HasFinal(Append(s, line)) => line.kind \in Finals
         /\ NoHalf(s) /\ line.kind # "half" => NoHalf(Append(s, line))
         /\ line.kind \in Ends => EndsBlock(Append(s, line))
         /\ \A r \in Requests : TextsOf(s, r) /\ (line.kind = "text" => line.of = r)
                                 => TextsOf(Append(s, line), r)
<1> DEFINE t == Append(s, line)
<1>1. /\ t \in Lines /\ Len(s) \in Nat /\ Len(t) = Len(s) + 1
      /\ t[Len(t)] = line
  <2>1. line = <<line>>[1] /\ Len(<<line>>) = 1
    OBVIOUS
  <2>2. line \in [kind : {"log", "half", "READY", "BEGIN", "answer:", "text", "END", "ERROR_BEGIN", "ERROR_END"},
                  of : Requests \cup {NoOne}]
    BY <2>1 DEF Lines
  <2> QED
    BY <2>2 DEF Lines
<1>2. \A i \in 1 .. Len(s) : t[i] = s[i]
  BY DEF Lines
<1>3. DOMAIN s = 1 .. Len(s) /\ DOMAIN t = 1 .. Len(t)
  BY <1>1 DEF Lines
<1> HIDE DEF t
<1>4. \A i \in DOMAIN t : (i = Len(t) /\ t[i] = line) \/ (i \in DOMAIN s /\ t[i] = s[i])
  BY <1>1, <1>2, <1>3
<1>5. t # <<>>
  BY <1>1
<1> QED
  BY <1>1, <1>4, <1>5 DEF t, HasFinal, LastOnly, NoHalf, EndsBlock, TextsOf

LEMMA Taking ==
  ASSUME NEW s \in Lines, s # <<>>
  PROVE  /\ Tail(s) \in Lines /\ <<Head(s)>> \in Lines
         /\ LastOnly(s) => LastOnly(Tail(s)) /\ (Head(s).kind \in Finals => Tail(s) = <<>>)
         /\ HasFinal(Tail(s)) \/ Head(s).kind \in Finals => HasFinal(s)
         /\ NoHalf(s) => NoHalf(Tail(s)) /\ Head(s).kind # "half"
         /\ EndsBlock(s) => IF Tail(s) = <<>> THEN Head(s).kind \in Ends ELSE EndsBlock(Tail(s))
         /\ \A r \in Requests : TextsOf(s, r) => /\ TextsOf(Tail(s), r)
                                                 /\ Head(s).kind = "text" => Head(s).of = r
<1> DEFINE t == Tail(s)
           h == Head(s)
<1>1. /\ t \in Lines /\ <<h>> \in Lines /\ h = s[1]
      /\ Len(s) \in Nat \ {0} /\ Len(t) = Len(s) - 1
      /\ DOMAIN s = 1 .. Len(s) /\ DOMAIN t = 1 .. Len(t)
  <2>1. t \in Lines /\ Len(t) = Len(s) - 1 /\ Len(s) \in Nat \ {0} /\ h = s[1]
    <3>1. t \in Lines /\ Len(t) = Len(s) - 1
      BY HeadTailProperties DEF Lines
    <3>2. Len(s) \in Nat \ {0}
      BY EmptySeq DEF Lines
    <3>3. h = s[1]
      BY <3>2 DEF Lines
    <3> QED
      BY <3>1, <3>2, <3>3
  <2>2. <<h>> \in Lines
    <3>1. h \in [kind : {"log", "half", "READY", "BEGIN", "answer:", "text", "END", "ERROR_BEGIN",
                         "ERROR_END"}, of : Requests \cup {NoOne}]
      BY HeadTailProperties DEF Lines
    <3> QED
      BY <3>1 DEF Lines
  <2>3. DOMAIN s = 1 .. Len(s) /\ DOMAIN t = 1 .. Len(t)
    BY <2>1 DEF Lines
  <2> QED
    BY <2>1, <2>2, <2>3
<1>2. \A i \in 1 .. Len(t) : t[i] = s[i + 1]
  BY HeadTailProperties DEF Lines
<1>3. t = <<>> <=> Len(t) = 0
  BY <1>1, EmptySeq DEF Lines
<1> HIDE DEF t, h
<1>4. \A i \in DOMAIN t : i + 1 \in DOMAIN s /\ t[i] = s[i + 1]
  BY <1>1, <1>2
<1>5. 1 \in DOMAIN s
  BY <1>1
<1>6. LastOnly(s) => LastOnly(t) /\ (h.kind \in Finals => t = <<>>)
  BY <1>1, <1>3, <1>4, <1>5 DEF LastOnly
<1>7. EndsBlock(s) => IF t = <<>> THEN h.kind \in Ends ELSE EndsBlock(t)
  <2>1. CASE t = <<>>
    <3>1. Len(s) = 1
      BY <2>1, <1>1, <1>3
    <3> QED
      BY <2>1, <3>1, <1>1 DEF EndsBlock
  <2>2. CASE t # <<>>
    <3>1. Len(t) \in 1 .. Len(t) /\ Len(t) + 1 = Len(s)
      BY <2>2, <1>1, <1>3
    <3> QED
      BY <2>2, <3>1, <1>2 DEF EndsBlock
  <2> QED
    BY <2>1, <2>2
<1> QED
  BY <1>1, <1>4, <1>5, <1>6, <1>7 DEF t, h, HasFinal, NoHalf, TextsOf

LEMMA WriteLineKeeps ==
  ASSUME QwenTypeOK, Closed, WriteLine
  PROVE  /\ pipe' \in Lines /\ unwritten' \in Lines
         /\ Closed'
         /\ BlockAhead => BlockAhead'
         /\ \A r \in Requests : LinesOf(r) => LinesOf(r)'
<1> DEFINE first == Head(unwritten)
<1>1. /\ unwritten \in Lines /\ unwritten # <<>> /\ pipe \in Lines
      /\ pipe' = Append(pipe, first) /\ unwritten' = Tail(unwritten)
      /\ buffer' = buffer /\ mode' = mode /\ mode # "stalled"
  BY DEF QwenTypeOK, WriteLine, call, counters
<1>2. ~HasFinal(buffer) /\ ~HasFinal(pipe)
  BY <1>1 DEF Closed
<1>3. <<first>> \in Lines
  BY <1>1, Taking
<1> HIDE DEF first
<1>4. Closed'
  <2>1. NoHalf(unwritten) /\ NoHalf(pipe) /\ LastOnly(unwritten) /\ LastOnly(buffer)
    BY <1>1 DEF Closed
  <2>2. /\ LastOnly(unwritten') /\ NoHalf(unwritten') /\ first.kind # "half"
        /\ first.kind \in Finals => unwritten' = <<>>
    BY <1>1, <2>1, Taking DEF first
  <2>3. LastOnly(pipe') /\ NoHalf(pipe') /\ (HasFinal(pipe') => first.kind \in Finals)
    BY <1>1, <1>2, <1>3, <2>1, <2>2, Appending
  <2> QED
    BY <1>1, <1>2, <2>1, <2>2, <2>3 DEF Closed, HasFinal, LastOnly
<1>5. BlockAhead => BlockAhead'
  <2>1. BlockAhead => EndsBlock(unwritten)
    BY <1>1 DEF BlockAhead
  <2>2. EndsBlock(unwritten) =>
          IF unwritten' = <<>> THEN first.kind \in Ends ELSE EndsBlock(unwritten')
    BY <1>1, Taking DEF first
  <2>3. first.kind \in Ends => EndsBlock(pipe')
    BY <1>1, <1>3, Appending
  <2> QED
    BY <2>1, <2>2, <2>3 DEF BlockAhead, EndsBlock
<1>6. ASSUME NEW r \in Requests, LinesOf(r) PROVE LinesOf(r)'
  <2>1. TextsOf(unwritten', r) /\ (first.kind = "text" => first.of = r)
    BY <1>1, <1>6, Taking DEF LinesOf, first
  <2>2. TextsOf(pipe', r)
    BY <1>1, <1>3, <1>6, <2>1, Appending DEF LinesOf
  <2> QED
    BY <1>1, <1>6, <2>1, <2>2 DEF LinesOf, TextsOf
<1>7. pipe' \in Lines /\ unwritten' \in Lines
  BY <1>1, <1>3, Appending, Taking
<1> QED
  BY <1>4, <1>5, <1>6, <1>7

LEMMA StallKeeps ==
  ASSUME QwenTypeOK, Closed, Stall
  PROVE  /\ pipe' \in Lines
         /\ Closed'
         /\ BlockAhead => BlockAhead'
         /\ \A r \in Requests : LinesOf(r) => LinesOf(r)'
<1>1. /\ pipe \in Lines /\ unwritten # <<>>
      /\ pipe' = Append(pipe, Half) /\ unwritten' = unwritten
      /\ buffer' = buffer /\ mode' = "stalled"
  BY DEF QwenTypeOK, Stall, call, counters
<1>2. <<Half>> \in Lines /\ Half.kind = "half"
  BY DEF Half, Protocol, Line, Lines
<1>3. ~HasFinal(buffer) /\ ~HasFinal(pipe)
  BY <1>1 DEF Closed
<1>4. ~HasFinal(pipe') /\ LastOnly(pipe')
  BY <1>1, <1>2, <1>3, Appending DEF Finals, Ends
<1>5. Closed'
  BY <1>1, <1>3, <1>4 DEF Closed, HasFinal, LastOnly, NoHalf
<1>6. BlockAhead => BlockAhead'
  BY <1>1 DEF BlockAhead, EndsBlock
<1>7. ASSUME NEW r \in Requests, LinesOf(r) PROVE LinesOf(r)'
  <2>1. TextsOf(pipe', r)
    BY <1>1, <1>2, <1>7, Appending DEF LinesOf
  <2> QED
    BY <1>1, <1>7, <2>1 DEF LinesOf, TextsOf
<1> QED
  BY <1>1, <1>2, <1>5, <1>6, <1>7, Appending

\* readline returns the first line of the buffer, or of the pipe, of which it
\* then takes everything.
LEMMA ReadLineTakes ==
  ASSUME QwenTypeOK, NEW line, ReadLine(line)
  PROVE  /\ pipe \in Lines /\ buffer \in Lines /\ pipe # <<>>
         /\ unwritten' = unwritten /\ mode' = mode
         /\ \/ buffer # <<>> /\ line = Head(buffer) /\ buffer' = Tail(buffer) /\ pipe' = pipe
            \/ buffer = <<>> /\ line = Head(pipe) /\ buffer' = Tail(pipe) /\ pipe' = <<>>
BY DEF QwenTypeOK, ReadLine

LEMMA ReadLineKeeps ==
  ASSUME QwenTypeOK, Closed, NEW line, ReadLine(line)
  PROVE  /\ buffer' \in Lines /\ pipe' \in Lines
         /\ Closed'
         /\ BlockAhead /\ line.kind \notin Ends => BlockAhead'
         /\ \A r \in Requests : LinesOf(r) => LinesOf(r)' /\ (line.kind = "text" => line.of = r)
<1>1. CASE buffer # <<>> /\ line = Head(buffer) /\ buffer' = Tail(buffer) /\ pipe' = pipe
  <2>1. /\ buffer' \in Lines /\ LastOnly(buffer') /\ (HasFinal(buffer') => HasFinal(buffer))
    BY <1>1, ReadLineTakes, Taking DEF Closed
  <2>2. Closed'
    BY <1>1, <2>1, ReadLineTakes DEF Closed, LastOnly, HasFinal, NoHalf
  <2>3. BlockAhead => BlockAhead'
    BY <1>1, ReadLineTakes DEF BlockAhead, EndsBlock
  <2>4. ASSUME NEW r \in Requests, LinesOf(r) PROVE LinesOf(r)' /\ (line.kind = "text" => line.of = r)
    <3>1. TextsOf(buffer', r) /\ (line.kind = "text" => line.of = r)
      BY <1>1, <2>4, ReadLineTakes, Taking DEF LinesOf
    <3> QED
      BY <1>1, <2>4, <3>1, ReadLineTakes DEF LinesOf, TextsOf
  <2> QED
    BY <1>1, <2>1, <2>2, <2>3, <2>4, ReadLineTakes
<1>2. CASE buffer = <<>> /\ line = Head(pipe) /\ buffer' = Tail(pipe) /\ pipe' = <<>>
  <2>1. /\ buffer' \in Lines /\ LastOnly(buffer') /\ (HasFinal(buffer') => HasFinal(pipe))
    BY <1>2, ReadLineTakes, Taking DEF Closed
  <2>2. Closed'
    BY <1>2, <2>1, ReadLineTakes, NoLines DEF Closed, LastOnly, HasFinal, NoHalf
  <2>3. BlockAhead /\ line.kind \notin Ends => BlockAhead'
    <3>1. ~EndsBlock(buffer)
      BY <1>2, NoLines
    <3>2. EndsBlock(pipe) /\ line.kind \notin Ends => EndsBlock(buffer')
      BY <1>2, ReadLineTakes, Taking
    <3> QED
      BY <1>2, <3>1, <3>2, ReadLineTakes DEF BlockAhead, EndsBlock
  <2>4. ASSUME NEW r \in Requests, LinesOf(r) PROVE LinesOf(r)' /\ (line.kind = "text" => line.of = r)
    <3>1. TextsOf(buffer', r) /\ (line.kind = "text" => line.of = r)
      BY <1>2, <2>4, ReadLineTakes, Taking DEF LinesOf
    <3> QED
      BY <1>2, <2>4, <3>1, ReadLineTakes, NoLines DEF LinesOf, TextsOf
  <2> QED
    BY <1>2, <2>1, <2>2, <2>3, <2>4, NoLines
<1> QED
  BY <1>1, <1>2, ReadLineTakes

\* A line that ends the call is the last one there is.
LEMMA ReadLastLine ==
  ASSUME QwenTypeOK, Closed, NEW line, ReadLine(line), line.kind \in Finals
  PROVE  Silent' /\ mode' = mode /\ mode # "stalled"
<1>1. buffer = <<>>
  BY ReadLineTakes, Taking DEF Closed
<1>2. line = Head(pipe) /\ buffer' = Tail(pipe) /\ pipe' = <<>>
  BY <1>1, ReadLineTakes
<1>3. HasFinal(pipe) /\ Tail(pipe) = <<>>
  BY <1>2, ReadLineTakes, Taking DEF Closed
<1> QED
  BY <1>2, <1>3, ReadLineTakes DEF Closed, Silent
-----------------------------------------------------------------------------
(* Steps of the process. *)

LEMMA InitWInv == QwenInit => WInv
<1> SUFFICES ASSUME QwenInit PROVE WInv
  OBVIOUS
<1>1. QwenTypeOK
  BY NoLines DEF QwenInit, QwenTypeOK, Deaf
<1>2. LockIsInside /\ BlockedIsStalled /\ HearsOwn
  BY Insides DEF QwenInit, LockIsInside, BlockedIsStalled, HearsOwn
<1>3. WorkerInStep /\ GotOwn
  BY DEF QwenInit, WorkerInStep, GotOwn
<1> QED
  BY <1>1, <1>2, <1>3 DEF WInv

\* The process changes nothing of a call.
LEMMA ProcessKeepsCalls ==
  ASSUME WInv, Process
  PROVE  /\ proc = "alive"
         /\ lock' = lock /\ step' = step /\ heard' = heard /\ got' = got
         /\ requests' = requests /\ failures' = failures
         /\ LockIsInside' /\ HearsOwn' /\ GotOwn'
<1>1. /\ proc = "alive"
      /\ lock' = lock /\ step' = step /\ heard' = heard /\ got' = got
      /\ requests' = requests /\ failures' = failures
  BY DEF Process, Load, TakeRequest, FinishRequest, WriteLine, Stall, Exit, call, counters
<1> QED
  BY <1>1 DEF WInv, LockIsInside, HearsOwn, GotOwn

\* What a living process is at if the call with the lock is at this place.
LEMMA ProcessOfHolder ==
  ASSUME WInv, proc = "alive"
  PROVE  \/ lock = NoOne /\ Quiet
         \/ \E r \in Requests :
              /\ lock = r
              /\ \/ step[r] \in {"checking", "writing"} /\ Quiet
                 \/ step[r] \in {"starting", "starting blocked"} /\ Starting
                 \/ step[r] \in {"reading", "reading blocked"} /\ Reading(r)
BY Insides DEF WInv, QwenTypeOK, LockIsInside, WorkerInStep

\* Conversely, to say what the process is at it is enough to look at the call
\* with the lock.
LEMMA HolderTells ==
  ASSUME LockIsInside',
         \/ proc' # "alive"
         \/ lock' = NoOne /\ Quiet'
         \/ \E r \in Requests :
              /\ lock' = r
              /\ \/ step'[r] \in {"checking", "writing"} /\ Quiet'
                 \/ step'[r] \in {"starting", "starting blocked"} /\ Starting'
                 \/ step'[r] \in {"reading", "reading blocked"} /\ Reading(r)'
  PROVE  WorkerInStep'
BY Insides DEF LockIsInside, WorkerInStep

LEMMA LoadWInv ==
  ASSUME WInv, Load
  PROVE  WInv'
<1>1. /\ proc = "alive" /\ proc' = proc /\ mode = "loading" /\ mode' = "idle"
      /\ asked' = asked /\ stdin' = stdin /\ pipe' = pipe /\ buffer' = buffer
      /\ unwritten' = Loaded
      /\ lock' = lock /\ step' = step /\ heard' = heard /\ got' = got
      /\ requests' = requests /\ failures' = failures
  BY DEF Load, call, counters
<1>2. PICK r \in Requests : /\ lock = r /\ Starting
                             /\ step[r] \in {"starting", "starting blocked"}
  BY <1>1, ProcessOfHolder DEF Quiet, Reading
<1>3. QwenTypeOK'
  BY <1>1, <1>2, Written DEF WInv, QwenTypeOK, Starting
<1>4. Starting'
  BY <1>1, <1>2, Written, NoLines DEF Starting, Closed, Silent, HasFinal, LastOnly, NoHalf
<1>5. LockIsInside' /\ HearsOwn' /\ GotOwn'
  BY ProcessKeepsCalls DEF Process
<1>6. WorkerInStep'
  BY <1>1, <1>2, <1>4, <1>5, HolderTells
<1>7. BlockedIsStalled'
  BY <1>1 DEF WInv, BlockedIsStalled
<1> QED
  BY <1>3, <1>5, <1>6, <1>7 DEF WInv

LEMMA TakeRequestWInv ==
  ASSUME WInv, TakeRequest
  PROVE  WInv'
<1>1. /\ proc = "alive" /\ proc' = proc /\ mode = "idle" /\ mode' = "computing"
      /\ stdin # <<>> /\ asked' = Head(stdin) /\ stdin' = Tail(stdin)
      /\ pipe' = pipe /\ buffer' = buffer /\ unwritten' = unwritten
      /\ lock' = lock /\ step' = step /\ heard' = heard /\ got' = got
      /\ requests' = requests /\ failures' = failures
  BY DEF TakeRequest, call, counters
<1>2. PICK r \in Requests : /\ lock = r /\ stdin = <<r>> /\ Silent
                             /\ step[r] \in {"reading", "reading blocked"}
  BY <1>1, ProcessOfHolder DEF Quiet, Starting, Reading
<1>3. asked' = r /\ stdin' = <<>>
  <2>1. Head(<<r>>) = r /\ Tail(<<r>>) = <<>>
    OBVIOUS
  <2> QED
    BY <2>1, <1>1, <1>2
<1>4. QwenTypeOK'
  BY <1>1, <1>3 DEF WInv, QwenTypeOK
<1>5. Reading(r)'
  BY <1>1, <1>2, <1>3 DEF Reading, Silent
<1>6. LockIsInside' /\ HearsOwn' /\ GotOwn'
  BY ProcessKeepsCalls DEF Process
<1>7. WorkerInStep'
  BY <1>1, <1>2, <1>5, <1>6, HolderTells
<1>8. BlockedIsStalled'
  BY <1>1 DEF WInv, BlockedIsStalled
<1> QED
  BY <1>4, <1>6, <1>7, <1>8 DEF WInv

LEMMA FinishRequestWInv ==
  ASSUME WInv, FinishRequest
  PROVE  WInv'
<1>1. /\ proc = "alive" /\ proc' = proc /\ mode = "computing" /\ mode' = "idle"
      /\ asked' = NoOne /\ stdin' = stdin
      /\ pipe' = pipe /\ buffer' = buffer /\ unwritten' \in {Good(asked), Empty, Bad}
      /\ lock' = lock /\ step' = step /\ heard' = heard /\ got' = got
      /\ requests' = requests /\ failures' = failures
  BY DEF FinishRequest, call, counters
<1>2. PICK r \in Requests : /\ lock = r /\ asked = r /\ stdin = <<>> /\ Silent
                             /\ step[r] \in {"reading", "reading blocked"}
  BY <1>1, ProcessOfHolder DEF Quiet, Starting, Reading
<1>3. /\ unwritten' \in Lines /\ LastOnly(unwritten') /\ NoHalf(unwritten')
      /\ TextsOf(unwritten', r) /\ EndsBlock(unwritten')
  BY <1>1, <1>2, Written
<1>4. QwenTypeOK'
  BY <1>1, <1>2, <1>3 DEF WInv, QwenTypeOK
<1>5. Closed' /\ BlockAhead' /\ LinesOf(r)'
  BY <1>1, <1>2, <1>3, NoLines
     DEF Closed, BlockAhead, LinesOf, Silent, LastOnly, HasFinal, NoHalf, TextsOf, EndsBlock
<1>6. Reading(r)'
  BY <1>1, <1>2, <1>5 DEF Reading, LinesOf
<1>7. LockIsInside' /\ HearsOwn' /\ GotOwn'
  BY ProcessKeepsCalls DEF Process
<1>8. WorkerInStep'
  BY <1>1, <1>2, <1>6, <1>7, HolderTells
<1>9. BlockedIsStalled'
  BY <1>1 DEF WInv, BlockedIsStalled
<1> QED
  BY <1>4, <1>7, <1>8, <1>9 DEF WInv

\* A process that writes, or stops writing, is at one of two places.
LEMMA WritingPlaces ==
  ASSUME WInv, proc = "alive", unwritten # <<>>
  PROVE  \E r \in Requests :
           /\ lock = r /\ Closed /\ asked = NoOne /\ stdin = <<>>
           /\ mode \in {"idle", "stalled"}
           /\ \/ step[r] \in {"starting", "starting blocked"} /\ Starting
              \/ /\ step[r] \in {"reading", "reading blocked"} /\ Reading(r)
                 /\ BlockAhead /\ LinesOf(r)
BY ProcessOfHolder DEF Quiet, Silent, Starting, Reading, LinesOf

LEMMA WriteLineWInv ==
  ASSUME WInv, WriteLine
  PROVE  WInv'
<1>1. /\ proc = "alive" /\ proc' = proc /\ mode # "stalled" /\ mode' = mode
      /\ asked' = asked /\ stdin' = stdin /\ buffer' = buffer /\ unwritten # <<>>
      /\ lock' = lock /\ step' = step /\ heard' = heard /\ got' = got
      /\ requests' = requests /\ failures' = failures
  BY DEF WriteLine, call, counters
<1>2. PICK r \in Requests :
        /\ lock = r /\ Closed /\ asked = NoOne /\ stdin = <<>> /\ mode = "idle"
        /\ \/ step[r] \in {"starting", "starting blocked"} /\ Starting
           \/ /\ step[r] \in {"reading", "reading blocked"} /\ Reading(r)
              /\ BlockAhead /\ LinesOf(r)
  BY <1>1, WritingPlaces
<1>3. QwenTypeOK
  BY DEF WInv
<1>4. QwenTypeOK'
  BY <1>1, <1>2, <1>3, WriteLineKeeps DEF QwenTypeOK
<1>5. Closed' /\ (BlockAhead => BlockAhead') /\ (LinesOf(r) => LinesOf(r)')
  BY <1>2, <1>3, WriteLineKeeps
<1>6. \/ step'[r] \in {"starting", "starting blocked"} /\ Starting'
      \/ step'[r] \in {"reading", "reading blocked"} /\ Reading(r)'
  BY <1>1, <1>2, <1>5 DEF Starting, Reading, LinesOf
<1>7. LockIsInside' /\ HearsOwn' /\ GotOwn'
  BY ProcessKeepsCalls DEF Process
<1>8. WorkerInStep'
  BY <1>1, <1>2, <1>6, <1>7, HolderTells
<1>9. BlockedIsStalled'
  BY <1>1 DEF WInv, BlockedIsStalled
<1> QED
  BY <1>4, <1>7, <1>8, <1>9 DEF WInv

LEMMA StallWInv ==
  ASSUME WInv, Stall
  PROVE  WInv'
<1>1. /\ proc = "alive" /\ proc' = proc /\ mode' = "stalled"
      /\ asked' = asked /\ stdin' = stdin /\ buffer' = buffer /\ unwritten' = unwritten
      /\ unwritten # <<>>
      /\ lock' = lock /\ step' = step /\ heard' = heard /\ got' = got
      /\ requests' = requests /\ failures' = failures
  BY DEF Stall, call, counters
<1>2. PICK r \in Requests :
        /\ lock = r /\ Closed /\ asked = NoOne /\ stdin = <<>>
        /\ \/ step[r] \in {"starting", "starting blocked"} /\ Starting
           \/ /\ step[r] \in {"reading", "reading blocked"} /\ Reading(r)
              /\ BlockAhead /\ LinesOf(r)
  BY <1>1, WritingPlaces
<1>3. QwenTypeOK
  BY DEF WInv
<1>4. QwenTypeOK'
  BY <1>1, <1>2, <1>3, StallKeeps DEF QwenTypeOK
<1>5. Closed' /\ (BlockAhead => BlockAhead') /\ (LinesOf(r) => LinesOf(r)')
  BY <1>2, <1>3, StallKeeps
<1>6. \/ step'[r] \in {"starting", "starting blocked"} /\ Starting'
      \/ step'[r] \in {"reading", "reading blocked"} /\ Reading(r)'
  BY <1>1, <1>2, <1>5 DEF Starting, Reading, LinesOf
<1>7. LockIsInside' /\ HearsOwn' /\ GotOwn'
  BY ProcessKeepsCalls DEF Process
<1>8. WorkerInStep'
  BY <1>1, <1>2, <1>6, <1>7, HolderTells
<1>9. BlockedIsStalled'
  BY <1>1 DEF WInv, BlockedIsStalled
<1> QED
  BY <1>4, <1>7, <1>8, <1>9 DEF WInv

LEMMA ExitWInv ==
  ASSUME WInv, Exit
  PROVE  WInv'
<1>1. /\ proc' = "dead" /\ mode' = "idle" /\ asked' = NoOne /\ unwritten' = <<>>
      /\ stdin' = stdin /\ buffer' = buffer /\ pipe' = pipe
      /\ lock' = lock /\ step' = step /\ heard' = heard /\ got' = got
      /\ requests' = requests /\ failures' = failures
  BY DEF Exit, call, counters
<1>2. QwenTypeOK'
  BY <1>1, NoLines DEF WInv, QwenTypeOK
<1>3. LockIsInside' /\ HearsOwn' /\ GotOwn'
  BY ProcessKeepsCalls DEF Process
<1>4. WorkerInStep' /\ BlockedIsStalled'
  BY <1>1 DEF WorkerInStep, BlockedIsStalled
<1> QED
  BY <1>2, <1>3, <1>4 DEF WInv

LEMMA ProcessWInv ==
  ASSUME WInv, Process
  PROVE  WInv'
BY LoadWInv, TakeRequestWInv, FinishRequestWInv, WriteLineWInv, StallWInv, ExitWInv DEF Process
-----------------------------------------------------------------------------
(* Steps of a call.  Each is made by the call that has the lock, but the    *)
(* first, which takes it.                                                   *)

\* What the steps share: nothing about the other calls changes.
LEMMA StepsOfOne ==
  ASSUME WInv, NEW r \in Requests, NEW place, Goto(r, place),
         place \in Inside \cup Ended \cup {"outside"}
  PROVE  /\ step' \in [Requests -> Inside \cup Ended \cup {"outside"}]
         /\ step'[r] = place
         /\ \A q \in Requests \ {r} : step'[q] = step[q]
BY DEF WInv, QwenTypeOK, Goto

LEMMA OnlyHolderInside ==
  ASSUME WInv, NEW r \in Requests, step[r] \in Inside
  PROVE  lock = r /\ \A q \in Requests \ {r} : step[q] \notin Inside
BY DEF WInv, LockIsInside

LEMMA EndedIsOutside ==
  ASSUME NEW place \in Ended
  PROVE  place \notin Inside
BY Insides DEF Ended

\* The step of a call that goes on within the lock.
LEMMA GoOn ==
  ASSUME WInv, NEW r \in Requests, step[r] \in Inside, lock' = lock,
         NEW place \in Inside, Goto(r, place), got' = got,
         HearsOwn', BlockedIsStalled', QwenTypeOK',
         \/ proc' # "alive"
         \/ place \in {"checking", "writing"} /\ Quiet'
         \/ place \in {"starting", "starting blocked"} /\ Starting'
         \/ place \in {"reading", "reading blocked"} /\ Reading(r)'
  PROVE  WInv'
<1>1. /\ step'[r] = place
      /\ \A q \in Requests \ {r} : step'[q] = step[q]
  BY StepsOfOne
<1>2. lock' = r /\ \A q \in Requests \ {r} : step[q] \notin Inside
  BY OnlyHolderInside
<1>3. LockIsInside'
  BY <1>1, <1>2 DEF LockIsInside
<1>4. WorkerInStep'
  BY <1>1, <1>2, <1>3, HolderTells
<1>5. GotOwn'
  <2>1. "ok" \notin Inside
    BY Insides
  <2> QED
    BY <1>1, <2>1 DEF WInv, GotOwn
<1> QED
  BY <1>3, <1>4, <1>5 DEF WInv

\* The step of a call that leaves the lock.
LEMMA LeaveWInv ==
  ASSUME WInv, NEW r \in Requests, step[r] \in Inside, lock' = NoOne,
         NEW place \in Ended, Goto(r, place),
         QwenTypeOK',
         proc' = "alive" => Quiet',
         \A q \in Requests \ {r} : got'[q] = got[q],
         got'[r] \in {NoOne, r}, place = "ok" => got'[r] = r
  PROVE  WInv'
<1>1. /\ step'[r] = place
      /\ \A q \in Requests \ {r} : step'[q] = step[q]
  BY StepsOfOne
<1>2. lock = r /\ \A q \in Requests \ {r} : step[q] \notin Inside
  BY OnlyHolderInside
<1>3. \A q \in Requests : step'[q] \notin Inside
  BY <1>1, <1>2, EndedIsOutside
<1>4. LockIsInside'
  BY <1>3 DEF LockIsInside
<1>5. WorkerInStep'
  BY <1>4, HolderTells
<1>6. BlockedIsStalled' /\ HearsOwn'
  BY <1>3, Insides DEF BlockedIsStalled, HearsOwn
<1>7. GotOwn'
  BY <1>1 DEF WInv, GotOwn
<1> QED
  BY <1>4, <1>5, <1>6, <1>7 DEF WInv

\* Before the request is written a living process is quiet.
LEMMA QuietBefore ==
  ASSUME WInv, NEW r \in Requests, step[r] \in {"checking", "writing"}, proc = "alive"
  PROVE  Quiet
BY DEF WInv, WorkerInStep

\* A process that is terminated is gone with all its lines.
LEMMA TerminateTypes ==
  ASSUME QwenTypeOK, Terminate
  PROVE  /\ proc' = "none" /\ mode' = "idle" /\ asked' = NoOne
         /\ stdin' \in Seq(Requests) /\ unwritten' = <<>>
         /\ unwritten' \in Lines /\ pipe' \in Lines /\ buffer' \in Lines
BY NoLines DEF Terminate, Cleared

LEMMA LeaveTypes ==
  ASSUME WInv, NEW r \in Requests, NEW how \in Ended, NEW counted \in {0, 1}, Leave(r, how, counted)
  PROVE  /\ Goto(r, how) /\ lock' = NoOne
         /\ step' \in [Requests -> Inside \cup Ended \cup {"outside"}]
         /\ failures' \in Nat
<1>1. Goto(r, how) /\ lock' = NoOne /\ failures' = failures + counted
  BY DEF Leave
<1>2. step' \in [Requests -> Inside \cup Ended \cup {"outside"}]
  BY <1>1, StepsOfOne
<1>3. failures' \in Nat
  BY <1>1 DEF WInv, QwenTypeOK
<1> QED
  BY <1>1, <1>2, <1>3

LEMMA EnterWInv ==
  ASSUME WInv, NEW r \in Requests, Enter(r)
  PROVE  WInv'
<1>1. /\ step[r] = "outside" /\ lock = NoOne /\ lock' = r /\ Goto(r, "checking")
      /\ UNCHANGED <<proc, mode, asked, stdin, unwritten, pipe, buffer>>
      /\ UNCHANGED <<requests, failures, heard, got>>
  BY DEF Enter, process, counters
<1>2. /\ step' \in [Requests -> Inside \cup Ended \cup {"outside"}]
      /\ step'[r] = "checking"
      /\ \A q \in Requests \ {r} : step'[q] = step[q]
  BY <1>1, StepsOfOne, Insides
<1>3. \A q \in Requests : step[q] \notin Inside
  BY <1>1 DEF WInv, LockIsInside
<1>4. LockIsInside'
  BY <1>1, <1>2, <1>3, Insides DEF LockIsInside
<1>5. proc = "alive" => Quiet
  BY <1>1 DEF WInv, WorkerInStep
<1>6. proc' = "alive" => Quiet'
  BY <1>1, <1>5 DEF Quiet, Silent
<1>7. WorkerInStep'
  BY <1>1, <1>2, <1>4, <1>6, HolderTells
<1>8. BlockedIsStalled' /\ HearsOwn'
  BY <1>2, <1>3, Insides DEF BlockedIsStalled, HearsOwn
<1>9. GotOwn'
  BY <1>1, <1>2 DEF WInv, GotOwn
<1>10. QwenTypeOK'
  BY <1>1, <1>2 DEF WInv, QwenTypeOK
<1> QED
  BY <1>4, <1>7, <1>8, <1>9, <1>10 DEF WInv

LEMMA AssetMissingWInv ==
  ASSUME WInv, NEW r \in Requests, AssetMissing(r)
  PROVE  WInv'
<1>1. /\ step[r] = "checking" /\ Leave(r, "asset missing", 0)
      /\ UNCHANGED <<proc, mode, asked, stdin, unwritten, pipe, buffer>>
      /\ UNCHANGED <<requests, heard, got>>
  BY DEF AssetMissing, process
<1>2. "asset missing" \in Ended /\ "asset missing" # "ok" /\ step[r] \in Inside
  BY <1>1, Insides DEF Ended
<1>3. /\ Goto(r, "asset missing") /\ lock' = NoOne /\ failures' \in Nat
      /\ step' \in [Requests -> Inside \cup Ended \cup {"outside"}]
  BY <1>1, <1>2, LeaveTypes
<1>4. QwenTypeOK'
  BY <1>1, <1>3 DEF WInv, QwenTypeOK
<1>5. proc' = "alive" => Quiet'
  BY <1>1, QuietBefore DEF Quiet, Silent
<1>6. got[r] \in {NoOne, r}
  BY DEF WInv, GotOwn
<1> QED
  BY <1>1, <1>2, <1>3, <1>4, <1>5, <1>6, LeaveWInv

LEMMA StartWInv ==
  ASSUME WInv, NEW r \in Requests, Start(r)
  PROVE  WInv'
<1>1. /\ step[r] = "checking" /\ step[r] \in Inside
      /\ UNCHANGED <<lock, requests, failures, heard, got>>
  BY Insides DEF Start, counters
<1>2. CASE proc = "alive" /\ Goto(r, "writing") /\ UNCHANGED process
  <2>1. UNCHANGED <<proc, mode, asked, stdin, unwritten, pipe, buffer>>
    BY <1>2 DEF process
  <2>2. /\ step' \in [Requests -> Inside \cup Ended \cup {"outside"}]
        /\ step'[r] = "writing"
        /\ \A q \in Requests \ {r} : step'[q] = step[q]
    BY <1>2, StepsOfOne, Insides
  <2>3. QwenTypeOK' /\ HearsOwn' /\ BlockedIsStalled'
    BY <1>1, <2>1, <2>2 DEF WInv, QwenTypeOK, HearsOwn, BlockedIsStalled
  <2>4. Quiet'
    BY <1>1, <1>2, <2>1, QuietBefore DEF Quiet, Silent
  <2> QED
    BY <1>1, <1>2, <2>3, <2>4, GoOn, Insides
<1>3. CASE /\ Goto(r, "starting")
           /\ proc' = "alive" /\ mode' = "loading" /\ asked' = NoOne
           /\ stdin' = <<>> /\ unwritten' = <<>> /\ pipe' = <<>> /\ buffer' = <<>>
  <2>1. /\ step' \in [Requests -> Inside \cup Ended \cup {"outside"}]
        /\ step'[r] = "starting"
        /\ \A q \in Requests \ {r} : step'[q] = step[q]
    BY <1>3, StepsOfOne, Insides
  <2>2. \A q \in Requests \ {r} : step'[q] \notin Inside
    BY <1>1, <2>1, OnlyHolderInside
  <2>3. QwenTypeOK'
    BY <1>1, <1>3, <2>1, NoLines DEF WInv, QwenTypeOK
  <2>4. HearsOwn' /\ BlockedIsStalled'
    BY <2>1, <2>2, Insides DEF HearsOwn, BlockedIsStalled
  <2>5. Starting'
    BY <1>3, NoLines DEF Starting, Silent, Closed
  <2> QED
    BY <1>1, <1>3, <2>3, <2>4, <2>5, GoOn, Insides
<1> QED
  BY <1>2, <1>3 DEF Start

LEMMA ReadStartupWInv ==
  ASSUME WInv, NEW r \in Requests, ReadStartup(r)
  PROVE  WInv'
<1>1. /\ step[r] = "starting" /\ step[r] \in Inside
      /\ UNCHANGED <<lock, requests, failures, heard, got>>
  BY Insides DEF ReadStartup, counters
<1>2. PICK line : /\ ReadLine(line)
                  /\ Goto(r, IF line.kind = "READY" THEN "writing" ELSE "starting")
  BY DEF ReadStartup
<1>3. /\ proc = "alive" /\ UNCHANGED <<proc, mode, asked, stdin, unwritten>>
  BY <1>2 DEF ReadLine
<1>4. QwenTypeOK /\ Starting /\ pipe # <<>>
  BY <1>1, <1>2, <1>3 DEF WInv, WorkerInStep, ReadLine
<1>5. Closed' /\ buffer' \in Lines /\ pipe' \in Lines
  BY <1>2, <1>4, ReadLineKeeps DEF Starting
<1>6. PICK place : /\ Goto(r, place)
                   /\ \/ place = "writing" /\ line.kind = "READY"
                      \/ place = "starting"
  BY <1>2
<1>7. /\ step' \in [Requests -> Inside \cup Ended \cup {"outside"}]
      /\ step'[r] = place
      /\ \A q \in Requests \ {r} : step'[q] = step[q]
  BY <1>6, StepsOfOne, Insides
<1>8. QwenTypeOK'
  BY <1>1, <1>3, <1>4, <1>5, <1>7 DEF QwenTypeOK
<1>9. HearsOwn' /\ BlockedIsStalled'
  BY <1>1, <1>3, <1>6, <1>7 DEF WInv, HearsOwn, BlockedIsStalled
<1>10. CASE place = "writing" /\ line.kind = "READY"
  <2>1. Silent' /\ mode # "stalled"
    BY <1>2, <1>4, <1>10, ReadLastLine DEF Starting, Finals
  <2>2. Quiet'
    BY <1>3, <1>4, <2>1 DEF Quiet, Starting, Silent
  <2> QED
    BY <1>1, <1>6, <1>8, <1>9, <1>10, <2>2, GoOn, Insides
<1>11. CASE place = "starting"
  <2>1. Starting'
    BY <1>3, <1>4, <1>5 DEF Starting, Silent
  <2> QED
    BY <1>1, <1>6, <1>8, <1>9, <1>11, <2>1, GoOn, Insides
<1> QED
  BY <1>6, <1>10, <1>11

LEMMA StartEndsWInv ==
  ASSUME WInv, NEW r \in Requests, StartEnds(r)
  PROVE  WInv'
<1>1. step[r] = "starting" /\ step[r] \in Inside /\ UNCHANGED <<requests, heard, got>>
  BY Insides DEF StartEnds
<1>2. got[r] \in {NoOne, r} /\ QwenTypeOK
  BY DEF WInv, GotOwn
<1>3. CASE proc = "dead" /\ Leave(r, "start failed", 0) /\ UNCHANGED process
  <2>1. /\ "start failed" \in Ended /\ proc = "dead"
        /\ UNCHANGED <<proc, mode, asked, stdin, unwritten, pipe, buffer>>
    BY <1>3 DEF Ended, process
  <2>2. /\ Goto(r, "start failed") /\ lock' = NoOne /\ failures' \in Nat
        /\ step' \in [Requests -> Inside \cup Ended \cup {"outside"}]
    BY <1>3, <2>1, LeaveTypes
  <2>3. QwenTypeOK'
    BY <1>1, <1>2, <2>1, <2>2 DEF QwenTypeOK
  <2> QED
    BY <1>1, <1>2, <2>1, <2>2, <2>3, LeaveWInv
<1>4. CASE Leave(r, "start timeout", 0) /\ Terminate
  <2>1. "start timeout" \in Ended
    BY DEF Ended
  <2>2. /\ Goto(r, "start timeout") /\ lock' = NoOne /\ failures' \in Nat
        /\ step' \in [Requests -> Inside \cup Ended \cup {"outside"}]
    BY <1>4, <2>1, LeaveTypes
  <2>3. QwenTypeOK' /\ proc' = "none"
    BY <1>1, <1>2, <1>4, <2>2, TerminateTypes DEF QwenTypeOK
  <2> QED
    BY <1>1, <1>2, <2>1, <2>2, <2>3, LeaveWInv
<1> QED
  BY <1>3, <1>4 DEF StartEnds

LEMMA WriteRequestWInv ==
  ASSUME WInv, NEW r \in Requests, WriteRequest(r)
  PROVE  WInv'
<1>1. /\ step[r] = "writing" /\ step[r] \in Inside
      /\ heard' = Deaf /\ UNCHANGED <<requests, got>>
  BY Insides DEF WriteRequest
<1>2. got[r] \in {NoOne, r} /\ QwenTypeOK
  BY DEF WInv, GotOwn
<1>3. heard' \in [begun : BOOLEAN, answering : BOOLEAN, erring : BOOLEAN, text : Requests \cup {NoOne}]
  BY <1>1 DEF Deaf
<1>4. \A q \in Requests \ {r} : step[q] \notin Inside
  BY <1>1, OnlyHolderInside
<1>5. CASE /\ proc = "alive" /\ stdin' = Append(stdin, r) /\ Goto(r, "reading")
           /\ UNCHANGED <<lock, proc, mode, asked, unwritten, pipe, buffer, failures>>
  <2>1. Quiet
    BY <1>1, <1>5, QuietBefore
  <2>2. stdin' = <<r>>
    BY <1>5, <2>1 DEF Quiet
  <2>3. Reading(r)'
    BY <1>5, <2>1, <2>2 DEF Quiet, Reading, Silent
  <2>4. /\ step' \in [Requests -> Inside \cup Ended \cup {"outside"}]
        /\ step'[r] = "reading"
        /\ \A q \in Requests \ {r} : step'[q] = step[q]
    BY <1>5, StepsOfOne, Insides
  <2>5. HearsOwn' /\ BlockedIsStalled'
    BY <1>1, <1>4, <2>4, Insides DEF HearsOwn, BlockedIsStalled, Deaf
  <2>6. QwenTypeOK'
    BY <1>1, <1>2, <1>3, <1>5, <2>2, <2>4 DEF QwenTypeOK
  <2> QED
    BY <1>1, <1>5, <2>3, <2>5, <2>6, GoOn, Insides
<1>6. CASE proc = "dead" /\ Leave(r, "not running", 0) /\ UNCHANGED process
  <2>1. /\ "not running" \in Ended /\ proc = "dead"
        /\ UNCHANGED <<proc, mode, asked, stdin, unwritten, pipe, buffer>>
    BY <1>6 DEF Ended, process
  <2>2. /\ Goto(r, "not running") /\ lock' = NoOne /\ failures' \in Nat
        /\ step' \in [Requests -> Inside \cup Ended \cup {"outside"}]
    BY <1>6, <2>1, LeaveTypes
  <2>3. QwenTypeOK'
    BY <1>1, <1>2, <1>3, <2>1, <2>2 DEF QwenTypeOK
  <2> QED
    BY <1>1, <1>2, <2>1, <2>2, <2>3, LeaveWInv
<1>7. CASE Leave(r, "write failed", 1) /\ Terminate
  <2>1. "write failed" \in Ended
    BY DEF Ended
  <2>2. /\ Goto(r, "write failed") /\ lock' = NoOne /\ failures' \in Nat
        /\ step' \in [Requests -> Inside \cup Ended \cup {"outside"}]
    BY <1>7, <2>1, LeaveTypes
  <2>3. QwenTypeOK' /\ proc' = "none"
    BY <1>1, <1>2, <1>3, <1>7, <2>2, TerminateTypes DEF QwenTypeOK
  <2> QED
    BY <1>1, <1>2, <2>1, <2>2, <2>3, LeaveWInv
<1> QED
  BY <1>5, <1>6, <1>7 DEF WriteRequest

\* A line that does not end the block leaves the call reading; what it adds to
\* the text is of the call's own request.
LEMMA NotesOwn ==
  ASSUME QwenTypeOK, NEW r \in Requests, heard.text \in {NoOne, r},
         NEW line, line.kind = "text" => line.of = r
  PROVE  /\ Notes(line) \in [begun : BOOLEAN, answering : BOOLEAN, erring : BOOLEAN,
                            text : Requests \cup {NoOne}]
         /\ Notes(line).text \in {NoOne, r}
BY DEF QwenTypeOK, Notes

LEMMA ReadOnWInv ==
  ASSUME WInv, NEW r \in Requests, step[r] = "reading", NEW line, ReadLine(line),
         line.kind \notin Ends, heard' = Notes(line),
         UNCHANGED <<lock, requests, failures, step, got>>
  PROVE  WInv'
<1>1. /\ proc = "alive" /\ pipe # <<>>
      /\ UNCHANGED <<proc, mode, asked, stdin, unwritten>>
  BY DEF ReadLine
<1>2. QwenTypeOK /\ Reading(r) /\ heard.text \in {NoOne, r}
  BY <1>1 DEF WInv, WorkerInStep, HearsOwn
<1>3. /\ stdin = <<>> /\ asked = NoOne /\ mode \in {"idle", "stalled"}
      /\ Closed /\ BlockAhead /\ LinesOf(r)
  BY <1>1, <1>2 DEF Reading, Silent, LinesOf
<1>4. /\ buffer' \in Lines /\ pipe' \in Lines /\ Closed' /\ BlockAhead' /\ LinesOf(r)'
      /\ line.kind = "text" => line.of = r
  BY <1>2, <1>3, ReadLineKeeps
<1>5. Reading(r)'
  BY <1>1, <1>3, <1>4 DEF Reading, LinesOf
<1>6. /\ heard' \in [begun : BOOLEAN, answering : BOOLEAN, erring : BOOLEAN,
                     text : Requests \cup {NoOne}]
      /\ heard'.text \in {NoOne, r}
  BY <1>2, <1>4, NotesOwn
<1>7. step[r] \in Inside
  BY Insides
<1>8. lock = r /\ \A q \in Requests \ {r} : step[q] \notin Inside
  BY <1>7, OnlyHolderInside
<1>9. LockIsInside' /\ BlockedIsStalled' /\ GotOwn'
  BY <1>1 DEF WInv, LockIsInside, BlockedIsStalled, GotOwn
<1>10. HearsOwn'
  BY <1>6, <1>8, Insides DEF HearsOwn
<1>11. WorkerInStep'
  BY <1>5, <1>8, <1>9, HolderTells
<1>12. QwenTypeOK'
  BY <1>1, <1>2, <1>4, <1>6 DEF QwenTypeOK
<1> QED
  BY <1>9, <1>10, <1>11, <1>12 DEF WInv

\* The line that ends the block leaves the process quiet.
LEMMA BlockEndsQuiet ==
  ASSUME WInv, NEW r \in Requests, step[r] = "reading", NEW line, ReadLine(line),
         line.kind \in Ends
  PROVE  /\ UNCHANGED <<proc, mode, asked, stdin, unwritten>>
         /\ Quiet' /\ buffer' = <<>> /\ pipe' = <<>>
<1>1. /\ proc = "alive" /\ pipe # <<>>
      /\ UNCHANGED <<proc, mode, asked, stdin, unwritten>>
  BY DEF ReadLine
<1>2. QwenTypeOK /\ Reading(r)
  BY <1>1 DEF WInv, WorkerInStep
<1>3. stdin = <<>> /\ asked = NoOne /\ mode \in {"idle", "stalled"} /\ Closed
  BY <1>1, <1>2 DEF Reading, Silent
<1>4. Silent' /\ mode # "stalled"
  BY <1>2, <1>3, ReadLastLine DEF Finals
<1> QED
  BY <1>1, <1>3, <1>4 DEF Quiet, Silent

LEMMA ReadAnswerWInv ==
  ASSUME WInv, NEW r \in Requests, ReadAnswer(r)
  PROVE  WInv'
<1>1. step[r] = "reading" /\ step[r] \in Inside
  BY Insides DEF ReadAnswer
<1>2. PICK line :
        /\ ReadLine(line)
        /\ \/ line.kind = "END" /\ EndBlock(r) /\ UNCHANGED heard
           \/ /\ line.kind = "ERROR_END"
              /\ Leave(r, "runtime error", 1)
              /\ UNCHANGED <<requests, heard, got>>
           \/ /\ line.kind \notin {"END", "ERROR_END"}
              /\ heard' = Notes(line)
              /\ UNCHANGED <<lock, counters, step, got>>
  BY DEF ReadAnswer
<1>3. QwenTypeOK /\ heard.text \in {NoOne, r} /\ got[r] \in {NoOne, r}
  BY <1>1 DEF WInv, HearsOwn, GotOwn
<1>4. CASE line.kind \in Ends /\ UNCHANGED heard
  <2>1. /\ UNCHANGED <<proc, mode, asked, stdin, unwritten>>
        /\ Quiet' /\ buffer' \in Lines /\ pipe' \in Lines
    BY <1>1, <1>2, <1>4, BlockEndsQuiet, NoLines
  <2>2. CASE /\ heard.text # NoOne /\ Leave(r, "ok", 0) /\ requests' = requests + 1
             /\ got' = [got EXCEPT ![r] = heard.text]
    <3>1. "ok" \in Ended
      BY DEF Ended
    <3>2. /\ Goto(r, "ok") /\ lock' = NoOne /\ failures' \in Nat
          /\ step' \in [Requests -> Inside \cup Ended \cup {"outside"}]
      BY <2>2, <3>1, LeaveTypes
    <3>3. /\ got'[r] = r /\ \A q \in Requests \ {r} : got'[q] = got[q]
          /\ got' \in [Requests -> Requests \cup {NoOne}]
      BY <1>3, <2>2 DEF QwenTypeOK
    <3>4. QwenTypeOK'
      BY <1>3, <1>4, <2>1, <2>2, <3>2, <3>3 DEF QwenTypeOK
    <3> QED
      BY <1>1, <2>1, <3>1, <3>2, <3>3, <3>4, LeaveWInv
  <2>3. CASE /\ Leave(r, "empty answer", 1) /\ requests' = requests + 1 /\ UNCHANGED got
    <3>1. "empty answer" \in Ended /\ "empty answer" # "ok"
      BY DEF Ended
    <3>2. /\ Goto(r, "empty answer") /\ lock' = NoOne /\ failures' \in Nat
          /\ step' \in [Requests -> Inside \cup Ended \cup {"outside"}]
      BY <2>3, <3>1, LeaveTypes
    <3>3. requests' \in Nat /\ got' = got /\ heard' = heard
      <4>1. requests' = requests + 1
        BY <2>3
      <4>2. got' = got
        BY <2>3
      <4>3. heard' = heard
        BY <1>4
      <4>4. requests \in Nat
        BY <1>3 DEF QwenTypeOK
      <4> QED
        BY <4>1, <4>2, <4>3, <4>4
    <3>4. QwenTypeOK'
      BY <1>3, <2>1, <3>2, <3>3 DEF QwenTypeOK
    <3> QED
      BY <1>1, <1>3, <2>1, <2>3, <3>1, <3>2, <3>3, <3>4, LeaveWInv
  <2>4. CASE /\ Leave(r, "runtime error", 1) /\ UNCHANGED <<requests, got>>
    <3>1. "runtime error" \in Ended /\ "runtime error" # "ok"
      BY DEF Ended
    <3>2. /\ Goto(r, "runtime error") /\ lock' = NoOne /\ failures' \in Nat
          /\ step' \in [Requests -> Inside \cup Ended \cup {"outside"}]
      BY <2>4, <3>1, LeaveTypes
    <3>3. QwenTypeOK'
      BY <1>3, <1>4, <2>1, <2>4, <3>2 DEF QwenTypeOK
    <3> QED
      BY <1>1, <1>3, <2>1, <2>4, <3>1, <3>2, <3>3, LeaveWInv
  <2>5. line.kind = "END" => EndBlock(r)
    BY <1>2
  <2>6. line.kind = "ERROR_END" => Leave(r, "runtime error", 1) /\ UNCHANGED <<requests, got>>
    BY <1>2
  <2> QED
    BY <1>4, <2>2, <2>3, <2>4, <2>5, <2>6 DEF EndBlock, Ends
<1>5. CASE /\ line.kind \notin Ends /\ heard' = Notes(line)
           /\ UNCHANGED <<lock, counters, step, got>>
  BY <1>1, <1>2, <1>5, ReadOnWInv DEF counters
<1> QED
  BY <1>2, <1>4, <1>5 DEF Ends

LEMMA ReadEndsWInv ==
  ASSUME WInv, NEW r \in Requests, ReadEnds(r)
  PROVE  WInv'
<1>1. /\ step[r] = "reading" /\ step[r] \in Inside
      /\ Leave(r, "timeout", 1) /\ Terminate /\ UNCHANGED <<requests, heard, got>>
  BY Insides DEF ReadEnds
<1>2. got[r] \in {NoOne, r} /\ QwenTypeOK
  BY DEF WInv, GotOwn
<1>3. "timeout" \in Ended /\ "timeout" # "ok"
  BY DEF Ended
<1>4. /\ Goto(r, "timeout") /\ lock' = NoOne /\ failures' \in Nat
      /\ step' \in [Requests -> Inside \cup Ended \cup {"outside"}]
  BY <1>1, <1>3, LeaveTypes
<1>5. QwenTypeOK' /\ proc' = "none"
  BY <1>1, <1>2, <1>4, TerminateTypes DEF QwenTypeOK
<1> QED
  BY <1>1, <1>2, <1>3, <1>4, <1>5, LeaveWInv

\* A call that blocks in readline, or comes out of it, keeps the lock.
LEMMA BlockWInv ==
  ASSUME WInv, NEW r \in Requests, NEW p \in DOMAIN Blocked,
         \/ /\ step[r] = p /\ Goto(r, Blocked[p])
            /\ proc = "alive" /\ pipe = <<Half>>
         \/ step[r] = Blocked[p] /\ Goto(r, p) /\ proc = "dead",
         UNCHANGED <<proc, mode, asked, stdin, unwritten, pipe, buffer>>,
         UNCHANGED <<lock, requests, failures, heard, got>>
  PROVE  WInv'
<1>1. PICK place : /\ Goto(r, place) /\ place \in Inside
                   /\ \/ p = "starting" /\ place \in {"starting", "starting blocked"}
                         /\ step[r] \in {"starting", "starting blocked"}
                      \/ p = "reading" /\ place \in {"reading", "reading blocked"}
                         /\ step[r] \in {"reading", "reading blocked"}
  BY Insides
<1>2. step[r] \in Inside
  BY <1>1, Insides
<1>3. /\ step' \in [Requests -> Inside \cup Ended \cup {"outside"}]
      /\ step'[r] = place
      /\ \A q \in Requests \ {r} : step'[q] = step[q] /\ step[q] \notin Inside
  BY <1>1, <1>2, StepsOfOne, OnlyHolderInside
<1>4. QwenTypeOK'
  BY <1>3 DEF WInv, QwenTypeOK
<1>5. HearsOwn'
  BY <1>1, <1>3 DEF WInv, HearsOwn
<1>6. proc = "alive" /\ pipe = <<Half>> => mode = "stalled"
  <2> SUFFICES ASSUME proc = "alive", pipe = <<Half>>, mode # "stalled" PROVE FALSE
    OBVIOUS
  <2>1. pipe # <<>> /\ ~NoHalf(pipe)
    BY DEF NoHalf, Half, Protocol, Line
  <2>2. Starting \/ Reading(r)
    BY <1>1 DEF WInv, WorkerInStep
  <2>3. Closed
    BY <2>1, <2>2 DEF Starting, Reading, Silent
  <2> QED
    BY <2>1, <2>3 DEF Closed
<1>7. BlockedIsStalled'
  BY <1>3, <1>6, Insides DEF BlockedIsStalled
<1>8. CASE proc = "dead"
  BY <1>1, <1>2, <1>4, <1>5, <1>7, <1>8, GoOn
<1>9. CASE proc = "alive" /\ place \in {"starting", "starting blocked"}
  <2>1. Starting
    BY <1>1, <1>9 DEF WInv, WorkerInStep
  <2>2. Starting'
    BY <2>1 DEF Starting, Silent, Closed, LastOnly, HasFinal, NoHalf
  <2> QED
    BY <1>1, <1>2, <1>4, <1>5, <1>7, <1>9, <2>2, GoOn
<1>10. CASE proc = "alive" /\ place \in {"reading", "reading blocked"}
  <2>1. Reading(r)
    BY <1>1, <1>10 DEF WInv, WorkerInStep
  <2>2. Reading(r)'
    BY <2>1 DEF Reading, Silent, Closed, LastOnly, HasFinal, NoHalf, BlockAhead, EndsBlock, TextsOf
  <2> QED
    BY <1>1, <1>2, <1>4, <1>5, <1>7, <1>10, <2>2, GoOn
<1> QED
  BY <1>1, <1>8, <1>9, <1>10

LEMMA InferWInv ==
  ASSUME WInv, NEW r \in Requests, Infer(r)
  PROVE  WInv'
<1>1. CASE ReadHalf(r)
  BY <1>1, BlockWInv DEF ReadHalf, process, counters
<1>2. CASE EndOfFile(r)
  BY <1>2, BlockWInv DEF EndOfFile, process, counters
<1> QED
  BY <1>1, <1>2, EnterWInv, AssetMissingWInv, StartWInv, ReadStartupWInv, StartEndsWInv,
     WriteRequestWInv, ReadAnswerWInv, ReadEndsWInv DEF Infer
-----------------------------------------------------------------------------
(* The handler. *)

HasNPU == {"guarded", "inferring", "running", "returned"}


NPUIsHeld == \A r \in Requests : pc[r] \in HasNPU <=> npu = r

CalledByOne ==
  \A r \in Requests : /\ step[r] \in Inside => pc[r] = "inferring"
                      /\ oneshot = r => pc[r] = "running"

Outcomes ==
  \A r \in Requests :
    /\ pc[r] \in {"arriving", "guarded", "inferring", "running"} => exc[r] = "none"
    /\ exc[r] = "ok" => got[r] = r

IInv == TypeOK /\ WInv /\ NPUIsHeld /\ CalledByOne /\ Outcomes

LEMMA InitIInv == Init => IInv
<1> SUFFICES ASSUME Init PROVE IInv
  OBVIOUS
<1>1. WInv
  BY InitWInv DEF Init
<1>2. TypeOK
  BY <1>1 DEF Init, TypeOK, WInv, Places
<1>3. NPUIsHeld /\ CalledByOne /\ Outcomes
  BY Insides DEF Init, QwenInit, NPUIsHeld, HasNPU, CalledByOne, Outcomes
<1> QED
  BY <1>1, <1>2, <1>3 DEF IInv

\* What a request does to the worker it does in its own name.
LEMMA InferOfOne ==
  ASSUME WInv, NEW r \in Requests, Infer(r)
  PROVE  \A q \in Requests \ {r} : step'[q] = step[q] /\ got'[q] = got[q]
<1>1. QwenTypeOK
  BY DEF WInv
<1>2. CASE Enter(r) \/ AssetMissing(r) \/ Start(r) \/ StartEnds(r) \/ WriteRequest(r)
  BY <1>1, <1>2 DEF QwenTypeOK, Enter, AssetMissing, Start, StartEnds, WriteRequest, Leave, Goto
<1>3. CASE ReadStartup(r) \/ ReadEnds(r) \/ ReadHalf(r) \/ EndOfFile(r)
  BY <1>1, <1>3 DEF QwenTypeOK, ReadStartup, ReadEnds, ReadHalf, EndOfFile, Leave, Goto
<1>4. CASE ReadAnswer(r)
  BY <1>1, <1>4 DEF QwenTypeOK, ReadAnswer, EndBlock, Leave, Goto
<1> QED
  BY <1>2, <1>3, <1>4 DEF Infer

\* Steps that leave the worker and its calls alone.
LEMMA SameWorker ==
  ASSUME WInv, UNCHANGED <<lock, process, counters, step, heard>>,
         got' \in [Requests -> Requests \cup {NoOne}],
         \A q \in Requests : got'[q] = got[q] \/ got'[q] = q
  PROVE  WInv'
<1>1. QwenTypeOK'
  BY DEF WInv, QwenTypeOK, process, counters
<1>2. LockIsInside' /\ BlockedIsStalled' /\ HearsOwn' /\ GotOwn'
  BY DEF WInv, LockIsInside, BlockedIsStalled, HearsOwn, GotOwn, process
<1>3. WorkerInStep'
  <2>1. UNCHANGED <<lock, proc, mode, asked, stdin, unwritten, pipe, buffer, step>>
    BY DEF process
  <2>2. Closed' = Closed /\ BlockAhead' = BlockAhead /\ Quiet' = Quiet /\ Silent' = Silent
    BY <2>1 DEF Closed, BlockAhead, Quiet, Silent, LastOnly, HasFinal, NoHalf, EndsBlock
  <2>3. Starting' = Starting
    BY <2>1, <2>2 DEF Starting
  <2>4. \A r \in Requests : Reading(r)' = Reading(r)
    BY <2>1, <2>2 DEF Reading, TextsOf
  <2> QED
    BY <2>1, <2>2, <2>3, <2>4 DEF WInv, WorkerInStep
<1> QED
  BY <1>1, <1>2, <1>3 DEF WInv

LEMMA UnchangedWorker ==
  ASSUME WInv, UNCHANGED qwenVars
  PROVE  WInv'
BY SameWorker DEF WInv, QwenTypeOK, qwenVars

LEMMA RefusedIInv ==
  ASSUME IInv, NEW r \in Requests, RefuseInput(r) \/ AnswerText(r) \/ AnswerVision(r)
  PROVE  IInv'
<1>1. /\ UNCHANGED <<qwenVars, given, npu, oneshot, exc>> /\ pc[r] = "arriving"
      /\ pc' = [pc EXCEPT ![r] = "answered"] /\ DOMAIN answer' = DOMAIN answer
  BY DEF RefuseInput, AnswerText, AnswerVision, At, Answers, To
<1>2. WInv'
  BY <1>1, UnchangedWorker DEF IInv
<1>3. TypeOK'
  BY <1>1, <1>2 DEF IInv, TypeOK, WInv, given, Places
<1>4. NPUIsHeld' /\ CalledByOne' /\ Outcomes'
  BY <1>1 DEF IInv, TypeOK, NPUIsHeld, HasNPU, CalledByOne, Outcomes, qwenVars, given
<1> QED
  BY <1>2, <1>3, <1>4 DEF IInv

LEMMA AcquireNPUIInv ==
  ASSUME IInv, NEW r \in Requests, AcquireNPU(r)
  PROVE  IInv'
<1>1. /\ UNCHANGED <<qwenVars, given, oneshot, exc>> /\ pc[r] = "arriving"
      /\ DOMAIN answer' = DOMAIN answer
      /\ \/ npu = NoOne /\ npu' = r /\ pc' = [pc EXCEPT ![r] = "guarded"]
         \/ npu' = npu /\ pc' = [pc EXCEPT ![r] = "answered"]
  BY DEF AcquireNPU, At, Answers, To
<1>2. WInv'
  BY <1>1, UnchangedWorker DEF IInv
<1>3. TypeOK'
  BY <1>1, <1>2 DEF IInv, TypeOK, WInv, given, Places
<1>4. NPUIsHeld' /\ CalledByOne' /\ Outcomes'
  BY <1>1 DEF IInv, TypeOK, NPUIsHeld, HasNPU, CalledByOne, Outcomes, qwenVars, given
<1> QED
  BY <1>2, <1>3, <1>4 DEF IInv

LEMMA CallBackendIInv ==
  ASSUME IInv, NEW r \in Requests, CallBackend(r)
  PROVE  IInv'
<1>1. /\ UNCHANGED <<qwenVars, given, npu, answer>> /\ pc[r] = "guarded"
      /\ \/ pc' = [pc EXCEPT ![r] = "inferring"] /\ UNCHANGED <<oneshot, exc>>
         \/ pc' = [pc EXCEPT ![r] = "running"] /\ oneshot' = r /\ UNCHANGED exc
         \/ /\ pc' = [pc EXCEPT ![r] = "returned"] /\ UNCHANGED oneshot
            /\ exc' = [exc EXCEPT ![r] = "demo missing"]
  BY DEF CallBackend, At, To
<1>2. WInv'
  BY <1>1, UnchangedWorker DEF IInv
<1>3. TypeOK'
  BY <1>1, <1>2 DEF IInv, TypeOK, WInv, given, Places
<1>4. NPUIsHeld'
  BY <1>1 DEF IInv, TypeOK, NPUIsHeld, HasNPU, qwenVars, given
<1>5. CalledByOne'
  BY <1>1, Insides DEF IInv, TypeOK, CalledByOne, qwenVars
<1>6. Outcomes'
  BY <1>1 DEF IInv, TypeOK, Outcomes, qwenVars
<1> QED
  BY <1>2, <1>3, <1>4, <1>5, <1>6 DEF IInv

LEMMA InWorkerIInv ==
  ASSUME IInv, NEW r \in Requests, InWorker(r)
  PROVE  IInv'
<1>1. UNCHANGED <<given, npu, oneshot, pc, exc, answer>> /\ pc[r] = "inferring" /\ Infer(r)
  BY DEF InWorker, At
<1>2. WInv' /\ \A q \in Requests \ {r} : step'[q] = step[q] /\ got'[q] = got[q]
  BY <1>1, InferWInv, InferOfOne DEF IInv
<1>3. npu = r /\ exc[r] = "none"
  BY <1>1 DEF IInv, NPUIsHeld, HasNPU, Outcomes
<1>4. TypeOK'
  BY <1>1, <1>2 DEF IInv, TypeOK, WInv, given
<1>5. NPUIsHeld' /\ CalledByOne' /\ Outcomes'
  BY <1>1, <1>2, <1>3 DEF IInv, NPUIsHeld, CalledByOne, Outcomes
<1> QED
  BY <1>2, <1>4, <1>5 DEF IInv

LEMMA WorkerProcessIInv ==
  ASSUME IInv, WorkerProcess
  PROVE  IInv'
<1>1. UNCHANGED <<given, npu, oneshot, pc, exc, answer>> /\ Process
  BY DEF WorkerProcess
<1>2. WInv' /\ UNCHANGED <<step, got>>
  BY <1>1, ProcessWInv, ProcessKeepsCalls DEF IInv
<1>3. TypeOK'
  BY <1>1, <1>2 DEF IInv, TypeOK, WInv, given
<1>4. NPUIsHeld' /\ CalledByOne' /\ Outcomes'
  BY <1>1, <1>2 DEF IInv, NPUIsHeld, CalledByOne, Outcomes, given
<1> QED
  BY <1>2, <1>3, <1>4 DEF IInv

LEMMA WorkerReturnsIInv ==
  ASSUME IInv, NEW r \in Requests, WorkerReturns(r)
  PROVE  IInv'
<1>1. /\ UNCHANGED <<qwenVars, given, npu, oneshot, answer>> /\ pc[r] = "inferring"
      /\ exc' = [exc EXCEPT ![r] = step[r]] /\ pc' = [pc EXCEPT ![r] = "returned"]
      /\ step[r] \in Ended
  BY DEF WorkerReturns, At, To
<1>2. WInv'
  BY <1>1, UnchangedWorker DEF IInv
<1>3. TypeOK'
  BY <1>1, <1>2 DEF IInv, TypeOK, WInv, given, Places
<1>4. NPUIsHeld'
  BY <1>1 DEF IInv, TypeOK, NPUIsHeld, HasNPU, qwenVars, given
<1>5. CalledByOne'
  BY <1>1, EndedIsOutside DEF IInv, TypeOK, CalledByOne, qwenVars
<1>6. Outcomes'
  BY <1>1 DEF IInv, TypeOK, Outcomes, WInv, GotOwn, qwenVars
<1> QED
  BY <1>2, <1>3, <1>4, <1>5, <1>6 DEF IInv

LEMMA RunOneshotIInv ==
  ASSUME IInv, NEW r \in Requests, RunOneshot(r)
  PROVE  IInv'
<1>1. PICK how :
        /\ UNCHANGED <<lock, process, counters, step, heard, given, npu, answer>>
        /\ pc[r] = "running" /\ oneshot' = NoOne
        /\ exc' = [exc EXCEPT ![r] = how] /\ pc' = [pc EXCEPT ![r] = "returned"]
        /\ got' = IF how = "ok" THEN [got EXCEPT ![r] = r] ELSE got
  BY DEF RunOneshot, At, To
<1>2. /\ got' \in [Requests -> Requests \cup {NoOne}]
      /\ \A q \in Requests : got'[q] = got[q] \/ got'[q] = q
      /\ how = "ok" => got'[r] = r
  BY <1>1 DEF IInv, WInv, QwenTypeOK
<1>3. WInv'
  BY <1>1, <1>2, SameWorker DEF IInv
<1>4. TypeOK'
  BY <1>1, <1>3 DEF IInv, TypeOK, WInv, given, Places
<1>5. NPUIsHeld'
  BY <1>1 DEF IInv, TypeOK, NPUIsHeld, HasNPU, given
<1>6. CalledByOne'
  BY <1>1 DEF IInv, TypeOK, CalledByOne
<1>7. Outcomes'
  BY <1>1, <1>2 DEF IInv, TypeOK, Outcomes
<1> QED
  BY <1>3, <1>4, <1>5, <1>6, <1>7 DEF IInv

LEMMA ReleaseNPUIInv ==
  ASSUME IInv, NEW r \in Requests, ReleaseNPU(r)
  PROVE  IInv'
<1>1. /\ UNCHANGED <<qwenVars, given, oneshot, exc, answer>> /\ pc[r] = "returned"
      /\ npu' = NoOne /\ pc' = [pc EXCEPT ![r] = "leaving"]
  BY DEF ReleaseNPU, At, To
<1>2. WInv'
  BY <1>1, UnchangedWorker DEF IInv
<1>3. TypeOK'
  BY <1>1, <1>2 DEF IInv, TypeOK, WInv, given, Places
<1>4. NPUIsHeld' /\ CalledByOne' /\ Outcomes'
  BY <1>1 DEF IInv, TypeOK, NPUIsHeld, HasNPU, CalledByOne, Outcomes, qwenVars, given
<1> QED
  BY <1>2, <1>3, <1>4 DEF IInv

LEMMA AnswerIInv ==
  ASSUME IInv, NEW r \in Requests, Answer(r)
  PROVE  IInv'
<1>1. /\ UNCHANGED <<qwenVars, given, npu, oneshot, exc>> /\ pc[r] = "leaving"
      /\ pc' = [pc EXCEPT ![r] = "answered"] /\ DOMAIN answer' = DOMAIN answer
  BY DEF Answer, Answers, At, To
<1>2. WInv'
  BY <1>1, UnchangedWorker DEF IInv
<1>3. TypeOK'
  BY <1>1, <1>2 DEF IInv, TypeOK, WInv, given, Places
<1>4. NPUIsHeld' /\ CalledByOne' /\ Outcomes'
  BY <1>1 DEF IInv, TypeOK, NPUIsHeld, HasNPU, CalledByOne, Outcomes, qwenVars, given
<1> QED
  BY <1>2, <1>3, <1>4 DEF IInv

LEMMA NextIInv == IInv /\ [Next]_vars => IInv'
<1> SUFFICES ASSUME IInv, [Next]_vars PROVE IInv'
  OBVIOUS
<1>1. CASE UNCHANGED vars
  <2>1. WInv'
    BY <1>1, UnchangedWorker DEF IInv, vars
  <2>2. UNCHANGED <<qwenVars, ask, backend, npu, oneshot, pc, exc, answer>>
    BY <1>1 DEF vars, given
  <2>3. TypeOK'
    BY <2>1, <2>2 DEF IInv, TypeOK, WInv
  <2>4. NPUIsHeld' /\ CalledByOne' /\ Outcomes'
    BY <2>2 DEF IInv, NPUIsHeld, CalledByOne, Outcomes, qwenVars
  <2> QED
    BY <2>1, <2>3, <2>4 DEF IInv
<1>2. CASE WorkerProcess
  BY <1>2, WorkerProcessIInv
<1>3. ASSUME NEW r \in Requests, Thread(r) PROVE IInv'
  BY <1>3, RefusedIInv, AcquireNPUIInv, CallBackendIInv, InWorkerIInv, WorkerReturnsIInv,
     RunOneshotIInv, ReleaseNPUIInv, AnswerIInv DEF Thread
<1> QED
  BY <1>1, <1>2, <1>3 DEF Next

LEMMA UnifiedInvariant == Spec => []IInv
BY InitIInv, NextIInv, PTL DEF Spec
-----------------------------------------------------------------------------
(* Type correctness of the requests, the worker and its process. *)
THEOREM UnifiedTypeOK == Spec => []TypeOK
BY UnifiedInvariant, PTL DEF IInv

(***************************************************************************)
(* Every answer is that of its own request, with any number of requests    *)
(* and whatever fails, although the protocol of the Qwen3-VL worker has no *)
(* identifiers and a call may give the process up at any line.             *)
(***************************************************************************)
THEOREM UnifiedAnswerIsOwn == Spec => []AnswerIsOwn
<1>1. IInv => AnswerIsOwn
  BY DEF IInv, WInv, GotOwn, Outcomes, AnswerIsOwn
<1> QED
  BY <1>1, UnifiedInvariant, PTL

(***************************************************************************)
(* Qwen3-VL loads and computes only under the lease of the request that    *)
(* asked for it: no call leaves a process behind that still works.         *)
(***************************************************************************)
THEOREM UnifiedComputesUnderLease == Spec => []ComputesUnderLease
<1>1. ASSUME IInv, mode \in {"loading", "computing"}
      PROVE  /\ mode = "loading" => npu \in Calls({"starting"})
             /\ mode = "computing" => npu = asked
  <2>1. WInv /\ QwenTypeOK /\ proc = "alive"
    BY <1>1 DEF IInv, WInv, QwenTypeOK
  <2>2. PICK r \in Requests :
          /\ lock = r
          /\ \/ step[r] \in {"starting", "starting blocked"} /\ Starting
             \/ step[r] \in {"reading", "reading blocked"} /\ Reading(r)
    BY <1>1, <2>1, ProcessOfHolder DEF Quiet
  <2>3. npu = r
    BY <1>1, <2>2, Insides DEF IInv, CalledByOne, NPUIsHeld, HasNPU
  <2>4. step[r] # "starting blocked"
    BY <1>1, <2>1 DEF WInv, BlockedIsStalled
  <2>5. mode = "computing" => asked # NoOne
    BY <2>1 DEF QwenTypeOK
  <2> QED
    BY <1>1, <2>2, <2>3, <2>4, <2>5 DEF Starting, Reading, Calls
<1>2. ASSUME IInv PROVE oneshot \in {npu, NoOne}
  <2>1. ASSUME oneshot \in Requests PROVE npu = oneshot
    BY <1>2, <2>1 DEF IInv, CalledByOne, NPUIsHeld, HasNPU
  <2> QED
    BY <1>2, <2>1 DEF IInv, TypeOK
<1>3. IInv => ComputesUnderLease
  BY <1>1, <1>2 DEF ComputesUnderLease
<1> QED
  BY <1>3, UnifiedInvariant, PTL
-----------------------------------------------------------------------------
(* The lines between the process and the call. *)

LEMMA EndOfConcat ==
  ASSUME NEW s \in Lines, NEW t \in Lines
  PROVE  /\ s \o t \in Lines
         /\ t = <<>> => s \o t = s
         /\ EndsBlock(t) => EndsBlock(s \o t)
<1> DEFINE u == s \o t
<1>1. /\ u \in Lines /\ Len(u) = Len(s) + Len(t) /\ Len(s) \in Nat /\ Len(t) \in Nat
      /\ \A i \in 1 .. Len(u) : u[i] = IF i <= Len(s) THEN s[i] ELSE t[i - Len(s)]
  BY ConcatProperties DEF Lines
<1>2. t = <<>> => u = s
  BY ConcatEmptySeq DEF Lines
<1>3. ASSUME EndsBlock(t) PROVE EndsBlock(u)
  <2>1. Len(t) \in Nat \ {0}
    BY <1>1, <1>3, EmptySeq DEF EndsBlock, Lines
  <2> HIDE DEF u
  <2>2. u[Len(u)] = t[Len(t)] /\ u # <<>>
    BY <1>1, <2>1
  <2> QED
    BY <1>3, <2>2 DEF EndsBlock
<1> QED
  BY <1>1, <1>2, <1>3

(***************************************************************************)
(* As long as the process lives and does not stop within a line, a call    *)
(* that waits for its block has the end of it before it, as the last of    *)
(* the lines in Python's buffer, in the pipe or still to be written: what  *)
(* times out then is select, which does not look at the buffer.            *)
(***************************************************************************)
THEOREM UnifiedBlockIsComing == Spec => []BlockIsComing
<1>1. IInv => BlockIsComing
  <2> SUFFICES ASSUME IInv, NEW r \in Requests, step[r] = "reading",
                      proc = "alive", mode # "stalled"
               PROVE  \/ stdin = <<r>> /\ asked = NoOne
                      \/ stdin = <<>> /\ asked = r
                      \/ /\ stdin = <<>> /\ asked = NoOne
                         /\ \E i \in DOMAIN Owed : /\ Owed[i].kind \in {"END", "ERROR_END"}
                                                   /\ i = Len(Owed)
    BY DEF BlockIsComing, Calls
  <2>1. Reading(r) /\ buffer \in Lines /\ pipe \in Lines /\ unwritten \in Lines
    BY DEF IInv, WInv, QwenTypeOK, WorkerInStep
  <2>2. ASSUME stdin = <<>>, asked = NoOne, BlockAhead
        PROVE  \E i \in DOMAIN Owed : Owed[i].kind \in {"END", "ERROR_END"} /\ i = Len(Owed)
    <3>1. buffer \o pipe \in Lines /\ Owed \in Lines
      BY <2>1, EndOfConcat DEF Owed
    <3>2. EndsBlock(Owed)
      <4>1. CASE EndsBlock(unwritten)
        BY <2>1, <3>1, <4>1, EndOfConcat DEF Owed
      <4>2. CASE unwritten = <<>> /\ EndsBlock(pipe)
        BY <2>1, <3>1, <4>2, EndOfConcat DEF Owed
      <4>3. CASE unwritten = <<>> /\ pipe = <<>> /\ EndsBlock(buffer)
        BY <2>1, <3>1, <4>3, EndOfConcat DEF Owed
      <4> QED
        BY <2>2, <4>1, <4>2, <4>3 DEF BlockAhead
    <3> HIDE DEF Owed
    <3>3. Len(Owed) \in DOMAIN Owed
      BY <3>1, <3>2, EmptySeq DEF EndsBlock, Lines
    <3> QED
      BY <3>2, <3>3 DEF EndsBlock, Ends
  <2> QED
    BY <2>1, <2>2 DEF Reading
<1> QED
  BY <1>1, UnifiedInvariant, PTL
=============================================================================
